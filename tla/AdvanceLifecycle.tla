-------------------------- MODULE AdvanceLifecycle --------------------------
(***************************************************************************)
(* What the escrow promises about lending, without saying how: a loan      *)
(* against a receivable is made at most once, is repaid only before the    *)
(* end of its grace period or written off only after it, and the LPs' book *)
(* value falls by exactly the principal of a written-off loan and by       *)
(* nothing else that happens to a loan.                                    *)
(*                                                                         *)
(* No accounts, tokens, attestations or prices appear here.                *)
(***************************************************************************)
EXTENDS Integers

CONSTANTS Receivables, DueDates, Grace

VARIABLES
  clock,
  book,   \* what the LPs own together
  loan    \* per receivable: status, principal and due date

vars == <<clock, book, loan>>

NoLoan == [status |-> "none", principal |-> 0, due |-> 0]

Init ==
  /\ clock = 0
  /\ book = 0
  /\ loan = [k \in Receivables |-> NoLoan]

Lend(k) ==
  /\ loan[k].status = "none"
  /\ \E n \in 1 .. book, due \in DueDates :
       /\ due > clock
       /\ loan' = [loan EXCEPT ![k] =
                     [status |-> "live", principal |-> n, due |-> due]]
  /\ UNCHANGED <<clock, book>>

Repay(k) ==
  /\ loan[k].status = "live"
  /\ clock < loan[k].due + Grace
  /\ loan' = [loan EXCEPT ![k].status = "repaid", ![k].due = 0]
  /\ book' >= book
  /\ UNCHANGED clock

WriteOff(k) ==
  /\ loan[k].status = "live"
  /\ clock >= loan[k].due + Grace
  /\ loan' = [loan EXCEPT ![k].status = "defaulted"]
  /\ book' = book - loan[k].principal
  /\ UNCHANGED clock

\* LPs bring money in or take it out.
LpFlow ==
  /\ book' \in Nat
  /\ UNCHANGED <<clock, loan>>

Pass ==
  /\ clock' = clock + 1
  /\ UNCHANGED <<book, loan>>

Next ==
  \/ \E k \in Receivables : Lend(k) \/ Repay(k) \/ WriteOff(k)
  \/ LpFlow
  \/ Pass

Spec == Init /\ [][Next]_vars
=============================================================================
