-------------------------- MODULE EscrowRefinement --------------------------
(***************************************************************************)
(* CredmeshEscrow implements AdvanceLifecycle: the state of a loan is read *)
(* off the accounts that exist for its receivable.                         *)
(***************************************************************************)
EXTENDS CredmeshEscrow

\* An Advance PDA is a live loan, a tombstone a written-off one, and a
\* ConsumedPayment with neither a repaid one.
LoanOf(k) ==
  IF advance[k].bump # 0
    THEN [status |-> "live", principal |-> advance[k].principal,
          due |-> advance[k].expires_at]
  ELSE IF tombstone[k].bump # 0
    THEN [status |-> "defaulted", principal |-> tombstone[k].principal,
          due |-> tombstone[k].expires_at]
  ELSE IF consumed[k].bump # 0
    THEN [status |-> "repaid", principal |-> drawn[k], due |-> 0]
  ELSE [status |-> "none", principal |-> 0, due |-> 0]

Lifecycle ==
  INSTANCE AdvanceLifecycle
    WITH Receivables <- Keys, DueDates <- {att.expires_at : att \in Attestations},
         Grace <- LIQUIDATION_GRACE_SECONDS, clock <- now, book <- total_assets,
         loan <- [k \in Keys |-> LoanOf(k)]

\* Every behaviour of the escrow is a behaviour of the abstract loan book:
\* no receivable is lent against twice, settlement and liquidation exclude
\* each other, and LPs lose exactly the defaulted principal.
ImplementsLifecycle == Lifecycle!Spec
=============================================================================
