------------------------------- MODULE Keeper -------------------------------
(***************************************************************************)
(* The liquidation keeper (ts/keeper): an endless loop of ticks, each of   *)
(* which scans the escrow program's Advance accounts, picks the overdue    *)
(* ones, and sends one liquidate transaction for each, all at once.        *)
(*                                                                         *)
(* Of the escrow only what the keeper depends on is here: which advances   *)
(* exist, when they expire, and whether liquidate accepts: after the grace *)
(* period, and when the principal can be subtracted from total_assets.     *)
(* Its other checks cannot fail on an existing advance, and this one only  *)
(* after a transfer into the vault that let LPs withdraw lent-out money    *)
(* (LiquidationBlockedOnlyByDonation of EscrowSafety); Surplus is what was *)
(* transferred.  The books of other pools are left out: whether liquidate  *)
(* accepts there is open.  An advance leaves "issued" by its account being *)
(* closed, and is never issued again (DrawnOnce).                          *)
(*                                                                         *)
(* The scan returns the advances of every pool of the program, while the   *)
(* transactions name the accounts of the keeper's own pool: those for      *)
(* another pool's advances always fail.                                    *)
(***************************************************************************)
EXTENDS Integers, Tally

CONSTANTS
  Keys,                \* Advance accounts
  OwnPool,             \* those of the pool of POOL_ASSET_MINT
  Principal,           \* principal of each advance
  Fees,                \* LP shares of the fee that a settlement may bring
  Surplus,             \* what the vault may hold on top of the pool's idle money
  DueDates,            \* values of expires_at
  Grace,               \* LIQUIDATION_GRACE_SECONDS of the program
  KeeperGrace,         \* LIQUIDATION_GRACE_SECONDS in the keeper's environment
  Skews,               \* differences between the keeper's clock and the chain's
  MaxAssets,           \* bound: largest book value of the pool
  MaxTime              \* bound: last clock value explored

ASSUME KeeperAssumption ==
  /\ OwnPool \subseteq Keys /\ IsFiniteSet(Keys)
  /\ Principal \in [Keys -> Nat] /\ Fees \subseteq Nat
  /\ Surplus \in Nat /\ MaxAssets \in Nat
  /\ DueDates \subseteq Nat
  /\ Grace \in Nat /\ KeeperGrace \in Nat /\ MaxTime \in Nat
  /\ Skews \subseteq Int /\ Skews # {}

VARIABLES
  now,         \* Clock::unix_timestamp
  status,      \* per advance: "none", "issued", "settled" or "liquidated"
  expires_at,
  total_assets, \* of the keeper's pool
  pc,          \* "sleep", "scanned", "selected" or "sending"
  found,       \* the accounts the scan returned, as read
  batch,       \* liquidatable
  wire,        \* signed transactions that may still be executed
  result       \* the promises of Promise.allSettled

chainVars == <<now, status, expires_at, total_assets>>
keeperVars == <<pc, found, batch, wire, result>>
vars == <<chainVars, keeperVars>>

\* A transaction of the running tick, or of an earlier one.
Transactions == Keys \X {"current", "earlier"}

Init ==
  /\ now = 0
  /\ status = [k \in Keys |-> "none"]
  /\ expires_at = [k \in Keys |-> 0]
  /\ total_assets = 0
  /\ pc = "sleep"
  /\ found = {} /\ batch = {} /\ wire = {}
  /\ result = [k \in Keys |-> "none"]

-----------------------------------------------------------------------------
(* The chain *)

\* deployed_amount: the principal of the pool's open advances.
Deployed == Tally(Principal, {k \in OwnPool : status[k] = "issued"})

\* deposit and withdraw.  A withdrawal is capped by the vault, which holds the
\* idle money and the surplus.
LpFlow(assets) ==
  /\ assets # total_assets
  /\ assets < total_assets => assets >= Deployed - Surplus
  /\ total_assets' = assets
  /\ UNCHANGED <<now, status, expires_at, keeperVars>>

Issue(k, due) ==
  /\ status[k] = "none"
  /\ now < due
  /\ k \in OwnPool => Deployed + Principal[k] <= total_assets
  /\ status' = [status EXCEPT ![k] = "issued"]
  /\ expires_at' = [expires_at EXCEPT ![k] = due]
  /\ UNCHANGED <<now, total_assets, keeperVars>>

Settle(k, fee) ==
  /\ status[k] = "issued"
  /\ now < expires_at[k] + Grace
  /\ status' = [status EXCEPT ![k] = "settled"]
  /\ total_assets' = IF k \in OwnPool THEN total_assets + fee ELSE total_assets
  /\ total_assets' <= MaxAssets
  /\ UNCHANGED <<now, expires_at, keeperVars>>

Overdue(k) == status[k] = "issued" /\ now >= expires_at[k] + Grace

\* The principal cannot be subtracted from total_assets: liquidate refuses,
\* until LPs deposit or an agent's fee comes in.
BooksShort(k) == k \in OwnPool /\ total_assets < Principal[k]

\* liquidate, whoever calls it.
Liquidated(k) ==
  /\ Overdue(k)
  /\ ~BooksShort(k)
  /\ status' = [status EXCEPT ![k] = "liquidated"]
  /\ total_assets' = IF k \in OwnPool THEN total_assets - Principal[k]
                                     ELSE total_assets
  /\ UNCHANGED <<now, expires_at>>

\* liquidate is permissionless.
LiquidatedByOther(k) == Liquidated(k) /\ UNCHANGED keeperVars

Tick ==
  /\ now < MaxTime
  /\ now' = now + 1
  /\ UNCHANGED <<status, expires_at, total_assets, keeperVars>>

-----------------------------------------------------------------------------
(* One tick of the keeper *)

\* Mutation: neither the account filter nor the state byte is looked at.
Listed_any(k) == TRUE

\* The discriminator filter finds open Advance accounts; state is Issued.
Listed(k) == status[k] = "issued"

\* getProgramAccounts answers.  When it fails, tick throws, main logs it and
\* sleeps: no step.
Scan ==
  /\ pc = "sleep"
  /\ pc' = "scanned"
  /\ found' = {[key |-> k, expires_at |-> expires_at[k]] :
                 k \in {j \in Keys : Listed(j)}}
  /\ UNCHANGED <<chainVars, batch, wire, result>>

Liquidatable(s) == {a.key : a \in {x \in found : now + s >= x.expires_at + KeeperGrace}}

\* The accounts are filtered by the keeper's own clock and grace period.
Select ==
  /\ pc = "scanned"
  /\ \E s \in Skews :
       /\ batch' = Liquidatable(s)
       /\ pc' = IF Liquidatable(s) = {} THEN "sleep" ELSE "selected"
  /\ found' = {}
  /\ UNCHANGED <<chainVars, wire, result>>

\* Mutation: one advance of another pool makes the whole batch fail.
Sent_all_or_none == IF batch \subseteq OwnPool THEN batch ELSE {}

\* liquidatable.map: every advance of the batch gets its own transaction.
Sent == batch

\* getLatestBlockhash answers and the batch goes out.
Submit ==
  /\ pc = "selected"
  /\ pc' = "sending"
  /\ wire' = {<<t[1], "earlier">> : t \in wire} \cup (Sent \X {"current"})
  /\ result' = [k \in Keys |-> IF k \in batch THEN "pending" ELSE "none"]
  /\ UNCHANGED <<chainVars, found, batch>>

\* getLatestBlockhash fails: tick throws.
SubmitFails ==
  /\ pc = "selected"
  /\ pc' = "sleep"
  /\ batch' = {}
  /\ UNCHANGED <<chainVars, found, wire, result>>

\* Mutation: a transaction that was sent counts as confirmed.
Confirmed_when_sent(k) == <<k, "current">> \in wire

\* sendAndConfirm resolves only for a transaction that was executed.
Confirmed(k) == result[k] = "executed"

\* The cluster executes liquidate for an advance of the keeper's pool ...
Land(k, t) ==
  /\ <<k, t>> \in wire
  /\ k \in OwnPool
  /\ Liquidated(k)
  /\ wire' = wire \ {<<k, t>>}
  /\ result' = IF t = "current" /\ result[k] = "pending"
                 THEN [result EXCEPT ![k] = "executed"] ELSE result
  /\ UNCHANGED <<pc, found, batch>>

\* ... or the program refuses it, it is lost, or its blockhash expires.
Vanish(k, t) ==
  /\ <<k, t>> \in wire
  /\ wire' = wire \ {<<k, t>>}
  /\ UNCHANGED <<chainVars, pc, found, batch, result>>

Fulfil(k) ==
  /\ pc = "sending" /\ k \in batch
  /\ result[k] \in {"pending", "executed"}
  /\ Confirmed(k)
  /\ result' = [result EXCEPT ![k] = "fulfilled"]
  /\ UNCHANGED <<chainVars, pc, found, batch, wire>>

\* The send failed, the program refused, or the confirmation was not seen in
\* time, executed or not.
Reject(k) ==
  /\ pc = "sending" /\ k \in batch
  /\ result[k] \in {"pending", "executed"}
  /\ result' = [result EXCEPT ![k] = "rejected"]
  /\ UNCHANGED <<chainVars, pc, found, batch, wire>>

\* Promise.allSettled
AllSettled == \A k \in batch : result[k] \in {"fulfilled", "rejected"}

\* The results are logged; sleep(SCAN_INTERVAL_SECONDS).
EndTick ==
  /\ pc = "sending"
  /\ AllSettled
  /\ pc' = "sleep"
  /\ batch' = {}
  /\ result' = [k \in Keys |-> "none"]
  /\ UNCHANGED <<chainVars, found, wire>>

Next ==
  \/ \E k \in Keys, due \in DueDates : Issue(k, due)
  \/ \E assets \in 0 .. MaxAssets : LpFlow(assets)
  \/ \E k \in Keys, fee \in Fees : Settle(k, fee)
  \/ \E k \in Keys : LiquidatedByOther(k)
  \/ Tick
  \/ Scan \/ Select \/ Submit \/ SubmitFails \/ EndTick
  \/ \E k \in Keys : Fulfil(k) \/ Reject(k)
  \/ \E k \in Keys, t \in {"current", "earlier"} : Land(k, t) \/ Vanish(k, t)

Spec == Init /\ [][Next]_vars

\* The loop goes on (weak fairness of its steps: no await of it stays pending,
\* requests time out).  An RPC node that is asked for a blockhash again and
\* again answers once, and the cluster executes one of the acceptable
\* transactions it is sent again and again (strong fairness).
Fairness ==
  /\ WF_vars(Tick)
  /\ WF_vars(Scan) /\ WF_vars(Select) /\ WF_vars(EndTick)
  /\ SF_vars(Submit)
  /\ \A k \in Keys : WF_vars(Fulfil(k) \/ Reject(k))
  /\ \A k \in Keys : SF_vars(Land(k, "current"))

FairSpec == Spec /\ Fairness

-----------------------------------------------------------------------------
(* Properties *)

Results == {"none", "pending", "executed", "fulfilled", "rejected"}

\* Every variable has its type: what the scan found are issued advances with
\* a due date of their own, and no write-off takes the books below zero.
KeeperTypeOK ==
  /\ now \in 0 .. MaxTime
  /\ status \in [Keys -> {"none", "issued", "settled", "liquidated"}]
  /\ expires_at \in [Keys -> DueDates \cup {0}]
  /\ total_assets \in 0 .. MaxAssets
  /\ pc \in {"sleep", "scanned", "selected", "sending"}
  /\ found \subseteq [key : Keys, expires_at : DueDates]
  /\ batch \subseteq Keys
  /\ wire \subseteq Transactions
  /\ result \in [Keys -> Results]

\* A liquidation that the keeper reports happened, whatever the agent, other
\* crankers and transactions of earlier ticks did between the scan and the
\* confirmation; an advance the agent settled in that time is never reported.
ReportedIsLiquidated ==
  \A k \in Keys : result[k] = "fulfilled" => status[k] = "liquidated"

\* The last moment at which the keeper can still see k as not yet overdue.
VisibleToKeeper(k) ==
  \A s \in Skews : MaxTime + s >= expires_at[k] + KeeperGrace

\* Every advance of the pool that is overdue is closed in the end, although
\* the batch also holds advances that can never be liquidated with the
\* keeper's accounts, scans are stale, transactions are lost and clocks drift.
\* What can keep one open is a book value below its principal, which withdraw
\* leaves behind only where somebody has sent tokens to the vault.
OverdueGetClosed ==
  \A k \in OwnPool :
    (Overdue(k) /\ VisibleToKeeper(k))
      ~> (status[k] # "issued" \/ (Surplus > 0 /\ BooksShort(k)))
=============================================================================
