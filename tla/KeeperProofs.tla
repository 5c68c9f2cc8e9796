---------------------------- MODULE KeeperProofs ----------------------------
(***************************************************************************)
(* Proofs about Keeper: for any set of advances and pools, any due dates,  *)
(* grace periods and clock skews, what the scan hands to the filter is     *)
(* well formed and what the keeper reports as liquidated is liquidated.    *)
(***************************************************************************)
EXTENDS Keeper, TLAPS

(***************************************************************************)
(* An advance that was issued has a due date: without this the scan could  *)
(* return the zero of an account that does not exist.                      *)
(***************************************************************************)
IssuedHasDueDate ==
  \A k \in Keys : status[k] # "none" => expires_at[k] \in DueDates

(***************************************************************************)
(* A transaction that was executed has liquidated its advance, and no step *)
(* of the chain takes that back; ReportedIsLiquidated alone does not       *)
(* survive Fulfil, which only looks at the promise.                        *)
(***************************************************************************)
ExecutedIsLiquidated ==
  \A k \in Keys :
    result[k] \in {"executed", "fulfilled"} => status[k] = "liquidated"

IInv == KeeperTypeOK /\ IssuedHasDueDate /\ ExecutedIsLiquidated

\* The keeper starts with no advance, no batch and nothing on the wire.
LEMMA InvInit == Init => IInv
BY KeeperAssumption
   DEF Init, IInv, KeeperTypeOK, IssuedHasDueDate, ExecutedIsLiquidated, Results,
       Transactions

\* liquidate takes the principal off books that cover it.
LEMMA LiquidatedType ==
  ASSUME KeeperTypeOK, NEW k \in Keys, Liquidated(k)
  PROVE  /\ total_assets' \in 0 .. MaxAssets
         /\ status' \in [Keys -> {"none", "issued", "settled", "liquidated"}]
         /\ UNCHANGED <<now, expires_at>>
         /\ status[k] = "issued"
<1> USE KeeperAssumption
<1>1. Principal[k] \in Nat /\ total_assets \in 0 .. MaxAssets
  BY DEF KeeperTypeOK
<1>2. total_assets' \in 0 .. MaxAssets
  BY <1>1 DEF Liquidated, BooksShort
<1> QED BY <1>2 DEF KeeperTypeOK, Liquidated, Overdue

\* What the agents, LPs, other crankers and time do keeps the invariant: an
\* advance is liquidated for good, because its account is closed.
LEMMA ChainStep ==
  ASSUME IInv,
         \/ \E k \in Keys, due \in DueDates : Issue(k, due)
         \/ \E assets \in 0 .. MaxAssets : LpFlow(assets)
         \/ \E k \in Keys, fee \in Fees : Settle(k, fee)
         \/ \E k \in Keys : LiquidatedByOther(k)
         \/ Tick
  PROVE  IInv'
<1> USE KeeperAssumption
<1>1. ASSUME NEW k \in Keys, NEW due \in DueDates, Issue(k, due)
      PROVE  IInv'
  <2>1. KeeperTypeOK'
    BY <1>1 DEF IInv, KeeperTypeOK, Issue, keeperVars
  <2>2. IssuedHasDueDate'
    BY <1>1 DEF IInv, KeeperTypeOK, IssuedHasDueDate, Issue
  <2>3. ExecutedIsLiquidated'
    BY <1>1 DEF IInv, KeeperTypeOK, ExecutedIsLiquidated, Issue, keeperVars
  <2> QED BY <2>1, <2>2, <2>3 DEF IInv
<1>2. ASSUME NEW k \in Keys, NEW fee \in Fees, Settle(k, fee)
      PROVE  IInv'
  <2>1. total_assets' \in 0 .. MaxAssets
    BY <1>2 DEF IInv, KeeperTypeOK, Settle
  <2>2. KeeperTypeOK'
    BY <1>2, <2>1 DEF IInv, KeeperTypeOK, Settle, keeperVars
  <2>3. IssuedHasDueDate'
    BY <1>2 DEF IInv, KeeperTypeOK, IssuedHasDueDate, Settle
  <2>4. ExecutedIsLiquidated'
    BY <1>2 DEF IInv, KeeperTypeOK, ExecutedIsLiquidated, Settle, keeperVars
  <2> QED BY <2>2, <2>3, <2>4 DEF IInv
<1>3. ASSUME NEW k \in Keys, LiquidatedByOther(k)
      PROVE  IInv'
  <2>1. /\ total_assets' \in 0 .. MaxAssets
        /\ status' \in [Keys -> {"none", "issued", "settled", "liquidated"}]
        /\ UNCHANGED <<now, expires_at, keeperVars>>
        /\ status[k] = "issued"
    BY <1>3, LiquidatedType DEF IInv, LiquidatedByOther
  <2>2. KeeperTypeOK'
    BY <2>1 DEF IInv, KeeperTypeOK, keeperVars
  <2>3. IssuedHasDueDate'
    BY <1>3, <2>1 DEF IInv, KeeperTypeOK, IssuedHasDueDate, LiquidatedByOther,
                      Liquidated
  <2>4. ExecutedIsLiquidated'
    BY <1>3, <2>1 DEF IInv, KeeperTypeOK, ExecutedIsLiquidated,
                      LiquidatedByOther, Liquidated, keeperVars
  <2> QED BY <2>2, <2>3, <2>4 DEF IInv
<1>4. ASSUME NEW assets \in 0 .. MaxAssets, LpFlow(assets)
      PROVE  IInv'
  BY <1>4 DEF IInv, KeeperTypeOK, IssuedHasDueDate, ExecutedIsLiquidated,
              LpFlow, keeperVars
<1>5. CASE Tick
  BY <1>5 DEF IInv, KeeperTypeOK, IssuedHasDueDate, ExecutedIsLiquidated, Tick,
              keeperVars
<1> QED BY <1>1, <1>2, <1>3, <1>4, <1>5

\* Scanning, filtering and sending: the batch holds keys of scanned accounts,
\* and a new batch forgets the results of the one before.
LEMMA LoopStep ==
  ASSUME IInv, Scan \/ Select \/ Submit \/ SubmitFails \/ EndTick
  PROVE  IInv'
<1> USE KeeperAssumption
<1>1. UNCHANGED chainVars
  BY DEF Scan, Select, Submit, SubmitFails, EndTick
<1>2. IssuedHasDueDate'
  BY <1>1 DEF IInv, IssuedHasDueDate, chainVars
<1>3. KeeperTypeOK' /\ ExecutedIsLiquidated'
  <2>1. CASE Scan
    <3>1. found' \subseteq [key : Keys, expires_at : DueDates]
      BY <2>1 DEF Scan, Listed, IInv, IssuedHasDueDate
    <3> QED BY <1>1, <2>1, <3>1
            DEF Scan, IInv, KeeperTypeOK, ExecutedIsLiquidated, chainVars
  <2>2. CASE Select
    <3>1. \A s \in Skews : Liquidatable(s) \subseteq Keys
      BY DEF Liquidatable, IInv, KeeperTypeOK
    <3> QED BY <1>1, <2>2, <3>1
            DEF Select, IInv, KeeperTypeOK, ExecutedIsLiquidated, chainVars
  <2>3. CASE Submit
    <3>1. wire' \subseteq Transactions
      <4> SUFFICES ASSUME NEW t \in wire' PROVE t \in Transactions
        OBVIOUS
      <4>1. CASE t \in Sent \X {"current"}
        BY <4>1 DEF Sent, IInv, KeeperTypeOK, Transactions
      <4>2. CASE t \in {<<u[1], "earlier">> : u \in wire}
        <5>1. PICK u \in wire : t = <<u[1], "earlier">>
          BY <4>2
        <5>2. u \in Keys \X {"current", "earlier"}
          BY DEF IInv, KeeperTypeOK, Transactions
        <5>3. u[1] \in Keys
          BY <5>2
        <5> QED BY <5>1, <5>3 DEF Transactions
      <4> QED BY <2>3, <4>1, <4>2 DEF Submit
    <3>2. result' \in [Keys -> Results]
      BY <2>3 DEF Submit, Results
    <3>3. ExecutedIsLiquidated'
      BY <2>3 DEF Submit, ExecutedIsLiquidated
    <3> QED BY <1>1, <2>3, <3>1, <3>2, <3>3 DEF Submit, IInv, KeeperTypeOK, chainVars
  <2>4. CASE SubmitFails
    BY <1>1, <2>4 DEF SubmitFails, IInv, KeeperTypeOK, ExecutedIsLiquidated, chainVars
  <2>5. CASE EndTick
    BY <1>1, <2>5
       DEF EndTick, IInv, KeeperTypeOK, ExecutedIsLiquidated, Results, chainVars
  <2> QED BY <2>1, <2>2, <2>3, <2>4, <2>5
<1> QED BY <1>2, <1>3 DEF IInv

\* A promise settles: only one whose transaction was executed is fulfilled.
LEMMA PromiseStep ==
  ASSUME IInv, NEW k \in Keys, Fulfil(k) \/ Reject(k)
  PROVE  IInv'
<1>1. KeeperTypeOK'
  BY DEF IInv, KeeperTypeOK, Fulfil, Reject, Results, chainVars
<1>2. IssuedHasDueDate'
  BY DEF IInv, IssuedHasDueDate, Fulfil, Reject, chainVars
<1>3. ExecutedIsLiquidated'
  BY DEF IInv, KeeperTypeOK, ExecutedIsLiquidated, Fulfil, Reject, Confirmed, chainVars
<1> QED BY <1>1, <1>2, <1>3 DEF IInv

\* A transaction is executed or disappears.  One of an earlier tick settles no
\* promise of this one.
LEMMA WireStep ==
  ASSUME IInv, NEW k \in Keys, NEW t \in {"current", "earlier"},
         Land(k, t) \/ Vanish(k, t)
  PROVE  IInv'
<1>1. CASE Land(k, t)
  <2>1. KeeperTypeOK'
    <3>1. result' \in [Keys -> Results]
      BY <1>1 DEF IInv, KeeperTypeOK, Land, Results
    <3>2. /\ total_assets' \in 0 .. MaxAssets
          /\ status' \in [Keys -> {"none", "issued", "settled", "liquidated"}]
          /\ UNCHANGED <<now, expires_at>>
      BY <1>1, LiquidatedType DEF IInv, Land
    <3> QED BY <1>1, <3>1, <3>2 DEF IInv, KeeperTypeOK, Land
  <2>2. IssuedHasDueDate'
    BY <1>1 DEF IInv, KeeperTypeOK, IssuedHasDueDate, Land, Liquidated,
                Overdue
  <2>3. ExecutedIsLiquidated'
    BY <1>1 DEF IInv, KeeperTypeOK, ExecutedIsLiquidated, Land, Liquidated
  <2> QED BY <2>1, <2>2, <2>3 DEF IInv
<1>2. CASE Vanish(k, t)
  BY <1>2 DEF IInv, KeeperTypeOK, IssuedHasDueDate, ExecutedIsLiquidated, Vanish,
              chainVars
<1> QED BY <1>1, <1>2

\* Every step keeps the inductive invariant.
LEMMA InvStep == IInv /\ [Next]_vars => IInv'
<1> SUFFICES ASSUME IInv, [Next]_vars PROVE IInv'
  OBVIOUS
<1>1. CASE UNCHANGED vars
  BY <1>1 DEF IInv, KeeperTypeOK, IssuedHasDueDate, ExecutedIsLiquidated, vars,
              chainVars, keeperVars
<1>2. CASE Next
  BY <1>2, ChainStep, LoopStep, PromiseStep, WireStep DEF Next
<1> QED BY <1>1, <1>2

\* Every variable of the keeper keeps its type; in particular the scan returns
\* only accounts that carry a due date (tick and decodeAdvance in ts/keeper),
\* and liquidate never takes total_assets below zero.
THEOREM KeeperTypeCorrect == Spec => []KeeperTypeOK
<1>1. IInv => KeeperTypeOK
  BY DEF IInv
<1> QED BY <1>1, InvInit, InvStep, PTL DEF Spec

\* Whatever settles or liquidates an advance between the scan and the
\* confirmation, and however many transactions of earlier ticks are still on
\* the wire, a fulfilled liquidation is one the chain has executed.
THEOREM ReportedIsLiquidatedHolds == Spec => []ReportedIsLiquidated
<1>1. IInv => ReportedIsLiquidated
  BY DEF IInv, ExecutedIsLiquidated, ReportedIsLiquidated
<1> QED BY <1>1, InvInit, InvStep, PTL DEF Spec
=============================================================================
