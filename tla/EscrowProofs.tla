---------------------------- MODULE EscrowProofs ----------------------------
(***************************************************************************)
(* Proofs about CredmeshEscrow, for every value of its constants: any      *)
(* number of agents, receivables and holders, any attestations, the real   *)
(* 64-bit limits and the real offsets.                                     *)
(***************************************************************************)
EXTENDS CredmeshEscrow, ArithmeticTheorems, TLAPS

(***************************************************************************)
(* Type correctness.  The u64 guards of each action are what keep the      *)
(* balances in range; the records written are of the declared shapes.      *)
(***************************************************************************)
LEMMA InitType == Init => TypeOK
<1> SUFFICES ASSUME Init PROVE TypeOK
  OBVIOUS
<1> USE PricingAssumption
<1>1. 0 \in U64
  BY DEF U64
<1>2. NoCurve \in FeeCurve
  BY DEF NoCurve, FeeCurve
<1>3. params \in PoolParams
  BY <1>1, <1>2 DEF Init, NoParams, PoolParams
<1>4. advance \in [Keys -> AdvanceType]
  BY <1>1 DEF Init, NoAdvance, AdvanceType
<1>5. consumed \in [Keys -> ConsumedType]
  BY DEF Init, NoConsumed, ConsumedType
<1>6. ledger \in [Agents -> LedgerType]
  BY <1>1 DEF Init, NoLedger, LedgerType
<1>7. tombstone \in [Keys -> TombstoneType]
  BY <1>1 DEF Init, NoTombstone, TombstoneType
<1> QED BY <1>1, <1>3, <1>4, <1>5, <1>6, <1>7 DEF Init, TypeOK

\* init_pool keeps the types.
LEMMA InitPoolType ==
  ASSUME TypeOK, NEW p \in InitParams, InitPool(p)
  PROVE  TypeOK'
<1>1. p \in InitPoolParams
  BY DomainAssumption
<1>2. p.params \in PoolParams /\ p.timelock_seconds \in Nat
      /\ p.governance \in Vaults /\ p.chain_id \in Nat
  BY <1>1 DEF InitPoolParams, InitPool
<1>3. 0 \in U64
  BY PricingAssumption DEF U64
<1> QED BY <1>2, <1>3 DEF TypeOK, InitPool, tokenVars, pdaVars, histVars

\* deposit keeps the types.
LEMMA DepositType ==
  ASSUME TypeOK, NEW lp \in LPs, NEW n \in Amounts, Deposit(lp, n)
  PROVE  TypeOK'
<1> DEFINE minted == preview_deposit(n, total_assets, total_shares)
<1>1. /\ shares[lp] + minted \in U64
      /\ total_shares + minted \in U64
      /\ vault + n \in U64
      /\ total_assets + n \in U64
  BY DEF Deposit, FitsU64
<1>2. /\ shares' = [shares EXCEPT ![lp] = @ + minted]
      /\ total_shares' = total_shares + minted
  BY DEF Deposit
<1> HIDE DEF minted
<1>3. shares' \in [LPs -> U64]
  BY <1>1, <1>2 DEF TypeOK
<1> QED BY <1>1, <1>2, <1>3 DEF TypeOK, Deposit, pdaVars, histVars

\* withdraw keeps the types.
LEMMA WithdrawType ==
  ASSUME TypeOK, NEW lp \in LPs, NEW n \in ShareAmounts, Withdraw(lp, n)
  PROVE  TypeOK'
<1> DEFINE assets == preview_redeem(n, total_assets, total_shares)
<1>1. /\ assets \in U64 /\ n \in U64
      /\ vault >= assets /\ total_assets >= assets
      /\ shares[lp] >= n /\ total_shares >= n
  BY DomainAssumption DEF Withdraw, FitsU64
<1>2. /\ shares' = [shares EXCEPT ![lp] = @ - n]
      /\ vault' = vault - assets
      /\ total_assets' = total_assets - assets
      /\ total_shares' = total_shares - n
  BY DEF Withdraw, SharesAfterBurn
<1> HIDE DEF assets
<1>3. shares' \in [LPs -> U64]
  BY <1>1, <1>2, PricingAssumption DEF TypeOK, U64
<1>4. vault' \in U64 /\ total_assets' \in U64 /\ total_shares' \in U64
  BY <1>1, <1>2, PricingAssumption DEF TypeOK, U64
<1> QED BY <1>3, <1>4 DEF TypeOK, Withdraw, pdaVars, histVars

\* The rolled ledger of an agent is a ledger.
LEMMA RolledLedgerType ==
  ASSUME TypeOK, NEW a \in Agents
  PROVE  /\ RolledLedger(a) \in LedgerType
         /\ RolledLedger(a).bump \in {ledger[a].bump, 1}
         /\ RolledLedger(a).live_principal = ledger[a].live_principal
<1>1. ledger[a] \in LedgerType
  BY DEF TypeOK
<1>2. 0 \in U64
  BY PricingAssumption DEF U64
<1> QED BY <1>1, <1>2 DEF RolledLedger, LedgerType, TypeOK

\* request_advance keeps the types.
LEMMA RequestAdvanceType ==
  ASSUME TypeOK, NEW k \in Keys, NEW n \in Amounts, NEW nonce \in Nonces,
         NEW att \in Attestations, RequestAdvance(k, n, nonce, att)
  PROVE  TypeOK'
<1> DEFINE a == k[1]
           led == RolledLedger(a)
           fee == QuotedFee(n, att.expires_at)
           penalty == compute_late_penalty_per_day(n, params.fee_curve)
<1>1. a \in Agents
  BY DEF Keys
<1>2. n \in U64
  BY DomainAssumption
<1>3. att.expires_at \in Int /\ att.signer \in Signers
  BY DomainAssumption DEF Attestation
<1>4. /\ fee \in U64 /\ penalty \in U64
      /\ led.issued_in_window + n \in U64
      /\ led.live_principal + n \in U64
      /\ vault >= n
      /\ deployed_amount + n \in U64
  BY DEF RequestAdvance, FitsU64, WithinWindowCap, Underwritten, ExposureFits
<1>5. /\ ledger' = [ledger EXCEPT ![a] =
                      [led EXCEPT !.issued_in_window = @ + n,
                                  !.live_principal = @ + n]]
      /\ vault' = vault - n
      /\ advance' = [advance EXCEPT ![k] =
                       [bump |-> 1, principal |-> n, fee_owed |-> fee,
                        late_penalty_per_day |-> penalty, issued_at |-> now,
                        expires_at |-> att.expires_at,
                        attestor |-> att.signer]]
      /\ consumed' = [consumed EXCEPT ![k] =
                        [bump |-> 1, nonce |-> nonce, created_at |-> now]]
      /\ deployed_amount' = deployed_amount + n
      /\ drawn' = [drawn EXCEPT ![k] = @ + n]
  BY DEF RequestAdvance
<1>6. led \in LedgerType
  BY <1>1, RolledLedgerType
<1> HIDE DEF a, led, fee, penalty
<1>7. ledger' \in [Agents -> LedgerType]
  BY <1>1, <1>4, <1>5, <1>6 DEF TypeOK, LedgerType
<1>8. advance' \in [Keys -> AdvanceType]
  BY <1>2, <1>3, <1>4, <1>5 DEF TypeOK, AdvanceType
<1>9. consumed' \in [Keys -> ConsumedType]
  BY <1>5 DEF TypeOK, ConsumedType
<1>10. drawn' \in [Keys -> Nat]
  BY <1>2, <1>5 DEF TypeOK, U64
<1>11. vault' \in U64
  BY <1>2, <1>4, <1>5, PricingAssumption DEF TypeOK, U64
<1> QED BY <1>4, <1>5, <1>7, <1>8, <1>9, <1>10, <1>11 DEF TypeOK, RequestAdvance

\* Releasing principal that the ledger holds leaves a ledger.
LEMMA ReleasedLedgerType ==
  ASSUME NEW led \in LedgerType, NEW n \in U64, led.live_principal >= n
  PROVE  ReleasedLedger(led, n) \in LedgerType
BY PricingAssumption DEF ReleasedLedger, LedgerType, U64

\* claim_and_settle keeps the types.
LEMMA ClaimAndSettleType ==
  ASSUME TypeOK, NEW k \in Keys, NEW n \in Amounts, NEW memo \in Nonces,
         ClaimAndSettle(k, n, memo)
  PROVE  TypeOK'
<1> DEFINE a == k[1]
           adv == advance[k]
           fee == total_fee(adv, now)
           cut == protocol_cut(fee)
<1>1. a \in Agents
  BY DEF Keys
<1>2. adv.principal \in U64
  BY DEF TypeOK, AdvanceType
<1>3. /\ ledger[a].live_principal >= adv.principal
      /\ deployed_amount >= adv.principal
      /\ treasury' = treasury + cut /\ treasury + cut \in U64
      /\ vault' \in U64
      /\ total_assets' \in U64
      /\ accrued_protocol_fees' \in U64
      /\ ledger' = [ledger EXCEPT ![a] = ReleasedLedger(@, adv.principal)]
      /\ deployed_amount' = deployed_amount - adv.principal
      /\ advance' = [advance EXCEPT ![k] = NoAdvance]
  BY DEF ClaimAndSettle, FitsU64, Undeployed
<1>4. ledger' \in [Agents -> LedgerType]
  BY <1>1, <1>2, <1>3, ReleasedLedgerType DEF TypeOK
<1>5. deployed_amount' \in U64
  BY <1>2, <1>3, PricingAssumption DEF TypeOK, U64
<1>6. NoAdvance \in AdvanceType
  BY PricingAssumption DEF NoAdvance, AdvanceType, U64
<1>7. advance' \in [Keys -> AdvanceType]
  BY <1>3, <1>6 DEF TypeOK
<1> QED BY <1>3, <1>4, <1>5, <1>7 DEF TypeOK, ClaimAndSettle, histVars

\* liquidate keeps the types.
LEMMA LiquidateType ==
  ASSUME TypeOK, NEW k \in Keys, Liquidate(k)
  PROVE  TypeOK'
<1> DEFINE a == k[1]
           adv == advance[k]
<1>1. a \in Agents
  BY DEF Keys
<1>2. adv.principal \in U64 /\ adv.expires_at \in Int
  BY DEF TypeOK, AdvanceType
<1>3. /\ ledger[a].live_principal >= adv.principal
      /\ deployed_amount >= adv.principal
      /\ total_assets >= adv.principal
      /\ ledger' = [ledger EXCEPT ![a] = ReleasedLedger(@, adv.principal)]
      /\ deployed_amount' = deployed_amount - adv.principal
      /\ total_assets' = total_assets - adv.principal
      /\ tombstone' = [tombstone EXCEPT ![k] = TombstoneOf(adv)]
      /\ advance' = [advance EXCEPT ![k] = NoAdvance]
  BY DEF Liquidate, LiquidateAccounts, Undeployed, WrittenOff
<1>4. ledger' \in [Agents -> LedgerType]
  BY <1>1, <1>2, <1>3, ReleasedLedgerType DEF TypeOK
<1>5. deployed_amount' \in U64 /\ total_assets' \in U64
  BY <1>2, <1>3, PricingAssumption DEF TypeOK, U64
<1>6. NoAdvance \in AdvanceType
  BY PricingAssumption DEF NoAdvance, AdvanceType, U64
<1>7. advance' \in [Keys -> AdvanceType]
  BY <1>3, <1>6 DEF TypeOK
<1>8. TombstoneOf(adv) \in TombstoneType
  BY <1>2 DEF TombstoneOf, TombstoneType, TypeOK
<1>9. tombstone' \in [Keys -> TombstoneType]
  BY <1>3, <1>8 DEF TypeOK
<1> QED BY <1>4, <1>5, <1>7, <1>9 DEF TypeOK, Liquidate, tokenVars, histVars

\* propose_params keeps the types.
LEMMA ProposeParamsType ==
  ASSUME TypeOK, NEW v \in Vaults, NEW p \in Proposals, ProposeParams(v, p)
  PROVE  TypeOK'
<1>1. p \in PendingParams
  BY DomainAssumption
<1>2. now + pool.timelock_seconds \in Int
  BY DEF TypeOK
<1>3. Staged(p) \in PendingParams
  BY <1>1, <1>2 DEF Staged, PendingParams
<1> QED BY <1>3 DEF TypeOK, ProposeParams, tokenVars, pdaVars

\* execute_params keeps the types.
LEMMA ExecuteParamsType ==
  ASSUME TypeOK, ExecuteParams
  PROVE  TypeOK'
<1>1. PICK p \in pending_params : params' = InForce(p)
  BY DEF ExecuteParams
<1>2. p \in PendingParams
  BY DEF TypeOK
<1>3. InForce(p) \in PoolParams
  BY <1>2 DEF InForce, PendingParams, PoolParams
<1> QED BY <1>1, <1>3 DEF TypeOK, ExecuteParams, tokenVars, pdaVars, histVars

\* skim_protocol_fees keeps the types.
LEMMA SkimType ==
  ASSUME TypeOK, NEW v \in Vaults, NEW n \in Amounts, SkimProtocolFees(v, n)
  PROVE  TypeOK'
<1>1. n \in U64
  BY DomainAssumption
<1>2. /\ n <= accrued_protocol_fees /\ vault >= n /\ treasury + n \in U64
      /\ vault' = vault - n /\ treasury' = treasury + n
      /\ accrued_protocol_fees' = accrued_protocol_fees - n
      /\ skimmed' = skimmed + n
  BY DEF SkimProtocolFees, AccruedAfterSkim, FitsU64
<1>3. vault' \in U64 /\ accrued_protocol_fees' \in U64 /\ skimmed' \in Nat
  BY <1>1, <1>2, PricingAssumption DEF TypeOK, U64
<1> QED BY <1>2, <1>3 DEF TypeOK, SkimProtocolFees, pdaVars

\* The steps of the surroundings keep the types.
LEMMA SurroundingsType ==
  ASSUME TypeOK,
         \/ \E n \in Amounts : DonateToVault(n)
         \/ \E lp \in LPs, n \in ShareAmounts : BurnShares(lp, n)
         \/ \E s \in Signers : RegistryChange(s)
         \/ Tick
  PROVE  TypeOK'
<1>1. CASE \E n \in Amounts : DonateToVault(n)
  <2>1. PICK n \in Amounts : DonateToVault(n)
    BY <1>1
  <2>2. vault' \in U64 /\ donated' \in Nat
    BY <2>1, DomainAssumption DEF DonateToVault, FitsU64, TypeOK, U64
  <2> QED BY <2>1, <2>2 DEF TypeOK, DonateToVault, poolVars, pdaVars
<1>2. CASE \E lp \in LPs, n \in ShareAmounts : BurnShares(lp, n)
  <2>1. PICK lp \in LPs, n \in ShareAmounts : BurnShares(lp, n)
    BY <1>2
  <2>2. n \in U64
    BY DomainAssumption
  <2>3. shares' \in [LPs -> U64] /\ burned' \in Nat
    BY <2>1, <2>2, PricingAssumption DEF BurnShares, TypeOK, U64
  <2> QED BY <2>1, <2>3 DEF TypeOK, BurnShares, poolVars, pdaVars
<1>3. CASE \E s \in Signers : RegistryChange(s)
  BY <1>3 DEF TypeOK, RegistryChange, poolVars, tokenVars, pdaVars, histVars
<1>4. CASE Tick
  BY <1>4 DEF TypeOK, Tick, poolVars, tokenVars, pdaVars, histVars
<1> QED BY <1>1, <1>2, <1>3, <1>4

\* Every instruction and every step of the environment keeps the types.
LEMMA NextType == TypeOK /\ [Next]_vars => TypeOK'
<1> SUFFICES ASSUME TypeOK, [Next]_vars PROVE TypeOK'
  OBVIOUS
<1>1. CASE Next
  BY <1>1, InitPoolType, DepositType, WithdrawType, RequestAdvanceType,
     ClaimAndSettleType, LiquidateType, ProposeParamsType, ExecuteParamsType,
     SkimType, SurroundingsType DEF Next, OpenStep
<1>2. CASE UNCHANGED vars
  BY <1>2 DEF TypeOK, vars, poolVars, tokenVars, pdaVars, histVars
<1> QED BY <1>1, <1>2

(***************************************************************************)
(* Every u64 of every account stays a u64 in every behaviour.              *)
(***************************************************************************)
THEOREM TypeCorrect == Spec => []TypeOK
BY InitType, NextType, PTL DEF Spec
=============================================================================
