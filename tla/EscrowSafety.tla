---------------------------- MODULE EscrowSafety ----------------------------
(***************************************************************************)
(* The safety invariants of CredmeshEscrow, for every value of the         *)
(* constants.  IInv is the conjunction that is inductive; each invariant   *)
(* has its own preservation lemma, with one step per action that writes a  *)
(* variable the invariant mentions.                                        *)
(***************************************************************************)
EXTENDS EscrowProofs

(***************************************************************************)
(* What each lending action does to the accounts of one key, spelled out   *)
(* once and used by every lemma below.                                     *)
(***************************************************************************)
LEMMA RequestAdvanceEffect ==
  ASSUME TypeOK, NEW k \in Keys, NEW n \in Amounts, NEW nonce \in Nonces,
         NEW att \in Attestations, RequestAdvance(k, n, nonce, att)
  PROVE  /\ k[1] \in Agents
         /\ n \in Nat /\ n > 0 /\ n \in U64
         /\ pool.bump # 0
         /\ advance[k].bump = 0 /\ consumed[k].bump = 0
         /\ advance' = [advance EXCEPT ![k] = advance'[k]]
         /\ advance'[k].bump = 1 /\ advance'[k].principal = n
         /\ advance'[k].expires_at = att.expires_at
         /\ consumed' = [consumed EXCEPT ![k] = consumed'[k]]
         /\ consumed'[k].bump = 1 /\ consumed'[k].created_at = now
         /\ ledger' = [ledger EXCEPT ![k[1]] = ledger'[k[1]]]
         /\ ledger'[k[1]].bump # 0
         /\ ledger'[k[1]].live_principal = ledger[k[1]].live_principal + n
         /\ drawn' = [drawn EXCEPT ![k] = @ + n]
         /\ vault' = vault - n
         /\ deployed_amount' = deployed_amount + n
         /\ UNCHANGED <<pool, total_assets, total_shares, accrued_protocol_fees,
                        params, pending_params, treasury, shares, tombstone,
                        allowed_signer, now, donated, skimmed, burned,
                        pending_since>>
<1> DEFINE a == k[1]
           led == RolledLedger(a)
<1>1. a \in Agents
  BY DEF Keys
<1>2. n \in U64 /\ n \in Nat /\ n > 0
  BY DomainAssumption, EscrowAssumption DEF RequestAdvance, U64
<1>3. /\ led \in LedgerType
      /\ led.live_principal = ledger[a].live_principal
  BY <1>1, RolledLedgerType
<1>4. led.bump # 0
  BY <1>1 DEF RolledLedger, TypeOK, LedgerType
<1>5. ledger' = [ledger EXCEPT ![a] =
                   [led EXCEPT !.issued_in_window = @ + n,
                               !.live_principal = @ + n]]
  BY DEF RequestAdvance
<1> HIDE DEF led
<1>6. /\ ledger'[a] = [led EXCEPT !.issued_in_window = @ + n,
                                  !.live_principal = @ + n]
      /\ ledger' = [ledger EXCEPT ![a] = ledger'[a]]
  BY <1>1, <1>5 DEF TypeOK
<1>7. ledger'[a].bump # 0
      /\ ledger'[a].live_principal = ledger[a].live_principal + n
  BY <1>3, <1>4, <1>6 DEF LedgerType
<1>8. /\ advance' = [advance EXCEPT ![k] = advance'[k]]
      /\ advance'[k].bump = 1 /\ advance'[k].principal = n
      /\ advance'[k].expires_at = att.expires_at
  BY DEF RequestAdvance, TypeOK
<1>9. /\ consumed' = [consumed EXCEPT ![k] = consumed'[k]]
      /\ consumed'[k].bump = 1 /\ consumed'[k].created_at = now
  BY DEF RequestAdvance, TypeOK
<1>10. pool.bump # 0 /\ advance[k].bump = 0 /\ consumed[k].bump = 0
  BY DEF RequestAdvance, Unused
<1>11. /\ drawn' = [drawn EXCEPT ![k] = @ + n]
       /\ vault' = vault - n
       /\ deployed_amount' = deployed_amount + n
       /\ UNCHANGED <<pool, total_assets, total_shares, accrued_protocol_fees,
                      params, pending_params, treasury, shares, tombstone,
                      allowed_signer, now, donated, skimmed, burned,
                      pending_since>>
  BY DEF RequestAdvance
<1> QED BY <1>1, <1>2, <1>6, <1>7, <1>8, <1>9, <1>10, <1>11

\* claim_and_settle closes one advance and moves the books accordingly.
LEMMA ClaimAndSettleEffect ==
  ASSUME TypeOK, NEW k \in Keys, NEW n \in Amounts, NEW memo \in Nonces,
         ClaimAndSettle(k, n, memo)
  PROVE  \E cut \in Nat, income \in Nat :
           /\ k[1] \in Agents
           /\ pool.bump # 0 /\ advance[k].bump # 0 /\ consumed[k].bump # 0
           /\ advance[k].principal \in U64
           /\ SettlementOpen(advance[k])
           /\ advance' = [advance EXCEPT ![k] = NoAdvance]
           /\ ledger' = [ledger EXCEPT ![k[1]] =
                           ReleasedLedger(@, advance[k].principal)]
           /\ treasury' = treasury + cut
           /\ accrued_protocol_fees' = accrued_protocol_fees + cut
           /\ vault' = vault + advance[k].principal + income
           /\ total_assets' = total_assets + income
           /\ deployed_amount' = deployed_amount - advance[k].principal
           /\ UNCHANGED <<pool, total_shares, params, pending_params, shares,
                          consumed, tombstone, allowed_signer, now, histVars>>
<1> DEFINE adv == advance[k]
           fee == total_fee(adv, now)
<1>1. k[1] \in Agents
  BY DEF Keys
<1>2. /\ adv.principal \in U64 /\ adv.fee_owed \in Nat
      /\ adv.late_penalty_per_day \in Nat /\ adv.expires_at \in Int
      /\ now \in Nat
  BY DEF TypeOK, AdvanceType, U64
<1>3. fee \in Nat
  BY <1>2, TotalFeeType
<1>4. protocol_cut(fee) \in Nat /\ lp_fee(fee) \in Nat
  BY <1>3, WaterfallSplit
<1>5. /\ pool.bump # 0 /\ advance[k].bump # 0 /\ consumed[k].bump # 0
      /\ SettlementOpen(advance[k])
      /\ advance' = [advance EXCEPT ![k] = NoAdvance]
      /\ ledger' = [ledger EXCEPT ![k[1]] =
                      ReleasedLedger(@, advance[k].principal)]
      /\ treasury' = treasury + protocol_cut(fee)
      /\ accrued_protocol_fees' = accrued_protocol_fees + protocol_cut(fee)
      /\ vault' = vault + advance[k].principal + lp_fee(fee)
      /\ total_assets' = total_assets + lp_fee(fee)
      /\ deployed_amount' = deployed_amount - advance[k].principal
      /\ UNCHANGED <<pool, total_shares, params, pending_params, shares,
                     consumed, tombstone, allowed_signer, now, histVars>>
  BY DEF ClaimAndSettle, Undeployed
<1> HIDE DEF fee
<1> QED BY <1>1, <1>2, <1>4, <1>5

\* liquidate closes one advance and writes it off.
LEMMA LiquidateEffect ==
  ASSUME TypeOK, NEW k \in Keys, Liquidate(k)
  PROVE  /\ k[1] \in Agents
         /\ pool.bump # 0 /\ advance[k].bump # 0 /\ consumed[k].bump # 0
         /\ advance[k].principal \in U64
         /\ LiquidationOpen(advance[k])
         /\ tombstone[k].bump = 0
         /\ advance' = [advance EXCEPT ![k] = NoAdvance]
         /\ tombstone' = [tombstone EXCEPT ![k] = TombstoneOf(advance[k])]
         /\ ledger' = [ledger EXCEPT ![k[1]] =
                         ReleasedLedger(@, advance[k].principal)]
         /\ total_assets' = total_assets - advance[k].principal
         /\ deployed_amount' = deployed_amount - advance[k].principal
         /\ UNCHANGED <<pool, total_shares, accrued_protocol_fees, params,
                        pending_params, tokenVars, consumed, allowed_signer, now,
                        histVars>>
<1>1. k[1] \in Agents
  BY DEF Keys
<1>2. advance[k].principal \in U64
  BY DEF TypeOK, AdvanceType
<1> QED BY <1>1, <1>2 DEF Liquidate, LiquidateAccounts, Undeployed, WrittenOff

-----------------------------------------------------------------------------
(* Accounts. *)

\* Steps that leave the accounts of every key and the existence of the pool
\* alone.
LEMMA AccountsFrame ==
  ASSUME AccountsConsistent, DrawnOnce, pool' = pool, UNCHANGED pdaVars,
         drawn' = drawn,
         pool.bump = 0 =>
           UNCHANGED <<total_assets, total_shares, deployed_amount,
                       accrued_protocol_fees>>
  PROVE  AccountsConsistent' /\ DrawnOnce'
BY DEF AccountsConsistent, DrawnOnce, pdaVars

\* Every instruction keeps the accounts of a receivable consistent.
LEMMA AccountsStep ==
  ASSUME TypeOK, AccountsConsistent, DrawnOnce, [Next]_vars
  PROVE  AccountsConsistent' /\ DrawnOnce'
<1>1. ASSUME NEW p \in InitParams, InitPool(p)
      PROVE  AccountsConsistent' /\ DrawnOnce'
  BY <1>1 DEF InitPool, AccountsConsistent, DrawnOnce, pdaVars, histVars
<1>2. ASSUME NEW k \in Keys, NEW n \in Amounts, NEW nonce \in Nonces,
             NEW att \in Attestations, RequestAdvance(k, n, nonce, att)
      PROVE  AccountsConsistent' /\ DrawnOnce'
  <2>1. /\ k[1] \in Agents /\ n \in Nat /\ n > 0 /\ pool.bump # 0
        /\ advance[k].bump = 0 /\ consumed[k].bump = 0
        /\ advance' = [advance EXCEPT ![k] = advance'[k]]
        /\ advance'[k].bump = 1 /\ advance'[k].principal = n
        /\ consumed' = [consumed EXCEPT ![k] = consumed'[k]]
        /\ consumed'[k].bump = 1
        /\ ledger' = [ledger EXCEPT ![k[1]] = ledger'[k[1]]]
        /\ ledger'[k[1]].bump # 0
        /\ drawn' = [drawn EXCEPT ![k] = @ + n]
        /\ pool' = pool /\ tombstone' = tombstone
    BY <1>2, RequestAdvanceEffect
  <2>2. /\ advance \in [Keys -> AdvanceType]
        /\ consumed \in [Keys -> ConsumedType]
        /\ ledger \in [Agents -> LedgerType]
        /\ drawn \in [Keys -> Nat]
    BY DEF TypeOK
  <2>3. ASSUME NEW j \in Keys
        PROVE  /\ advance'[j].bump = 0 => advance'[j].principal = 0
               /\ consumed'[j].bump = 0 =>
                    advance'[j].bump = 0 /\ tombstone'[j].bump = 0
               /\ advance'[j].bump # 0 => /\ pool'.bump # 0
                                          /\ ledger'[j[1]].bump # 0
                                          /\ tombstone'[j].bump = 0
               /\ drawn'[j] > 0 <=> consumed'[j].bump # 0
               /\ advance'[j].bump # 0 => drawn'[j] = advance'[j].principal
    <3>1. CASE j = k
      <4>1. drawn[k] = 0 /\ tombstone[k].bump = 0
        BY <2>1, <2>2 DEF AccountsConsistent, DrawnOnce
      <4>2. drawn'[k] = n
        BY <2>1, <2>2, <4>1
      <4> QED BY <2>1, <3>1, <4>1, <4>2
    <3>2. CASE j # k
      <4>1. /\ advance'[j] = advance[j] /\ consumed'[j] = consumed[j]
            /\ drawn'[j] = drawn[j]
        BY <2>1, <2>2, <3>2
      <4>2. j[1] \in Agents
        BY DEF Keys
      <4>3. ledger[j[1]].bump # 0 => ledger'[j[1]].bump # 0
        BY <2>1, <2>2, <4>2
      <4> QED BY <2>1, <4>1, <4>3 DEF AccountsConsistent, DrawnOnce
    <3> QED BY <3>1, <3>2
  <2> QED BY <2>1, <2>3 DEF AccountsConsistent, DrawnOnce
<1>3. ASSUME NEW k \in Keys, NEW n \in Amounts, NEW memo \in Nonces,
             ClaimAndSettle(k, n, memo)
      PROVE  AccountsConsistent' /\ DrawnOnce'
  <2>1. /\ k[1] \in Agents /\ pool.bump # 0 /\ consumed[k].bump # 0
        /\ advance' = [advance EXCEPT ![k] = NoAdvance]
        /\ ledger' = [ledger EXCEPT ![k[1]] =
                        ReleasedLedger(@, advance[k].principal)]
        /\ UNCHANGED <<pool, consumed, tombstone, drawn>>
    BY <1>3, ClaimAndSettleEffect DEF histVars
  <2>2. \A b \in Agents : ledger'[b].bump = ledger[b].bump
    BY <2>1 DEF TypeOK, LedgerType, ReleasedLedger
  <2>3. \A j \in Keys : j[1] \in Agents
    BY DEF Keys
  <2>4. \A j \in Keys : advance'[j] = IF j = k THEN NoAdvance ELSE advance[j]
    BY <2>1 DEF TypeOK
  <2> QED BY <2>1, <2>2, <2>3, <2>4 DEF AccountsConsistent, DrawnOnce, NoAdvance
<1>4. ASSUME NEW k \in Keys, Liquidate(k)
      PROVE  AccountsConsistent' /\ DrawnOnce'
  <2>1. /\ k[1] \in Agents /\ pool.bump # 0 /\ consumed[k].bump # 0
        /\ advance' = [advance EXCEPT ![k] = NoAdvance]
        /\ tombstone' = [tombstone EXCEPT ![k] = TombstoneOf(advance[k])]
        /\ ledger' = [ledger EXCEPT ![k[1]] =
                        ReleasedLedger(@, advance[k].principal)]
        /\ UNCHANGED <<pool, consumed, drawn>>
    BY <1>4, LiquidateEffect DEF histVars
  <2>2. \A b \in Agents : ledger'[b].bump = ledger[b].bump
    BY <2>1 DEF TypeOK, LedgerType, ReleasedLedger
  <2>3. \A j \in Keys : j[1] \in Agents
    BY DEF Keys
  <2>4. \A j \in Keys : /\ advance'[j] = IF j = k THEN NoAdvance ELSE advance[j]
                        /\ j # k => tombstone'[j] = tombstone[j]
    BY <2>1 DEF TypeOK
  <2> QED BY <2>1, <2>2, <2>3, <2>4 DEF AccountsConsistent, DrawnOnce, NoAdvance
<1>5. ASSUME \/ \E lp \in LPs, n \in Amounts : Deposit(lp, n)
             \/ \E lp \in LPs, n \in ShareAmounts : Withdraw(lp, n)
             \/ \E v \in Vaults, p \in Proposals : ProposeParams(v, p)
             \/ ExecuteParams
             \/ \E v \in Vaults, n \in Amounts : SkimProtocolFees(v, n)
             \/ \E n \in Amounts : DonateToVault(n)
             \/ \E lp \in LPs, n \in ShareAmounts : BurnShares(lp, n)
             \/ \E s \in Signers : RegistryChange(s)
             \/ Tick
             \/ UNCHANGED vars
      PROVE  AccountsConsistent' /\ DrawnOnce'
  <2>1. /\ pool' = pool /\ UNCHANGED pdaVars /\ drawn' = drawn
        /\ pool.bump = 0 =>
             UNCHANGED <<total_assets, total_shares, deployed_amount,
                         accrued_protocol_fees>>
    BY <1>5 DEF Deposit, Withdraw, ProposeParams, ExecuteParams,
       SkimProtocolFees, DonateToVault, BurnShares, RegistryChange, Tick, vars,
       poolVars, histVars
  <2> QED BY <2>1, AccountsFrame
<1> QED BY <1>1, <1>2, <1>3, <1>4, <1>5 DEF Next, OpenStep

-----------------------------------------------------------------------------
(* Books. *)

\* Every instruction moves the tokens and the books together.
LEMMA BooksStep ==
  ASSUME TypeOK, AccountsConsistent, VaultReconciles, TreasuryReconciles,
         [Next]_vars
  PROVE  VaultReconciles' /\ TreasuryReconciles'
<1> USE DEF VaultReconciles, TreasuryReconciles
<1>0. /\ total_assets \in Nat /\ deployed_amount \in Nat /\ vault \in Nat
      /\ donated \in Nat /\ skimmed \in Nat /\ treasury \in Nat
      /\ accrued_protocol_fees \in Nat
  BY DEF TypeOK, U64
<1>1. ASSUME NEW p \in InitParams, InitPool(p)
      PROVE  VaultReconciles' /\ TreasuryReconciles'
  BY <1>0, <1>1 DEF InitPool, AccountsConsistent, tokenVars, histVars
<1>2. ASSUME NEW lp \in LPs, NEW n \in Amounts, Deposit(lp, n)
      PROVE  VaultReconciles' /\ TreasuryReconciles'
  <2>1. n \in Nat
    BY DomainAssumption DEF U64
  <2> QED BY <1>0, <1>2, <2>1 DEF Deposit, histVars
<1>3. ASSUME NEW lp \in LPs, NEW n \in ShareAmounts, Withdraw(lp, n)
      PROVE  VaultReconciles' /\ TreasuryReconciles'
  <2> DEFINE assets == preview_redeem(n, total_assets, total_shares)
  <2>1. assets \in Nat
    BY <1>3 DEF Withdraw, FitsU64, U64
  <2>2. /\ vault' = vault - assets /\ total_assets' = total_assets - assets
        /\ UNCHANGED <<deployed_amount, treasury, accrued_protocol_fees,
                       donated, skimmed>>
    BY <1>3 DEF Withdraw, histVars
  <2> HIDE DEF assets
  <2> QED BY <1>0, <2>1, <2>2
<1>4. ASSUME NEW k \in Keys, NEW n \in Amounts, NEW nonce \in Nonces,
             NEW att \in Attestations, RequestAdvance(k, n, nonce, att)
      PROVE  VaultReconciles' /\ TreasuryReconciles'
  <2>1. /\ n \in Nat /\ vault' = vault - n
        /\ deployed_amount' = deployed_amount + n
        /\ UNCHANGED <<total_assets, treasury, accrued_protocol_fees, donated,
                       skimmed>>
    BY <1>4, RequestAdvanceEffect
  <2> QED BY <1>0, <2>1
<1>5. ASSUME NEW k \in Keys, NEW n \in Amounts, NEW memo \in Nonces,
             ClaimAndSettle(k, n, memo)
      PROVE  VaultReconciles' /\ TreasuryReconciles'
  <2>1. PICK cut \in Nat, income \in Nat :
          /\ advance[k].principal \in U64
          /\ treasury' = treasury + cut
          /\ accrued_protocol_fees' = accrued_protocol_fees + cut
          /\ vault' = vault + advance[k].principal + income
          /\ total_assets' = total_assets + income
          /\ deployed_amount' = deployed_amount - advance[k].principal
          /\ UNCHANGED histVars
    BY <1>5, ClaimAndSettleEffect
  <2>2. advance[k].principal \in Nat
    BY <2>1 DEF U64
  <2> QED BY <1>0, <2>1, <2>2 DEF histVars
<1>6. ASSUME NEW k \in Keys, Liquidate(k)
      PROVE  VaultReconciles' /\ TreasuryReconciles'
  <2>1. /\ advance[k].principal \in Nat
        /\ total_assets' = total_assets - advance[k].principal
        /\ deployed_amount' = deployed_amount - advance[k].principal
        /\ UNCHANGED <<accrued_protocol_fees, tokenVars, histVars>>
    BY <1>6, LiquidateEffect DEF U64
  <2> QED BY <1>0, <2>1 DEF tokenVars, histVars
<1>7. ASSUME NEW v \in Vaults, NEW n \in Amounts, SkimProtocolFees(v, n)
      PROVE  VaultReconciles' /\ TreasuryReconciles'
  <2>1. n \in Nat
    BY DomainAssumption DEF U64
  <2> QED BY <1>0, <1>7, <2>1 DEF SkimProtocolFees, AccruedAfterSkim
<1>8. ASSUME NEW n \in Amounts, DonateToVault(n)
      PROVE  VaultReconciles' /\ TreasuryReconciles'
  <2>1. n \in Nat
    BY DomainAssumption DEF U64
  <2> QED BY <1>0, <1>8, <2>1 DEF DonateToVault, poolVars
<1>9. ASSUME \/ \E v \in Vaults, p \in Proposals : ProposeParams(v, p)
             \/ ExecuteParams
             \/ \E lp \in LPs, n \in ShareAmounts : BurnShares(lp, n)
             \/ \E s \in Signers : RegistryChange(s)
             \/ Tick
             \/ UNCHANGED vars
      PROVE  VaultReconciles' /\ TreasuryReconciles'
  <2>1. UNCHANGED <<vault, total_assets, deployed_amount, donated, skimmed,
                    treasury, accrued_protocol_fees>>
    BY <1>9 DEF ProposeParams, ExecuteParams, BurnShares, RegistryChange, Tick,
       vars, poolVars, tokenVars, histVars
  <2> QED BY <2>1
<1> QED BY <1>1, <1>2, <1>3, <1>4, <1>5, <1>6, <1>7, <1>8, <1>9 DEF Next, OpenStep

-----------------------------------------------------------------------------
(* Exposure. *)

\* There are finitely many receivables, so that sums over them are defined.
LEMMA KeysFinite ==
  /\ IsFiniteSet(Keys)
  /\ \A a \in Agents : IsFiniteSet(AgentKeys(a)) /\ AgentKeys(a) \subseteq Keys
<1>1. IsFiniteSet(Keys)
  BY DomainAssumption, FS_Product DEF Keys
<1>2. \A a \in Agents : AgentKeys(a) \subseteq Keys
  BY DEF AgentKeys, Keys
<1>3. \A a \in Agents : IsFiniteSet(AgentKeys(a))
  BY <1>1, <1>2, FS_Subset
<1> QED BY <1>1, <1>2, <1>3

\* The summands of ExposureMatchesAdvances are the principals of the Advance accounts.
LEMMA PrincipalValues ==
  ASSUME TypeOK
  PROVE  \A k \in Keys : Principal[k] = advance[k].principal
                         /\ Principal[k] \in Nat
BY DEF Principal, TypeOK, AdvanceType, U64

\* When only the advance of key k changes, the total exposure and that of k's
\* agent move by the difference, and no other agent's exposure moves.
LEMMA ExposureMoves ==
  ASSUME TypeOK, NEW k \in Keys, advance'[k].principal \in Nat,
         \A j \in Keys \ {k} : advance'[j] = advance[j]
  PROVE  /\ Tally(Principal', Keys)
              = Tally(Principal, Keys) - advance[k].principal
                  + advance'[k].principal
         /\ Tally(Principal', AgentKeys(k[1]))
              = Tally(Principal, AgentKeys(k[1])) - advance[k].principal
                  + advance'[k].principal
         /\ \A a \in Agents \ {k[1]} :
              Tally(Principal', AgentKeys(a)) = Tally(Principal, AgentKeys(a))
<1> DEFINE f == Principal
           g == Principal'
<1>1. \A j \in Keys : f[j] = advance[j].principal /\ f[j] \in Nat
  BY PrincipalValues
<1>2. \A j \in Keys : g[j] = advance'[j].principal
  BY DEF Principal
<1>3. \A j \in Keys \ {k} : g[j] = f[j]
  BY <1>1, <1>2
<1>4. g[k] \in Nat
  BY <1>2
<1>5. k[1] \in Agents /\ k \in AgentKeys(k[1])
  BY DEF Keys, AgentKeys
<1> HIDE DEF f, g
<1>6. Tally(g, Keys) = Tally(f, Keys) - f[k] + g[k]
  BY <1>1, <1>3, <1>4, KeysFinite, TallyUpdate
<1>7. Tally(g, AgentKeys(k[1])) = Tally(f, AgentKeys(k[1])) - f[k] + g[k]
  <2> DEFINE S == AgentKeys(k[1])
  <2>1. IsFiniteSet(S) /\ S \subseteq Keys /\ k \in S
    BY <1>5, KeysFinite
  <2> HIDE DEF S
  <2>2. Tally(g, S) = Tally(f, S) - f[k] + g[k]
    BY <1>1, <1>3, <1>4, <2>1, TallyUpdate
  <2> QED BY <2>2 DEF S
<1>8. ASSUME NEW a \in Agents \ {k[1]}
      PROVE  Tally(g, AgentKeys(a)) = Tally(f, AgentKeys(a))
  <2>1. \A j \in AgentKeys(a) : j \in Keys \ {k}
    BY DEF AgentKeys, Keys
  <2>2. \A j \in AgentKeys(a) : g[j] = f[j]
    BY <1>3, <2>1
  <2> QED BY <2>2, TallySame
<1> QED BY <1>1, <1>2, <1>6, <1>7, <1>8 DEF f, g

\* Every instruction keeps deployed_amount and live_principal equal to their sums.
LEMMA ExposureStep ==
  ASSUME TypeOK, AccountsConsistent, ExposureMatchesAdvances, [Next]_vars
  PROVE  ExposureMatchesAdvances'
<1>0. /\ deployed_amount \in Nat
      /\ \A a \in Agents : ledger[a].live_principal \in Nat
      /\ \A k \in Keys : advance[k].principal \in Nat
  BY DEF TypeOK, U64, LedgerType, AdvanceType
<1>1. ASSUME NEW k \in Keys, NEW n \in Amounts, NEW nonce \in Nonces,
             NEW att \in Attestations, RequestAdvance(k, n, nonce, att)
      PROVE  ExposureMatchesAdvances'
  <2>1. /\ k[1] \in Agents /\ n \in Nat /\ advance[k].bump = 0
        /\ advance' = [advance EXCEPT ![k] = advance'[k]]
        /\ advance'[k].principal = n
        /\ ledger' = [ledger EXCEPT ![k[1]] = ledger'[k[1]]]
        /\ ledger'[k[1]].live_principal = ledger[k[1]].live_principal + n
        /\ deployed_amount' = deployed_amount + n
    BY <1>1, RequestAdvanceEffect
  <2>2. advance[k].principal = 0
    BY <2>1 DEF AccountsConsistent
  <2>3. \A j \in Keys \ {k} : advance'[j] = advance[j]
    BY <2>1 DEF TypeOK
  <2>4. \A a \in Agents \ {k[1]} : ledger'[a] = ledger[a]
    BY <2>1 DEF TypeOK
  <2>5. deployed_amount' = Tally(Principal', Keys)
    BY <1>0, <2>1, <2>2, <2>3, ExposureMoves DEF ExposureMatchesAdvances
  <2>6. ledger'[k[1]].live_principal = Tally(Principal', AgentKeys(k[1]))
    BY <1>0, <2>1, <2>2, <2>3, ExposureMoves DEF ExposureMatchesAdvances
  <2>7. \A a \in Agents \ {k[1]} :
          ledger'[a].live_principal = Tally(Principal', AgentKeys(a))
    BY <2>1, <2>3, <2>4, ExposureMoves DEF ExposureMatchesAdvances
  <2> QED BY <2>5, <2>6, <2>7 DEF ExposureMatchesAdvances
<1>2. ASSUME NEW k \in Keys, k[1] \in Agents,
             advance' = [advance EXCEPT ![k] = NoAdvance],
             ledger' = [ledger EXCEPT ![k[1]] =
                          ReleasedLedger(@, advance[k].principal)],
             deployed_amount' = deployed_amount - advance[k].principal
      PROVE  ExposureMatchesAdvances'
  <2>1. advance'[k].principal = 0
    BY <1>2 DEF TypeOK, NoAdvance
  <2>2. \A j \in Keys \ {k} : advance'[j] = advance[j]
    BY <1>2 DEF TypeOK
  <2>3. \A a \in Agents \ {k[1]} : ledger'[a] = ledger[a]
    BY <1>2 DEF TypeOK
  <2>4. ledger'[k[1]].live_principal
          = ledger[k[1]].live_principal - advance[k].principal
    BY <1>2 DEF TypeOK, LedgerType, ReleasedLedger
  <2>5. deployed_amount' = Tally(Principal', Keys)
    BY <1>0, <1>2, <2>1, <2>2, ExposureMoves DEF ExposureMatchesAdvances
  <2>6. ledger'[k[1]].live_principal = Tally(Principal', AgentKeys(k[1]))
    BY <1>0, <1>2, <2>1, <2>2, <2>4, ExposureMoves DEF ExposureMatchesAdvances
  <2>7. \A a \in Agents \ {k[1]} :
          ledger'[a].live_principal = Tally(Principal', AgentKeys(a))
    BY <2>1, <2>2, <2>3, ExposureMoves DEF ExposureMatchesAdvances
  <2> QED BY <2>5, <2>6, <2>7 DEF ExposureMatchesAdvances
<1>3. ASSUME NEW k \in Keys, NEW n \in Amounts, NEW memo \in Nonces,
             ClaimAndSettle(k, n, memo)
      PROVE  ExposureMatchesAdvances'
  <2>1. /\ k[1] \in Agents
        /\ advance' = [advance EXCEPT ![k] = NoAdvance]
        /\ ledger' = [ledger EXCEPT ![k[1]] =
                        ReleasedLedger(@, advance[k].principal)]
        /\ deployed_amount' = deployed_amount - advance[k].principal
    BY <1>3, ClaimAndSettleEffect
  <2> QED BY <1>2, <2>1
<1>4. ASSUME NEW k \in Keys, Liquidate(k)
      PROVE  ExposureMatchesAdvances'
  <2>1. /\ k[1] \in Agents
        /\ advance' = [advance EXCEPT ![k] = NoAdvance]
        /\ ledger' = [ledger EXCEPT ![k[1]] =
                        ReleasedLedger(@, advance[k].principal)]
        /\ deployed_amount' = deployed_amount - advance[k].principal
    BY <1>4, LiquidateEffect
  <2> QED BY <1>2, <2>1
<1>5. ASSUME \/ \E p \in InitParams : InitPool(p)
             \/ \E lp \in LPs, n \in Amounts : Deposit(lp, n)
             \/ \E lp \in LPs, n \in ShareAmounts : Withdraw(lp, n)
             \/ \E v \in Vaults, p \in Proposals : ProposeParams(v, p)
             \/ ExecuteParams
             \/ \E v \in Vaults, n \in Amounts : SkimProtocolFees(v, n)
             \/ \E n \in Amounts : DonateToVault(n)
             \/ \E lp \in LPs, n \in ShareAmounts : BurnShares(lp, n)
             \/ \E s \in Signers : RegistryChange(s)
             \/ Tick
             \/ UNCHANGED vars
      PROVE  ExposureMatchesAdvances'
  <2>1. UNCHANGED <<advance, ledger, deployed_amount>>
    BY <1>5 DEF InitPool, AccountsConsistent, Deposit, Withdraw, ProposeParams,
       ExecuteParams, SkimProtocolFees, DonateToVault, BurnShares,
       RegistryChange, Tick, vars, poolVars, pdaVars
  <2> QED BY <2>1 DEF ExposureMatchesAdvances, Principal
<1> QED BY <1>1, <1>3, <1>4, <1>5 DEF Next, OpenStep

-----------------------------------------------------------------------------
(* The inductive invariant and the theorems. *)

IInv ==
  /\ TypeOK
  /\ AccountsConsistent
  /\ DrawnOnce
  /\ VaultReconciles
  /\ TreasuryReconciles
  /\ ExposureMatchesAdvances

\* The inductive invariant holds before init_pool.
LEMMA InitIInv == Init => IInv
<1> SUFFICES ASSUME Init PROVE IInv
  OBVIOUS
<1>1. TypeOK
  BY InitType
<1>2. AccountsConsistent /\ DrawnOnce
  BY DEF Init, AccountsConsistent, DrawnOnce, NoAdvance, NoConsumed, NoTombstone
<1>3. VaultReconciles /\ TreasuryReconciles
  BY DEF Init, VaultReconciles, TreasuryReconciles
<1>4. \A k \in Keys : Principal[k] = 0
  BY DEF Init, Principal, NoAdvance
<1>5. Tally(Principal, Keys) = 0
  BY <1>4, TallyZero
<1>6. ASSUME NEW a \in Agents
      PROVE  Tally(Principal, AgentKeys(a)) = 0
  <2>1. \A k \in AgentKeys(a) : Principal[k] = 0
    BY <1>4, KeysFinite
  <2> QED BY <2>1, TallyZero
<1>7. ExposureMatchesAdvances
  BY <1>5, <1>6 DEF ExposureMatchesAdvances, Init, NoLedger
<1> QED BY <1>1, <1>2, <1>3, <1>7 DEF IInv

\* Every instruction keeps the inductive invariant.
LEMMA NextIInv == IInv /\ [Next]_vars => IInv'
BY NextType, AccountsStep, BooksStep, ExposureStep DEF IInv

\* The inductive invariant holds in every behaviour of the escrow.
LEMMA IInvHolds == Spec => []IInv
BY InitIInv, NextIInv, PTL DEF Spec

(***************************************************************************)
(* The vault balance is the idle book value, plus donations, minus skims.  *)
(***************************************************************************)
THEOREM VaultReconcilesHolds == Spec => []VaultReconciles
BY IInvHolds, PTL DEF IInv

(***************************************************************************)
(* deployed_amount and every live_principal equal the sums they stand for. *)
(***************************************************************************)
THEOREM ExposureMatchesHolds == Spec => []ExposureMatchesAdvances
BY IInvHolds, PTL DEF IInv

(***************************************************************************)
(* A receivable is lent against at most once, across settlement,           *)
(* liquidation and replayed attestations.                                  *)
(***************************************************************************)
THEOREM DrawnOnceHolds == Spec => []DrawnOnce
BY IInvHolds, PTL DEF IInv

(***************************************************************************)
(* The treasury got every protocol cut, and the skimmed part twice.        *)
(***************************************************************************)
THEOREM TreasuryReconcilesHolds == Spec => []TreasuryReconciles
BY IInvHolds, PTL DEF IInv

(***************************************************************************)
(* Without donations the advances never exceed the book value: the vault   *)
(* would have to be negative.                                              *)
(***************************************************************************)
THEOREM NoOverDeploymentHolds == Spec => []NoOverDeployment
<1>1. IInv => NoOverDeployment
  BY DEF IInv, NoOverDeployment, VaultReconciles, TypeOK, U64
<1> QED BY <1>1, IInvHolds, PTL

(***************************************************************************)
(* With donations, what withdraw lets LPs take against lent-out principal  *)
(* is bounded: the advances exceed the book value by no more than what was *)
(* transferred to the vault behind the program's back and not skimmed.     *)
(***************************************************************************)
THEOREM OverDeploymentBounded ==
  Spec => [](deployed_amount + skimmed <= total_assets + donated)
<1>1. IInv => deployed_amount + skimmed <= total_assets + donated
  BY DEF IInv, VaultReconciles, TypeOK, U64
<1> QED BY <1>1, IInvHolds, PTL

\* The principal of an advance is part of both running totals, and its tombstone
\* is still free: of all that liquidate checks, only the book value can be short.
LEMMA LiquidateNeedsBook ==
  ASSUME IInv, NEW k \in Keys, advance[k].bump # 0
  PROVE  /\ advance[k].principal \in Nat
         /\ advance[k].principal <= deployed_amount
         /\ LiquidateAccounts(k) <=> total_assets >= advance[k].principal
<1> USE DEF IInv
<1>1. /\ pool.bump # 0 /\ consumed[k].bump # 0 /\ ledger[k[1]].bump # 0
      /\ tombstone[k].bump = 0
  BY DEF AccountsConsistent
<1>2. k[1] \in Agents /\ k \in AgentKeys(k[1])
  BY DEF Keys, AgentKeys
<1>3. \A j \in Keys : Principal[j] = advance[j].principal
                      /\ Principal[j] \in Nat
  BY PrincipalValues
<1>4. Principal[k] <= Tally(Principal, Keys)
  BY <1>3, KeysFinite, TallyMember
<1>5. Principal[k] <= Tally(Principal, AgentKeys(k[1]))
  <2> DEFINE S == AgentKeys(k[1])
  <2>1. IsFiniteSet(S) /\ k \in S /\ \A j \in S : Principal[j] \in Nat
    BY <1>2, <1>3, KeysFinite
  <2> HIDE DEF S
  <2>2. Principal[k] <= Tally(Principal, S)
    BY <2>1, TallyMember
  <2> QED BY <2>2 DEF S
<1>6. deployed_amount >= advance[k].principal
      /\ ledger[k[1]].live_principal >= advance[k].principal
  BY <1>2, <1>3, <1>4, <1>5 DEF ExposureMatchesAdvances, TypeOK, U64, LedgerType
<1>7. advance[k].principal <= deployed_amount /\ advance[k].principal \in Nat
  BY <1>3, <1>6 DEF TypeOK, U64
<1> QED BY <1>1, <1>6, <1>7 DEF LiquidateAccounts

(***************************************************************************)
(* Without donations an overdue advance can always be liquidated: its      *)
(* principal is part of the book value, too.                               *)
(***************************************************************************)
THEOREM OverdueIsLiquidatableHolds == Spec => []OverdueIsLiquidatable
<1>1. IInv => OverdueIsLiquidatable
  <2> SUFFICES ASSUME IInv, donated = 0, NEW k \in Keys, advance[k].bump # 0
               PROVE  LiquidateAccounts(k)
    BY DEF OverdueIsLiquidatable
  <2>1. total_assets >= deployed_amount
    BY DEF IInv, VaultReconciles, TypeOK, U64
  <2>2. total_assets >= advance[k].principal
    BY <2>1, LiquidateNeedsBook DEF IInv, TypeOK, U64
  <2> QED BY <2>2, LiquidateNeedsBook
<1> QED BY <1>1, IInvHolds, PTL

(***************************************************************************)
(* With donations liquidate can be blocked, but only by the subtraction    *)
(* from total_assets, and only while more was transferred to the vault     *)
(* behind the program's back than was skimmed from it.                     *)
(***************************************************************************)
THEOREM LiquidationBlockedOnlyByDonation ==
  Spec => [](\A k \in Keys :
               advance[k].bump # 0 =>
                 \/ LiquidateAccounts(k)
                 \/ total_assets < advance[k].principal /\ donated > skimmed)
<1> DEFINE B(k) == \/ LiquidateAccounts(k)
                   \/ total_assets < advance[k].principal /\ donated > skimmed
<1>1. IInv => \A k \in Keys : advance[k].bump # 0 => B(k)
  <2> SUFFICES ASSUME IInv, NEW k \in Keys, advance[k].bump # 0,
                      ~LiquidateAccounts(k)
               PROVE  total_assets < advance[k].principal /\ donated > skimmed
    OBVIOUS
  <2>1. /\ advance[k].principal \in Nat
        /\ advance[k].principal <= deployed_amount
        /\ ~(total_assets >= advance[k].principal)
    BY LiquidateNeedsBook
  <2> QED BY <2>1 DEF IInv, VaultReconciles, TypeOK, U64
<1> QED BY <1>1, IInvHolds, PTL

(***************************************************************************)
(* The accounts of a receivable tell one story in every reachable state,   *)
(* whatever order issue, settlement and liquidation come in.               *)
(***************************************************************************)
THEOREM AccountsConsistentHolds == Spec => []AccountsConsistent
BY IInvHolds, PTL DEF IInv

(***************************************************************************)
(* At every reachable state of the books, deposit followed by withdraw     *)
(* pays out no more than was paid in.                                      *)
(***************************************************************************)
THEOREM RoundTripHolds == Spec => []RoundTripNeverProfits
<1>1. TypeOK => RoundTripNeverProfits
  <2> SUFFICES ASSUME TypeOK, NEW n \in Amounts
               PROVE  LET minted == preview_deposit(n, total_assets, total_shares)
                      IN preview_redeem(minted, total_assets + n,
                                        total_shares + minted) <= n
    BY DEF RoundTripNeverProfits
  <2>1. n \in Nat /\ total_assets \in Nat /\ total_shares \in Nat
    BY DomainAssumption, PricingAssumption DEF TypeOK, U64
  <2> QED BY <2>1, RoundTrip
<1> QED BY <1>1, TypeCorrect, PTL

=============================================================================
