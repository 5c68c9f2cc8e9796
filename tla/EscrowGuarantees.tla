-------------------------- MODULE EscrowGuarantees --------------------------
(***************************************************************************)
(* What the escrow guarantees its parties, for every value of the          *)
(* constants, on top of the inductive invariant IInv of EscrowSafety:      *)
(* holders (supply, share price), agents (fees, tombstones), the           *)
(* underwriters (credit limits, window caps), governance (the timelock),   *)
(* and all of them together: the escrow implements AdvanceLifecycle.       *)
(*                                                                         *)
(* Each guarantee that is not inductive by itself comes with the           *)
(* strengthening that is, named XInv, and a lemma that every step keeps.   *)
(***************************************************************************)
EXTENDS EscrowSafety, EscrowRefinement, PoolPricing

(***************************************************************************)
(* Only the three lending instructions write the accounts of a receivable  *)
(* or an agent, only init_pool the fixed fields of the pool.               *)
(***************************************************************************)
LEMMA LendingSteps ==
  ASSUME [Next]_vars
  PROVE  \/ \E k \in Keys, n \in Amounts, nonce \in Nonces, att \in Attestations :
              RequestAdvance(k, n, nonce, att)
         \/ \E k \in Keys, n \in Amounts, memo \in Nonces :
              ClaimAndSettle(k, n, memo)
         \/ \E k \in Keys : Liquidate(k)
         \/ /\ UNCHANGED <<advance, consumed, ledger, tombstone, drawn>>
            /\ pool' = pool \/ pool.bump = 0
            /\ now' = now \/ now' = now + 1
<1>1. ASSUME NEW p \in InitParams, InitPool(p)
      PROVE  /\ UNCHANGED <<advance, consumed, ledger, tombstone, drawn, now>>
             /\ pool.bump = 0
  BY <1>1 DEF InitPool, pdaVars, histVars
<1>2. ASSUME \/ \E lp \in LPs, n \in Amounts : Deposit(lp, n)
             \/ \E lp \in LPs, n \in ShareAmounts : Withdraw(lp, n)
             \/ \E v \in Vaults, p \in Proposals : ProposeParams(v, p)
             \/ ExecuteParams
             \/ \E v \in Vaults, n \in Amounts : SkimProtocolFees(v, n)
             \/ \E n \in Amounts : DonateToVault(n)
             \/ \E lp \in LPs, n \in ShareAmounts : BurnShares(lp, n)
             \/ \E s \in Signers : RegistryChange(s)
             \/ Tick
             \/ UNCHANGED vars
      PROVE  /\ UNCHANGED <<advance, consumed, ledger, tombstone, drawn, pool>>
             /\ now' = now \/ now' = now + 1
  BY <1>2 DEF Deposit, Withdraw, ProposeParams, ExecuteParams,
     SkimProtocolFees, DonateToVault, BurnShares, RegistryChange, Tick, vars,
     poolVars, pdaVars, histVars
<1> QED BY <1>1, <1>2 DEF Next, OpenStep

-----------------------------------------------------------------------------
(* Holders. *)

\* When one holder's balance changes, the supply moves by the difference.
LEMMA SupplyMoves ==
  ASSUME TypeOK, NEW lp \in LPs, NEW v \in Nat, shares' = [shares EXCEPT ![lp] = v]
  PROVE  /\ Tally(shares, LPs) \in Nat
         /\ Tally(shares', LPs) = Tally(shares, LPs) - shares[lp] + v
<1> DEFINE f == shares
           g == shares'
<1>1. \A x \in LPs : f[x] \in Nat
  BY DEF TypeOK, U64
<1>2. g[lp] = v /\ \A x \in LPs \ {lp} : g[x] = f[x]
  BY DEF TypeOK
<1> HIDE DEF f, g
<1>3. IsFiniteSet(LPs)
  BY DomainAssumption
<1>4. Tally(f, LPs) \in Nat
  BY <1>1, <1>3, TallyType
<1>5. Tally(g, LPs) = Tally(f, LPs) - f[lp] + g[lp]
  BY <1>1, <1>2, <1>3, TallyUpdate
<1> QED BY <1>2, <1>4, <1>5 DEF f, g

\* deposit, withdraw and a direct burn move the supply and the books together;
\* init_pool resets books that are still empty.
LEMMA SharesStep ==
  ASSUME TypeOK, AccountsConsistent, SharesMatchSupply, [Next]_vars
  PROVE  SharesMatchSupply'
<1>0. /\ total_shares \in Nat /\ burned \in Nat
      /\ \A lp \in LPs : shares[lp] \in Nat
      /\ total_shares = Tally(shares, LPs) + burned
  BY DEF TypeOK, U64, SharesMatchSupply
<1>1. ASSUME NEW lp \in LPs, NEW n \in Amounts, Deposit(lp, n)
      PROVE  SharesMatchSupply'
  <2> DEFINE minted == preview_deposit(n, total_assets, total_shares)
  <2>1. /\ minted \in Nat
        /\ shares' = [shares EXCEPT ![lp] = shares[lp] + minted]
        /\ total_shares' = total_shares + minted /\ burned' = burned
    BY <1>1 DEF Deposit, FitsU64, U64, histVars
  <2> HIDE DEF minted
  <2>2. shares[lp] + minted \in Nat
    BY <1>0, <2>1
  <2>3. /\ Tally(shares, LPs) \in Nat
        /\ Tally(shares', LPs) = Tally(shares, LPs) - shares[lp] + (shares[lp] + minted)
    BY <2>1, <2>2, SupplyMoves
  <2> QED BY <1>0, <2>1, <2>3 DEF SharesMatchSupply
<1>2. ASSUME NEW lp \in LPs, NEW n \in ShareAmounts,
             Withdraw(lp, n) \/ BurnShares(lp, n)
      PROVE  SharesMatchSupply'
  <2>1. /\ n \in Nat /\ shares[lp] >= n
        /\ shares' = [shares EXCEPT ![lp] = shares[lp] - n]
        /\ \/ total_shares' = total_shares - n /\ burned' = burned
           \/ total_shares' = total_shares /\ burned' = burned + n
    BY <1>2, DomainAssumption DEF Withdraw, SharesAfterBurn, BurnShares, U64,
       histVars, poolVars
  <2>2. shares[lp] - n \in Nat
    BY <1>0, <2>1
  <2>3. /\ Tally(shares, LPs) \in Nat
        /\ Tally(shares', LPs) = Tally(shares, LPs) - shares[lp] + (shares[lp] - n)
    BY <2>1, <2>2, SupplyMoves
  <2> QED BY <1>0, <2>1, <2>3 DEF SharesMatchSupply
<1>3. ASSUME NEW k \in Keys, NEW n \in Amounts, NEW memo \in Nonces,
             ClaimAndSettle(k, n, memo)
      PROVE  UNCHANGED <<shares, total_shares, burned>>
  BY <1>3 DEF ClaimAndSettle, histVars
<1>4. ASSUME NEW k \in Keys, NEW n \in Amounts, NEW nonce \in Nonces,
             NEW att \in Attestations, RequestAdvance(k, n, nonce, att)
      PROVE  UNCHANGED <<shares, total_shares, burned>>
  BY <1>4, RequestAdvanceEffect
<1>5. ASSUME NEW p \in InitParams, InitPool(p)
      PROVE  UNCHANGED <<shares, total_shares, burned>>
  BY <1>5 DEF InitPool, AccountsConsistent, tokenVars, histVars
<1>6. ASSUME \/ \E k \in Keys : Liquidate(k)
             \/ \E v \in Vaults, p \in Proposals : ProposeParams(v, p)
             \/ ExecuteParams
             \/ \E v \in Vaults, n \in Amounts : SkimProtocolFees(v, n)
             \/ \E n \in Amounts : DonateToVault(n)
             \/ \E s \in Signers : RegistryChange(s)
             \/ Tick
             \/ UNCHANGED vars
      PROVE  UNCHANGED <<shares, total_shares, burned>>
  BY <1>6 DEF Liquidate, ProposeParams, ExecuteParams, SkimProtocolFees,
     DonateToVault, RegistryChange, Tick, vars, poolVars, tokenVars, histVars
<1>7. UNCHANGED <<shares, total_shares, burned>> => SharesMatchSupply'
  BY DEF SharesMatchSupply
<1> QED BY <1>1, <1>2, <1>3, <1>4, <1>5, <1>6, <1>7 DEF Next, OpenStep

(***************************************************************************)
(* Pool.total_shares is at all times the LPs' share tokens plus what       *)
(* holders burned with the token program itself.                           *)
(***************************************************************************)
THEOREM SharesMatchSupplyHolds == Spec => []SharesMatchSupply
<1>1. Init => SharesMatchSupply
  <2> SUFFICES ASSUME Init PROVE SharesMatchSupply
    OBVIOUS
  <2>1. \A lp \in LPs : shares[lp] = 0
    BY DEF Init
  <2>2. Tally(shares, LPs) = 0
    BY <2>1, TallyZero
  <2> QED BY <2>2 DEF Init, SharesMatchSupply
<1>2. IInv /\ SharesMatchSupply /\ [Next]_vars => SharesMatchSupply'
  BY SharesStep DEF IInv
<1> QED BY <1>1, <1>2, IInvHolds, PTL DEF Spec

(***************************************************************************)
(* Splitting a deposit in two never mints more shares, whatever the books  *)
(* have come to.                                                           *)
(***************************************************************************)
THEOREM SplittingHolds == Spec => []SplittingNeverMintsMore
<1>1. TypeOK => SplittingNeverMintsMore
  <2>1. Amounts \subseteq Nat
    BY DomainAssumption DEF U64
  <2>2. TypeOK => total_assets \in Nat /\ total_shares \in Nat
    BY DEF TypeOK, U64
  <2> QED BY <2>1, <2>2, SplitDeposit DEF SplittingNeverMintsMore
<1> QED BY <1>1, TypeCorrect, PTL

\* No step but liquidate lowers the book price of a share.
LEMMA SharePriceStep ==
  ASSUME TypeOK, TypeOK', [Next]_vars, pool.bump # 0
  PROVE  \/ AssetsOff(total_assets') * SharesOff(total_shares)
              >= AssetsOff(total_assets) * SharesOff(total_shares')
         \/ \E k \in Keys : tombstone'[k] # tombstone[k]
<1> DEFINE Kept == AssetsOff(total_assets') * SharesOff(total_shares)
                     >= AssetsOff(total_assets) * SharesOff(total_shares')
<1>0. /\ total_assets \in Nat /\ total_shares \in Nat
      /\ total_assets' \in Nat /\ total_shares' \in Nat
  BY DEF TypeOK, U64
<1>1. ASSUME NEW lp \in LPs, NEW n \in Amounts, Deposit(lp, n)
      PROVE  Kept
  <2>1. n \in Nat
    BY DomainAssumption DEF U64
  <2>2. /\ total_assets' = total_assets + n
        /\ total_shares' = total_shares
                             + preview_deposit(n, total_assets, total_shares)
    BY <1>1 DEF Deposit
  <2> QED BY <1>0, <2>1, <2>2, DepositKeepsPrice
<1>2. ASSUME NEW lp \in LPs, NEW n \in ShareAmounts, Withdraw(lp, n)
      PROVE  Kept
  <2>1. n \in Nat
    BY DomainAssumption DEF U64
  <2>2. /\ preview_redeem(n, total_assets, total_shares) <= total_assets
        /\ n <= total_shares
        /\ total_assets' = total_assets
                             - preview_redeem(n, total_assets, total_shares)
        /\ total_shares' = total_shares - n
    BY <1>0, <1>2, <2>1, RedeemRoundsDown DEF Withdraw, SharesAfterBurn
  <2> QED BY <1>0, <2>1, <2>2, RedeemKeepsPrice
<1>3. ASSUME total_shares' = total_shares, total_assets' >= total_assets
      PROVE  Kept
  BY <1>0, <1>3, IncomeKeepsPrice
<1>4. ASSUME NEW k \in Keys, NEW n \in Amounts, NEW memo \in Nonces,
             ClaimAndSettle(k, n, memo)
      PROVE  Kept
  <2>1. PICK cut \in Nat, income \in Nat :
          total_assets' = total_assets + income /\ total_shares' = total_shares
    BY <1>4, ClaimAndSettleEffect
  <2> QED BY <1>0, <1>3, <2>1
<1>5. ASSUME NEW k \in Keys, Liquidate(k)
      PROVE  tombstone'[k] # tombstone[k]
  <2>1. /\ tombstone[k].bump = 0
        /\ tombstone' = [tombstone EXCEPT ![k] = TombstoneOf(advance[k])]
    BY <1>5, LiquidateEffect
  <2>2. tombstone'[k].bump = 1
    BY <2>1 DEF TypeOK, TombstoneOf
  <2> QED BY <2>1, <2>2
<1>6. ASSUME NEW k \in Keys, NEW n \in Amounts, NEW nonce \in Nonces,
             NEW att \in Attestations, RequestAdvance(k, n, nonce, att)
      PROVE  Kept
  <2>1. UNCHANGED <<total_assets, total_shares>>
    BY <1>6, RequestAdvanceEffect
  <2> QED BY <1>0, <1>3, <2>1
<1>7. ASSUME \/ \E v \in Vaults, p \in Proposals : ProposeParams(v, p)
             \/ ExecuteParams
             \/ \E v \in Vaults, n \in Amounts : SkimProtocolFees(v, n)
             \/ \E n \in Amounts : DonateToVault(n)
             \/ \E lp \in LPs, n \in ShareAmounts : BurnShares(lp, n)
             \/ \E s \in Signers : RegistryChange(s)
             \/ Tick
             \/ UNCHANGED vars
      PROVE  Kept
  <2>1. UNCHANGED <<total_assets, total_shares>>
    BY <1>7 DEF ProposeParams, ExecuteParams, SkimProtocolFees, DonateToVault,
       BurnShares, RegistryChange, Tick, vars, poolVars
  <2> QED BY <1>0, <1>3, <2>1
<1>8. ASSUME NEW p \in InitParams PROVE ~ InitPool(p)
  BY DEF InitPool
<1> HIDE DEF Kept
<1>9. Kept \/ \E k \in Keys : tombstone'[k] # tombstone[k]
  BY <1>1, <1>2, <1>4, <1>5, <1>6, <1>7, <1>8 DEF Next, OpenStep
<1> QED BY <1>9 DEF Kept

(***************************************************************************)
(* The book price of a share falls only in a step that writes a tombstone: *)
(* rounding, settlement and donations never lower it.  What a skim takes   *)
(* out of the vault the books do not see (VaultEqualsIdle).                *)
(***************************************************************************)
THEOREM SharePriceHolds == Spec => SharePriceFallsOnlyByDefault
<1>1. TypeOK /\ TypeOK' /\ [Next]_vars =>
        [pool.bump # 0 =>
           \/ AssetsOff(total_assets') * SharesOff(total_shares)
                >= AssetsOff(total_assets) * SharesOff(total_shares')
           \/ \E k \in Keys : tombstone'[k] # tombstone[k]]_vars
  BY SharePriceStep
<1> QED BY <1>1, TypeCorrect, PTL DEF Spec, SharePriceFallsOnlyByDefault

-----------------------------------------------------------------------------
(* Agents. *)

\* TombstoneFaithful speaks of an advance that is gone.  While it is live, its
\* expiry lies after its creation, and that is what the tombstone will keep.
TombstoneInv ==
  /\ TombstoneFaithful
  /\ \A k \in Keys :
       advance[k].bump # 0 => advance[k].expires_at > consumed[k].created_at

\* Every instruction keeps the tombstones truthful.
LEMMA TombstoneStep ==
  ASSUME TypeOK, AccountsConsistent, DrawnOnce, TombstoneInv, [Next]_vars
  PROVE  TombstoneInv'
<1>1. ASSUME NEW k \in Keys, NEW n \in Amounts, NEW nonce \in Nonces,
             NEW att \in Attestations, RequestAdvance(k, n, nonce, att)
      PROVE  TombstoneInv'
  <2>1. /\ consumed[k].bump = 0
        /\ advance' = [advance EXCEPT ![k] = advance'[k]]
        /\ advance'[k].expires_at = att.expires_at
        /\ consumed' = [consumed EXCEPT ![k] = consumed'[k]]
        /\ consumed'[k].created_at = now
        /\ drawn' = [drawn EXCEPT ![k] = @ + n]
        /\ tombstone' = tombstone
    BY <1>1, RequestAdvanceEffect
  <2>2. tombstone[k].bump = 0
    BY <2>1 DEF AccountsConsistent
  <2>3. att.expires_at > now
    BY <1>1 DEF RequestAdvance, Attested, Fresh
  <2>4. \A j \in Keys \ {k} : /\ advance'[j] = advance[j]
                               /\ consumed'[j] = consumed[j]
                               /\ drawn'[j] = drawn[j]
    BY <2>1 DEF TypeOK
  <2> QED BY <2>1, <2>2, <2>3, <2>4 DEF TombstoneInv, TombstoneFaithful
<1>2. ASSUME NEW k \in Keys, NEW n \in Amounts, NEW memo \in Nonces,
             ClaimAndSettle(k, n, memo)
      PROVE  TombstoneInv'
  <2>1. /\ advance' = [advance EXCEPT ![k] = NoAdvance]
        /\ UNCHANGED <<consumed, tombstone, drawn>>
    BY <1>2, ClaimAndSettleEffect DEF histVars
  <2>2. \A j \in Keys : advance'[j] = advance[j] \/ advance'[j].bump = 0
    BY <2>1 DEF TypeOK, NoAdvance
  <2> QED BY <2>1, <2>2 DEF TombstoneInv, TombstoneFaithful
<1>3. ASSUME NEW k \in Keys, Liquidate(k)
      PROVE  TombstoneInv'
  <2>1. /\ advance[k].bump # 0 /\ LiquidationOpen(advance[k])
        /\ advance' = [advance EXCEPT ![k] = NoAdvance]
        /\ tombstone' = [tombstone EXCEPT ![k] = TombstoneOf(advance[k])]
        /\ UNCHANGED <<consumed, now, drawn>>
    BY <1>3, LiquidateEffect DEF histVars
  <2>2. /\ advance'[k].bump = 0
        /\ \A j \in Keys \ {k} : /\ advance'[j] = advance[j]
                                  /\ tombstone'[j] = tombstone[j]
    BY <2>1 DEF TypeOK, NoAdvance
  <2>3. /\ tombstone'[k].principal = advance[k].principal
        /\ tombstone'[k].expires_at = advance[k].expires_at
        /\ tombstone'[k].liquidated_at = now
    BY <2>1 DEF TypeOK, TombstoneOf
  <2>4. advance[k].principal = drawn[k]
    BY <2>1 DEF DrawnOnce
  <2>5. now >= advance[k].expires_at + LIQUIDATION_GRACE_SECONDS
    BY <2>1 DEF LiquidationOpen, GraceEnd
  <2>6. advance[k].expires_at > consumed[k].created_at
    BY <2>1 DEF TombstoneInv
  <2> QED BY <2>1, <2>2, <2>3, <2>4, <2>5, <2>6 DEF TombstoneInv, TombstoneFaithful
<1>4. UNCHANGED <<advance, consumed, tombstone, drawn>> => TombstoneInv'
  BY DEF TombstoneInv, TombstoneFaithful
<1> QED BY <1>1, <1>2, <1>3, <1>4, LendingSteps

(***************************************************************************)
(* A tombstone tells the truth about a default in every behaviour: the     *)
(* principal drawn, the agreed expiry, and a liquidation after the grace.  *)
(***************************************************************************)
THEOREM TombstoneFaithfulHolds == Spec => []TombstoneFaithful
<1>1. Init => TombstoneInv
  BY DEF Init, TombstoneInv, TombstoneFaithful, NoAdvance, NoTombstone
<1>2. IInv /\ TombstoneInv /\ [Next]_vars => TombstoneInv'
  BY TombstoneStep DEF IInv
<1>3. TombstoneInv => TombstoneFaithful
  BY DEF TombstoneInv
<1> QED BY <1>1, <1>2, <1>3, IInvHolds, PTL DEF Spec

\* The fee quoted under a valid curve is at most the principal.
LEMMA QuotedFeeBounded ==
  ASSUME TypeOK, validate(params.fee_curve), NEW n \in Nat,
         NEW expires_at \in Int, expires_at > now
  PROVE  QuotedFee(n, expires_at) <= n
<1> DEFINE u == compute_utilization_bps(total_assets, deployed_amount)
           tenor == expires_at - now
<1>1. total_assets \in Nat /\ deployed_amount \in Nat
      /\ params.fee_curve \in FeeCurve
  BY DEF TypeOK, U64, PoolParams
<1>2. u \in Nat
  <2>1. deployed_amount * BPS_DENOMINATOR \in Nat
    BY <1>1, ProductNat, PricingAssumption
  <2> QED BY <1>1, <2>1, FloorDivision, PricingAssumption DEF compute_utilization_bps
<1>3. tenor \in Nat
  BY DEF TypeOK
<1> HIDE DEF u, tenor
<1>4. compute_fee_amount(n, tenor, u, 0, params.fee_curve) <= n
  BY <1>1, <1>2, <1>3, FeeBounded
<1> QED BY <1>4 DEF QuotedFee, u, tenor

\* init_pool, propose_params and request_advance each keep their part of
\* FeeWithinPrincipal; no other step adds a curve or a fee.
LEMMA FeeStep ==
  ASSUME TypeOK, FeeWithinPrincipal, [Next]_vars
  PROVE  FeeWithinPrincipal'
<1>1. ASSUME NEW k \in Keys, NEW n \in Amounts, NEW nonce \in Nonces,
             NEW att \in Attestations, RequestAdvance(k, n, nonce, att)
      PROVE  FeeWithinPrincipal'
  <2>1. /\ n \in Nat /\ UNCHANGED <<params, pending_params>>
        /\ advance' = [advance EXCEPT ![k] = advance'[k]]
        /\ advance'[k].principal = n
    BY <1>1, RequestAdvanceEffect
  <2>2. /\ advance'[k].fee_owed = QuotedFee(n, att.expires_at)
        /\ att.expires_at > now
    BY <1>1 DEF RequestAdvance, Attested, Fresh, TypeOK
  <2>3. att.expires_at \in Int
    BY DomainAssumption DEF Attestation
  <2>4. advance'[k].fee_owed <= advance'[k].principal
    BY <2>1, <2>2, <2>3, QuotedFeeBounded DEF FeeWithinPrincipal
  <2>5. \A j \in Keys \ {k} : advance'[j] = advance[j]
    BY <2>1 DEF TypeOK
  <2> QED BY <2>1, <2>4, <2>5 DEF FeeWithinPrincipal
<1>2. ASSUME NEW k \in Keys, advance' = [advance EXCEPT ![k] = NoAdvance],
             UNCHANGED <<params, pending_params>>
      PROVE  FeeWithinPrincipal'
  <2>1. \A j \in Keys : advance'[j] = IF j = k THEN NoAdvance ELSE advance[j]
    BY <1>2 DEF TypeOK
  <2> QED BY <1>2, <2>1 DEF FeeWithinPrincipal, NoAdvance
<1>3. ASSUME NEW k \in Keys, NEW n \in Amounts, NEW memo \in Nonces,
             ClaimAndSettle(k, n, memo)
      PROVE  FeeWithinPrincipal'
  <2>1. /\ advance' = [advance EXCEPT ![k] = NoAdvance]
        /\ UNCHANGED <<params, pending_params>>
    BY <1>3, ClaimAndSettleEffect
  <2> QED BY <1>2, <2>1
<1>4. ASSUME NEW k \in Keys, Liquidate(k)
      PROVE  FeeWithinPrincipal'
  <2>1. /\ advance' = [advance EXCEPT ![k] = NoAdvance]
        /\ UNCHANGED <<params, pending_params>>
    BY <1>4, LiquidateEffect
  <2> QED BY <1>2, <2>1
<1>5. ASSUME NEW p \in InitParams, InitPool(p)
      PROVE  FeeWithinPrincipal'
  BY <1>5 DEF InitPool, FeeWithinPrincipal, pdaVars
<1>6. ASSUME NEW v \in Vaults, NEW p \in Proposals, ProposeParams(v, p)
      PROVE  FeeWithinPrincipal'
  <2>1. p \in PendingParams
    BY DomainAssumption
  <2>2. Staged(p).fee_curve = p.fee_curve
    BY <2>1 DEF Staged, PendingParams
  <2> QED BY <1>6, <2>2 DEF ProposeParams, FeeWithinPrincipal, pdaVars
<1>7. ASSUME ExecuteParams
      PROVE  FeeWithinPrincipal'
  BY <1>7 DEF ExecuteParams, InForce, FeeWithinPrincipal, pdaVars
<1>8. ASSUME \/ \E lp \in LPs, n \in Amounts : Deposit(lp, n)
             \/ \E lp \in LPs, n \in ShareAmounts : Withdraw(lp, n)
             \/ \E v \in Vaults, n \in Amounts : SkimProtocolFees(v, n)
             \/ \E n \in Amounts : DonateToVault(n)
             \/ \E lp \in LPs, n \in ShareAmounts : BurnShares(lp, n)
             \/ \E s \in Signers : RegistryChange(s)
             \/ Tick
             \/ UNCHANGED vars
      PROVE  FeeWithinPrincipal'
  <2>1. UNCHANGED <<params, pending_params, advance>>
    BY <1>8 DEF Deposit, Withdraw, SkimProtocolFees, DonateToVault, BurnShares,
       RegistryChange, Tick, vars, poolVars, pdaVars
  <2> QED BY <2>1 DEF FeeWithinPrincipal
<1> QED BY <1>1, <1>3, <1>4, <1>5, <1>6, <1>7, <1>8 DEF Next, OpenStep

(***************************************************************************)
(* No advance ever owes a fee above its principal, whichever of the curves *)
(* governance put in force it was priced with.                             *)
(***************************************************************************)
THEOREM FeeWithinPrincipalHolds == Spec => []FeeWithinPrincipal
<1>1. Init => FeeWithinPrincipal
  BY PricingAssumption
     DEF Init, FeeWithinPrincipal, NoParams, NoCurve, NoAdvance, validate
<1>2. TypeOK /\ FeeWithinPrincipal /\ [Next]_vars => FeeWithinPrincipal'
  BY FeeStep
<1> QED BY <1>1, <1>2, TypeCorrect, PTL DEF Spec

-----------------------------------------------------------------------------
(* Underwriting: the credit limit. *)

\* Releasing principal lowers the live principal of one agent.
LEMMA ReleaseLowers ==
  ASSUME TypeOK, NEW k \in Keys, NEW n \in Nat,
         ledger' = [ledger EXCEPT ![k[1]] = ReleasedLedger(@, n)]
  PROVE  \A a \in Agents :
           /\ ledger'[a].live_principal <= ledger[a].live_principal
           /\ ledger'[a].bump = ledger[a].bump
           /\ ledger'[a].window_start = ledger[a].window_start
           /\ ledger'[a].issued_in_window = ledger[a].issued_in_window
<1>1. ledger \in [Agents -> LedgerType] /\ k[1] \in Agents
  BY DEF TypeOK, Keys
<1>2. \A a \in Agents : ledger'[a] = IF a = k[1] THEN ReleasedLedger(ledger[a], n)
                                                  ELSE ledger[a]
  BY <1>1
<1>3. ASSUME NEW a \in Agents
      PROVE  /\ ReleasedLedger(ledger[a], n).live_principal
                  = ledger[a].live_principal - n
             /\ ReleasedLedger(ledger[a], n).bump = ledger[a].bump
             /\ ReleasedLedger(ledger[a], n).window_start = ledger[a].window_start
             /\ ReleasedLedger(ledger[a], n).issued_in_window
                  = ledger[a].issued_in_window
             /\ ledger[a].live_principal \in Nat
  BY <1>1 DEF LedgerType, ReleasedLedger, U64
<1> QED BY <1>2, <1>3

\* No instruction leaves an agent with more live principal than an attestation
\* issued to it covers.
LEMMA CreditStep ==
  ASSUME TypeOK, TypeOK', AccountsConsistent, ExposureMatchesAdvances,
         ReplayStaysWithinCredit, [Next]_vars
  PROVE  ReplayStaysWithinCredit'
<1> DEFINE Covers(att, a, live) ==
             /\ att.agent = a /\ att.pool = PoolKey
             /\ att.chain_id = pool.chain_id /\ att.version = VERSION
             /\ att.outstanding + live <= att.credit_limit
<1>0. /\ \A att \in Attestations : att.outstanding \in Nat /\ att.credit_limit \in Nat
      /\ \A a \in Agents : /\ ledger[a].live_principal \in Nat
                           /\ ledger'[a].live_principal \in Nat
  BY DomainAssumption DEF Attestation, U64, TypeOK, LedgerType
<1>1. \A a \in Agents : ledger[a].live_principal > 0 =>
        \E att \in Attestations : Covers(att, a, ledger[a].live_principal)
  BY DEF ReplayStaysWithinCredit
<1>2. ASSUME pool' = pool,
             \A a \in Agents : ledger'[a].live_principal > 0 =>
               \E att \in Attestations : Covers(att, a, ledger'[a].live_principal)
      PROVE  ReplayStaysWithinCredit'
  BY <1>2 DEF ReplayStaysWithinCredit
<1>3. ASSUME NEW k \in Keys, NEW n \in Amounts, NEW nonce \in Nonces,
             NEW att \in Attestations, RequestAdvance(k, n, nonce, att)
      PROVE  ReplayStaysWithinCredit'
  <2>1. /\ k[1] \in Agents /\ n \in Nat /\ n > 0 /\ pool' = pool
        /\ ledger' = [ledger EXCEPT ![k[1]] = ledger'[k[1]]]
        /\ ledger'[k[1]].live_principal = ledger[k[1]].live_principal + n
    BY <1>3, RequestAdvanceEffect
  <2>2. /\ att.agent = k[1] /\ att.pool = PoolKey
        /\ att.chain_id = pool.chain_id /\ att.version = VERSION
        /\ n <= SatSub(att.credit_limit,
                       att.outstanding + RolledLedger(k[1]).live_principal)
    BY <1>3 DEF RequestAdvance, Attested, Underwritten
  <2>3. RolledLedger(k[1]).live_principal = ledger[k[1]].live_principal
    BY <2>1, RolledLedgerType
  <2>4. att.outstanding + ledger'[k[1]].live_principal <= att.credit_limit
    BY <1>0, <2>1, <2>2, <2>3 DEF SatSub
  <2>5. Covers(att, k[1], ledger'[k[1]].live_principal)
    BY <2>2, <2>4
  <2>6. \A a \in Agents \ {k[1]} : ledger'[a] = ledger[a]
    BY <2>1 DEF TypeOK
  <2> QED BY <1>1, <1>2, <2>1, <2>5, <2>6
<1>4. ASSUME pool' = pool,
             \A a \in Agents :
               ledger'[a].live_principal <= ledger[a].live_principal
      PROVE  ReplayStaysWithinCredit'
  <2>1. ASSUME NEW a \in Agents, ledger'[a].live_principal > 0
        PROVE  \E att \in Attestations : Covers(att, a, ledger'[a].live_principal)
    <3>1. ledger[a].live_principal > 0
      BY <1>0, <1>4, <2>1
    <3>2. PICK att \in Attestations : Covers(att, a, ledger[a].live_principal)
      BY <1>1, <3>1
    <3>3. Covers(att, a, ledger'[a].live_principal)
      BY <1>0, <1>4, <3>2
    <3> QED BY <3>3
  <2> QED BY <1>2, <1>4, <2>1
<1>5. ASSUME NEW k \in Keys, NEW n \in Amounts, NEW memo \in Nonces,
             ClaimAndSettle(k, n, memo)
      PROVE  ReplayStaysWithinCredit'
  <2>1. /\ advance[k].principal \in Nat /\ pool' = pool
        /\ ledger' = [ledger EXCEPT ![k[1]] =
                        ReleasedLedger(@, advance[k].principal)]
    BY <1>5, ClaimAndSettleEffect DEF U64
  <2> QED BY <1>4, <2>1, ReleaseLowers
<1>6. ASSUME NEW k \in Keys, Liquidate(k)
      PROVE  ReplayStaysWithinCredit'
  <2>1. /\ advance[k].principal \in Nat /\ pool' = pool
        /\ ledger' = [ledger EXCEPT ![k[1]] =
                        ReleasedLedger(@, advance[k].principal)]
    BY <1>6, LiquidateEffect DEF U64
  <2> QED BY <1>4, <2>1, ReleaseLowers
<1>7. ASSUME ledger' = ledger, pool' = pool
      PROVE  ReplayStaysWithinCredit'
  BY <1>7 DEF ReplayStaysWithinCredit
<1>8. ASSUME ledger' = ledger, pool.bump = 0
      PROVE  ReplayStaysWithinCredit'
  <2>1. \A k \in Keys : Principal[k] = 0
    BY <1>8, PrincipalValues DEF AccountsConsistent
  <2>2. ASSUME NEW a \in Agents PROVE ledger[a].live_principal = 0
    <3>1. \A k \in AgentKeys(a) : Principal[k] = 0
      BY <2>1, KeysFinite
    <3>2. Tally(Principal, AgentKeys(a)) = 0
      BY <3>1, TallyZero
    <3> QED BY <3>2 DEF ExposureMatchesAdvances
  <2>3. \A a \in Agents : ~ (ledger'[a].live_principal > 0)
    BY <1>8, <2>2
  <2> QED BY <2>3 DEF ReplayStaysWithinCredit
<1> QED BY <1>3, <1>5, <1>6, <1>7, <1>8, LendingSteps

(***************************************************************************)
(* However often attestations are replayed, an agent's live principal stays *)
(* within the limit of some attestation issued for it.                      *)
(***************************************************************************)
THEOREM ReplayHolds == Spec => []ReplayStaysWithinCredit
<1>1. Init => ReplayStaysWithinCredit
  BY DEF Init, ReplayStaysWithinCredit, NoLedger
<1>2. IInv /\ IInv' /\ ReplayStaysWithinCredit /\ [Next]_vars
        => ReplayStaysWithinCredit'
  BY CreditStep DEF IInv
<1> QED BY <1>1, <1>2, IInvHolds, PTL DEF Spec

-----------------------------------------------------------------------------
(* Underwriting: the issuance window. *)

\* DrawnBetween of given histories: the amounts drawn per key, with the records
\* that hold their times.
DrawnIn(amounts, records, a, from, to) ==
  Tally(amounts, {k \in AgentKeys(a) : records[k].created_at \in from .. to})

\* What an agent drew in an interval is a natural number.
LEMMA DrawnInType ==
  ASSUME NEW f, \A k \in Keys : f[k] \in Nat, NEW r, NEW a \in Agents,
         NEW from, NEW to
  PROVE  DrawnIn(f, r, a, from, to) \in Nat
<1> DEFINE S == {k \in AgentKeys(a) : r[k].created_at \in from .. to}
<1>1. IsFiniteSet(AgentKeys(a)) /\ S \subseteq AgentKeys(a) /\ S \subseteq Keys
  BY KeysFinite
<1> HIDE DEF S
<1>2. IsFiniteSet(S)
  BY <1>1, FS_Subset
<1>3. Tally(f, S) \in Nat
  BY <1>1, <1>2, TallyType
<1> QED BY <1>3 DEF DrawnIn, S

\* An agent drew nothing in an interval none of its draws falls into.
LEMMA DrawnInZero ==
  ASSUME NEW f, NEW r, NEW a, NEW from, NEW to,
         \A k \in AgentKeys(a) : r[k].created_at \in from .. to => f[k] = 0
  PROVE  DrawnIn(f, r, a, from, to) = 0
BY TallyZero DEF DrawnIn

\* A draw at time t counts in the intervals that contain t, for its own agent.
LEMMA DrawnInRaised ==
  ASSUME NEW k \in Keys, NEW n \in Nat, NEW t,
         NEW f, \A j \in Keys : f[j] \in Nat, f[k] = 0, NEW r,
         NEW g, g[k] = n, \A j \in Keys \ {k} : g[j] = f[j],
         NEW s, s[k].created_at = t, \A j \in Keys \ {k} : s[j] = r[j],
         NEW a \in Agents, NEW from, NEW to
  PROVE  /\ a = k[1] /\ t \in from .. to =>
              DrawnIn(g, s, a, from, to) = DrawnIn(f, r, a, from, to) + n
         /\ ~ (a = k[1] /\ t \in from .. to) =>
              DrawnIn(g, s, a, from, to) = DrawnIn(f, r, a, from, to)
<1> DEFINE before == {j \in AgentKeys(a) : r[j].created_at \in from .. to}
           after == {j \in AgentKeys(a) : s[j].created_at \in from .. to}
<1>1. /\ IsFiniteSet(AgentKeys(a)) /\ AgentKeys(a) \subseteq Keys
      /\ k \in AgentKeys(a) <=> a = k[1]
  BY KeysFinite DEF AgentKeys, Keys
<1>2. /\ before \subseteq Keys /\ after \subseteq Keys
      /\ \A j \in Keys \ {k} : j \in before <=> j \in after
      /\ k \in after <=> a = k[1] /\ t \in from .. to
  BY <1>1
<1>3. IsFiniteSet(after)
  BY <1>1, FS_Subset
<1>4. /\ DrawnIn(g, s, a, from, to) = Tally(g, after)
      /\ DrawnIn(f, r, a, from, to) = Tally(f, before)
  BY DEF DrawnIn
<1>0. DrawnIn(f, r, a, from, to) \in Nat
  BY DrawnInType
<1> HIDE DEF before, after
<1>5. CASE k \in after
  <2>1. \A j \in after : g[j] \in Nat
    BY <1>2
  <2>2. Tally(g, after) = g[k] + Tally(g, after \ {k})
    BY <1>3, <1>5, <2>1, TallySplit
  <2>3. Tally(g, after \ {k}) = Tally(f, before)
    <3>1. \A j \in (after \ {k}) \cap before : g[j] = f[j]
      BY <1>2
    <3>2. \A j \in (after \ {k}) \ before : g[j] = 0
      BY <1>2
    <3>3. \A j \in before \ (after \ {k}) : f[j] = 0
      BY <1>2
    <3> QED BY <3>1, <3>2, <3>3, TallySupport
  <2> QED BY <1>0, <1>2, <1>4, <1>5, <2>2, <2>3
<1>6. CASE k \notin after
  <2>1. \A j \in after \cap before : g[j] = f[j]
    BY <1>2, <1>6
  <2>2. \A j \in after \ before : g[j] = 0
    BY <1>2, <1>6
  <2>3. \A j \in before \ after : f[j] = 0
    BY <1>2
  <2>4. Tally(g, after) = Tally(f, before)
    BY <2>1, <2>2, <2>3, TallySupport
  <2> QED BY <1>0, <1>2, <1>4, <1>6, <2>4
<1> QED BY <1>5, <1>6

\* A shorter interval holds no more draws.
LEMMA DrawnInMonotone ==
  ASSUME NEW f, \A k \in Keys : f[k] \in Nat,
         NEW r, \A k \in Keys : r[k].created_at \in Int, NEW a \in Agents,
         NEW from \in Int, NEW to \in Int, NEW lo \in Int, NEW hi \in Int,
         lo <= from, to <= hi
  PROVE  DrawnIn(f, r, a, from, to) <= DrawnIn(f, r, a, lo, hi)
<1> DEFINE S == {k \in AgentKeys(a) : r[k].created_at \in from .. to}
           T == {k \in AgentKeys(a) : r[k].created_at \in lo .. hi}
<1>1. IsFiniteSet(AgentKeys(a)) /\ T \subseteq AgentKeys(a) /\ T \subseteq Keys
  BY KeysFinite
<1>2. S \subseteq T
  BY <1>1, KeysFinite
<1> HIDE DEF S, T
<1>3. IsFiniteSet(T)
  BY <1>1, FS_Subset
<1>4. Tally(f, S) <= Tally(f, T)
  BY <1>1, <1>2, <1>3, TallyMonotone
<1> QED BY <1>4 DEF DrawnIn, S, T

\* An interval that starts at lo or later and whose draws are not after hi is
\* covered by the intervals lo .. mid - 1 and mid .. hi.
LEMMA DrawnInCovered ==
  ASSUME NEW f, \A k \in Keys : f[k] \in Nat,
         NEW r, \A k \in Keys : r[k].created_at \in Int, NEW a \in Agents,
         NEW from \in Int, NEW to \in Int,
         NEW lo \in Int, NEW mid \in Int, NEW hi \in Int,
         lo <= from, \A k \in Keys : r[k].created_at <= hi
  PROVE  DrawnIn(f, r, a, from, to)
           <= DrawnIn(f, r, a, lo, mid - 1) + DrawnIn(f, r, a, mid, hi)
<1> DEFINE S == {k \in AgentKeys(a) : r[k].created_at \in from .. to}
           A == {k \in AgentKeys(a) : r[k].created_at \in lo .. (mid - 1)}
           B == {k \in AgentKeys(a) : r[k].created_at \in mid .. hi}
<1>1. /\ IsFiniteSet(AgentKeys(a)) /\ AgentKeys(a) \subseteq Keys
      /\ A \subseteq AgentKeys(a) /\ B \subseteq AgentKeys(a)
  BY KeysFinite
<1>2. S \subseteq A \cup B
  <2> SUFFICES ASSUME NEW k \in S PROVE k \in A \cup B
    OBVIOUS
  <2>1. /\ k \in AgentKeys(a) /\ r[k].created_at \in Int
        /\ r[k].created_at >= from /\ r[k].created_at <= hi
    BY <1>1
  <2> QED BY <2>1
<1> HIDE DEF S, A, B
<1>3. IsFiniteSet(A) /\ IsFiniteSet(B) /\ \A k \in A \cup B : f[k] \in Nat
  BY <1>1, FS_Subset
<1>4. Tally(f, S) <= Tally(f, A) + Tally(f, B)
  BY <1>2, <1>3, TallyCovered
<1> QED BY <1>4 DEF DrawnIn, S, A, B

(***************************************************************************)
(* LedgerCountsWindow speaks of the window that is open.  To know that a   *)
(* roll forgets exactly the draws that precede it, one needs that all      *)
(* draws lie before the end of that window, and none in the future.        *)
(***************************************************************************)
WindowInv ==
  /\ \A k \in Keys : consumed[k].created_at <= now
  /\ \A a \in Agents :
       /\ ledger[a].bump = 0 => \A k \in AgentKeys(a) : drawn[k] = 0
       /\ ledger[a].bump # 0 =>
            /\ ledger[a].window_start <= now
            /\ \A k \in AgentKeys(a) :
                 drawn[k] > 0 => consumed[k].created_at
                                   < ledger[a].window_start + AGENT_WINDOW_SECONDS
            /\ ledger[a].issued_in_window
                 = DrawnIn(drawn, consumed, a, ledger[a].window_start, now)

\* The types the window lemmas need.
LEMMA WindowTypes ==
  ASSUME TypeOK
  PROVE  /\ now \in Nat /\ AGENT_WINDOW_SECONDS \in Nat \ {0}
         /\ \A k \in Keys : drawn[k] \in Nat /\ consumed[k].created_at \in Nat
         /\ \A a \in Agents : ledger[a].window_start \in Nat
                              /\ ledger[a].issued_in_window \in Nat
         /\ \A a \in Agents : \A k \in AgentKeys(a) : k \in Keys
BY EscrowAssumption, KeysFinite DEF TypeOK, U64, ConsumedType, LedgerType

\* What request_advance does to the window of its agent: it keeps the open one
\* or, when there is none or it has run out, starts a new one now.
LEMMA WindowRolls ==
  ASSUME TypeOK, NEW k \in Keys, NEW n \in Amounts, NEW nonce \in Nonces,
         NEW att \in Attestations, RequestAdvance(k, n, nonce, att)
  PROVE  /\ ledger'[k[1]].issued_in_window \in Nat
         /\ params.agent_window_cap > 0
              => ledger'[k[1]].issued_in_window <= params.agent_window_cap
         /\ \/ /\ \/ ledger[k[1]].bump = 0
                  \/ now - ledger[k[1]].window_start >= AGENT_WINDOW_SECONDS
               /\ ledger'[k[1]].window_start = now
               /\ ledger'[k[1]].issued_in_window = n
            \/ /\ ledger[k[1]].bump # 0
               /\ now - ledger[k[1]].window_start < AGENT_WINDOW_SECONDS
               /\ ledger'[k[1]].window_start = ledger[k[1]].window_start
               /\ ledger'[k[1]].issued_in_window
                    = ledger[k[1]].issued_in_window + n
<1> DEFINE a == k[1]
           led == RolledLedger(a)
<1>1. a \in Agents /\ ledger[a] \in LedgerType /\ n \in Nat
  BY DomainAssumption DEF Keys, TypeOK, U64
<1>2. led \in LedgerType
  BY <1>1, RolledLedgerType
<1>3. \/ /\ \/ ledger[a].bump = 0
            \/ now - ledger[a].window_start >= AGENT_WINDOW_SECONDS
         /\ led.window_start = now /\ led.issued_in_window = 0
      \/ /\ ledger[a].bump # 0
         /\ ~ (now - ledger[a].window_start >= AGENT_WINDOW_SECONDS)
         /\ led.window_start = ledger[a].window_start
         /\ led.issued_in_window = ledger[a].issued_in_window
  BY <1>1 DEF RolledLedger, LedgerType
<1>4. /\ ledger' = [ledger EXCEPT ![a] =
                      [led EXCEPT !.issued_in_window = @ + n,
                                  !.live_principal = @ + n]]
      /\ WithinWindowCap(led, n)
  BY DEF RequestAdvance
<1> HIDE DEF led
<1>5. /\ ledger'[a].window_start = led.window_start
      /\ ledger'[a].issued_in_window = led.issued_in_window + n
  BY <1>1, <1>2, <1>4 DEF LedgerType, TypeOK
<1>6. led.issued_in_window \in Nat
  BY <1>2 DEF LedgerType, U64
<1>7. ~ (now - ledger[a].window_start >= AGENT_WINDOW_SECONDS)
        <=> now - ledger[a].window_start < AGENT_WINDOW_SECONDS
  BY <1>1, EscrowAssumption DEF TypeOK, LedgerType
<1>8. params.agent_window_cap > 0
        => led.issued_in_window + n <= params.agent_window_cap
  BY <1>4 DEF WithinWindowCap
<1>9. CASE /\ ledger[a].bump # 0
           /\ ~ (now - ledger[a].window_start >= AGENT_WINDOW_SECONDS)
  BY <1>1, <1>3, <1>5, <1>6, <1>7, <1>8, <1>9
<1>10. CASE \/ ledger[a].bump = 0
            \/ now - ledger[a].window_start >= AGENT_WINDOW_SECONDS
  BY <1>1, <1>3, <1>5, <1>6, <1>8, <1>10
<1> QED BY <1>9, <1>10

\* What request_advance does to the history of draws.
LEMMA DrawCounts ==
  ASSUME TypeOK, DrawnOnce, NEW k \in Keys, NEW n \in Amounts, NEW nonce \in Nonces,
         NEW att \in Attestations, RequestAdvance(k, n, nonce, att)
  PROVE  \A a \in Agents, from \in Int, to \in Int :
           /\ a = k[1] /\ now \in from .. to =>
                DrawnIn(drawn', consumed', a, from, to)
                  = DrawnIn(drawn, consumed, a, from, to) + n
           /\ ~ (a = k[1] /\ now \in from .. to) =>
                DrawnIn(drawn', consumed', a, from, to)
                  = DrawnIn(drawn, consumed, a, from, to)
<1> DEFINE f == drawn
           g == drawn'
           r == consumed
           s == consumed'
           t == now
<1>1. /\ n \in Nat /\ consumed[k].bump = 0
      /\ consumed' = [consumed EXCEPT ![k] = consumed'[k]]
      /\ consumed'[k].created_at = now
      /\ drawn' = [drawn EXCEPT ![k] = @ + n]
  BY RequestAdvanceEffect
<1>2. \A j \in Keys : f[j] \in Nat
  BY DEF TypeOK
<1>3. f[k] = 0
  BY <1>1, <1>2 DEF DrawnOnce
<1>4. g[k] = n /\ \A j \in Keys \ {k} : g[j] = f[j]
  BY <1>1, <1>3 DEF TypeOK
<1>5. s[k].created_at = t /\ \A j \in Keys \ {k} : s[j] = r[j]
  BY <1>1 DEF TypeOK
<1> HIDE DEF f, g, r, s, t
<1>6. ASSUME NEW a \in Agents, NEW from \in Int, NEW to \in Int
      PROVE  /\ a = k[1] /\ t \in from .. to =>
                  DrawnIn(g, s, a, from, to) = DrawnIn(f, r, a, from, to) + n
             /\ ~ (a = k[1] /\ t \in from .. to) =>
                  DrawnIn(g, s, a, from, to) = DrawnIn(f, r, a, from, to)
  <2>1. n \in Nat
    BY <1>1
  <2>2. g[k] = n /\ s[k].created_at = t
    BY <1>4, <1>5
  <2>3. \A j \in Keys \ {k} : g[j] = f[j]
    BY <1>4
  <2>4. \A j \in Keys \ {k} : s[j] = r[j]
    BY <1>5
  <2> QED BY <1>2, <1>3, <2>1, <2>2, <2>3, <2>4, DrawnInRaised, SMTT(60)
<1> QED BY <1>6 DEF f, g, r, s, t

\* Every step keeps WindowInv: a draw is counted by the window it falls into,
\* a roll starts from zero after all earlier draws, and time alone adds none.
LEMMA WindowStep ==
  ASSUME TypeOK, TypeOK', AccountsConsistent, DrawnOnce, WindowInv, [Next]_vars
  PROVE  WindowInv'
<1>0. /\ now \in Nat /\ AGENT_WINDOW_SECONDS \in Nat \ {0}
      /\ \A k \in Keys : drawn[k] \in Nat /\ consumed[k].created_at \in Nat
      /\ \A a \in Agents : ledger[a].window_start \in Nat
                           /\ ledger[a].issued_in_window \in Nat
      /\ \A a \in Agents : \A k \in AgentKeys(a) : k \in Keys
  BY WindowTypes
<1>1. ASSUME NEW k \in Keys, NEW n \in Amounts, NEW nonce \in Nonces,
             NEW att \in Attestations, RequestAdvance(k, n, nonce, att)
      PROVE  WindowInv'
  <2> DEFINE a == k[1]
             ws == ledger'[a].window_start
  <2>1. /\ a \in Agents /\ n \in Nat /\ now' = now
        /\ consumed' = [consumed EXCEPT ![k] = consumed'[k]]
        /\ consumed'[k].created_at = now
        /\ ledger' = [ledger EXCEPT ![a] = ledger'[a]]
        /\ ledger'[a].bump # 0
        /\ drawn' = [drawn EXCEPT ![k] = @ + n]
    BY <1>1, RequestAdvanceEffect
  <2>2. /\ \A j \in Keys \ {k} : consumed'[j] = consumed[j] /\ drawn'[j] = drawn[j]
        /\ \A b \in Agents \ {a} : ledger'[b] = ledger[b]
    BY <2>1 DEF TypeOK
  <2>3. \A j \in Keys : consumed'[j].created_at <= now
    BY <1>0, <2>1, <2>2 DEF WindowInv
  <2>4. \/ /\ \/ ledger[a].bump = 0
              \/ now - ledger[a].window_start >= AGENT_WINDOW_SECONDS
           /\ ws = now /\ ledger'[a].issued_in_window = n
        \/ /\ ledger[a].bump # 0
           /\ now - ledger[a].window_start < AGENT_WINDOW_SECONDS
           /\ ws = ledger[a].window_start
           /\ ledger'[a].issued_in_window = ledger[a].issued_in_window + n
    BY <1>1, WindowRolls
  <2>5. ws \in Nat /\ ws <= now /\ now < ws + AGENT_WINDOW_SECONDS
    BY <1>0, <2>1, <2>4 DEF WindowInv
  <2>6. \A j \in AgentKeys(a) :
          drawn'[j] > 0 => consumed'[j].created_at < ws + AGENT_WINDOW_SECONDS
    <3>1. \A j \in Keys : consumed'[j].created_at \in Nat
      BY DEF TypeOK, ConsumedType
    <3> HIDE DEF ws
    <3>2. \A j \in Keys : consumed'[j].created_at < ws + AGENT_WINDOW_SECONDS
      BY <1>0, <2>3, <2>5, <3>1
    <3> QED BY <1>0, <2>1, <3>2
  <2>7. DrawnIn(drawn', consumed', a, ws, now)
          = DrawnIn(drawn, consumed, a, ws, now) + n
    <3>1. \A from \in Int, to \in Int :
            now \in from .. to =>
              DrawnIn(drawn', consumed', a, from, to)
                = DrawnIn(drawn, consumed, a, from, to) + n
      <4>1. \A b \in Agents, from \in Int, to \in Int :
              b = k[1] /\ now \in from .. to =>
                DrawnIn(drawn', consumed', b, from, to)
                  = DrawnIn(drawn, consumed, b, from, to) + n
        BY <1>1, DrawCounts
      <4> QED BY <2>1, <4>1
    <3>2. ws \in Int /\ now \in Int /\ now \in ws .. now
      BY <1>0, <2>5
    <3> HIDE DEF ws, a
    <3> QED BY <3>1, <3>2
  <2>8. ledger'[a].issued_in_window = DrawnIn(drawn', consumed', a, ws, now)
    <3>1. CASE \/ ledger[a].bump = 0
               \/ now - ledger[a].window_start >= AGENT_WINDOW_SECONDS
      <4>1. ws = now /\ ledger'[a].issued_in_window = n
        BY <1>0, <2>1, <2>4, <3>1
      <4>2. \A j \in AgentKeys(a) :
              consumed[j].created_at \in ws .. now => drawn[j] = 0
        BY <1>0, <2>1, <3>1, <4>1 DEF WindowInv
      <4>3. DrawnIn(drawn, consumed, a, ws, now) = 0
        BY <4>2, DrawnInZero
      <4> QED BY <2>1, <2>7, <4>1, <4>3
    <3>2. CASE /\ ledger[a].bump # 0
               /\ now - ledger[a].window_start < AGENT_WINDOW_SECONDS
      <4>1. ws = ledger[a].window_start
            /\ ledger'[a].issued_in_window = ledger[a].issued_in_window + n
        BY <1>0, <2>1, <2>4, <3>2
      <4>2. ledger[a].issued_in_window = DrawnIn(drawn, consumed, a, ws, now)
        BY <2>1, <3>2, <4>1 DEF WindowInv
      <4> QED BY <2>7, <4>1, <4>2
    <3> QED BY <2>4, <3>1, <3>2
  <2>9. ASSUME NEW b \in Agents \ {a}
        PROVE  /\ \A j \in AgentKeys(b) :
                    drawn'[j] = drawn[j] /\ consumed'[j] = consumed[j]
               /\ ledger[b].bump # 0 =>
                    DrawnIn(drawn', consumed', b, ledger[b].window_start, now)
                      = DrawnIn(drawn, consumed, b, ledger[b].window_start, now)
    <3>1. \A j \in AgentKeys(b) : j \in Keys \ {k}
      BY DEF AgentKeys, Keys
    <3> QED BY <1>0, <1>1, <2>2, <3>1, DrawCounts
  <2> HIDE DEF ws
  <2>10. ledger'[a].window_start = ws
    BY DEF ws
  <2> HIDE DEF a
  <2>11. ASSUME NEW b \in Agents
         PROVE  /\ ledger'[b].bump = 0 => \A j \in AgentKeys(b) : drawn'[j] = 0
                /\ ledger'[b].bump # 0 =>
                     /\ ledger'[b].window_start <= now
                     /\ \A j \in AgentKeys(b) :
                          drawn'[j] > 0 =>
                            consumed'[j].created_at
                              < ledger'[b].window_start + AGENT_WINDOW_SECONDS
                     /\ ledger'[b].issued_in_window
                          = DrawnIn(drawn', consumed', b,
                                    ledger'[b].window_start, now)
    <3>1. CASE b = a
      BY <2>1, <2>5, <2>6, <2>8, <2>10, <3>1
    <3>2. CASE b # a
      <4>1. ledger'[b] = ledger[b]
        BY <2>2, <3>2
      <4> QED BY <2>9, <3>2, <4>1 DEF WindowInv
    <3> QED BY <3>1, <3>2
  <2> QED BY <2>1, <2>3, <2>11 DEF WindowInv
<1>2. ASSUME UNCHANGED <<consumed, drawn, now>>,
             \A a \in Agents :
               /\ ledger'[a].bump = ledger[a].bump
               /\ ledger'[a].window_start = ledger[a].window_start
               /\ ledger'[a].issued_in_window = ledger[a].issued_in_window
      PROVE  WindowInv'
  BY <1>2 DEF WindowInv
<1>3. ASSUME NEW k \in Keys, NEW n \in Amounts, NEW memo \in Nonces,
             ClaimAndSettle(k, n, memo)
      PROVE  WindowInv'
  <2>1. /\ advance[k].principal \in Nat
        /\ ledger' = [ledger EXCEPT ![k[1]] =
                        ReleasedLedger(@, advance[k].principal)]
        /\ UNCHANGED <<consumed, drawn, now>>
    BY <1>3, ClaimAndSettleEffect DEF U64, histVars
  <2> QED BY <1>2, <2>1, ReleaseLowers
<1>4. ASSUME NEW k \in Keys, Liquidate(k)
      PROVE  WindowInv'
  <2>1. /\ advance[k].principal \in Nat
        /\ ledger' = [ledger EXCEPT ![k[1]] =
                        ReleasedLedger(@, advance[k].principal)]
        /\ UNCHANGED <<consumed, drawn, now>>
    BY <1>4, LiquidateEffect DEF U64, histVars
  <2> QED BY <1>2, <2>1, ReleaseLowers
<1>5. ASSUME UNCHANGED <<consumed, ledger, drawn>>, now' = now + 1
      PROVE  WindowInv'
  <2>1. ASSUME NEW a \in Agents
        PROVE  DrawnIn(drawn, consumed, a, ledger[a].window_start, now + 1)
                 = DrawnIn(drawn, consumed, a, ledger[a].window_start, now)
    <3>1. \A k \in AgentKeys(a) :
            consumed[k].created_at \in ledger[a].window_start .. (now + 1)
              <=> consumed[k].created_at \in ledger[a].window_start .. now
      BY <1>0 DEF WindowInv
    <3>2. {k \in AgentKeys(a) :
             consumed[k].created_at \in ledger[a].window_start .. (now + 1)}
            = {k \in AgentKeys(a) :
                 consumed[k].created_at \in ledger[a].window_start .. now}
      BY <3>1
    <3> QED BY <3>2 DEF DrawnIn
  <2>2. /\ \A k \in Keys : consumed[k].created_at <= now + 1
        /\ \A a \in Agents : ledger[a].bump # 0 => ledger[a].window_start <= now + 1
    BY <1>0 DEF WindowInv
  <2> QED BY <1>5, <2>1, <2>2 DEF WindowInv
<1>6. ASSUME UNCHANGED <<consumed, ledger, drawn, now>>
      PROVE  WindowInv'
  BY <1>6 DEF WindowInv
<1> QED BY <1>1, <1>3, <1>4, <1>5, <1>6, LendingSteps

\* WindowInv holds in every behaviour of the escrow.
LEMMA WindowInvHolds == Spec => []WindowInv
<1>1. Init => WindowInv
  BY KeysFinite DEF Init, WindowInv, NoLedger, NoConsumed
<1>2. IInv /\ IInv' /\ WindowInv /\ [Next]_vars => WindowInv'
  BY WindowStep DEF IInv
<1> QED BY <1>1, <1>2, IInvHolds, PTL DEF Spec

(***************************************************************************)
(* issued_in_window is exactly what the agent drew since window_start, at  *)
(* every moment and through every roll.                                    *)
(***************************************************************************)
THEOREM LedgerCountsWindowHolds == Spec => []LedgerCountsWindow
<1>1. WindowInv => LedgerCountsWindow
  BY DEF WindowInv, LedgerCountsWindow, DrawnBetween, DrawnIn
<1> QED BY <1>1, WindowInvHolds, PTL

\* The cap in force and the one pending are among those governance uses.
CapsInv ==
  /\ pool.bump # 0 => params.agent_window_cap \in WindowCaps
  /\ \A p \in pending_params : p.agent_window_cap \in WindowCaps

\* Caps enter through init_pool and propose_params only.
LEMMA CapsStep ==
  ASSUME CapsInv, [Next]_vars
  PROVE  CapsInv'
<1>1. ASSUME NEW p \in InitParams, InitPool(p)
      PROVE  CapsInv'
  BY <1>1 DEF InitPool, CapsInv, WindowCaps
<1>2. ASSUME NEW v \in Vaults, NEW p \in Proposals, ProposeParams(v, p)
      PROVE  CapsInv'
  <2>1. p \in PendingParams
    BY DomainAssumption
  <2>2. Staged(p).agent_window_cap = p.agent_window_cap
    BY <2>1 DEF Staged, PendingParams
  <2>3. /\ pending_params' = {Staged(p)} /\ UNCHANGED <<pool, params>>
    BY <1>2 DEF ProposeParams
  <2> QED BY <2>2, <2>3 DEF CapsInv, WindowCaps
<1>3. ASSUME ExecuteParams
      PROVE  CapsInv'
  <2>1. PICK p \in pending_params : params' = InForce(p)
    BY <1>3 DEF ExecuteParams
  <2>2. params'.agent_window_cap = p.agent_window_cap
    BY <2>1 DEF InForce
  <2> QED BY <1>3, <2>2 DEF ExecuteParams, CapsInv
<1>4. ASSUME NEW k \in Keys, NEW n \in Amounts, NEW nonce \in Nonces,
             NEW att \in Attestations, RequestAdvance(k, n, nonce, att)
      PROVE  UNCHANGED <<pool, params, pending_params>>
  BY <1>4 DEF RequestAdvance
<1>5. ASSUME NEW k \in Keys, NEW n \in Amounts, NEW memo \in Nonces,
             ClaimAndSettle(k, n, memo)
      PROVE  UNCHANGED <<pool, params, pending_params>>
  BY <1>5 DEF ClaimAndSettle
<1>6. ASSUME \/ \E lp \in LPs, n \in Amounts : Deposit(lp, n)
             \/ \E lp \in LPs, n \in ShareAmounts : Withdraw(lp, n)
             \/ \E k \in Keys : Liquidate(k)
             \/ \E v \in Vaults, n \in Amounts : SkimProtocolFees(v, n)
             \/ \E n \in Amounts : DonateToVault(n)
             \/ \E lp \in LPs, n \in ShareAmounts : BurnShares(lp, n)
             \/ \E s \in Signers : RegistryChange(s)
             \/ Tick
             \/ UNCHANGED vars
      PROVE  UNCHANGED <<pool, params, pending_params>>
  BY <1>6 DEF Deposit, Withdraw, Liquidate, SkimProtocolFees, DonateToVault,
     BurnShares, RegistryChange, Tick, vars, poolVars
<1>7. UNCHANGED <<pool, params, pending_params>> => CapsInv'
  BY DEF CapsInv
<1> QED BY <1>1, <1>2, <1>3, <1>4, <1>5, <1>6, <1>7 DEF Next, OpenStep

CapsWithin(cap) == \A c \in WindowCaps : c > 0 /\ c <= cap

(***************************************************************************)
(* The bound on every trailing window is inductive once the two halves it  *)
(* may straddle are bounded each: the open window by its cap, and the      *)
(* stretch of the same length before it, which a roll takes over from the  *)
(* window that has run out.                                                *)
(***************************************************************************)
TrailInv ==
  \A cap \in U64 : CapsWithin(cap) =>
    \A a \in Agents :
      /\ ledger[a].bump # 0 =>
           /\ ledger[a].issued_in_window <= cap
           /\ DrawnIn(drawn, consumed, a,
                      ledger[a].window_start - AGENT_WINDOW_SECONDS,
                      ledger[a].window_start - 1) <= cap
      /\ \A t \in Int :
           DrawnIn(drawn, consumed, a, t, t + AGENT_WINDOW_SECONDS - 1) <= 2 * cap

\* A draw keeps TrailInv for its agent.
LEMMA TrailDraw ==
  ASSUME TypeOK, TypeOK', AccountsConsistent, DrawnOnce, WindowInv, WindowInv',
         CapsInv, TrailInv,
         NEW k \in Keys, NEW n \in Amounts, NEW nonce \in Nonces,
         NEW att \in Attestations, RequestAdvance(k, n, nonce, att),
         NEW cap \in U64, CapsWithin(cap)
  PROVE  /\ ledger'[k[1]].issued_in_window <= cap
         /\ DrawnIn(drawn', consumed', k[1],
                    ledger'[k[1]].window_start - AGENT_WINDOW_SECONDS,
                    ledger'[k[1]].window_start - 1) <= cap
         /\ \A t \in Int :
              DrawnIn(drawn', consumed', k[1], t, t + AGENT_WINDOW_SECONDS - 1)
                <= 2 * cap
<1> DEFINE a == k[1]
           W == AGENT_WINDOW_SECONDS
           old == ledger[a].window_start
           ws == ledger'[a].window_start
           f == drawn
           g == drawn'
           r == consumed
           s == consumed'
<1>0. /\ a \in Agents /\ cap \in Nat /\ now \in Nat /\ W \in Nat \ {0}
      /\ old \in Nat /\ ws \in Nat /\ n \in Nat
      /\ ledger[a].issued_in_window \in Nat /\ ledger'[a].issued_in_window \in Nat
  BY DomainAssumption, EscrowAssumption DEF Keys, TypeOK, U64, LedgerType
<1>1. /\ \A j \in Keys : f[j] \in Nat /\ r[j].created_at \in Int
      /\ \A j \in Keys : g[j] \in Nat /\ s[j].created_at \in Int
  BY DEF TypeOK, ConsumedType
<1>2. /\ \A j \in Keys : s[j].created_at <= now
      /\ ledger'[a].bump # 0 /\ now' = now /\ pool.bump # 0
  <2>1. ledger'[a].bump # 0 /\ now' = now /\ pool.bump # 0
    BY RequestAdvanceEffect
  <2> QED BY <2>1 DEF WindowInv
<1>3. ws <= now /\ ledger'[a].issued_in_window = DrawnIn(g, s, a, ws, now)
  BY <1>0, <1>2 DEF WindowInv
<1>4. ledger'[a].issued_in_window <= cap
  <2>1. params.agent_window_cap > 0 /\ params.agent_window_cap <= cap
    BY <1>2 DEF CapsInv, CapsWithin
  <2>2. ledger'[a].issued_in_window <= params.agent_window_cap
    BY <2>1, WindowRolls
  <2>3. params.agent_window_cap \in Nat
    BY DEF TypeOK, PoolParams, U64
  <2> QED BY <1>0, <2>1, <2>2, <2>3
<1>5. \A from \in Int, to \in Int :
        now \notin from .. to => DrawnIn(g, s, a, from, to) = DrawnIn(f, r, a, from, to)
  <2>1. \A b \in Agents, from \in Int, to \in Int :
          ~ (b = k[1] /\ now \in from .. to) =>
             DrawnIn(drawn', consumed', b, from, to)
               = DrawnIn(drawn, consumed, b, from, to)
    BY DrawCounts
  <2> QED BY <1>0, <2>1
<1>6. /\ ledger[a].bump # 0 =>
           /\ ledger[a].issued_in_window <= cap
           /\ ledger[a].issued_in_window = DrawnIn(f, r, a, old, now)
           /\ DrawnIn(f, r, a, old - W, old - 1) <= cap
      /\ ledger[a].bump = 0 => \A j \in AgentKeys(a) : f[j] = 0
      /\ \A t \in Int : DrawnIn(f, r, a, t, t + W - 1) <= 2 * cap
  BY <1>0 DEF TrailInv, WindowInv
<1>7. \/ (ledger[a].bump = 0 \/ now - old >= W) /\ ws = now
      \/ ledger[a].bump # 0 /\ ws = old
  BY WindowRolls
<1> HIDE DEF a, W, old, ws, f, g, r, s
<1>8. DrawnIn(g, s, a, ws - W, ws - 1) <= cap
  <2>1. DrawnIn(g, s, a, ws - W, ws - 1) = DrawnIn(f, r, a, ws - W, ws - 1)
    <3>1. ws - W \in Int /\ ws - 1 \in Int /\ now \notin (ws - W) .. (ws - 1)
      BY <1>0, <1>3
    <3> QED BY <1>5, <3>1
  <2>2. CASE ledger[a].bump = 0
    <3>1. DrawnIn(f, r, a, ws - W, ws - 1) = 0
      BY <1>6, <2>2, DrawnInZero
    <3> QED BY <1>0, <2>1, <3>1
  <2>3. CASE ledger[a].bump # 0 /\ now - old >= W /\ ws = now
    <3>1. /\ ws - W \in Int /\ ws - 1 \in Int /\ old \in Int /\ now \in Int
          /\ old <= ws - W /\ ws - 1 <= now
      BY <1>0, <2>3
    <3>2. DrawnIn(f, r, a, ws - W, ws - 1) <= DrawnIn(f, r, a, old, now)
      BY <1>0, <1>1, <3>1, DrawnInMonotone
    <3>3. DrawnIn(f, r, a, ws - W, ws - 1) \in Nat
      BY <1>0, <1>1, DrawnInType
    <3> QED BY <1>0, <1>6, <2>1, <2>3, <3>2, <3>3
  <2>4. CASE ledger[a].bump # 0 /\ ws = old
    BY <1>6, <2>1, <2>4
  <2> QED BY <1>7, <2>2, <2>3, <2>4
<1>9. ASSUME NEW t \in Int
      PROVE  DrawnIn(g, s, a, t, t + W - 1) <= 2 * cap
  <2>0. t + W - 1 \in Int /\ ws - W \in Int /\ ws \in Int /\ now \in Int
    BY <1>0
  <2>1. CASE ws - W <= t
    <3>1. DrawnIn(g, s, a, t, t + W - 1)
            <= DrawnIn(g, s, a, ws - W, ws - 1) + DrawnIn(g, s, a, ws, now)
      BY <1>0, <1>1, <1>2, <2>0, <2>1, DrawnInCovered
    <3>2. /\ DrawnIn(g, s, a, t, t + W - 1) \in Nat
          /\ DrawnIn(g, s, a, ws - W, ws - 1) \in Nat
      BY <1>0, <1>1, DrawnInType
    <3> QED BY <1>0, <1>3, <1>4, <1>8, <3>1, <3>2
  <2>2. CASE t < ws - W
    <3>1. now \notin t .. (t + W - 1)
      BY <1>0, <1>3, <2>2
    <3>2. DrawnIn(g, s, a, t, t + W - 1) = DrawnIn(f, r, a, t, t + W - 1)
      BY <1>5, <2>0, <3>1
    <3> QED BY <1>6, <3>2
  <2> QED BY <2>0, <2>1, <2>2
<1> QED BY <1>4, <1>8, <1>9 DEF a, W, ws, g, s

\* No other step adds a draw or touches a window.
LEMMA TrailStep ==
  ASSUME TypeOK, TypeOK', AccountsConsistent, DrawnOnce, WindowInv, WindowInv',
         CapsInv, TrailInv, [Next]_vars
  PROVE  TrailInv'
<1>1. ASSUME NEW k \in Keys, NEW n \in Amounts, NEW nonce \in Nonces,
             NEW att \in Attestations, RequestAdvance(k, n, nonce, att)
      PROVE  TrailInv'
  <2> SUFFICES ASSUME NEW cap \in U64, CapsWithin(cap), NEW a \in Agents
               PROVE  /\ ledger'[a].bump # 0 =>
                           /\ ledger'[a].issued_in_window <= cap
                           /\ DrawnIn(drawn', consumed', a,
                                ledger'[a].window_start - AGENT_WINDOW_SECONDS,
                                ledger'[a].window_start - 1) <= cap
                      /\ \A t \in Int :
                           DrawnIn(drawn', consumed', a, t,
                                   t + AGENT_WINDOW_SECONDS - 1) <= 2 * cap
    BY DEF TrailInv, CapsWithin
  <2>1. CASE a = k[1]
    BY <1>1, <2>1, TrailDraw
  <2>2. CASE a # k[1]
    <3>1. ledger' = [ledger EXCEPT ![k[1]] = ledger'[k[1]]] /\ k[1] \in Agents
      BY <1>1, RequestAdvanceEffect
    <3>2. ledger'[a] = ledger[a]
      BY <2>2, <3>1 DEF TypeOK
    <3>3. \A b \in Agents, from \in Int, to \in Int :
            ~ (b = k[1] /\ now \in from .. to) =>
               DrawnIn(drawn', consumed', b, from, to)
                 = DrawnIn(drawn, consumed, b, from, to)
      BY <1>1, DrawCounts
    <3>4. \A from \in Int, to \in Int :
            DrawnIn(drawn', consumed', a, from, to)
              = DrawnIn(drawn, consumed, a, from, to)
      BY <2>2, <3>3
    <3>5. /\ ledger[a].window_start - AGENT_WINDOW_SECONDS \in Int
          /\ ledger[a].window_start - 1 \in Int
          /\ \A t \in Int : t + AGENT_WINDOW_SECONDS - 1 \in Int
      BY WindowTypes
    <3>6. /\ ledger[a].bump # 0 =>
               /\ ledger[a].issued_in_window <= cap
               /\ DrawnIn(drawn, consumed, a,
                          ledger[a].window_start - AGENT_WINDOW_SECONDS,
                          ledger[a].window_start - 1) <= cap
          /\ \A t \in Int :
               DrawnIn(drawn, consumed, a, t, t + AGENT_WINDOW_SECONDS - 1)
                 <= 2 * cap
      BY DEF TrailInv
    <3> QED BY <3>2, <3>4, <3>5, <3>6
  <2> QED BY <2>1, <2>2
<1>2. ASSUME UNCHANGED <<consumed, drawn>>,
             \A a \in Agents :
               /\ ledger'[a].bump = ledger[a].bump
               /\ ledger'[a].window_start = ledger[a].window_start
               /\ ledger'[a].issued_in_window = ledger[a].issued_in_window
      PROVE  TrailInv'
  BY <1>2 DEF TrailInv, CapsWithin
<1>3. ASSUME NEW k \in Keys, NEW n \in Amounts, NEW memo \in Nonces,
             ClaimAndSettle(k, n, memo)
      PROVE  TrailInv'
  <2>1. /\ advance[k].principal \in Nat
        /\ ledger' = [ledger EXCEPT ![k[1]] =
                        ReleasedLedger(@, advance[k].principal)]
        /\ UNCHANGED <<consumed, drawn>>
    BY <1>3, ClaimAndSettleEffect DEF U64, histVars
  <2> QED BY <1>2, <2>1, ReleaseLowers
<1>4. ASSUME NEW k \in Keys, Liquidate(k)
      PROVE  TrailInv'
  <2>1. /\ advance[k].principal \in Nat
        /\ ledger' = [ledger EXCEPT ![k[1]] =
                        ReleasedLedger(@, advance[k].principal)]
        /\ UNCHANGED <<consumed, drawn>>
    BY <1>4, LiquidateEffect DEF U64, histVars
  <2> QED BY <1>2, <2>1, ReleaseLowers
<1>5. ASSUME UNCHANGED <<consumed, ledger, drawn>>
      PROVE  TrailInv'
  BY <1>2, <1>5
<1> QED BY <1>1, <1>3, <1>4, <1>5, LendingSteps

(***************************************************************************)
(* In any trailing window an agent draws at most twice the largest cap,    *)
(* when every cap governance uses is switched on: the exact price of a     *)
(* window that tumbles.                                                    *)
(***************************************************************************)
THEOREM TrailingWindowHolds == Spec => []TrailingWindowTwiceCap
<1>1. Init => CapsInv /\ TrailInv
  <2> SUFFICES ASSUME Init PROVE CapsInv /\ TrailInv
    OBVIOUS
  <2>1. CapsInv
    BY DEF Init, CapsInv
  <2>2. \A a \in Agents : ledger[a].bump = 0
    BY DEF Init, NoLedger
  <2>3. \A a \in Agents : \A k \in AgentKeys(a) : drawn[k] = 0
    BY KeysFinite DEF Init
  <2>4. \A a \in Agents, from \in Int, to \in Int :
          DrawnIn(drawn, consumed, a, from, to) = 0
    BY <2>3, DrawnInZero
  <2>5. \A t \in Int : t + AGENT_WINDOW_SECONDS - 1 \in Int
    BY EscrowAssumption
  <2>6. \A cap \in U64 : 0 <= 2 * cap
    BY DEF U64
  <2>7. TrailInv
    BY <2>2, <2>4, <2>5, <2>6 DEF TrailInv
  <2> QED BY <2>1, <2>7
<1>2. /\ IInv /\ IInv' /\ WindowInv /\ WindowInv' /\ CapsInv /\ TrailInv
      /\ [Next]_vars
      => CapsInv' /\ TrailInv'
  BY CapsStep, TrailStep DEF IInv
<1>3. TypeOK /\ TrailInv => TrailingWindowTwiceCap
  <2> SUFFICES ASSUME TypeOK, TrailInv, NEW cap \in U64, CapsWithin(cap),
                      NEW a \in Agents, NEW t \in 0 .. now
               PROVE  DrawnBetween(a, t, t + AGENT_WINDOW_SECONDS - 1) <= 2 * cap
    BY DEF TrailingWindowTwiceCap, CapsWithin
  <2>1. t \in Int
    OBVIOUS
  <2>2. DrawnIn(drawn, consumed, a, t, t + AGENT_WINDOW_SECONDS - 1) <= 2 * cap
    BY <2>1 DEF TrailInv
  <2> QED BY <2>2 DEF DrawnBetween, DrawnIn
<1>4. IInv => TypeOK
  BY DEF IInv
<1> QED BY <1>1, <1>2, <1>3, <1>4, IInvHolds, WindowInvHolds, PTL DEF Spec

-----------------------------------------------------------------------------
(* Governance. *)

\* What is pending becomes executable exactly one timelock after its proposal.
TimelockInv ==
  \A p \in pending_params : p.execute_after = pending_since + pool.timelock_seconds

\* propose_params restarts the wait, execute_params and init_pool end it.
LEMMA TimelockStep ==
  ASSUME TypeOK, TimelockInv, [Next]_vars
  PROVE  TimelockInv'
<1>1. ASSUME NEW v \in Vaults, NEW p \in Proposals, ProposeParams(v, p)
      PROVE  TimelockInv'
  <2>1. p \in PendingParams
    BY DomainAssumption
  <2>2. Staged(p).execute_after = now + pool.timelock_seconds
    BY <2>1 DEF Staged, PendingParams
  <2> QED BY <1>1, <2>2 DEF ProposeParams, TimelockInv
<1>2. ASSUME (\E p \in InitParams : InitPool(p)) \/ ExecuteParams
      PROVE  TimelockInv'
  BY <1>2 DEF InitPool, ExecuteParams, TimelockInv
<1>3. ASSUME NEW k \in Keys, NEW n \in Amounts, NEW nonce \in Nonces,
             NEW att \in Attestations, RequestAdvance(k, n, nonce, att)
      PROVE  TimelockInv'
  BY <1>3, RequestAdvanceEffect DEF TimelockInv
<1>4. ASSUME NEW k \in Keys, NEW n \in Amounts, NEW memo \in Nonces,
             ClaimAndSettle(k, n, memo)
      PROVE  TimelockInv'
  BY <1>4, ClaimAndSettleEffect DEF TimelockInv, histVars
<1>5. ASSUME \/ \E lp \in LPs, n \in Amounts : Deposit(lp, n)
             \/ \E lp \in LPs, n \in ShareAmounts : Withdraw(lp, n)
             \/ \E k \in Keys : Liquidate(k)
             \/ \E v \in Vaults, n \in Amounts : SkimProtocolFees(v, n)
             \/ \E n \in Amounts : DonateToVault(n)
             \/ \E lp \in LPs, n \in ShareAmounts : BurnShares(lp, n)
             \/ \E s \in Signers : RegistryChange(s)
             \/ Tick
             \/ UNCHANGED vars
      PROVE  TimelockInv'
  <2>1. UNCHANGED <<pool, pending_params, pending_since>>
    BY <1>5 DEF Deposit, Withdraw, Liquidate, SkimProtocolFees, DonateToVault,
       BurnShares, RegistryChange, Tick, vars, poolVars, histVars
  <2> QED BY <2>1 DEF TimelockInv
<1> QED BY <1>1, <1>2, <1>3, <1>4, <1>5 DEF Next, OpenStep

\* Parameters change, once the pool is open, only in execute_params.
LEMMA OnlyExecuteChanges ==
  ASSUME [Next]_vars, pool.bump # 0, params' # params
  PROVE  ExecuteParams
<1>1. ASSUME NEW k \in Keys, NEW n \in Amounts, NEW nonce \in Nonces,
             NEW att \in Attestations, RequestAdvance(k, n, nonce, att)
      PROVE  params' = params
  BY <1>1 DEF RequestAdvance
<1>2. ASSUME NEW k \in Keys, NEW n \in Amounts, NEW memo \in Nonces,
             ClaimAndSettle(k, n, memo)
      PROVE  params' = params
  BY <1>2 DEF ClaimAndSettle
<1>3. ASSUME \/ \E lp \in LPs, n \in Amounts : Deposit(lp, n)
             \/ \E lp \in LPs, n \in ShareAmounts : Withdraw(lp, n)
             \/ \E k \in Keys : Liquidate(k)
             \/ \E v \in Vaults, p \in Proposals : ProposeParams(v, p)
             \/ \E v \in Vaults, n \in Amounts : SkimProtocolFees(v, n)
             \/ \E n \in Amounts : DonateToVault(n)
             \/ \E lp \in LPs, n \in ShareAmounts : BurnShares(lp, n)
             \/ \E s \in Signers : RegistryChange(s)
             \/ Tick
             \/ UNCHANGED vars
      PROVE  params' = params
  BY <1>3 DEF Deposit, Withdraw, Liquidate, ProposeParams, SkimProtocolFees,
     DonateToVault, BurnShares, RegistryChange, Tick, vars, poolVars
<1>4. ASSUME NEW p \in InitParams PROVE ~ InitPool(p)
  BY DEF InitPool
<1> QED BY <1>1, <1>2, <1>3, <1>4 DEF Next, OpenStep

(***************************************************************************)
(* New parameters take effect only after having been pending, unchanged,   *)
(* for the whole timelock.                                                 *)
(***************************************************************************)
THEOREM TimelockHolds == Spec => TimelockHonoured
<1>1. Init => TimelockInv
  BY DEF Init, TimelockInv
<1>2. TypeOK /\ TimelockInv /\ [Next]_vars => TimelockInv'
  BY TimelockStep
<1>3. TypeOK /\ TimelockInv /\ [Next]_vars =>
        [pool.bump # 0 /\ params' # params =>
           /\ now >= pending_since + pool.timelock_seconds
           /\ \E p \in pending_params : params' = InForce(p)]_vars
  <2> SUFFICES ASSUME TimelockInv, [Next]_vars, pool.bump # 0, params' # params
               PROVE  /\ now >= pending_since + pool.timelock_seconds
                      /\ \E p \in pending_params : params' = InForce(p)
    OBVIOUS
  <2>1. ExecuteParams
    BY OnlyExecuteChanges
  <2> QED BY <2>1 DEF ExecuteParams, TimelockInv
<1> QED BY <1>1, <1>2, <1>3, TypeCorrect, PTL DEF Spec, TimelockHonoured

-----------------------------------------------------------------------------
(* All parties: the loan book of AdvanceLifecycle. *)

\* The loan of a receivable depends on its own accounts only.
LEMMA LoanFrame ==
  ASSUME NEW k \in Keys,
         \A j \in Keys \ {k} : /\ advance'[j] = advance[j]
                               /\ tombstone'[j] = tombstone[j]
                               /\ consumed'[j] = consumed[j]
                               /\ drawn'[j] = drawn[j]
  PROVE  [j \in Keys |-> LoanOf(j)]'
           = [[j \in Keys |-> LoanOf(j)] EXCEPT ![k] = LoanOf(k)']
<1>1. \A j \in Keys \ {k} : LoanOf(j)' = LoanOf(j)
  BY DEF LoanOf
<1> QED BY <1>1

\* request_advance lends.
LEMMA LendStep ==
  ASSUME IInv, NEW k \in Keys, NEW n \in Amounts, NEW nonce \in Nonces,
         NEW att \in Attestations, RequestAdvance(k, n, nonce, att)
  PROVE  Lifecycle!Lend(k)
<1> USE DEF IInv
<1>1. /\ n \in Nat /\ n > 0
      /\ advance[k].bump = 0 /\ consumed[k].bump = 0
      /\ advance' = [advance EXCEPT ![k] = advance'[k]]
      /\ advance'[k].bump = 1 /\ advance'[k].principal = n
      /\ advance'[k].expires_at = att.expires_at
      /\ consumed' = [consumed EXCEPT ![k] = consumed'[k]]
      /\ drawn' = [drawn EXCEPT ![k] = @ + n]
      /\ UNCHANGED <<tombstone, total_assets, now>>
  BY RequestAdvanceEffect
<1>2. n \in 1 .. total_assets
  <2>1. deployed_amount + n <= total_assets
    BY DEF RequestAdvance, ExposureFits
  <2> QED BY <1>1, <2>1 DEF TypeOK, U64
<1>3. att.expires_at > now
  BY DEF RequestAdvance, Attested, Fresh
<1>4. LoanOf(k).status = "none"
  BY <1>1 DEF LoanOf, AccountsConsistent
<1>5. LoanOf(k)' = [status |-> "live", principal |-> n, due |-> att.expires_at]
  BY <1>1 DEF LoanOf
<1>6. \A j \in Keys \ {k} : /\ advance'[j] = advance[j]
                            /\ tombstone'[j] = tombstone[j]
                            /\ consumed'[j] = consumed[j]
                            /\ drawn'[j] = drawn[j]
  BY <1>1 DEF TypeOK
<1>7. [j \in Keys |-> LoanOf(j)]'
        = [[j \in Keys |-> LoanOf(j)] EXCEPT ![k] =
             [status |-> "live", principal |-> n, due |-> att.expires_at]]
  BY <1>5, <1>6, LoanFrame
<1>8. [j \in Keys |-> LoanOf(j)][k].status = "none"
  BY <1>4
<1> QED BY <1>1, <1>2, <1>3, <1>7, <1>8 DEF Lifecycle!Lend

\* claim_and_settle repays.
LEMMA RepayStep ==
  ASSUME IInv, NEW k \in Keys, NEW n \in Amounts, NEW memo \in Nonces,
         ClaimAndSettle(k, n, memo)
  PROVE  Lifecycle!Repay(k)
<1> USE DEF IInv
<1>1. /\ advance[k].bump # 0 /\ consumed[k].bump # 0
      /\ SettlementOpen(advance[k])
      /\ advance' = [advance EXCEPT ![k] = NoAdvance]
      /\ UNCHANGED <<consumed, tombstone, drawn, now>>
      /\ \E income \in Nat : total_assets' = total_assets + income
  BY ClaimAndSettleEffect DEF histVars
<1>2. total_assets' >= total_assets
  BY <1>1 DEF TypeOK, U64
<1>3. LoanOf(k) = [status |-> "live", principal |-> advance[k].principal,
                   due |-> advance[k].expires_at]
  BY <1>1 DEF LoanOf
<1>4. now < advance[k].expires_at + LIQUIDATION_GRACE_SECONDS
  BY <1>1 DEF SettlementOpen, GraceEnd
<1>5. LoanOf(k)' = [status |-> "repaid", principal |-> advance[k].principal,
                    due |-> 0]
  <2>1. advance'[k].bump = 0
    BY <1>1 DEF TypeOK, NoAdvance
  <2>2. tombstone[k].bump = 0 /\ drawn[k] = advance[k].principal
    BY <1>1 DEF AccountsConsistent, DrawnOnce
  <2> QED BY <1>1, <2>1, <2>2 DEF LoanOf
<1>6. \A j \in Keys \ {k} : /\ advance'[j] = advance[j]
                            /\ tombstone'[j] = tombstone[j]
                            /\ consumed'[j] = consumed[j]
                            /\ drawn'[j] = drawn[j]
  BY <1>1 DEF TypeOK
<1> DEFINE loans == [j \in Keys |-> LoanOf(j)]
<1>7. loans' = [loans EXCEPT ![k] = LoanOf(k)']
  BY <1>6, LoanFrame
<1>8. loans[k] = LoanOf(k)
  OBVIOUS
<1>9. [loans EXCEPT ![k].status = "repaid", ![k].due = 0]
        = [loans EXCEPT ![k] = LoanOf(k)']
  <2>1. [[LoanOf(k) EXCEPT !.status = "repaid"] EXCEPT !.due = 0] = LoanOf(k)'
    <3> DEFINE marked == [LoanOf(k) EXCEPT !.status = "repaid"]
    <3>1. marked = [status |-> "repaid", principal |-> advance[k].principal,
                    due |-> advance[k].expires_at]
      BY <1>3
    <3> HIDE DEF marked
    <3>2. [marked EXCEPT !.due = 0] = LoanOf(k)'
      BY <1>5, <3>1
    <3> QED BY <3>2 DEF marked
  <2>2. loans = [j \in Keys |-> loans[j]] /\ loans[k] = LoanOf(k)
    OBVIOUS
  <2> HIDE DEF loans
  <2> QED BY <2>1, <2>2
<1> QED BY <1>1, <1>2, <1>3, <1>4, <1>7, <1>8, <1>9 DEF Lifecycle!Repay

\* liquidate writes off.
LEMMA WriteOffStep ==
  ASSUME IInv, NEW k \in Keys, Liquidate(k)
  PROVE  Lifecycle!WriteOff(k)
<1> USE DEF IInv
<1>1. /\ advance[k].bump # 0 /\ LiquidationOpen(advance[k])
      /\ advance' = [advance EXCEPT ![k] = NoAdvance]
      /\ tombstone' = [tombstone EXCEPT ![k] = TombstoneOf(advance[k])]
      /\ total_assets' = total_assets - advance[k].principal
      /\ UNCHANGED <<consumed, drawn, now>>
  BY LiquidateEffect DEF histVars
<1>2. LoanOf(k) = [status |-> "live", principal |-> advance[k].principal,
                   due |-> advance[k].expires_at]
  BY <1>1 DEF LoanOf
<1>3. now >= advance[k].expires_at + LIQUIDATION_GRACE_SECONDS
  BY <1>1 DEF LiquidationOpen, GraceEnd
<1>4. LoanOf(k)' = [status |-> "defaulted", principal |-> advance[k].principal,
                    due |-> advance[k].expires_at]
  <2>1. advance'[k].bump = 0 /\ tombstone'[k] = TombstoneOf(advance[k])
    BY <1>1 DEF TypeOK, NoAdvance
  <2> QED BY <2>1 DEF LoanOf, TombstoneOf
<1>5. \A j \in Keys \ {k} : /\ advance'[j] = advance[j]
                            /\ tombstone'[j] = tombstone[j]
                            /\ consumed'[j] = consumed[j]
                            /\ drawn'[j] = drawn[j]
  BY <1>1 DEF TypeOK
<1> DEFINE loans == [j \in Keys |-> LoanOf(j)]
<1>6. loans' = [loans EXCEPT ![k] = LoanOf(k)']
  BY <1>5, LoanFrame
<1>7. loans[k] = LoanOf(k)
  OBVIOUS
<1>8. [loans EXCEPT ![k].status = "defaulted"] = [loans EXCEPT ![k] = LoanOf(k)']
  <2>1. [LoanOf(k) EXCEPT !.status = "defaulted"] = LoanOf(k)'
    BY <1>2, <1>4
  <2>2. loans = [j \in Keys |-> loans[j]] /\ loans[k] = LoanOf(k)
    OBVIOUS
  <2> HIDE DEF loans
  <2> QED BY <2>1, <2>2
<1> QED BY <1>1, <1>2, <1>3, <1>6, <1>7, <1>8 DEF Lifecycle!WriteOff

\* Every step of the escrow is a step of the loan book or changes nothing in it.
LEMMA RefinementStep ==
  ASSUME IInv, IInv', [Next]_vars
  PROVE  [Lifecycle!Next]_(Lifecycle!vars)
<1>1. ASSUME NEW k \in Keys, NEW n \in Amounts, NEW nonce \in Nonces,
             NEW att \in Attestations, RequestAdvance(k, n, nonce, att)
      PROVE  Lifecycle!Next
  BY <1>1, LendStep DEF Lifecycle!Next
<1>2. ASSUME NEW k \in Keys, NEW n \in Amounts, NEW memo \in Nonces,
             ClaimAndSettle(k, n, memo)
      PROVE  Lifecycle!Next
  BY <1>2, RepayStep DEF Lifecycle!Next
<1>3. ASSUME NEW k \in Keys, Liquidate(k)
      PROVE  Lifecycle!Next
  BY <1>3, WriteOffStep DEF Lifecycle!Next
<1>4. UNCHANGED <<advance, consumed, tombstone, drawn>>
        => [j \in Keys |-> LoanOf(j)]' = [j \in Keys |-> LoanOf(j)]
  BY DEF LoanOf
<1>5. ASSUME \/ \E p \in InitParams : InitPool(p)
             \/ \E lp \in LPs, n \in Amounts : Deposit(lp, n)
             \/ \E lp \in LPs, n \in ShareAmounts : Withdraw(lp, n)
      PROVE  Lifecycle!Next
  <2>1. UNCHANGED <<advance, consumed, tombstone, drawn, now>>
    BY <1>5 DEF InitPool, Deposit, Withdraw, pdaVars, histVars
  <2>2. total_assets' \in Nat
    BY DEF IInv, TypeOK, U64
  <2> QED BY <1>4, <2>1, <2>2 DEF Lifecycle!Next, Lifecycle!LpFlow
<1>6. ASSUME Tick
      PROVE  Lifecycle!Next
  <2>1. UNCHANGED <<advance, consumed, tombstone, drawn, total_assets>>
        /\ now' = now + 1
    BY <1>6 DEF Tick, poolVars, pdaVars, histVars
  <2> QED BY <1>4, <2>1 DEF Lifecycle!Next, Lifecycle!Pass
<1>7. ASSUME \/ \E v \in Vaults, p \in Proposals : ProposeParams(v, p)
             \/ ExecuteParams
             \/ \E v \in Vaults, n \in Amounts : SkimProtocolFees(v, n)
             \/ \E n \in Amounts : DonateToVault(n)
             \/ \E lp \in LPs, n \in ShareAmounts : BurnShares(lp, n)
             \/ \E s \in Signers : RegistryChange(s)
             \/ UNCHANGED vars
      PROVE  UNCHANGED Lifecycle!vars
  <2>1. UNCHANGED <<advance, consumed, tombstone, drawn, total_assets, now>>
    BY <1>7 DEF ProposeParams, ExecuteParams, SkimProtocolFees, DonateToVault,
       BurnShares, RegistryChange, vars, poolVars, pdaVars, histVars
  <2> QED BY <1>4, <2>1 DEF Lifecycle!vars
<1> QED BY <1>1, <1>2, <1>3, <1>5, <1>6, <1>7 DEF Next, OpenStep

(***************************************************************************)
(* The escrow implements AdvanceLifecycle: no receivable is lent against   *)
(* twice, settlement and liquidation exclude each other, and the LPs' book *)
(* falls by exactly the defaulted principal.                               *)
(***************************************************************************)
THEOREM ImplementsLifecycleHolds == Spec => ImplementsLifecycle
<1>1. Init => Lifecycle!Init
  <2> SUFFICES ASSUME Init PROVE Lifecycle!Init
    OBVIOUS
  <2>1. \A k \in Keys : LoanOf(k) = [status |-> "none", principal |-> 0, due |-> 0]
    BY DEF Init, LoanOf, NoAdvance, NoTombstone, NoConsumed
  <2> QED BY <2>1 DEF Init, Lifecycle!Init, Lifecycle!NoLoan
<1>2. IInv /\ IInv' /\ [Next]_vars => [Lifecycle!Next]_(Lifecycle!vars)
  BY RefinementStep
<1> QED BY <1>1, <1>2, IInvHolds, PTL DEF Spec, ImplementsLifecycle, Lifecycle!Spec

-----------------------------------------------------------------------------
(* Prices: the statements about the fee engines, for any grid. *)

\* Whatever the bounds of the grid, compute_fee_amount is the published curve
\* up to its two roundings (FeeIsCurveRounded has it for all inputs).
THEOREM FeeFollowsCurveHolds == Spec => []FeeFollowsCurve
<1>1. FeeFollowsCurve
  BY FeeIsCurveRounded, GridQueries DEF FeeFollowsCurve
<1> QED BY <1>1, PTL

\* Whatever the bounds of the grid, no larger, longer or riskier advance is
\* cheaper (FeeNeverCheaper has it for all inputs).
THEOREM FeeNeverDropsHolds == Spec => []FeeNeverDrops
<1>1. FeeNeverDrops
  BY FeeNeverCheaper, GridQueries DEF FeeNeverDrops
<1> QED BY <1>1, PTL

\* The server's preview never falls when the pool is busier, the advance longer
\* or the record worse (PreviewMonotone has it for all inputs).
THEOREM PreviewNeverDropsHolds == Spec => []PreviewNeverDrops
<1> DEFINE Dearer(p, w, h, k, repaid, r, completed, c) ==
             computeFee(10000, k, r, c, w) >= computeFee(10000, h, repaid, completed, p)
<1>1. ASSUME NEW p, NEW w, BusierPool(p, w), NEW h \in Nat, NEW k \in Nat, h <= k,
             NEW repaid \in 0 .. 100, NEW r \in 0 .. repaid,
             NEW completed \in 0 .. 100, NEW c \in 0 .. completed
      PROVE  Dearer(p, w, h, k, repaid, r, completed, c)
  <2> DEFINE n == 10000
  <2>1. n \in Nat
    OBVIOUS
  <2> HIDE DEF n
  <2>2. /\ computeFee(n, h, repaid, completed, p) \in Nat
        /\ computeFee(n, k, r, c, w) \in Nat
        /\ computeFee(n, h, repaid, completed, p) <= computeFee(n, k, r, c, w)
    BY <1>1, <2>1, PreviewMonotone
  <2> QED BY <2>2 DEF n
<1> HIDE DEF Dearer
<1>2. ASSUME NEW p, NEW q, BusierPool(p, p), BusierPool(p, q), NEW hours \in Nat,
             NEW repaid \in 1 .. 100, NEW completed \in 1 .. 100
      PROVE  /\ Dearer(p, q, hours, hours, repaid, repaid, completed, completed)
             /\ Dearer(p, p, hours, hours + 1, repaid, repaid, completed, completed)
             /\ Dearer(p, p, hours, hours, repaid, repaid - 1, completed, completed)
             /\ Dearer(p, p, hours, hours, repaid, repaid, completed, completed - 1)
  <2>1. /\ repaid \in 0 .. 100 /\ repaid \in 0 .. repaid /\ repaid - 1 \in 0 .. repaid
        /\ completed \in 0 .. 100 /\ completed \in 0 .. completed
        /\ completed - 1 \in 0 .. completed
        /\ hours <= hours /\ hours + 1 \in Nat /\ hours <= hours + 1
    OBVIOUS
  <2>2. Dearer(p, q, hours, hours, repaid, repaid, completed, completed)
    BY <1>1, <1>2, <2>1, Zenon
  <2>3. Dearer(p, p, hours, hours + 1, repaid, repaid, completed, completed)
    BY <1>1, <1>2, <2>1, Zenon
  <2>4. Dearer(p, p, hours, hours, repaid, repaid - 1, completed, completed)
    BY <1>1, <1>2, <2>1, Zenon
  <2>5. Dearer(p, p, hours, hours, repaid, repaid, completed, completed - 1)
    BY <1>1, <1>2, <2>1, Zenon
  <2> QED BY <2>2, <2>3, <2>4, <2>5
<1>3. ASSUME NEW p \in PreviewPools
      PROVE  BusierPool(p, p) /\ BusierPool(p, [p EXCEPT !.deployedAmount = @ + 1])
  BY DEF BusierPool, PreviewPools
<1>4. ASSUME NEW p \in PreviewPools, NEW hours \in Nat,
             NEW repaid \in 1 .. 100, NEW completed \in 1 .. 100
      PROVE  PreviewNoCheaperBeyond(p, hours, repaid, completed)
  <2> DEFINE q == [p EXCEPT !.deployedAmount = @ + 1]
  <2>1. BusierPool(p, p) /\ BusierPool(p, q)
    BY <1>3
  <2> HIDE DEF q
  <2>2. /\ Dearer(p, q, hours, hours, repaid, repaid, completed, completed)
        /\ Dearer(p, p, hours, hours + 1, repaid, repaid, completed, completed)
        /\ Dearer(p, p, hours, hours, repaid, repaid - 1, completed, completed)
        /\ Dearer(p, p, hours, hours, repaid, repaid, completed, completed - 1)
    BY <1>2, <2>1
  <2> QED BY <2>2 DEF PreviewNoCheaperBeyond, Dearer, q
<1>5. PreviewHours \subseteq Nat /\ PreviewRates \subseteq 1 .. 100
  BY DEF PreviewHours, PreviewRates
<1>6. PreviewNeverDrops
  BY <1>4, <1>5 DEF PreviewNeverDrops
<1> QED BY <1>6, PTL
=============================================================================
