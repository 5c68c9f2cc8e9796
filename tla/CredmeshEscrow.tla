--------------------------- MODULE CredmeshEscrow ---------------------------
(***************************************************************************)
(* The credmesh-escrow program: one pool, its USDC vault, its share mint,  *)
(* and the per-agent accounts (advance, consumed payment, issuance ledger, *)
(* liquidation tombstone).  Every instruction of lib.rs is one action.     *)
(*                                                                         *)
(* A Solana transaction is atomic: a handler that fails at any line leaves *)
(* every account as it was.  So the guard of an action conjoins all the    *)
(* account constraints, require!s and checked operations of the handler,   *)
(* and a rejected call is no step.  Instructions that write the same pool  *)
(* account are serialized by the runtime; their order is arbitrary.        *)
(*                                                                         *)
(* An account that does not exist is a zeroed record: bump = 0, the test   *)
(* request_advance itself uses on the ledger.  Closing an account zeroes   *)
(* it.  Balances of user wallets are not kept: a transfer out of a wallet  *)
(* succeeds when its owner can fund it, which the environment chooses.     *)
(***************************************************************************)
EXTENDS Pricing, Tally

CONSTANTS
  LIQUIDATION_GRACE_SECONDS,    \* 14 days
  AGENT_WINDOW_SECONDS,         \* 24 hours
  MAX_ATTESTATION_AGE_SECONDS,  \* 15 minutes
  MIN_ADVANCE_ATOMS,            \* 1 USDC
  VERSION,                      \* attestation layout version, 1
  CHAIN_IDS,                    \* {CHAIN_ID_MAINNET, CHAIN_ID_DEVNET}
  I64_MAX,                      \* 2^63 - 1
  Agents,                       \* public keys that request advances
  ReceivableIds,                \* 32-byte receivable ids
  Nonces,                       \* 16-byte nonces
  NoNonce,                      \* the zeroed nonce of an absent account
  Signers,                      \* ed25519 keys that may be whitelisted
  NoSigner,                     \* the zeroed key of an absent account
  LPs,                          \* holders of pool shares
  Vaults,                       \* Squads vault PDAs
  PoolKey,                      \* address of this pool
  Attestations,                 \* messages carrying a valid ed25519 signature
  InitParams,                   \* arguments offered to init_pool
  Proposals,                    \* arguments offered to propose_params
  Amounts,                      \* u64 arguments: USDC atoms
  ShareAmounts,                 \* u64 arguments: pool shares
  MaxTime,                      \* bound: last clock value explored
  MaxDonated,                   \* bound: USDC sent to the vault from outside
  MaxBurned                     \* bound: shares burned outside withdraw

Keys == Agents \X ReceivableIds

AgentKeys(a) == {a} \X ReceivableIds

\* The 128-byte canonical message of credmesh_shared::ed25519_credit_message,
\* with the key that signed it.
Attestation ==
  [signer : Signers, agent : Agents, pool : {PoolKey, NoSigner},
   credit_limit : U64, outstanding : U64, expires_at : Int, attested_at : Int,
   nonce : Nonces, chain_id : Nat, version : Nat]

PoolParams ==
  [fee_curve : FeeCurve, max_advance_pct_bps : Nat, max_advance_abs : U64,
   agent_window_cap : U64]

PendingParams ==
  [fee_curve : FeeCurve, max_advance_pct_bps : Nat, max_advance_abs : U64,
   agent_window_cap : U64, execute_after : Int]

InitPoolParams ==
  [params : PoolParams, timelock_seconds : Int, governance : Vaults,
   chain_id : Nat]

ASSUME EscrowAssumption ==
  /\ LIQUIDATION_GRACE_SECONDS \in Nat
  /\ AGENT_WINDOW_SECONDS \in Nat \ {0}
  /\ MAX_ATTESTATION_AGE_SECONDS \in Nat
  /\ MIN_ADVANCE_ATOMS \in U64 \ {0}
  /\ I64_MAX \in Nat
  /\ MaxTime \in Nat /\ MaxTime <= I64_MAX
  /\ MaxDonated \in Nat
  /\ MaxBurned \in Nat

ASSUME DomainAssumption ==
  /\ IsFiniteSet(Agents) /\ IsFiniteSet(ReceivableIds) /\ IsFiniteSet(LPs)
  /\ NoNonce \notin Nonces /\ NoSigner \notin Signers
  /\ CHAIN_IDS \subseteq Nat
  /\ Attestations \subseteq Attestation
  /\ InitParams \subseteq InitPoolParams
  /\ Proposals \subseteq PendingParams
  /\ Amounts \subseteq U64 /\ ShareAmounts \subseteq U64

-----------------------------------------------------------------------------

VARIABLES
  pool,                   \* Pool fields fixed at init: bump, governance, ...
  total_assets, total_shares, deployed_amount, accrued_protocol_fees,
  params,                 \* fee_curve and the issuance caps in force
  pending_params,         \* Option<PendingParams>: {} is None, {p} is Some(p)
  vault,                  \* amount of pool.usdc_vault
  treasury,               \* amount of pool.treasury_ata credited by the pool
  shares,                 \* share tokens of each LP
  advance, consumed, ledger, tombstone,   \* per-agent PDAs
  allowed_signer,         \* signers with an AllowedSigner PDA in the registry
  now                     \* Clock::unix_timestamp

\* History, never read by an action: principal ever lent per key, USDC donated
\* to the vault, fees skimmed, shares burned outside withdraw, and the time of
\* the proposal that is pending.
VARIABLES drawn, donated, skimmed, burned, pending_since

poolVars == <<pool, total_assets, total_shares, deployed_amount,
              accrued_protocol_fees, params, pending_params>>
tokenVars == <<vault, treasury, shares>>
pdaVars == <<advance, consumed, ledger, tombstone>>
histVars == <<drawn, donated, skimmed, burned, pending_since>>
vars == <<poolVars, tokenVars, pdaVars, allowed_signer, now, histVars>>

NoCurve ==
  [utilization_kink_bps |-> 0, base_rate_bps |-> 0, kink_rate_bps |-> 0,
   max_rate_bps |-> 0, duration_per_day_bps |-> 0, risk_premium_bps |-> 0,
   pool_loss_surcharge_bps |-> 0]

NoParams ==
  [fee_curve |-> NoCurve, max_advance_pct_bps |-> 0, max_advance_abs |-> 0,
   agent_window_cap |-> 0]

NoAdvance ==
  [bump |-> 0, principal |-> 0, fee_owed |-> 0, late_penalty_per_day |-> 0,
   issued_at |-> 0, expires_at |-> 0, attestor |-> NoSigner]

NoConsumed == [bump |-> 0, nonce |-> NoNonce, created_at |-> 0]

NoLedger ==
  [bump |-> 0, window_start |-> 0, issued_in_window |-> 0, live_principal |-> 0]

NoTombstone ==
  [bump |-> 0, principal |-> 0, expires_at |-> 0, liquidated_at |-> 0]

Init ==
  /\ pool = [bump |-> 0, governance |-> NoSigner, timelock_seconds |-> 0,
             chain_id |-> 0]
  /\ total_assets = 0 /\ total_shares = 0
  /\ deployed_amount = 0 /\ accrued_protocol_fees = 0
  /\ params = NoParams /\ pending_params = {}
  /\ vault = 0 /\ treasury = 0 /\ shares = [lp \in LPs |-> 0]
  /\ advance = [k \in Keys |-> NoAdvance]
  /\ consumed = [k \in Keys |-> NoConsumed]
  /\ ledger = [a \in Agents |-> NoLedger]
  /\ tombstone = [k \in Keys |-> NoTombstone]
  /\ allowed_signer \in SUBSET Signers
  /\ now = 0
  /\ drawn = [k \in Keys |-> 0]
  /\ donated = 0 /\ skimmed = 0 /\ burned = 0 /\ pending_since = 0

-----------------------------------------------------------------------------
(* init_pool: anyone, once.  The pool, share mint and vault are created.   *)

InitPool(p) ==
  /\ pool.bump = 0
  /\ p.params.max_advance_pct_bps <= BPS_DENOMINATOR
  /\ p.timelock_seconds >= 0
  /\ p.chain_id \in CHAIN_IDS
  /\ validate(p.params.fee_curve)
  /\ pool' = [bump |-> 1, governance |-> p.governance,
              timelock_seconds |-> p.timelock_seconds, chain_id |-> p.chain_id]
  /\ params' = p.params
  /\ total_assets' = 0 /\ total_shares' = 0
  /\ deployed_amount' = 0 /\ accrued_protocol_fees' = 0
  /\ pending_params' = {}
  /\ UNCHANGED <<tokenVars, pdaVars, allowed_signer, now, histVars>>

-----------------------------------------------------------------------------
(* deposit and withdraw: LP money in and out at the virtual-offset price.  *)

Deposit(lp, amount) ==
  LET minted == preview_deposit(amount, total_assets, total_shares)
  IN /\ pool.bump # 0
     /\ amount > 0
     /\ minted > 0 /\ FitsU64(minted)
     /\ FitsU64(vault + amount)
     /\ FitsU64(total_assets + amount)
     /\ FitsU64(shares[lp] + minted)
     /\ FitsU64(total_shares + minted)
     /\ vault' = vault + amount
     /\ shares' = [shares EXCEPT ![lp] = @ + minted]
     /\ total_assets' = total_assets + amount
     /\ total_shares' = total_shares + minted
     /\ UNCHANGED <<pool, deployed_amount, accrued_protocol_fees, params,
                    pending_params, treasury, pdaVars, allowed_signer, now,
                    histVars>>

\* Mutation: the books keep counting the burned shares.
SharesAfterBurn_kept(n) == total_shares

SharesAfterBurn(n) == total_shares - n

Withdraw(lp, n) ==
  LET assets == preview_redeem(n, total_assets, total_shares)
  IN /\ pool.bump # 0
     /\ n > 0
     /\ assets > 0 /\ FitsU64(assets)
     /\ vault >= assets
     /\ shares[lp] >= n
     /\ total_assets >= assets
     /\ total_shares >= n
     /\ shares' = [shares EXCEPT ![lp] = @ - n]
     /\ vault' = vault - assets
     /\ total_assets' = total_assets - assets
     /\ total_shares' = SharesAfterBurn(n)
     /\ UNCHANGED <<pool, deployed_amount, accrued_protocol_fees, params,
                    pending_params, treasury, pdaVars, allowed_signer, now,
                    histVars>>

-----------------------------------------------------------------------------
(* request_advance: an agent draws principal against a signed attestation. *)

Fresh(att) ==
  /\ att.attested_at <= now
  /\ now - att.attested_at <= MAX_ATTESTATION_AGE_SECONDS
  /\ att.expires_at > now

\* The attestation in the transaction's ed25519 instruction is by a signer
\* with a live AllowedSigner PDA and binds this agent, pool, cluster, layout
\* version and the instruction's nonce argument.
Attested(att, a, nonce) ==
  /\ att.signer \in allowed_signer
  /\ att.agent = a
  /\ att.pool = PoolKey
  /\ att.version = VERSION
  /\ att.nonce = nonce
  /\ att.chain_id = pool.chain_id
  /\ Fresh(att)

\* Mutation: a new window starts but keeps the amount already issued.
RolledLedger_no_reset(a) ==
  IF \/ ledger[a].bump = 0
     \/ now - ledger[a].window_start >= AGENT_WINDOW_SECONDS
    THEN [ledger[a] EXCEPT !.bump = 1, !.window_start = now]
    ELSE ledger[a]

\* Mutation: every issuance restarts the window.
RolledLedger_always(a) ==
  [ledger[a] EXCEPT !.bump = 1, !.window_start = now, !.issued_in_window = 0]

\* The ledger the handler works on: created on first use, and restarted when
\* its window has run out.
RolledLedger(a) ==
  IF \/ ledger[a].bump = 0
     \/ now - ledger[a].window_start >= AGENT_WINDOW_SECONDS
    THEN [ledger[a] EXCEPT !.bump = 1, !.window_start = now,
                           !.issued_in_window = 0]
    ELSE ledger[a]

WithinWindowCap(led, amount) ==
  /\ FitsU64(led.issued_in_window + amount)
  /\ params.agent_window_cap > 0
       => led.issued_in_window + amount <= params.agent_window_cap

\* Mutation: principal already drawn on Solana is not counted.
Underwritten_attested_only(att, led, amount) ==
  /\ amount <= SatSub(att.credit_limit, att.outstanding)
  /\ amount <= params.max_advance_abs
  /\ FitsU64(led.live_principal + amount)

\* The attested limit covers the EVM-lane balance, the live Solana principal
\* and this advance; max_advance_pct_bps is stored but never consulted.
Underwritten(att, led, amount) ==
  /\ FitsU64(att.outstanding + led.live_principal)
  /\ amount <= SatSub(att.credit_limit, att.outstanding + led.live_principal)
  /\ amount <= params.max_advance_abs
  /\ FitsU64(led.live_principal + amount)

QuotedFee(amount, expires_at) ==
  compute_fee_amount(amount, expires_at - now,
                     compute_utilization_bps(total_assets, deployed_amount),
                     0, params.fee_curve)

\* Mutation: the ConsumedPayment PDA is not required to be new.
Unused_advance_only(k) == advance[k].bump = 0

\* Both per-receivable PDAs are created with `init`, which fails on an
\* existing account.
Unused(k) == advance[k].bump = 0 /\ consumed[k].bump = 0

ExposureFits(amount) ==
  /\ FitsU64(deployed_amount + amount)
  /\ deployed_amount + amount <= total_assets

RequestAdvance(k, amount, nonce, att) ==
  LET a == k[1]
      led == RolledLedger(a)
      fee == QuotedFee(amount, att.expires_at)
      penalty == compute_late_penalty_per_day(amount, params.fee_curve)
  IN /\ pool.bump # 0
     /\ amount >= MIN_ADVANCE_ATOMS
     /\ Attested(att, a, nonce)
     /\ Unused(k)
     /\ WithinWindowCap(led, amount)
     /\ Underwritten(att, led, amount)
     /\ FitsU64(fee) /\ FitsU64(penalty)
     /\ vault >= amount
     /\ ExposureFits(amount)
     /\ ledger' = [ledger EXCEPT ![a] =
                     [led EXCEPT !.issued_in_window = @ + amount,
                                 !.live_principal = @ + amount]]
     /\ vault' = vault - amount
     /\ advance' = [advance EXCEPT ![k] =
                      [bump |-> 1, principal |-> amount, fee_owed |-> fee,
                       late_penalty_per_day |-> penalty, issued_at |-> now,
                       expires_at |-> att.expires_at, attestor |-> att.signer]]
     /\ consumed' = [consumed EXCEPT ![k] =
                       [bump |-> 1, nonce |-> nonce, created_at |-> now]]
     /\ deployed_amount' = deployed_amount + amount
     /\ drawn' = [drawn EXCEPT ![k] = @ + amount]
     /\ UNCHANGED <<pool, total_assets, total_shares, accrued_protocol_fees,
                    params, pending_params, treasury, shares, tombstone,
                    allowed_signer, now, donated, skimmed, burned,
                    pending_since>>

-----------------------------------------------------------------------------
(* claim_and_settle: the agent repays before the liquidation window opens. *)

\* expires_at + grace as a checked i64 addition.
GraceEnd(adv) == adv.expires_at + LIQUIDATION_GRACE_SECONDS

\* Mutation: the strict comparison becomes non-strict.
SettlementOpen_inclusive(adv) == GraceEnd(adv) <= I64_MAX /\ now <= GraceEnd(adv)

SettlementOpen(adv) == GraceEnd(adv) <= I64_MAX /\ now < GraceEnd(adv)

\* Mutation: settlement leaves the agent's live principal as it was.
ReleasedLedger_kept(led, principal) == led

\* Mutation: closing one advance clears the principal of all the agent's.
ReleasedLedger_cleared(led, principal) == [led EXCEPT !.live_principal = 0]

ReleasedLedger(led, principal) ==
  [led EXCEPT !.live_principal = @ - principal]

\* Mutation: a closed advance stays in deployed_amount.
Undeployed_kept(principal) == deployed_amount

Undeployed(principal) == deployed_amount - principal

ClaimAndSettle(k, payment_amount, memo) ==
  LET a == k[1]
      adv == advance[k]
      fee == total_fee(adv, now)
      cut == protocol_cut(fee)
  IN /\ pool.bump # 0
     /\ adv.bump # 0 /\ consumed[k].bump # 0 /\ ledger[a].bump # 0
     /\ SettlementOpen(adv)
     /\ memo = consumed[k].nonce
     /\ FitsU64(total_owed(adv, now))
     /\ payment_amount >= total_owed(adv, now)
     /\ FitsU64(treasury + cut)
     /\ FitsU64(vault + adv.principal + lp_fee(fee))
     /\ ledger[a].live_principal >= adv.principal
     /\ deployed_amount >= adv.principal
     /\ FitsU64(total_assets + lp_fee(fee))
     /\ FitsU64(accrued_protocol_fees + cut)
     /\ treasury' = treasury + cut
     /\ vault' = vault + adv.principal + lp_fee(fee)
     /\ ledger' = [ledger EXCEPT ![a] = ReleasedLedger(@, adv.principal)]
     /\ deployed_amount' = Undeployed(adv.principal)
     /\ total_assets' = total_assets + lp_fee(fee)
     /\ accrued_protocol_fees' = accrued_protocol_fees + cut
     /\ advance' = [advance EXCEPT ![k] = NoAdvance]
     /\ UNCHANGED <<pool, total_shares, params, pending_params, shares, consumed,
                    tombstone, allowed_signer, now, histVars>>

-----------------------------------------------------------------------------
(* liquidate: anyone, once the grace period has run out.                   *)

LiquidationOpen(adv) == GraceEnd(adv) <= I64_MAX /\ now >= GraceEnd(adv)

\* Everything besides the time window that the handler needs to succeed.
LiquidateAccounts(k) ==
  /\ pool.bump # 0
  /\ advance[k].bump # 0 /\ consumed[k].bump # 0 /\ ledger[k[1]].bump # 0
  /\ tombstone[k].bump = 0
  /\ ledger[k[1]].live_principal >= advance[k].principal
  /\ deployed_amount >= advance[k].principal
  /\ total_assets >= advance[k].principal

\* Mutation: the default is not written off.
WrittenOff_nothing(principal) == total_assets

WrittenOff(principal) == total_assets - principal

\* Mutation: the tombstone records the moment of liquidation as the expiry.
TombstoneOf_expiry_now(adv) ==
  [bump |-> 1, principal |-> adv.principal, expires_at |-> now,
   liquidated_at |-> now]

TombstoneOf(adv) ==
  [bump |-> 1, principal |-> adv.principal, expires_at |-> adv.expires_at,
   liquidated_at |-> now]

Liquidate(k) ==
  LET adv == advance[k]
  IN /\ LiquidateAccounts(k)
     /\ LiquidationOpen(adv)
     /\ ledger' = [ledger EXCEPT ![k[1]] = ReleasedLedger(@, adv.principal)]
     /\ deployed_amount' = Undeployed(adv.principal)
     /\ total_assets' = WrittenOff(adv.principal)
     /\ tombstone' = [tombstone EXCEPT ![k] = TombstoneOf(adv)]
     /\ advance' = [advance EXCEPT ![k] = NoAdvance]
     /\ UNCHANGED <<pool, total_shares, accrued_protocol_fees, params,
                    pending_params, tokenVars, consumed, allowed_signer, now,
                    histVars>>

-----------------------------------------------------------------------------
(* Governance.  A governance instruction needs, in the same transaction, a  *)
(* Squads instruction with the pool's governance vault writable: `squads`   *)
(* is that vault.                                                           *)

\* Mutation: the proposer's own execute_after is kept.
Staged_as_given(p) == p

\* The caller's execute_after is overwritten with now + timelock.
Staged(p) == [p EXCEPT !.execute_after = now + pool.timelock_seconds]

ProposeParams(squads, p) ==
  /\ pool.bump # 0
  /\ squads = pool.governance
  /\ validate(p.fee_curve)
  /\ now + pool.timelock_seconds <= I64_MAX
  /\ pending_params' = {Staged(p)}
  /\ pending_since' = now
  /\ UNCHANGED <<pool, total_assets, total_shares, deployed_amount,
                 accrued_protocol_fees, params, tokenVars, pdaVars,
                 allowed_signer, now, drawn, donated, skimmed, burned>>

InForce(p) ==
  [fee_curve |-> p.fee_curve, max_advance_pct_bps |-> p.max_advance_pct_bps,
   max_advance_abs |-> p.max_advance_abs,
   agent_window_cap |-> p.agent_window_cap]

ExecuteParams ==
  /\ pool.bump # 0
  /\ \E p \in pending_params :
       /\ now >= p.execute_after
       /\ params' = InForce(p)
  /\ pending_params' = {}
  /\ UNCHANGED <<pool, total_assets, total_shares, deployed_amount,
                 accrued_protocol_fees, tokenVars, pdaVars, allowed_signer, now,
                 histVars>>

\* Mutation: skimming does not use up the accrued fees.
AccruedAfterSkim_kept(amount) == accrued_protocol_fees

AccruedAfterSkim(amount) == accrued_protocol_fees - amount

SkimProtocolFees(squads, amount) ==
  /\ pool.bump # 0
  /\ squads = pool.governance
  /\ amount > 0 /\ amount <= accrued_protocol_fees
  /\ vault >= amount /\ FitsU64(treasury + amount)
  /\ vault' = vault - amount
  /\ treasury' = treasury + amount
  /\ accrued_protocol_fees' = AccruedAfterSkim(amount)
  /\ skimmed' = skimmed + amount
  /\ UNCHANGED <<pool, total_assets, total_shares, deployed_amount, params,
                 pending_params, shares, pdaVars, allowed_signer, now, drawn,
                 donated, burned, pending_since>>

-----------------------------------------------------------------------------
(* What happens around the program.                                        *)

\* A plain SPL transfer into the vault; the pool's books do not see it.
DonateToVault(n) ==
  /\ pool.bump # 0
  /\ n > 0 /\ donated + n <= MaxDonated
  /\ FitsU64(vault + n)
  /\ vault' = vault + n
  /\ donated' = donated + n
  /\ UNCHANGED <<poolVars, treasury, shares, pdaVars, allowed_signer, now, drawn,
                 skimmed, burned, pending_since>>

\* A holder burns share tokens with the token program itself.
BurnShares(lp, n) ==
  /\ n > 0 /\ burned + n <= MaxBurned
  /\ shares[lp] >= n
  /\ shares' = [shares EXCEPT ![lp] = @ - n]
  /\ burned' = burned + n
  /\ UNCHANGED <<poolVars, vault, treasury, pdaVars, allowed_signer, now, drawn,
                 donated, skimmed, pending_since>>

\* add_allowed_signer creates a signer's PDA, remove_allowed_signer closes it.
\* The registry's own governance decides when; v1 has the one kind CreditBridge.
RegistryChange(s) ==
  /\ allowed_signer' = IF s \in allowed_signer THEN allowed_signer \ {s}
                                               ELSE allowed_signer \cup {s}
  /\ UNCHANGED <<poolVars, tokenVars, pdaVars, now, histVars>>

Tick ==
  /\ now < MaxTime
  /\ now' = now + 1
  /\ UNCHANGED <<poolVars, tokenVars, pdaVars, allowed_signer, histVars>>

-----------------------------------------------------------------------------

\* Steps that look at no other instruction of their transaction.
OpenStep ==
  \/ \E p \in InitParams : InitPool(p)
  \/ \E lp \in LPs, n \in Amounts : Deposit(lp, n)
  \/ \E lp \in LPs, n \in ShareAmounts : Withdraw(lp, n)
  \/ \E k \in Keys : Liquidate(k)
  \/ ExecuteParams
  \/ \E n \in Amounts : DonateToVault(n)
  \/ \E lp \in LPs, n \in ShareAmounts : BurnShares(lp, n)
  \/ Tick

Next ==
  \/ OpenStep
  \/ \E k \in Keys, n \in Amounts, nonce \in Nonces, att \in Attestations :
       RequestAdvance(k, n, nonce, att)
  \/ \E k \in Keys, n \in Amounts, memo \in Nonces : ClaimAndSettle(k, n, memo)
  \/ \E v \in Vaults, p \in Proposals : ProposeParams(v, p)
  \/ \E v \in Vaults, n \in Amounts : SkimProtocolFees(v, n)
  \/ \E s \in Signers : RegistryChange(s)

Spec == Init /\ [][Next]_vars

\* The keeper daemon (or anyone) keeps cranking liquidate, which needs no
\* authority, and the cluster's clock keeps moving.
Fairness ==
  /\ WF_vars(Tick)
  /\ \A k \in Keys : WF_vars(Liquidate(k))

FairSpec == Spec /\ Fairness

-----------------------------------------------------------------------------
(* Properties. *)

Principal == [k \in Keys |-> advance[k].principal]

AdvanceType ==
  [bump : {0, 1}, principal : U64, fee_owed : U64, late_penalty_per_day : U64,
   issued_at : Nat, expires_at : Int, attestor : Signers \cup {NoSigner}]

ConsumedType ==
  [bump : {0, 1}, nonce : Nonces \cup {NoNonce}, created_at : Nat]

LedgerType ==
  [bump : {0, 1}, window_start : Nat, issued_in_window : U64,
   live_principal : U64]

TombstoneType ==
  [bump : {0, 1}, principal : U64, expires_at : Int, liquidated_at : Nat]

\* Type correctness: every u64 of every account stays a u64, so no checked
\* operation of the handlers is relied on to wrap.
TypeOK ==
  /\ pool \in [bump : {0, 1}, governance : Vaults \cup {NoSigner},
               timelock_seconds : Nat, chain_id : Nat]
  /\ total_assets \in U64 /\ total_shares \in U64
  /\ deployed_amount \in U64 /\ accrued_protocol_fees \in U64
  /\ params \in PoolParams
  /\ pending_params \in SUBSET PendingParams
  /\ vault \in U64 /\ treasury \in U64
  /\ shares \in [LPs -> U64]
  /\ advance \in [Keys -> AdvanceType]
  /\ consumed \in [Keys -> ConsumedType]
  /\ ledger \in [Agents -> LedgerType]
  /\ tombstone \in [Keys -> TombstoneType]
  /\ allowed_signer \in SUBSET Signers
  /\ now \in Nat
  /\ drawn \in [Keys -> Nat]
  /\ donated \in Nat /\ skimmed \in Nat /\ burned \in Nat
  /\ pending_since \in Nat

\* The accounts of a receivable tell one story: an absent advance carries no
\* principal, nothing outlives a missing ConsumedPayment, a live advance has its
\* ledger and no tombstone, and before init_pool the books are empty.
AccountsConsistent ==
  /\ pool.bump = 0 => /\ total_assets = 0 /\ total_shares = 0
                      /\ deployed_amount = 0 /\ accrued_protocol_fees = 0
  /\ \A k \in Keys :
       /\ advance[k].bump = 0 => advance[k].principal = 0
       /\ consumed[k].bump = 0 => advance[k].bump = 0 /\ tombstone[k].bump = 0
       /\ advance[k].bump # 0 => /\ pool.bump # 0
                                 /\ ledger[k[1]].bump # 0
                                 /\ tombstone[k].bump = 0

\* The vault holds exactly the idle part of the book value, plus what outsiders
\* sent it, minus what skim_protocol_fees took out of it: no instruction moves
\* tokens without its books, in any order of calls.
VaultReconciles == vault = total_assets - deployed_amount + donated - skimmed

\* deployed_amount is the principal of the advances that exist, and each
\* ledger's live_principal that of its agent's advances: request_advance,
\* claim_and_settle and liquidate never drift apart.
ExposureMatchesAdvances ==
  /\ deployed_amount = Tally(Principal, Keys)
  /\ \A a \in Agents :
       ledger[a].live_principal = Tally(Principal, AgentKeys(a))

\* Pool.total_shares is the LPs' share tokens plus what holders burned directly.
SharesMatchSupply == total_shares = Tally(shares, LPs) + burned

\* As long as nobody sends tokens to the vault, the advances never exceed the
\* book value, whatever LPs withdraw in between.
NoOverDeployment == donated = 0 => deployed_amount <= total_assets

\* The treasury has been credited every protocol cut once by claim_and_settle
\* and, for the part already skimmed, a second time out of the vault.
TreasuryReconciles == treasury = accrued_protocol_fees + 2 * skimmed

\* An advance past its grace period can always be liquidated: none of the
\* handler's checked subtractions or account constraints stands in the way.
OverdueIsLiquidatable ==
  donated = 0 =>
    \A k \in Keys :
      advance[k].bump # 0 /\ LiquidationOpen(advance[k]) => LiquidateAccounts(k)

\* However often attestations are replayed with new receivables, an agent's live
\* principal stays within the limit of some attestation issued for it, for this
\* pool and cluster.
ReplayStaysWithinCredit ==
  \A a \in Agents :
    ledger[a].live_principal > 0 =>
      \E att \in Attestations :
        /\ att.agent = a /\ att.pool = PoolKey
        /\ att.chain_id = pool.chain_id /\ att.version = VERSION
        /\ att.outstanding + ledger[a].live_principal <= att.credit_limit

\* A receivable is lent against at most once: its ConsumedPayment outlives the
\* advance, and the advance on record is the only one ever drawn.
DrawnOnce ==
  \A k \in Keys :
    /\ drawn[k] > 0 <=> consumed[k].bump # 0
    /\ advance[k].bump # 0 => drawn[k] = advance[k].principal

\* A tombstone tells the truth about the default: the principal that was drawn
\* and never settled, liquidated only after the grace period.
TombstoneFaithful ==
  \A k \in Keys :
    tombstone[k].bump # 0 =>
      /\ tombstone[k].principal = drawn[k]
      /\ advance[k].bump = 0
      /\ tombstone[k].expires_at > consumed[k].created_at
      /\ tombstone[k].liquidated_at
           >= tombstone[k].expires_at + LIQUIDATION_GRACE_SECONDS

\* Principal drawn by an agent at a time in from .. to.
DrawnBetween(a, from, to) ==
  Tally(drawn, {k \in AgentKeys(a) : consumed[k].created_at \in from .. to})

\* issued_in_window is what the agent drew since window_start: rolling the
\* window over forgets exactly the draws that precede it.
LedgerCountsWindow ==
  \A a \in Agents :
    ledger[a].bump # 0 =>
      ledger[a].issued_in_window = DrawnBetween(a, ledger[a].window_start, now)

WindowCaps ==
  {p.params.agent_window_cap : p \in InitParams}
    \cup {p.agent_window_cap : p \in Proposals}

\* The window tumbles, so the trailing window of length AGENT_WINDOW_SECONDS
\* may straddle two ledger windows: what an agent draws in it is at most twice
\* the largest cap, when every cap governance uses is switched on.
TrailingWindowTwiceCap ==
  \A cap \in U64 :
    (\A c \in WindowCaps : c > 0 /\ c <= cap) =>
      \A a \in Agents, t \in 0 .. now :
        DrawnBetween(a, t, t + AGENT_WINDOW_SECONDS - 1) <= 2 * cap

\* The curve in force and the one pending are valid, so no advance ever owes a
\* fee above its principal, whichever curve it was priced with.
FeeWithinPrincipal ==
  /\ validate(params.fee_curve)
  /\ \A p \in pending_params : validate(p.fee_curve)
  /\ \A k \in Keys : advance[k].fee_owed <= advance[k].principal

\* The book price of a share (total_assets over total_shares, with the virtual
\* offsets), at which LPs are paid out, falls only in a liquidation: neither
\* rounding in deposit and withdraw, nor a settlement or a donation lowers it.
\* A skim takes USDC from the vault without touching the books, so it is not
\* seen in this price; see VaultEqualsIdle.
SharePriceFallsOnlyByDefault ==
  [][pool.bump # 0 =>
       \/ AssetsOff(total_assets') * SharesOff(total_shares)
            >= AssetsOff(total_assets) * SharesOff(total_shares')
       \/ \E k \in Keys : tombstone'[k] # tombstone[k]]_vars

\* Whatever the books have come to, a deposit redeemed at once never returns more
\* than was put in (TESTING_PLAN.md T-POOL-02).
RoundTripNeverProfits ==
  \A n \in Amounts :
    LET minted == preview_deposit(n, total_assets, total_shares)
    IN preview_redeem(minted, total_assets + n, total_shares + minted) <= n

\* Nor do two deposits ever mint more shares than one deposit of the sum.
SplittingNeverMintsMore ==
  \A n, more \in Amounts :
    LET first == preview_deposit(n, total_assets, total_shares)
        second == preview_deposit(more, total_assets + n, total_shares + first)
    IN first + second <= preview_deposit(n + more, total_assets, total_shares)

\* New parameters take effect only after having been pending, unchanged, for the
\* whole timelock: a re-proposal restarts the wait.
TimelockHonoured ==
  [][pool.bump # 0 /\ params' # params =>
       /\ now >= pending_since + pool.timelock_seconds
       /\ \E p \in pending_params : params' = InForce(p)]_vars

\* The grace period ends within the clock's range.
Closable(k) ==
  advance[k].bump # 0 /\ GraceEnd(advance[k]) <= MaxTime

\* LPs withdrew against lent-out principal after a donation, so that liquidate
\* cannot subtract the principal from total_assets.
BooksShort(k) == donated > skimmed /\ total_assets < advance[k].principal

\* Every advance is settled or liquidated eventually; only books that fall short
\* of its principal after a donation can keep one open, and only while they do
\* (the condition is met again and again).  With donated = 0 every one closes.
AdvancesClose ==
  \A k \in Keys : Closable(k) ~> (advance[k].bump = 0 \/ BooksShort(k))

-----------------------------------------------------------------------------
(* Statements of the repository that the code does not satisfy. *)

\* withdraw.rs: "deployed USDC has physically left the vault, so vault balance
\* == idle".  Checked without donations.
VaultEqualsIdle == vault = total_assets - deployed_amount

\* TESTING_PLAN.md T-UND-08: "pool.deployed_amount <= pool.total_assets (no
\* over-deploy)", and T-POOL-04: "Withdraw caps at idle liquidity:
\* total_assets - deployed_amount".
NoOverDeploy == deployed_amount <= total_assets

\* state.rs: the cap bounds "how much principal a single agent can pull in any
\* 24-hour window".
RollingWindowCap ==
  params.agent_window_cap > 0 =>
    \A a \in Agents, t \in 0 .. now :
      DrawnBetween(a, t, t + AGENT_WINDOW_SECONDS - 1) <= params.agent_window_cap
=============================================================================
