------------------------------ MODULE Pricing -------------------------------
(***************************************************************************)
(* The pure arithmetic of credmesh-escrow: the virtual-offset share math,  *)
(* the utilization/duration/risk fee curve and the late penalty of         *)
(* pricing.rs, FeeCurve::validate of state.rs, and the settlement          *)
(* waterfall of claim_and_settle.rs.                                       *)
(*                                                                         *)
(* The code computes in u128 and narrows the result to u64, failing when   *)
(* it does not fit.  Here an operator returns the exact integer and its    *)
(* caller guards with FitsU64.  Intermediate u128 and u64 products whose   *)
(* factors are u16 curve fields cannot overflow for the code's constants   *)
(* (a tenor is an i64 number of seconds, so tenor/86400 * 65535 < 2^64).   *)
(***************************************************************************)
EXTENDS Integers

CONSTANTS
  BPS_DENOMINATOR,        \* 10_000
  PROTOCOL_FEE_BPS,       \* 1_500
  LATE_PENALTY_BPS,       \* the literal 10 of compute_late_penalty_per_day
  SECONDS_PER_DAY,        \* the literal 86_400
  MAX_LATE_DAYS,          \* 365
  MAX_RISK_FACTOR,        \* the literal 5 of compute_fee_amount
  VIRTUAL_ASSETS_OFFSET,  \* 10^6
  VIRTUAL_SHARES_OFFSET,  \* 10^9
  U64_MAX                 \* 2^64 - 1

ASSUME PricingAssumption ==
  /\ BPS_DENOMINATOR \in Nat \ {0}
  /\ PROTOCOL_FEE_BPS \in 0 .. BPS_DENOMINATOR
  /\ LATE_PENALTY_BPS \in Nat
  /\ SECONDS_PER_DAY \in Nat \ {0}
  /\ MAX_LATE_DAYS \in Nat
  /\ MAX_RISK_FACTOR \in Nat
  /\ VIRTUAL_ASSETS_OFFSET \in Nat \ {0}
  /\ VIRTUAL_SHARES_OFFSET \in Nat \ {0}
  /\ U64_MAX \in Nat \ {0}

U64 == 0 .. U64_MAX

\* Mutation: a checked operation whose upper bound is not checked.
FitsU64_any(x) == x >= 0

FitsU64(x) == x \in U64

Lesser(x, y) == IF x <= y THEN x ELSE y

\* saturating_sub on unsigned integers.
SatSub(x, y) == IF x >= y THEN x - y ELSE 0

-----------------------------------------------------------------------------
(* Share math. *)

AssetsOff(total_assets) == total_assets + VIRTUAL_ASSETS_OFFSET

SharesOff(total_shares) == total_shares + VIRTUAL_SHARES_OFFSET

\* Mutation: the share count is rounded up instead of down.
preview_deposit_rounds_up(amount, total_assets, total_shares) ==
  (amount * SharesOff(total_shares) + AssetsOff(total_assets) - 1)
    \div AssetsOff(total_assets)

preview_deposit(amount, total_assets, total_shares) ==
  (amount * SharesOff(total_shares)) \div AssetsOff(total_assets)

preview_redeem(shares, total_assets, total_shares) ==
  (shares * AssetsOff(total_assets)) \div SharesOff(total_shares)

-----------------------------------------------------------------------------
(* Fee curve. *)

\* The u16 fields of FeeCurve.
FeeCurve ==
  [utilization_kink_bps : Nat, base_rate_bps : Nat, kink_rate_bps : Nat,
   max_rate_bps : Nat, duration_per_day_bps : Nat, risk_premium_bps : Nat,
   pool_loss_surcharge_bps : Nat]

\* Mutation: the ceiling on max_rate_bps is not checked.
validate_without_ceiling(curve) ==
  /\ curve.utilization_kink_bps <= BPS_DENOMINATOR
  /\ curve.base_rate_bps <= curve.kink_rate_bps
  /\ curve.kink_rate_bps <= curve.max_rate_bps

validate(curve) ==
  /\ curve.utilization_kink_bps <= BPS_DENOMINATOR
  /\ curve.base_rate_bps <= curve.kink_rate_bps
  /\ curve.kink_rate_bps <= curve.max_rate_bps
  /\ curve.max_rate_bps <= BPS_DENOMINATOR

\* Share of the book that is lent out; an empty pool counts as fully used.
compute_utilization_bps(total_assets, deployed_amount) ==
  IF total_assets = 0
    THEN BPS_DENOMINATOR
    ELSE (deployed_amount * BPS_DENOMINATOR) \div total_assets

\* The rate below the kink climbs from the base rate to the kink rate.
rate_below_kink(utilization_bps, curve) ==
  curve.base_rate_bps
    + IF curve.utilization_kink_bps > 0
        THEN (utilization_bps * SatSub(curve.kink_rate_bps, curve.base_rate_bps))
             \div curve.utilization_kink_bps
        ELSE 0

\* Mutation: the slope above the kink starts from the base rate.
rate_above_kink_from_base(utilization_bps, curve) ==
  curve.base_rate_bps
    + ((utilization_bps - curve.utilization_kink_bps)
         * SatSub(curve.max_rate_bps, curve.kink_rate_bps))
      \div (BPS_DENOMINATOR - curve.utilization_kink_bps)

\* The rate above the kink climbs from the kink rate to the maximum rate.
rate_above_kink(utilization_bps, curve) ==
  curve.kink_rate_bps
    + ((utilization_bps - curve.utilization_kink_bps)
         * SatSub(curve.max_rate_bps, curve.kink_rate_bps))
      \div (BPS_DENOMINATOR - curve.utilization_kink_bps)

utilization_rate(utilization_bps, curve) ==
  IF /\ utilization_bps > curve.utilization_kink_bps
     /\ BPS_DENOMINATOR > curve.utilization_kink_bps
    THEN rate_above_kink(utilization_bps, curve)
    ELSE rate_below_kink(utilization_bps, curve)

\* Mutation: the premiums are added after the clamp to max_rate_bps.
fee_rate_unclamped(duration_seconds, utilization_bps, default_count, curve) ==
  utilization_rate(utilization_bps, curve)
    + (duration_seconds \div SECONDS_PER_DAY) * curve.duration_per_day_bps
    + Lesser(default_count, MAX_RISK_FACTOR) * curve.risk_premium_bps

fee_rate(duration_seconds, utilization_bps, default_count, curve) ==
  Lesser(utilization_rate(utilization_bps, curve)
           + (duration_seconds \div SECONDS_PER_DAY) * curve.duration_per_day_bps
           + Lesser(default_count, MAX_RISK_FACTOR) * curve.risk_premium_bps,
         curve.max_rate_bps)

compute_fee_amount(principal, duration, utilization_bps, default_count, curve) ==
  (principal * fee_rate(duration, utilization_bps, default_count, curve))
    \div BPS_DENOMINATOR

compute_late_penalty_per_day(principal, curve) ==
  LET base == (principal * LATE_PENALTY_BPS) \div BPS_DENOMINATOR
  IN (base * (BPS_DENOMINATOR + curve.pool_loss_surcharge_bps))
       \div BPS_DENOMINATOR

-----------------------------------------------------------------------------
(* Settlement waterfall. *)

late_days(now, expires_at) ==
  Lesser(SatSub(now, expires_at) \div SECONDS_PER_DAY, MAX_LATE_DAYS)

\* Fee plus late penalty of an advance settled at time now.
total_fee(adv, now) ==
  adv.fee_owed + late_days(now, adv.expires_at) * adv.late_penalty_per_day

total_owed(adv, now) == adv.principal + total_fee(adv, now)

protocol_cut(fee) == (fee * PROTOCOL_FEE_BPS) \div BPS_DENOMINATOR

lp_fee(fee) == fee - protocol_cut(fee)
=============================================================================
