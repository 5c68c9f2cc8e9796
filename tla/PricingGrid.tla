----------------------------- MODULE PricingGrid ----------------------------
(***************************************************************************)
(* A grid of bounded inputs to the fee curve, and what is asked of each    *)
(* query on it: agreement with a reference definition, and order with the  *)
(* neighbouring queries.                                                   *)
(***************************************************************************)
EXTENDS Pricing

CONSTANTS
  MaxPrincipal,  \* bound: principal of a fee query
  MaxTenor,      \* bound: tenor of a fee query, in seconds
  MaxDefaults    \* bound: default count of a fee query

\* The kink and the rates range over a grid; the curves that validate rejects
\* are offered too.
Curves ==
  {[utilization_kink_bps |-> kink, base_rate_bps |-> base,
    kink_rate_bps |-> mid, max_rate_bps |-> top, duration_per_day_bps |-> 1,
    risk_premium_bps |-> 2, pool_loss_surcharge_bps |-> 5] :
     kink \in {0, 4, 10}, base \in {0, 3}, mid \in {2, 5}, top \in {4, 7, 12}}

FeeQueries ==
  [principal : 1 .. MaxPrincipal, utilization : 0 .. BPS_DENOMINATOR,
   tenor : 0 .. MaxTenor, defaults : 0 .. MaxDefaults,
   curve : {c \in Curves : validate(c)}]

Fee(query) ==
  compute_fee_amount(query.principal, query.tenor, query.utilization,
                     query.defaults, query.curve)

\* The exact rate of the published curve as a fraction: the line from base to
\* kink rate below the kink and from kink to maximum rate above it, plus one
\* duration step per whole day and one risk step per default up to five, capped
\* at the maximum.
ExactDen(curve, utilization) ==
  IF utilization <= curve.utilization_kink_bps
    THEN IF curve.utilization_kink_bps = 0 THEN 1 ELSE curve.utilization_kink_bps
    ELSE BPS_DENOMINATOR - curve.utilization_kink_bps

ExactLine(curve, utilization) ==
  LET den == ExactDen(curve, utilization)
  IN IF utilization <= curve.utilization_kink_bps
       THEN curve.base_rate_bps * den
              + utilization * (curve.kink_rate_bps - curve.base_rate_bps)
       ELSE curve.kink_rate_bps * den
              + (utilization - curve.utilization_kink_bps)
                  * (curve.max_rate_bps - curve.kink_rate_bps)

ExactPremiums(query) ==
  query.curve.duration_per_day_bps * (query.tenor \div SECONDS_PER_DAY)
    + query.curve.risk_premium_bps
        * (CHOOSE d \in 0 .. MAX_RISK_FACTOR :
             \/ d = query.defaults
             \/ d = MAX_RISK_FACTOR /\ query.defaults > d)

ExactNum(query) ==
  LET den == ExactDen(query.curve, query.utilization)
      line == ExactLine(query.curve, query.utilization)
      top == query.curve.max_rate_bps * den
  IN IF line + ExactPremiums(query) * den <= top
       THEN line + ExactPremiums(query) * den ELSE top

\* The fee is the exact curve rounded down, first to a whole basis point and then
\* to a whole atom: never above the exact fee, and below it by less than one
\* basis point and one atom.
FollowsCurve(query) ==
  LET den == ExactDen(query.curve, query.utilization)
      scaled == Fee(query) * BPS_DENOMINATOR * den
  IN /\ scaled <= query.principal * ExactNum(query)
     /\ scaled > query.principal * (ExactNum(query) - den) - BPS_DENOMINATOR * den

\* One more atom, basis point of utilization, second or default costs no less.
NoCheaperBeyond(query) ==
  \A field \in {"principal", "utilization", "tenor", "defaults"} :
    Fee([query EXCEPT ![field] = @ + 1]) >= Fee(query)
=============================================================================
