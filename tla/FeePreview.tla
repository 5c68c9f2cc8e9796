----------------------------- MODULE FeePreview -----------------------------
(***************************************************************************)
(* The server's fee engine, ts/server/src/pricing.ts.  The code computes   *)
(* with floating point rates; here a rate is a fraction of basis points    *)
(* and money is whole cents, rounded where the code rounds (IEEE errors    *)
(* are left out).  A repayment or completion rate is a whole percentage.   *)
(* No route of the server calls it.                                        *)
(***************************************************************************)
EXTENDS Integers

\* clamp(num / den, lo, hi) as a numerator over den.
ClampOver(num, den, lo, hi) ==
  IF num < lo * den THEN lo * den ELSE IF num > hi * den THEN hi * den ELSE num

\* Math.round of a non-negative fraction.
RoundHalfUp(num, den) == (2 * num + den) \div (2 * den)

\* The lent-out share of the capital left after defaults, as <<num, den>>.
computeUtilization(p) ==
  LET capital == p.totalAssets - p.accruedDefaultLoss
      idle == p.totalAssets - p.deployedAmount
  IN IF capital <= 0 THEN <<1, 1>>
                     ELSE <<ClampOver(capital - idle, capital, 0, 1), capital>>

\* 2%, climbing by 4% up to an 80% utilization and by 60% from there; over u[2].
computeUtilizationPremium(u) ==
  IF 5 * u[1] <= 4 * u[2] THEN 200 * u[2] + 500 * u[1]
                          ELSE 600 * u[2] + 6000 * (5 * u[1] - 4 * u[2])

\* Mutation: the open-ended last bracket is missing, so the loop falls through.
computeDurationPremium_no_last(hours) ==
  IF hours <= 4 THEN 0 ELSE IF hours <= 24 THEN 100 ELSE IF hours <= 72 THEN 250
  ELSE IF hours <= 168 THEN 400 ELSE 0

computeDurationPremium(hours) ==
  IF hours <= 4 THEN 0 ELSE IF hours <= 24 THEN 100 ELSE IF hours <= 72 THEN 250
  ELSE IF hours <= 168 THEN 400 ELSE 600

computeRiskPremium(repaymentRate, completionRate) ==
  (100 - repaymentRate) * 5 + (100 - completionRate) * 3

\* Over totalAssets, when that is positive.
computePoolLossSurcharge(p) ==
  IF p.totalAssets <= 0
    THEN 0 ELSE ClampOver(1500 * p.accruedDefaultLoss, p.totalAssets, 0, 300)

\* roundTo(rawRate, 4), clamped to 2% .. 25%.
totalRate(hours, repaymentRate, completionRate, p) ==
  LET u == computeUtilization(p)
      assets == IF p.totalAssets <= 0 THEN 1 ELSE p.totalAssets
      premiums == computeDurationPremium(hours)
                    + computeRiskPremium(repaymentRate, completionRate)
      raw == (computeUtilizationPremium(u) + premiums * u[2]) * assets
               + computePoolLossSurcharge(p) * u[2]
  IN ClampOver(RoundHalfUp(raw, u[2] * assets), 1, 200, 2500)

computeFee(principal, hours, repaymentRate, completionRate, p) ==
  RoundHalfUp(principal * totalRate(hours, repaymentRate, completionRate, p),
              10000)
=============================================================================
