----------------------------- MODULE PoolPricing ----------------------------
(***************************************************************************)
(* What the two fee engines, the program's and the server's, promise about *)
(* every query of a grid.  The statements are about pure functions: they   *)
(* are evaluated while the pool is not open yet, for every curve that      *)
(* init_pool may be given.                                                 *)
(***************************************************************************)
EXTENDS CredmeshEscrow, PricingGrid, FeePreview

\* For a curve that validate accepts, compute_fee_amount is the published curve
\* up to the two roundings, on both sides of the kink and at the maximum rate.
FeeFollowsCurve ==
  pool.bump = 0 => \A query \in FeeQueries : FollowsCurve(query)

\* A larger principal, a higher utilization, a longer tenor or more defaults
\* never make an advance cheaper, on either side of the kink and across it.
FeeNeverDrops ==
  pool.bump = 0 => \A query \in FeeQueries : NoCheaperBeyond(query)

PreviewPools ==
  {p \in [totalAssets : 0 .. 12, deployedAmount : 0 .. 13,
          accruedDefaultLoss : {0, 1, 3, 12}] : p.deployedAmount <= p.totalAssets + 1}

\* The last hour of each bracket, and percentages at and between the ends.
PreviewHours == {0, 4, 24, 72, 168}
PreviewRates == {1, 51, 100}

\* A busier pool, an hour more, or a point less of either rate costs no less.
PreviewNoCheaperBeyond(p, hours, repaid, completed) ==
  LET fee == computeFee(10000, hours, repaid, completed, p)
  IN /\ computeFee(10000, hours, repaid, completed,
                   [p EXCEPT !.deployedAmount = @ + 1]) >= fee
     /\ computeFee(10000, hours + 1, repaid, completed, p) >= fee
     /\ computeFee(10000, hours, repaid - 1, completed, p) >= fee
     /\ computeFee(10000, hours, repaid, completed - 1, p) >= fee

\* A busier pool, a longer advance or a worse record never makes the server's
\* preview cheaper, across the kink, the brackets and both ends of the clamp.
\* (Not so for a larger default loss: it also shrinks the utilization.)
PreviewNeverDrops ==
  pool.bump = 0 =>
    \A p \in PreviewPools, hours \in PreviewHours,
       repaid, completed \in PreviewRates :
      PreviewNoCheaperBeyond(p, hours, repaid, completed)
=============================================================================
