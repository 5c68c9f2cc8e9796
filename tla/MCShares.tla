------------------------------ MODULE MCShares ------------------------------
(***************************************************************************)
(* LPs moving in and out, with the pricing they are subject to and the     *)
(* refinement of AdvanceLifecycle.                                         *)
(***************************************************************************)
EXTENDS MCEscrow, EscrowRefinement, PoolPricing
=============================================================================
