------------------------------ MODULE MCKeeper ------------------------------
(* Instances of the keeper for TLC. *)
EXTENDS Keeper

CONSTANTS k1, k2, k3

OneAtom == [k \in {k1, k2, k3} |-> 1]

\* The keeper's clock may be a second behind or ahead.
Drift == {-1, 0, 1}
=============================================================================
