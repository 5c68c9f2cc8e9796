------------------------------- MODULE MCSiws -------------------------------
(* Instances of the SIWS middleware for TLC. *)
EXTENDS SiwsAuth, TLC

CONSTANTS a1, a2, u1, u2, n1, n2

\* A wallet whose clock is right and one whose clock is behind.
SomeSkews == {-1, 0}

SiwsSymmetry ==
  Permutations({a1, a2}) \cup Permutations({u1, u2}) \cup Permutations({n1, n2})
=============================================================================
