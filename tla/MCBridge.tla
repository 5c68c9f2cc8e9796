------------------------------ MODULE MCBridge ------------------------------
(* Instances of the bridge process for TLC. *)
EXTENDS Bridge

CONSTANTS a1, e1

OneBinding == [a \in {a1} |-> e1]

\* One quote at a time and one EVM value: the run is about the tail.
OneTtl == {1}
=============================================================================
