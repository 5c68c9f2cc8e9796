------------------------------ MODULE MCQuotes ------------------------------
(* Instances of the quote service for TLC. *)
EXTENDS QuoteService, TLC

CONSTANTS a1, a2, a3, e1, e2

\* Two agents are registered with the bridge, a third is not.
TwoBindings == (a1 :> e1) @@ (a2 :> e2)

\* Not positive, and above the cap.
SomeTtls == {0, 5}

RequestsAlike == Permutations(Requests)
=============================================================================
