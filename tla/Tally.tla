------------------------------- MODULE Tally --------------------------------
(***************************************************************************)
(* Sums of natural-valued functions over finite sets.  The escrow keeps    *)
(* running totals (deployed_amount, live_principal, total_shares) of       *)
(* quantities that live in other accounts; the invariants compare each     *)
(* running total with the sum it stands for.                               *)
(*                                                                         *)
(* The sum is stated without recursion, as the number of its units: the    *)
(* units of f over S are the pairs <<k, i>> with k in S and i in 1..f[k].  *)
(* ArithmeticTheorems proves its laws; MCEscrow compares it with the       *)
(* community modules' fold.                                                *)
(***************************************************************************)
EXTENDS Naturals, FiniteSets

Units(f, S) == UNION {{k} \X (1 .. f[k]) : k \in S}

Tally(f, S) == Cardinality(Units(f, S))
=============================================================================
