---------------------------- MODULE MCFreshness ----------------------------
(* Model-checking instance of Freshness: pages and values are model values   *)
(* that no operation tells apart.                                            *)
EXTENDS Freshness, TLC

Symmetry == Permutations(Pages) \cup Permutations(Values)
=============================================================================
