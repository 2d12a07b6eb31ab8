---------------------------- MODULE MCChainState ----------------------------
(* Small instances of ChainState for TLC: a chain a1, a2, a3 and a fork b1, *)
(* or those of them that Hash has.                                          *)
EXTENDS ChainState

CONSTANTS a1, a2, a3, b1

Tree == [b \in Hash |-> CASE b = a1 -> Genesis [] b = a2 -> a1 [] b = a3 -> a2 [] b = b1 -> Genesis]

Heights == [b \in Block |-> CASE b = Genesis -> 0 [] b \in {a1, b1} -> 1 [] b = a2 -> 2 [] b = a3 -> 3]
=============================================================================
