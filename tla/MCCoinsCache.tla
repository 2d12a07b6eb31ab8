---------------------------- MODULE MCCoinsCache ----------------------------
(* A small instance of CoinsCache for TLC. *)
EXTENDS CoinsCache, TLC

\* Outputs are interchangeable: no operation orders them.
OutSymmetry == Permutations(Outs)
=============================================================================
