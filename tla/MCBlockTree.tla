---------------------------- MODULE MCBlockTree ----------------------------
(* Small instances of BlockTree for TLC. *)
EXTENDS BlockTree, TLC

CONSTANT Heavy   \* blocks with three times the work of the others

WorkOf == [b \in Block |-> IF b \in Heavy THEN 3 ELSE 1]

\* Blocks that only differ in their names can be swapped, and so can threads.
Ordinary == Hash \ (BadContext \cup BadConnect \cup Heavy)
Interchangeable == Permutations(Ordinary) \cup Permutations(Thread)
=============================================================================
