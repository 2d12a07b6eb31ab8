---------------------------- MODULE MCDrivechain ----------------------------
(* Small instances of Drivechain for TLC. *)
EXTENDS Drivechain, TLC

CONSTANTS n1, n2, w1, w2, k1, k2

\* The keys that w1 and w2 pay: one each, or the same one.
DistinctKeys == w1 :> k1 @@ w2 :> k2
SameKey == w1 :> k1 @@ w2 :> k1

OneWt == w1 :> k1
NoWt == <<>>

\* Nodes that mine in the same way can be swapped.
NodeSymmetry == Permutations({n1, n2})
=============================================================================
