-------------------------- MODULE MCStorageObjects --------------------------
(* Instances of StorageObjects for TLC: two bodies of two bytes each.      *)
EXTENDS StorageObjects, TLC

CONSTANTS c1, c2, guild, global, x, y

TwoBytes == [k \in Contents |-> 2]

\* Nothing tells the calls apart, nor two bodies of one size.
CallsAndBodies == Permutations(Callers) \cup Permutations(Contents)
=============================================================================
