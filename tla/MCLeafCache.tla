---------------------------- MODULE MCLeafCache ----------------------------
(* Instances of LeafCache for TLC.                                         *)
EXTENDS LeafCache, TLC

(* Readers and leaves differ only by their names.                          *)
CacheSymmetry == Permutations(Readers) \cup Permutations(Leaves)
=============================================================================
