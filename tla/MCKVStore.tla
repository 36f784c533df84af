------------------------------ MODULE MCKVStore ------------------------------
(***************************************************************************)
(* The key-value store for TLC: keys and values are interchangeable.       *)
(***************************************************************************)
EXTENDS KVStore, TLC

Symmetry == Permutations(Key) \cup Permutations(Val)
=============================================================================
