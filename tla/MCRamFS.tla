------------------------------- MODULE MCRamFS -------------------------------
(***************************************************************************)
(* RamFS with names and values that may be exchanged for one another.      *)
(***************************************************************************)
EXTENDS RamFS, TLC

Symmetry == Permutations(Name) \cup Permutations(Value) \cup Permutations(Proc)
=============================================================================
