------------------------------ MODULE MCXinuTty ------------------------------
(***************************************************************************)
(* Processes that may be exchanged for one another.                        *)
(***************************************************************************)
EXTENDS XinuTty, TLC

Symmetry == Permutations(Proc)
=============================================================================
