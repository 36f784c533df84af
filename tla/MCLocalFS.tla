------------------------------ MODULE MCLocalFS ------------------------------
(***************************************************************************)
(* The local file system for TLC.  A byte tells its file and its position, *)
(* and the fifth byte of a file comes in two versions: a byte that turns   *)
(* up in the wrong place, or that was overwritten, is recognised.  One of  *)
(* the files is never longer than a block.                                 *)
(***************************************************************************)
EXTENDS LocalFS

CONSTANT Short      \* the file of at most one block

Stamp(n, pos) ==
    IF n = Short /\ pos >= LF_BLKSIZ THEN {}
    ELSE {<<n, pos, v>> : v \in IF pos = 4 THEN {1, 2} ELSE {1}}
=============================================================================
