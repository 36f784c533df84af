---------------------------- MODULE MCXinuFutures ----------------------------
(***************************************************************************)
(* The system calls that the processes around a future make, and that      *)
(* future.c makes for them.                                                *)
(***************************************************************************)
EXTENDS XinuFutures

FutureCalls == {"create", "resume", "suspend"}
=============================================================================
