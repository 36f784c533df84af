---------------------------- MODULE MCRemoteFiles ----------------------------
(***************************************************************************)
(* What is written: one byte.                                              *)
(***************************************************************************)
EXTENDS RemoteFiles

CONSTANT Byte1      \* the bytes

OneByte == {<<b>> : b \in Byte1}
=============================================================================
