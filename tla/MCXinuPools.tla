----------------------------- MODULE MCXinuPools -----------------------------
(***************************************************************************)
(* Three pools, the smallest with two buffers, used by processes that kill *)
(* each other.                                                             *)
(***************************************************************************)
EXTENDS XinuPools

PoolCalls == {"create", "resume", "kill", "exit", "semcreate", "wait", "signal"}
PoolSizes == <<2, 3, 5>>
PoolNumbs == <<2, 1, 1>>
=============================================================================
