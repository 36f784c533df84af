----------------------------- MODULE MCXinuKernel -----------------------------
(***************************************************************************)
(* The workloads for which XinuKernel is model-checked: which system calls *)
(* the applications make.                                                  *)
(***************************************************************************)
EXTENDS XinuKernel

(* Semaphores used by processes that are killed and created meanwhile and  *)
(* whose priorities change.                                                *)
SemCalls == {"create", "resume", "kill", "chprio", "yield", "wait", "signal",
             "signaln", "semcreate", "semdelete", "semreset"}

(* Delays of several processes at a time, some of them cut short by a      *)
(* message or by kill, and messages to processes that are suspended,       *)
(* resumed, killed and created meanwhile.                                  *)
DelayCalls == {"create", "resume", "suspend", "kill", "send", "receive",
               "recvtime", "recvclr", "sleepms"}

(* Time slices and delays of processes that end by themselves, for the     *)
(* properties about progress and about the end.                            *)
LiveCalls == {"create", "resume", "sleepms", "exit"}
=============================================================================
