----------------------------- MODULE MCXinuPorts -----------------------------
(***************************************************************************)
(* The system calls around the ports, among processes that kill each other.*)
(***************************************************************************)
EXTENDS XinuPorts

PortCalls == {"create", "resume", "kill", "wait", "signal", "semcreate", "semdelete",
              "semreset"}

(* The messages are interchangeable. *)
Symmetry == Permutations(Msgs)
=============================================================================
