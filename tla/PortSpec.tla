------------------------------- MODULE PortSpec -------------------------------
(***************************************************************************)
(* What a port promises its users: a queue of at most cap messages, first  *)
(* in first out, that can be emptied at any time.  A closed port has       *)
(* capacity Closed.                                                        *)
(***************************************************************************)
EXTENDS Integers, Sequences

CONSTANTS Msg,      \* the messages
          NoMsg,    \* no message
          Capacity  \* the capacities that ports are created with

VARIABLES cap,      \* messages the port can hold
          q,        \* the messages it holds
          out       \* the message received last, if any

Closed == -1

SpecInit == cap = Closed /\ q = <<>> /\ out = NoMsg

Open(n) == cap = Closed /\ cap' = n /\ q' = <<>> /\ UNCHANGED out

SendMsg(m) == Len(q) < cap /\ q' = Append(q, m) /\ UNCHANGED <<cap, out>>

ReceiveMsg == q # <<>> /\ out' = Head(q) /\ q' = Tail(q) /\ UNCHANGED cap

Empty == cap # Closed /\ q' = <<>> /\ UNCHANGED <<cap, out>>

Close == cap # Closed /\ cap' = Closed /\ q' = <<>> /\ UNCHANGED out

SpecNext == \/ \E n \in Capacity : Open(n)
            \/ \E m \in Msg : SendMsg(m)
            \/ ReceiveMsg \/ Empty \/ Close

PortQueue == SpecInit /\ [][SpecNext]_<<cap, q, out>>
=============================================================================
