------------------------------ MODULE XinuPorts ------------------------------
(***************************************************************************)
(* Ports (system/pt*.c) on top of the process manager.                     *)
(*                                                                         *)
(* The port calls run with interrupts disabled, but every wait, signal,    *)
(* semreset and semdelete in them may give the processor away.  An action  *)
(* here is what the code does up to and including such a call, which is    *)
(* the action of XinuKernel; ppc[p] says where in the port code process p  *)
(* continues when it is dispatched, with its local variables in plocal.    *)
(* A call that returns SYSERR at once changes nothing and is no step.      *)
(***************************************************************************)
EXTENDS XinuKernel

CONSTANTS
    NPORTS,     \* size of the port table
    MaxMsgs,    \* message nodes that ptinit allocates for all ports
    CntBits,    \* width of the uint16 ptmaxcnt, scaled down
    Msgs,       \* messages
    NoMessage,  \* no message
    MaxSeq,     \* bound on ptseq
    MaxKills    \* bound on the number of kills

Port == 0 .. NPORTS - 1
Node == 1 .. MaxMsgs

ASSUME NPORTSAssumption  == NPORTS \in Nat \ {0}
ASSUME MaxMsgsAssumption == MaxMsgs \in Nat \ {0}
ASSUME CntBitsAssumption == CntBits \in Nat /\ 2^CntBits > 0     \* a power is positive
ASSUME NoMessageAssumption == NoMessage \notin Msgs
ASSUME MaxSeqAssumption  == MaxSeq \in Nat
ASSUME MaxKillsAssumption == MaxKills \in Nat

VARIABLES
    ptstate, ptssem, ptrsem, ptmaxcnt, ptseq,   \* struct ptentry
    ptlist,     \* the nodes from pthead to pttail
    ptfree,     \* the free nodes
    ptmsg,      \* the message in each node
    ptnextid,   \* the port to try next
    ppc,        \* where in the port code each process continues
    plocal,     \* portid, seq, msg and newstate of the pending port call
    broken,     \* "panic": out of nodes; "null": a message was taken from an empty list
    received,   \* history: the message that was received last on each port
    orphaned,   \* history: ports on which a process was killed that owed them a step
    kills       \* history: the number of kills

pvars == <<ptstate, ptssem, ptrsem, ptmaxcnt, ptseq, ptlist, ptfree, ptmsg,
           ptnextid, ppc, plocal, broken, received, orphaned, kills>>
pallvars == <<vars, pvars>>

NoLocal == [port |-> 0, seq |-> 0, msg |-> NoMessage, new |-> "FREE"]

(* What the current process may do. *)
PIn(pc) == broken = "no" /\ Interruptible /\ ppc[currpid] = pc
PInApp == PIn("app")
PCaller == PInApp /\ currpid # NULLPROC
PGoTo(pc) == ppc' = [ppc EXCEPT ![currpid] = pc]
Local(r) == plocal' = [plocal EXCEPT ![currpid] = r]
PReturn == PGoTo("app") /\ Local(NoLocal)
me == plocal[currpid]

(* Calls on a semaphore that semcreate did not provide return SYSERR. *)
OnSem(s, Call(_)) == IF s = NoSem THEN UNCHANGED vars ELSE Call(s)
NewSemOr == IF SemsFrom = {} THEN NoSem ELSE NewSem
TrySemCreate(n) == IF SemsFrom = {} THEN UNCHANGED vars ELSE SemCreate(n)

(***************************************************************************)
(* ptcreate: two semaphores, then the rest of the entry.                   *)
(***************************************************************************)
FreeFrom == {i \in 0 .. NPORTS - 1 : ptstate[(ptnextid + i) % NPORTS] = "FREE"}

PtCreate(n) ==
    LET id == (ptnextid + Min(FreeFrom)) % NPORTS
    IN  /\ PCaller
        /\ n >= 0
        /\ FreeFrom # {}
        /\ ptseq[id] < MaxSeq
        /\ ptnextid' = (id + 1) % NPORTS
        /\ ptstate' = [ptstate EXCEPT ![id] = "ALLOC"]
        /\ ptssem' = [ptssem EXCEPT ![id] = NewSemOr]
        /\ ptmaxcnt' = [ptmaxcnt EXCEPT ![id] = n % 2^CntBits]
        /\ TrySemCreate(n)
        /\ PGoTo("create")
        /\ Local([NoLocal EXCEPT !.port = id])
        /\ UNCHANGED <<ptrsem, ptseq, ptlist, ptfree, ptmsg, broken, received, orphaned, kills>>

PtCreateEnd ==
    LET id == me.port
    IN  /\ PIn("create")
        /\ ptrsem' = [ptrsem EXCEPT ![id] = NewSemOr]
        /\ ptlist' = [ptlist EXCEPT ![id] = <<>>]
        /\ ptseq' = [ptseq EXCEPT ![id] = @ + 1]
        /\ TrySemCreate(0)
        /\ PReturn
        /\ UNCHANGED <<ptstate, ptssem, ptmaxcnt, ptfree, ptmsg, ptnextid,
                       broken, received, orphaned, kills>>

(***************************************************************************)
(* ptsend and ptrecv: wait, look whether the port is still the same one,   *)
(* move a message node, signal the other side.                             *)
(***************************************************************************)
PtSend(id, m) ==
    /\ PCaller
    /\ ptstate[id] = "ALLOC"
    /\ ptssem[id] # NoSem
    /\ Local([NoLocal EXCEPT !.port = id, !.seq = ptseq[id], !.msg = m])
    /\ PGoTo("send")
    /\ Wait(ptssem[id])
    /\ UNCHANGED <<ptstate, ptssem, ptrsem, ptmaxcnt, ptseq, ptlist, ptfree, ptmsg,
                   ptnextid, broken, received, orphaned, kills>>

(* Mutant: the state is tested, the sequence number is not. *)
SamePort_StateOnly == ptstate[me.port] = "ALLOC"

SamePort == ptstate[me.port] = "ALLOC" /\ ptseq[me.port] = me.seq

(* Mutant: the node goes in at the head. *)
Linked_AtHead(list, node) == <<node>> \o list

(* Link into the queue at the tail; set the field of the node. *)
Linked(list, node) == Append(list, node)
Filled(node, m) == [ptmsg EXCEPT ![node] = m]

(* No more nodes left to use. *)
NoNodes == ptfree = <<>>

PtSendEnd ==
    LET id == me.port
    IN  /\ PIn("send")
        /\ SamePort
        /\ ~NoNodes
        /\ ptfree' = Tail(ptfree)
        /\ ptmsg' = Filled(Head(ptfree), me.msg)
        /\ ptlist' = [ptlist EXCEPT ![id] = Linked(@, Head(ptfree))]
        /\ OnSem(ptrsem[id], Signal)
        /\ PReturn
        /\ UNCHANGED <<ptstate, ptssem, ptrsem, ptmaxcnt, ptseq, ptnextid, broken,
                       received, orphaned, kills>>

PtSendPanic ==
    /\ PIn("send")
    /\ SamePort
    /\ NoNodes
    /\ broken' = "panic"
    /\ UNCHANGED <<vars, ptstate, ptssem, ptrsem, ptmaxcnt, ptseq, ptlist, ptfree,
                   ptmsg, ptnextid, ppc, plocal, received, orphaned, kills>>

PtRecv(id) ==
    /\ PCaller
    /\ ptstate[id] = "ALLOC"
    /\ ptrsem[id] # NoSem
    /\ Local([NoLocal EXCEPT !.port = id, !.seq = ptseq[id]])
    /\ PGoTo("recv")
    /\ Wait(ptrsem[id])
    /\ UNCHANGED <<ptstate, ptssem, ptrsem, ptmaxcnt, ptseq, ptlist, ptfree, ptmsg,
                   ptnextid, broken, received, orphaned, kills>>

PtRecvEnd ==
    LET id == me.port
        node == Head(ptlist[id])
    IN  /\ PIn("recv")
        /\ SamePort
        /\ IF ptlist[id] = <<>>
           THEN /\ broken' = "null"
                /\ UNCHANGED <<vars, ptlist, ptfree, received, ppc, plocal>>
           ELSE /\ received' = [received EXCEPT ![id] = ptmsg[node]]
                /\ ptlist' = [ptlist EXCEPT ![id] = Tail(@)]
                /\ ptfree' = <<node>> \o ptfree
                /\ OnSem(ptssem[id], Signal)
                /\ PReturn
                /\ UNCHANGED broken
        /\ UNCHANGED <<ptstate, ptssem, ptrsem, ptmaxcnt, ptseq, ptmsg, ptnextid, orphaned, kills>>

(* The port was reset or deleted meanwhile: SYSERR. *)
PtGone ==
    /\ PIn("send") \/ PIn("recv")
    /\ ~SamePort
    /\ PReturn
    /\ UNCHANGED <<vars, ptstate, ptssem, ptrsem, ptmaxcnt, ptseq, ptlist, ptfree,
                   ptmsg, ptnextid, broken, received, orphaned, kills>>

(***************************************************************************)
(* ptreset and ptdelete: _ptclear frees the nodes, then releases senders   *)
(* and receivers, and leaves PT_LIMBO last.                                *)
(***************************************************************************)
(* Mutant: the nodes are not linked into the free list. *)
Recycled_Not(id) == ptfree

Recycled(id) == ptlist[id] \o ptfree

PtClear(id, new) ==
    /\ PCaller
    /\ ptstate[id] = "ALLOC"
    /\ ptseq[id] < MaxSeq
    /\ ptstate' = [ptstate EXCEPT ![id] = "LIMBO"]
    /\ ptseq' = [ptseq EXCEPT ![id] = @ + 1]
    /\ ptfree' = Recycled(id)
    /\ ptlist' = IF new = "ALLOC" THEN [ptlist EXCEPT ![id] = <<>>] ELSE ptlist
    /\ PGoTo("clear1")
    /\ Local([NoLocal EXCEPT !.port = id, !.new = new])
    /\ UNCHANGED <<vars, ptssem, ptrsem, ptmaxcnt, ptmsg, ptnextid, broken, received, orphaned, kills>>

(* Mutant: no room after a reset. *)
ResetCounts_Zero(id) == [send |-> 0, recv |-> 0]

(* The counts of the semaphores of a port that has been reset. *)
ResetCounts(id) == [send |-> ptmaxcnt[id], recv |-> 0]

ClearSem(s, n) ==
    OnSem(s, LAMBDA x : IF me.new = "ALLOC" THEN SemReset(x, n) ELSE SemDelete(x))

PtClearSenders ==
    /\ PIn("clear1")
    /\ ClearSem(ptssem[me.port], ResetCounts(me.port).send)
    /\ PGoTo("clear2")
    /\ UNCHANGED <<ptstate, ptssem, ptrsem, ptmaxcnt, ptseq, ptlist, ptfree, ptmsg,
                   ptnextid, plocal, broken, received, orphaned, kills>>

PtClearReceivers ==
    /\ PIn("clear2")
    /\ ClearSem(ptrsem[me.port], ResetCounts(me.port).recv)
    /\ PGoTo("clear3")
    /\ UNCHANGED <<ptstate, ptssem, ptrsem, ptmaxcnt, ptseq, ptlist, ptfree, ptmsg,
                   ptnextid, plocal, broken, received, orphaned, kills>>

PtClearEnd ==
    /\ PIn("clear3")
    /\ ptstate' = [ptstate EXCEPT ![me.port] = me.new]
    /\ ptnextid' = IF me.new = "FREE" THEN me.port ELSE ptnextid
    /\ PReturn
    /\ orphaned' = orphaned \ {me.port}
    /\ UNCHANGED <<vars, ptssem, ptrsem, ptmaxcnt, ptseq, ptlist, ptfree, ptmsg,
                   broken, received, kills>>

(* Mutant: blocked senders are not counted. *)
PtCount_NoSenders(id) == scount[ptrsem[id]]

(* ptcount *)
PtCount(id) ==
    LET count  == scount[ptrsem[id]]
        sndcnt == scount[ptssem[id]]
    IN  IF count >= 0 /\ sndcnt < 0 THEN count - sndcnt ELSE count

(***************************************************************************)
(* The applications around the ports, and the kernel code that the port    *)
(* calls wait for.  A process that is killed takes its port call with it.  *)
(* Nobody sleeps, so no tick calls wakeup.                                 *)
(***************************************************************************)
Spawn == \E prio \in Prios : PInApp /\ Create(prio) /\ UNCHANGED pvars
Start == \E p \in Pid : PInApp /\ Resume(p) /\ UNCHANGED pvars
Preempt == PInApp /\ Tick /\ UNCHANGED pvars

KillOther ==
    /\ kills < MaxKills
    /\ \E p \in Pid : PCaller /\ Kill(p)
    /\ kills' = kills + 1
    /\ UNCHANGED <<ptstate, ptssem, ptrsem, ptmaxcnt, ptseq, ptlist, ptfree, ptmsg,
                   ptnextid, ppc, plocal, broken, received, orphaned>>

Killed ==
    LET p == karg[currpid]
    IN  /\ KillEnd
        /\ ppc' = [ppc EXCEPT ![p] = "app"]
        /\ plocal' = [plocal EXCEPT ![p] = NoLocal]
        /\ orphaned' = IF ppc[p] # "app" /\ prstate[p] # "WAIT"
                       THEN orphaned \cup {plocal[p].port} ELSE orphaned
        /\ UNCHANGED <<ptstate, ptssem, ptrsem, ptmaxcnt, ptseq, ptlist, ptfree, ptmsg,
                       ptnextid, broken, received, kills>>

Releasing ==
    /\ SemResetLoop \/ SemResetEnd \/ SemDeleteLoop \/ SemDeleteEnd
    /\ UNCHANGED pvars

Stopped == (broken # "no" \/ halted) /\ UNCHANGED pallvars

PInit ==
    /\ Init
    /\ ptstate = [i \in Port |-> "FREE"]
    /\ ptssem = [i \in Port |-> 0]
    /\ ptrsem = [i \in Port |-> 0]
    /\ ptmaxcnt = [i \in Port |-> 0]
    /\ ptseq = [i \in Port |-> 0]
    /\ ptlist = [i \in Port |-> <<>>]
    /\ ptfree = [n \in Node |-> n]
    /\ ptmsg = [n \in Node |-> NoMessage]
    /\ ptnextid = 0
    /\ ppc = [p \in Pid |-> "app"]
    /\ plocal = [p \in Pid |-> NoLocal]
    /\ broken = "no"
    /\ received = [i \in Port |-> NoMessage]
    /\ orphaned = {}
    /\ kills = 0

PortCall ==
    \/ \E n \in Counts : PtCreate(n)
    \/ \E id \in Port, m \in Msgs : PtSend(id, m)
    \/ \E id \in Port : PtRecv(id)
    \/ \E id \in Port : PtClear(id, "ALLOC") \/ PtClear(id, "FREE")

PortContinue ==
    \/ PtCreateEnd \/ PtSendEnd \/ PtSendPanic \/ PtRecvEnd \/ PtGone
    \/ PtClearSenders \/ PtClearReceivers \/ PtClearEnd

PNext == \/ PortCall \/ PortContinue \/ Releasing
         \/ Spawn \/ Start \/ Preempt \/ KillOther \/ Killed \/ Stopped

PSpec == PInit /\ [][PNext]_pallvars

-----------------------------------------------------------------------------
(* A port (port 0; all are alike) implements the queue of PortSpec,        *)
(* through blocked senders and receivers, resets, deletions and kills: a   *)
(* message is accepted only when there is room, messages are received in   *)
(* order and once, and nothing of an earlier life of the port gets into    *)
(* it.  A port that is being reset counts as open and empty, one that is   *)
(* being deleted as closed.                                                *)
Created(id) ==
    ptstate[id] = "ALLOC" /\ ~\E p \in Pid : ppc[p] = "create" /\ plocal[p].port = id

IsOpen(id) ==
    \/ Created(id)
    \/ ptstate[id] = "LIMBO" /\ \E p \in Pid : /\ ppc[p] \in {"clear1", "clear2", "clear3"}
                                               /\ plocal[p].port = id
                                               /\ plocal[p].new = "ALLOC"

CapOf(id) == IF IsOpen(id) THEN ptmaxcnt[id] ELSE -1
Content(id) == IF IsOpen(id) THEN [i \in DOMAIN ptlist[id] |-> ptmsg[ptlist[id][i]]] ELSE <<>>

APort == INSTANCE PortSpec WITH
    Msg <- Msgs, NoMsg <- NoMessage, Capacity <- Counts,
    cap <- CapOf(0), q <- Content(0), out <- received[0]

Implements == APort!PortQueue

(* A receiver that got past wait() and the test of the sequence number     *)
(* finds a message: ptrecv does not test pthead.                           *)
NoEmptyReceive == broken # "null"

(* The message nodes are never lost, shared or used twice: each is on the  *)
(* free list or in one open port.                                          *)
Held == [id \in Port |-> IF Created(id) THEN ptlist[id] ELSE <<>>]

NodesPartitioned ==
    /\ OnQueue(ptfree, Node \ UNION {ToSet(Held[id]) : id \in Port})
    /\ \A id \in Port : IsInjective(Held[id])
    /\ \A i, j \in Port : i # j => ToSet(Held[i]) \cap ToSet(Held[j]) = {}

(* Nobody blocks without need: while a process waits to send, every place  *)
(* of the port holds a message or is promised to a sender that has been    *)
(* released; and while one waits to receive, every message is promised to  *)
(* a receiver that has been released.  Killing a process that waits keeps  *)
(* this; killing a released one breaks it until the port is reset, and a   *)
(* port that ptcreate left without one of its semaphores promises nothing. *)
HasSems(id) == ptssem[id] # NoSem /\ ptrsem[id] # NoSem

Promised(id, pc) ==
    {p \in Pid : ppc[p] = pc /\ prstate[p] # "WAIT" /\ plocal[p].port = id
                 /\ plocal[p].seq = ptseq[id]}

BlockedForReason ==
    \A id \in Port \ orphaned : ptstate[id] = "ALLOC" /\ HasSems(id) /\ PInApp =>
        /\ squeue[ptssem[id]] # <<>> =>
              Len(ptlist[id]) + Cardinality(Promised(id, "send")) = ptmaxcnt[id]
        /\ squeue[ptrsem[id]] # <<>> =>
              Len(ptlist[id]) = Cardinality(Promised(id, "recv"))

(* What ptcount says between port calls, unless a released process was     *)
(* killed since the last reset: a negative count is the number of blocked  *)
(* receivers; otherwise it counts the messages that no released receiver   *)
(* is about to take, and the senders that are blocked.                     *)
CountExact ==
    \A id \in Port \ orphaned : ptstate[id] = "ALLOC" /\ HasSems(id) /\ PInApp =>
        LET unclaimed == Len(ptlist[id]) - Cardinality(Promised(id, "recv"))
        IN  PtCount(id) = IF squeue[ptrsem[id]] # <<>> THEN -Len(squeue[ptrsem[id]])
                          ELSE unclaimed + Len(squeue[ptssem[id]])
=============================================================================
