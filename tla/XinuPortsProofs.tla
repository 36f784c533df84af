---------------------------- MODULE XinuPortsProofs ----------------------------
(***************************************************************************)
(* Ports, for every number of ports, nodes, processes and semaphores.  The *)
(* port calls reach the process manager through the actions of XinuKernel, *)
(* so its invariant holds here too; of their effects the proofs need the   *)
(* counts of the semaphores and who waits on which.                        *)
(***************************************************************************)
EXTENDS XinuPorts, XinuKernelProofs

-----------------------------------------------------------------------------
(***************************************************************************)
(* The invariant.                                                          *)
(***************************************************************************)
Roles == {"send", "recv"}
ClearPcs == {"clear1", "clear2", "clear3"}
PPcs == {"app", "create"} \cup Roles \cup ClearPcs

Locals == [port : Port, seq : Nat, msg : Msgs \cup {NoMessage}, new : {"ALLOC", "FREE"}]

PTypes ==
    /\ ptstate \in [Port -> {"FREE", "ALLOC", "LIMBO"}]
    /\ ptssem \in [Port -> Sem \cup {NoSem}] /\ ptrsem \in [Port -> Sem \cup {NoSem}]
    /\ ptmaxcnt \in [Port -> Nat] /\ ptseq \in [Port -> Nat]
    /\ ptlist \in [Port -> Seq(Node)] /\ ptfree \in Seq(Node)
    /\ ptmsg \in [Node -> Msgs \cup {NoMessage}] /\ ptnextid \in Port
    /\ ppc \in [Pid -> PPcs] /\ plocal \in [Pid -> Locals]
    /\ received \in [Port -> Msgs \cup {NoMessage}]

(* No count is cut off when it becomes a uint16. *)
SmallCounts == \A n \in Counts : n < 2^CntBits

(* ptcreate is not interrupted between its two calls of semcreate. *)
CreateFits ==
    \A p \in Pid, id \in Port : ppc[p] = "create" /\ plocal[p].port = id =>
        /\ p = currpid /\ cont[p] = "user"
        /\ ptstate[id] = "ALLOC"
        /\ ptssem[id] # NoSem => /\ scount[ptssem[id]] >= 0
                                 /\ SmallCounts => scount[ptssem[id]] = ptmaxcnt[id]

(* A port in LIMBO is cleared by one process, or by none if that was       *)
(* killed; a semaphore that was reset keeps its count until the port is    *)
(* open again.                                                             *)
SemOf(id, pc) == IF pc = "send" THEN ptssem[id] ELSE ptrsem[id]

Clearers(id) == {p \in Pid : ppc[p] \in ClearPcs /\ plocal[p].port = id}

ResetTo(s, n) == s # NoSem => n = IF InReset(s) THEN kcount[currpid] ELSE scount[s]

ClearAt(id, p) ==
    /\ ptstate[id] = "LIMBO"
    /\ plocal[p].new = "ALLOC" =>
          /\ ptlist[id] = <<>>
          /\ ppc[p] # "clear1" => ResetTo(SemOf(id, "send"), ptmaxcnt[id])
          /\ ppc[p] = "clear3" => ResetTo(SemOf(id, "recv"), 0)

ClearFits ==
    \A id \in Port : /\ \A p, x \in Clearers(id) : p = x
                     /\ \A p \in Clearers(id) : ClearAt(id, p)

(* Only a port that is open has the sequence number of a pending call. *)
SeqFits ==
    \A p \in Pid, id \in Port : ppc[p] \in Roles /\ plocal[p].port = id =>
        /\ plocal[p].seq <= ptseq[id]
        /\ plocal[p].seq = ptseq[id] => Created(id) /\ SemOf(id, ppc[p]) # NoSem
        /\ ppc[p] = "send" => plocal[p].msg \in Msgs

(* The semaphores that ports rely on are allocated and shared by nobody. *)
Relies(id, pc) ==
    \/ Created(id)
    \/ pc = "send" /\ ptstate[id] = "ALLOC"
    \/ \E p \in Clearers(id) : \/ plocal[p].new = "ALLOC"
                               \/ ppc[p] = "clear1"
                               \/ pc = "recv" /\ ppc[p] = "clear2"

Owned(id, pc) == SemOf(id, pc) # NoSem /\ Relies(id, pc)

SemsFit ==
    /\ \A id \in Port, pc \in Roles : Owned(id, pc) => sstate[SemOf(id, pc)] = "USED"
    /\ \A i, j \in Port, a, b \in Roles :
          Owned(i, a) /\ Owned(j, b) /\ SemOf(i, a) = SemOf(j, b) => i = j /\ a = b

(* Only the process that clears a port is in the loop of semreset or       *)
(* semdelete, for the semaphore it has come to.                            *)
Loops == {"semreset", "semdelete"}

LoopFits ==
    \A p \in Pid : cont[p] \in Loops =>
        /\ ppc[p] \in {"clear2", "clear3"}
        /\ karg[p] = SemOf(plocal[p].port, IF ppc[p] = "clear2" THEN "send" ELSE "recv")
        /\ cont[p] = "semreset" => plocal[p].new = "ALLOC"
        /\ cont[p] = "semdelete" => sstate[karg[p]] = "FREE"

(* The calls that are pending on a port as it is now. *)
Claims(id, pc) ==
    {p \in Pid : ppc[p] = pc /\ plocal[p].port = id /\ plocal[p].seq = ptseq[id]}

(* The messages to receive, and the places to send to. *)
Target(id, pc) ==
    IF pc = "recv" THEN Len(ptlist[id]) ELSE ptmaxcnt[id] - Len(ptlist[id])

BookOf(id, pc) ==
    Book(pc = "recv" \/ SmallCounts, scount[SemOf(id, pc)], SemOf(id, pc), Parked,
         Claims(id, pc), Target(id, pc), id \notin orphaned)

BooksFit == \A id \in Port, pc \in Roles : Created(id) /\ SemOf(id, pc) # NoSem => BookOf(id, pc)

(* What a capacity may be. *)
CapsFit == SmallCounts => \A id \in Port : ptstate[id] # "FREE" => ptmaxcnt[id] \in Counts

PortInv ==
    /\ PTypes /\ CreateFits /\ ClearFits /\ SeqFits /\ SemsFit /\ LoopFits
    /\ BooksFit /\ CapsFit /\ NodesPartitioned /\ NoEmptyReceive

-----------------------------------------------------------------------------
(***************************************************************************)
(* Steps during which no loop runs and no port is created, cleared or      *)
(* opened: everything but ptcreate and _ptclear.                           *)
(***************************************************************************)
Idle == \A p \in Pid : ppc[p] # "create"
Calm == \A p \in Pid : cont[p] \notin Deferring

(* No loop is started. *)
CalmStep == \A p \in Pid : cont'[p] \in {cont[p], "user", "kill"}

LEMMA CalmNow ==
    ASSUME IInv, cont[currpid] \notin Deferring
    PROVE  Calm /\ \A s : ~InReset(s)
BY NoLoop DEF Calm, InReset, Deferring

LEMMA CalmAfter ==
    ASSUME Calm, CalmStep, IInv'
    PROVE  Calm' /\ (\A s : ~InReset(s)') /\ LoopFits'
<1>1. \A p \in Pid : cont'[p] \notin Deferring
  BY DEF Calm, CalmStep, Deferring
<1>2. currpid' \in Pid
  BY DEF IInv, TypeOK
<1> QED BY <1>1, <1>2 DEF Calm, InReset, LoopFits, Deferring, Loops

(* Between port calls, nobody is in the middle of ptcreate. *)
LEMMA IdleNow ==
    ASSUME PTypes, CreateFits, cont[currpid] # "user" \/ ppc[currpid] # "create"
    PROVE  Idle
<1>1. \A p \in Pid : plocal[p].port \in Port
  BY DEF PTypes, Locals
<1> QED BY <1>1 DEF CreateFits, Idle

(* A port is created when it is allocated. *)
LEMMA CreatedIdle ==
    /\ Idle => \A id \in Port : Created(id) <=> ptstate[id] = "ALLOC"
    /\ Idle' => \A id \in Port : Created(id)' <=> ptstate'[id] = "ALLOC"
BY DEF Idle, Created

Settled ==
    /\ UNCHANGED <<ptstate, ptssem, ptrsem, ptmaxcnt, ptseq>>
    /\ Idle /\ Idle'
    /\ \A p \in Pid : ppc'[p] \in ClearPcs => ppc'[p] = ppc[p] /\ plocal'[p] = plocal[p]

LEMMA SettledOwners ==
    ASSUME Settled
    PROVE  /\ \A id \in Port : /\ Created(id) <=> ptstate[id] = "ALLOC"
                               /\ Created(id)' <=> Created(id)
           /\ \A id \in Port, pc \in Roles : /\ SemOf(id, pc)' = SemOf(id, pc)
                                             /\ Owned(id, pc)' => Owned(id, pc)
<1>1. \A id \in Port : (Created(id) <=> ptstate[id] = "ALLOC") /\ (Created(id)' <=> Created(id))
  BY CreatedIdle DEF Settled
<1>2. \A id \in Port, pc \in Roles : SemOf(id, pc)' = SemOf(id, pc)
  BY DEF Settled, SemOf
<1>3. \A id \in Port : \A p \in Clearers(id)' :
         p \in Clearers(id) /\ ppc'[p] = ppc[p] /\ plocal'[p] = plocal[p]
  BY DEF Settled, Clearers
<1>4. ASSUME NEW id \in Port, NEW pc \in Roles, Relies(id, pc)' PROVE Relies(id, pc)
  <2>1. CASE Created(id)'
    BY <1>1, <2>1 DEF Relies
  <2>2. CASE pc = "send" /\ ptstate'[id] = "ALLOC"
    BY <2>2 DEF Relies, Settled
  <2>3. ASSUME NEW p \in Clearers(id)',
               plocal'[p].new = "ALLOC" \/ ppc'[p] = "clear1" \/ (pc = "recv" /\ ppc'[p] = "clear2")
        PROVE  Relies(id, pc)
    BY <1>3, <2>3 DEF Relies
  <2> QED BY <1>4, <2>1, <2>2, <2>3 DEF Relies
<1>5. \A id \in Port, pc \in Roles : Owned(id, pc)' => Owned(id, pc)
  BY <1>2, <1>4 DEF Owned
<1> QED BY <1>1, <1>2, <1>5

LEMMA SettledSems ==
    ASSUME Settled, SemsFit, sstate' = sstate
    PROVE  SemsFit'
<1>1. \A id \in Port, pc \in Roles : Owned(id, pc)' => sstate'[SemOf(id, pc)'] = "USED"
  BY SettledOwners DEF SemsFit
<1>2. ASSUME NEW i \in Port, NEW j \in Port, NEW a \in Roles, NEW b \in Roles,
             Owned(i, a)', Owned(j, b)', SemOf(i, a)' = SemOf(j, b)'
      PROVE  i = j /\ a = b
  BY <1>2, SettledOwners DEF SemsFit
<1> QED BY <1>1, <1>2 DEF SemsFit

(* A process that clears a port to open it again relies on its semaphores. *)
LEMMA ClearerOwns ==
    ASSUME NEW id \in Port, NEW p \in Clearers(id), plocal[p].new = "ALLOC", NEW pc \in Roles,
           SemOf(id, pc) # NoSem
    PROVE  Owned(id, pc)
BY DEF Owned, Relies

(* No other process interferes with a semaphore that was reset. *)
Undisturbed(id) ==
    \A pc \in Roles : Owned(id, pc) /\ scount[SemOf(id, pc)] >= 0
                       => scount'[SemOf(id, pc)] = scount[SemOf(id, pc)]

LEMMA SettledClear ==
    ASSUME Settled, ClearFits, PTypes, \A s : ~InReset(s) /\ ~InReset(s)',
           \A id \in Port : ptstate[id] = "LIMBO" => ptlist'[id] = ptlist[id] /\ Undisturbed(id)
    PROVE  ClearFits'
<1>1. \A id \in Port : \A p \in Clearers(id)' :
         p \in Clearers(id) /\ ppc'[p] = ppc[p] /\ plocal'[p] = plocal[p]
  BY DEF Settled, Clearers
<1>2. ASSUME NEW id \in Port, NEW p \in Clearers(id)'
      PROVE  /\ ptstate'[id] = "LIMBO"
             /\ plocal'[p].new = "ALLOC" =>
                   /\ ptlist'[id] = <<>>
                   /\ ppc'[p] # "clear1" => ResetTo(SemOf(id, "send"), ptmaxcnt[id])'
                   /\ ppc'[p] = "clear3" => ResetTo(SemOf(id, "recv"), 0)'
  <2>1. ppc'[p] = ppc[p] /\ plocal'[p] = plocal[p] /\ p \in Clearers(id)
    BY <1>1, <1>2
  <2>2. ptstate[id] = "LIMBO" /\ ptstate'[id] = "LIMBO"
    BY <2>1 DEF ClearFits, ClearAt, Settled
  <2>3. ptlist'[id] = ptlist[id] /\ Undisturbed(id) /\ ptmaxcnt[id] >= 0 /\ ptmaxcnt' = ptmaxcnt
    BY <2>2 DEF PTypes, Settled
  <2>4. ASSUME NEW pc \in Roles, NEW n \in Nat, plocal[p].new = "ALLOC", ResetTo(SemOf(id, pc), n)
        PROVE  ResetTo(SemOf(id, pc), n)'
    <3>1. SemOf(id, pc)' = SemOf(id, pc)
      BY SettledOwners
    <3>2. SemOf(id, pc) # NoSem => scount[SemOf(id, pc)] = n /\ Owned(id, pc)
      BY <2>1, <2>4, ClearerOwns DEF ResetTo
    <3>3. SemOf(id, pc) # NoSem => scount'[SemOf(id, pc)] = n
      BY <2>3, <3>2 DEF Undisturbed
    <3> QED BY <3>1, <3>3 DEF ResetTo
  <2>5. ptmaxcnt[id] \in Nat
    BY DEF PTypes
  <2>6. ASSUME plocal[p].new = "ALLOC"
        PROVE  /\ ptlist[id] = <<>>
               /\ ppc[p] # "clear1" => ResetTo(SemOf(id, "send"), ptmaxcnt[id])
               /\ ppc[p] = "clear3" => ResetTo(SemOf(id, "recv"), 0)
    BY <2>1, <2>6 DEF ClearFits, ClearAt
  <2>7. "send" \in Roles /\ "recv" \in Roles
    BY DEF Roles
  <2>8. ASSUME plocal[p].new = "ALLOC", ppc[p] # "clear1"
        PROVE  ResetTo(SemOf(id, "send"), ptmaxcnt[id])'
    <3>1. PICK n \in Nat : n = ptmaxcnt[id]
      BY <2>5
    <3>2. ResetTo(SemOf(id, "send"), n)'
      BY <2>4, <2>6, <2>7, <2>8, <3>1
    <3> QED BY <2>3, <3>1, <3>2 DEF ResetTo
  <2>9. ASSUME plocal[p].new = "ALLOC", ppc[p] = "clear3"
        PROVE  ResetTo(SemOf(id, "recv"), 0)'
    BY <2>4, <2>6, <2>7, <2>9
  <2> QED BY <2>1, <2>2, <2>3, <2>6, <2>8, <2>9
<1>3. \A id \in Port : \A p, x \in Clearers(id)' : p = x
  BY <1>1 DEF ClearFits
<1> QED BY <1>2, <1>3 DEF ClearFits, ClearAt

(* A call that was pending is as it was, or is a new one. *)
CallsFit ==
    \A p \in Pid, pc \in Roles : ppc'[p] = pc =>
        \/ ppc[p] = pc /\ plocal'[p] = plocal[p]
        \/ \E id \in Port : /\ plocal'[p].port = id /\ plocal'[p].seq = ptseq[id]
                            /\ Created(id) /\ SemOf(id, pc) # NoSem
                            /\ pc = "send" => plocal'[p].msg \in Msgs

LEMMA SettledRest ==
    ASSUME Settled, PTypes, SeqFits, CapsFit, CallsFit
    PROVE  CreateFits' /\ SeqFits' /\ CapsFit'
<1>1. CreateFits'
  BY DEF Settled, Idle, CreateFits
<1>2. CapsFit'
  BY DEF Settled, CapsFit, SmallCounts
<1>3. ASSUME NEW p \in Pid, NEW id \in Port, NEW pc \in Roles, ppc'[p] = pc, plocal'[p].port = id
      PROVE  /\ plocal'[p].seq <= ptseq'[id]
             /\ plocal'[p].seq = ptseq'[id] => Created(id)' /\ SemOf(id, pc)' # NoSem
             /\ pc = "send" => plocal'[p].msg \in Msgs
  <2>1. ptseq' = ptseq /\ ptseq[id] \in Nat /\ ptseq[id] <= ptseq[id]
    BY DEF Settled, PTypes
  <2>2. (Created(id)' <=> Created(id)) /\ SemOf(id, pc)' = SemOf(id, pc)
    BY SettledOwners
  <2>3. CASE ppc[p] = pc /\ plocal'[p] = plocal[p]
    BY <1>3, <2>1, <2>2, <2>3 DEF SeqFits
  <2>4. CASE \E i \in Port : /\ plocal'[p].port = i /\ plocal'[p].seq = ptseq[i]
                             /\ Created(i) /\ SemOf(i, pc) # NoSem
                             /\ pc = "send" => plocal'[p].msg \in Msgs
    BY <1>3, <2>1, <2>2, <2>4
  <2> QED BY <1>3, <2>3, <2>4 DEF CallsFit
<1>4. SeqFits'
  <2>1. SUFFICES ASSUME NEW p \in Pid, NEW id \in Port, ppc'[p] \in Roles, plocal'[p].port = id
                 PROVE  /\ plocal'[p].seq <= ptseq'[id]
                        /\ plocal'[p].seq = ptseq'[id] =>
                              Created(id)' /\ (IF ppc'[p] = "send" THEN ptssem'[id] ELSE ptrsem'[id]) # NoSem
                        /\ ppc'[p] = "send" => plocal'[p].msg \in Msgs
    BY DEF SeqFits, SemOf
  <2>2. PICK pc \in Roles : ppc'[p] = pc
    BY <2>1
  <2> QED BY <1>3, <2>1, <2>2 DEF SemOf
<1> QED BY <1>1, <1>2, <1>4

(* An account that a step has nothing to do with. *)
LEMMA BookKept ==
    ASSUME NEW id \in Port, NEW pc \in Roles, BookOf(id, pc),
           SemOf(id, pc)' = SemOf(id, pc), Claims(id, pc)' = Claims(id, pc),
           Target(id, pc)' = Target(id, pc),
           scount'[SemOf(id, pc)] = scount[SemOf(id, pc)],
           id \notin orphaned' => id \notin orphaned,
           \A x \in Pid : /\ Parked'[x] = SemOf(id, pc) => Parked[x] = SemOf(id, pc)
                          /\ x \in Claims(id, pc) => Parked'[x] \in {Parked[x], NoSem}
    PROVE  BookOf(id, pc)'
<1>1. Book(pc = "recv" \/ SmallCounts, scount[SemOf(id, pc)], SemOf(id, pc), Parked',
           Claims(id, pc), Target(id, pc), id \notin orphaned')
  BY BookOther DEF BookOf
<1> QED BY <1>1 DEF BookOf, SmallCounts

(* The nodes do not move. *)
LEMMA NodesKept ==
    ASSUME NodesPartitioned, \A id \in Port : Held'[id] = Held[id], ptfree' = ptfree
    PROVE  NodesPartitioned'
<1>1. Held' = Held
  BY DEF Held
<1> QED BY <1>1 DEF NodesPartitioned

LEMMA HeldKept ==
    ASSUME NEW id \in Port, Created(id)' <=> Created(id), ptlist'[id] = ptlist[id]
    PROVE  Held'[id] = Held[id]
BY DEF Held

(* Whose semaphore it is. *)
LEMMA OwnSem ==
    ASSUME SemsFit, NEW i \in Port, NEW j \in Port, NEW a \in Roles, NEW b \in Roles,
           Owned(i, a), Owned(j, b), i # j \/ a # b
    PROVE  SemOf(i, a) # SemOf(j, b)
BY DEF SemsFit

LEMMA CreatedOwns ==
    ASSUME NEW id \in Port, NEW pc \in Roles, Created(id), SemOf(id, pc) # NoSem
    PROVE  Owned(id, pc) /\ ptstate[id] = "ALLOC"
BY DEF Owned, Relies, Created

-----------------------------------------------------------------------------
(***************************************************************************)
(* The steps, one by one.  First those that the ports do not notice.       *)
(***************************************************************************)
LEMMA UnnoticedStep ==
    ASSUME IInv', PortInv, NoEffect, Calm, CalmStep, Idle, \A s : ~InReset(s),
           UNCHANGED <<ptstate, ptssem, ptrsem, ptmaxcnt, ptseq, ptlist, ptfree, ptmsg,
                       ptnextid, ppc, plocal, broken, received, orphaned>>
    PROVE  PortInv'
<1>1. PTypes'
  BY DEF PortInv, PTypes
<1>2. Settled
  BY DEF Settled, Idle
<1>3. (\A s : ~InReset(s)') /\ LoopFits'
  BY CalmAfter
<1>4. SemsFit'
  BY <1>2, SettledSems DEF PortInv, NoEffect
<1>5. ClearFits'
  <2>1. \A id \in Port : ptlist'[id] = ptlist[id] /\ Undisturbed(id)
    BY DEF NoEffect, Undisturbed
  <2> QED BY <1>2, <1>3, <2>1, SettledClear DEF PortInv
<1>6. CreateFits' /\ SeqFits' /\ CapsFit'
  <2>1. CallsFit
    BY DEF CallsFit
  <2> QED BY <1>2, <2>1, SettledRest DEF PortInv
<1>7. BooksFit'
  <2>1. ASSUME NEW id \in Port, NEW pc \in Roles, Created(id)', SemOf(id, pc)' # NoSem
        PROVE  BookOf(id, pc)'
    <3>1. Created(id) /\ SemOf(id, pc)' = SemOf(id, pc)
      BY <1>2, <2>1, SettledOwners
    <3>2. BookOf(id, pc)
      BY <2>1, <3>1 DEF PortInv, BooksFit
    <3>3. Claims(id, pc)' = Claims(id, pc) /\ Target(id, pc)' = Target(id, pc)
      BY DEF Claims, Target
    <3> QED BY <3>1, <3>2, <3>3, BookKept DEF NoEffect
  <2> QED BY <2>1 DEF BooksFit
<1>8. NodesPartitioned'
  <2>1. \A id \in Port : Held'[id] = Held[id]
    BY <1>2, SettledOwners, HeldKept
  <2> QED BY <2>1, NodesKept DEF PortInv
<1>9. NoEmptyReceive'
  BY DEF PortInv, NoEmptyReceive
<1> QED BY <1>1, <1>3, <1>4, <1>5, <1>6, <1>7, <1>8, <1>9 DEF PortInv

(* Where an application, or a port call, is about to go on. *)
LEMMA InCode ==
    ASSUME IInv, NEW pc, PIn(pc)
    PROVE  /\ currpid \in Pid /\ ppc[currpid] = pc /\ Calm /\ \A s : ~InReset(s)
           /\ cont[currpid] = "user" /\ ~halted /\ Parked[currpid] = NoSem
<1>1. cont[currpid] = "user" /\ ~halted /\ ppc[currpid] = pc
  BY DEF PIn, Interruptible
<1>2. cont[currpid] \notin Deferring
  BY <1>1 DEF Deferring
<1> QED BY <1>1, <1>2, CalmNow, ParkedTypes

LEMMA SpawnStep ==
    ASSUME IInv, PortInv, Spawn \/ Start \/ Preempt \/ KillOther
    PROVE  IInv' /\ PortInv'
<1>1. PIn("app") /\ UNCHANGED <<ptstate, ptssem, ptrsem, ptmaxcnt, ptseq, ptlist, ptfree, ptmsg,
                                ptnextid, ppc, plocal, broken, received, orphaned>>
  BY DEF Spawn, Start, Preempt, KillOther, PInApp, PCaller, pvars
<1>2. Calm /\ (\A s : ~InReset(s)) /\ ppc[currpid] = "app"
  BY <1>1, InCode
<1>3. Idle
  BY <1>2, IdleNow DEF PortInv
<1>4. IInv' /\ NoEffect /\ CalmStep
  <2>1. ASSUME NEW prio \in Prios, Create(prio) PROVE IInv' /\ NoEffect /\ CalmStep
    <3>1. cont' = cont
      BY <2>1 DEF Create, kvars
    <3> QED BY <2>1, <3>1, CreateEffect DEF CalmStep
  <2>2. ASSUME NEW p \in Pid, Resume(p) PROVE IInv' /\ NoEffect /\ CalmStep
    <3>1. cont' = cont
      BY <2>2 DEF Resume, kvars
    <3> QED BY <2>2, <3>1, ResumeEffect DEF CalmStep
  <2>3. ASSUME Tick PROVE IInv' /\ NoEffect /\ CalmStep
    <3>1. cont' = cont
      BY <2>3 DEF Tick, kvars
    <3> QED BY <2>3, <3>1, TickEffect DEF CalmStep
  <2>4. ASSUME NEW p \in Pid, Kill(p) PROVE IInv' /\ NoEffect /\ CalmStep
    <3>1. cont' = cont \/ cont' = [cont EXCEPT ![currpid] = "kill"]
      BY <2>4 DEF Kill, kvars, Then
    <3>2. CalmStep
      BY <3>1, ParkedTypes DEF CalmStep
    <3> QED BY <2>4, <3>2, KillEffect
  <2> QED BY <2>1, <2>2, <2>3, <2>4 DEF Spawn, Start, Preempt, KillOther
<1> QED BY <1>1, <1>2, <1>3, <1>4, UnnoticedStep

(* Nothing changes, or nothing but the panic. *)
LEMMA StoppedStep ==
    ASSUME IInv, PortInv, broken' # "null" \/ broken' = broken,
           UNCHANGED <<vars, ptstate, ptssem, ptrsem, ptmaxcnt, ptseq, ptlist, ptfree, ptmsg,
                       ptnextid, ppc, plocal, received, orphaned>>
    PROVE  IInv' /\ PortInv'
<1>1. IInv'
  BY StutterIInv
<1>2. UNCHANGED <<currpid, cont, karg, kcount, scount, sstate, prstate, prsem>>
  BY DEF vars, sched, semvars, kvars
<1>3. Parked' = Parked
  BY <1>2 DEF Parked
<1>4. \A id \in Port : (Created(id)' <=> Created(id))
  BY DEF Created
<1>5. PTypes' /\ NoEmptyReceive' /\ CapsFit'
  BY DEF PortInv, PTypes, NoEmptyReceive, CapsFit, SmallCounts
<1>6. CreateFits' /\ LoopFits'
  BY <1>2 DEF PortInv, CreateFits, LoopFits, SmallCounts, SemOf
<1>7. \A id \in Port : \A pc : SemOf(id, pc)' = SemOf(id, pc)
  BY DEF SemOf
<1>8. \A id \in Port : Clearers(id)' = Clearers(id)
  BY DEF Clearers
<1>9. ClearFits'
  BY <1>2, <1>7, <1>8 DEF PortInv, ClearFits, ClearAt, ResetTo, InReset
<1>10. SeqFits'
  BY <1>4 DEF PortInv, SeqFits, SemOf
<1>11. \A id \in Port, pc \in Roles : Owned(id, pc)' <=> Owned(id, pc)
  BY <1>4, <1>7, <1>8 DEF Owned, Relies
<1>12. SemsFit'
  BY <1>2, <1>7, <1>11 DEF PortInv, SemsFit
<1>13. NodesPartitioned'
  BY <1>4, HeldKept, NodesKept DEF PortInv
<1>14. BooksFit'
  <2>1. ASSUME NEW id \in Port, NEW pc \in Roles, Created(id)', SemOf(id, pc)' # NoSem
        PROVE  BookOf(id, pc)'
    <3>1. BookOf(id, pc) /\ SemOf(id, pc)' = SemOf(id, pc)
      BY <1>4, <1>7, <2>1 DEF PortInv, BooksFit
    <3>2. Claims(id, pc)' = Claims(id, pc) /\ Target(id, pc)' = Target(id, pc)
      BY DEF Claims, Target
    <3> QED BY <1>2, <1>3, <3>1, <3>2, BookKept
  <2> QED BY <2>1 DEF BooksFit
<1> QED BY <1>1, <1>5, <1>6, <1>9, <1>10, <1>12, <1>13, <1>14 DEF PortInv

(* ptsend and ptrecv, up to and including their wait. *)
LEMMA EnterStep ==
    ASSUME IInv, PortInv, NEW id \in Port, NEW pc \in Roles, PIn("app"),
           ptstate[id] = "ALLOC", SemOf(id, pc) # NoSem, Wait(SemOf(id, pc)),
           NEW r \in Locals, r.port = id, r.seq = ptseq[id], pc = "send" => r.msg \in Msgs,
           PGoTo(pc), Local(r),
           UNCHANGED <<ptstate, ptssem, ptrsem, ptmaxcnt, ptseq, ptlist, ptfree, ptmsg,
                       ptnextid, broken, received, orphaned>>
    PROVE  IInv' /\ PortInv'
<1> DEFINE s == SemOf(id, pc)
<1>1. /\ currpid \in Pid /\ ppc[currpid] = "app" /\ Calm /\ Parked[currpid] = NoSem
      /\ \A t : ~InReset(t)
  BY InCode
<1>2. Idle
  BY <1>1, IdleNow DEF PortInv
<1>3. /\ ppc \in [Pid -> PPcs] /\ plocal \in [Pid -> Locals] /\ ptssem[id] \in Sem \cup {NoSem}
      /\ ptrsem[id] \in Sem \cup {NoSem} /\ ptlist \in [Port -> Seq(Node)] /\ ptmaxcnt \in [Port -> Nat]
  BY DEF PortInv, PTypes
<1>4. s \in Sem
  BY <1>3 DEF SemOf
<1>5. /\ ppc' = [ppc EXCEPT ![currpid] = pc] /\ plocal' = [plocal EXCEPT ![currpid] = r]
      /\ pc \in PPcs \ (ClearPcs \cup {"create", "app"})
  BY DEF PGoTo, Local, Roles, PPcs, ClearPcs
<1>6. /\ \A p \in Pid : p # currpid => ppc'[p] = ppc[p] /\ plocal'[p] = plocal[p]
      /\ ppc'[currpid] = pc /\ plocal'[currpid] = r
  BY <1>1, <1>3, <1>5
<1>7. PTypes'
  BY <1>3, <1>5 DEF PortInv, PTypes
<1>8. Settled
  BY <1>2, <1>5, <1>6 DEF Settled, Idle
<1> HIDE DEF s
<1>9. /\ IInv' /\ sstate' = sstate /\ UNCHANGED <<cont, karg, kcount, halted>>
      /\ scount' = [scount EXCEPT ![s] = @ - 1] /\ scount \in [Sem -> Int]
      /\ \A x \in Pid : Parked'[x] = Parked[x] \/ (x = currpid /\ Parked'[x] = s)
  BY <1>4, WaitEffect, ParkedTypes DEF s
<1>10. (\A t : ~InReset(t)') /\ LoopFits'
  BY <1>1, <1>9, CalmAfter DEF CalmStep
<1>11. SemsFit'
  BY <1>8, <1>9, SettledSems DEF PortInv
<1>12. Created(id) /\ Owned(id, pc)
  BY <1>8, SettledOwners, CreatedOwns
<1>13. ASSUME NEW j \in Port, NEW b \in Roles, Owned(j, b), j # id \/ b # pc
       PROVE  SemOf(j, b) # s /\ scount'[SemOf(j, b)] = scount[SemOf(j, b)]
  <2>1. SemOf(j, b) # s
    BY <1>12, <1>13, OwnSem DEF PortInv, s
  <2> QED BY <1>4, <1>9, <2>1
<1>14. ClearFits'
  <2>1. \A j \in Port : ptstate[j] = "LIMBO" => ptlist'[j] = ptlist[j] /\ Undisturbed(j)
    BY <1>13 DEF Undisturbed
  <2> QED BY <1>1, <1>8, <1>10, <2>1, SettledClear DEF PortInv
<1>15. CreateFits' /\ SeqFits' /\ CapsFit'
  <2>1. CallsFit
    BY <1>6, <1>12 DEF CallsFit
  <2> QED BY <1>8, <2>1, SettledRest DEF PortInv
<1>16. BooksFit'
  <2>1. ASSUME NEW j \in Port, NEW b \in Roles, Created(j)', SemOf(j, b)' # NoSem
        PROVE  BookOf(j, b)'
    <3>1. /\ Created(j) /\ SemOf(j, b)' = SemOf(j, b) /\ Owned(j, b)
          /\ SemOf(j, b) # NoSem
      BY <1>8, <2>1, SettledOwners, CreatedOwns
    <3>2. BookOf(j, b) /\ Target(j, b)' = Target(j, b)
      BY <3>1 DEF PortInv, BooksFit, Target
    <3>3. currpid \notin Claims(j, b)
      BY <1>1, <1>5 DEF Claims, Roles
    <3>4. CASE j # id \/ b # pc
      <4>1. Claims(j, b)' = Claims(j, b)
        BY <1>1, <1>5, <1>6, <3>4 DEF Claims, Roles
      <4>2. SemOf(j, b) # s /\ scount'[SemOf(j, b)] = scount[SemOf(j, b)]
        BY <1>13, <3>1, <3>4
      <4>3. \A x \in Pid : /\ Parked'[x] = SemOf(j, b) => Parked[x] = SemOf(j, b)
                           /\ x \in Claims(j, b) => Parked'[x] \in {Parked[x], NoSem}
        BY <1>9, <3>3, <4>2
      <4> QED BY <3>1, <3>2, <4>1, <4>2, <4>3, BookKept
    <3>5. CASE j = id /\ b = pc
      <4>1. Claims(j, b)' = Claims(j, b) \cup {currpid}
        BY <1>1, <1>6, <3>5 DEF Claims
      <4>2. Target(j, b) \in Int /\ scount[s] \in Int /\ scount'[s] = scount[s] - 1
        <5>1. Len(ptlist[j]) \in Nat /\ ptmaxcnt[j] \in Nat
          BY <1>3
        <5> QED BY <1>4, <1>9, <5>1 DEF Target
      <4>3. Book(b = "recv" \/ SmallCounts, scount[s] - 1, s, Parked', Claims(j, b) \cup {currpid},
                 Target(j, b), j \notin orphaned)
        BY <1>1, <1>9, <3>2, <3>3, <3>5, <4>2, BookWait DEF BookOf, s
      <4> QED BY <3>1, <3>2, <3>5, <4>1, <4>2, <4>3 DEF BookOf, SmallCounts, s
    <3> QED BY <3>4, <3>5
  <2> QED BY <2>1 DEF BooksFit
<1>17. NodesPartitioned'
  <2>1. \A j \in Port : Held'[j] = Held[j]
    BY <1>8, SettledOwners, HeldKept
  <2> QED BY <2>1, NodesKept DEF PortInv
<1>18. NoEmptyReceive'
  BY DEF PortInv, NoEmptyReceive
<1> QED BY <1>7, <1>9, <1>10, <1>11, <1>14, <1>15, <1>16, <1>17, <1>18 DEF PortInv

LEMMA PtSendStep ==
    ASSUME IInv, PortInv, NEW id \in Port, NEW m \in Msgs, PtSend(id, m)
    PROVE  IInv' /\ PortInv'
<1> DEFINE r == [NoLocal EXCEPT !.port = id, !.seq = ptseq[id], !.msg = m]
<1>1. ptseq[id] \in Nat
  BY DEF PortInv, PTypes
<1>2. r \in Locals /\ r.port = id /\ r.seq = ptseq[id] /\ r.msg = m
  BY <1>1 DEF NoLocal, Locals
<1>3. PIn("app") /\ ptstate[id] = "ALLOC" /\ ptssem[id] # NoSem /\ Local(r) /\ PGoTo("send")
      /\ Wait(ptssem[id])
      /\ UNCHANGED <<ptstate, ptssem, ptrsem, ptmaxcnt, ptseq, ptlist, ptfree, ptmsg,
                     ptnextid, broken, received, orphaned>>
  BY DEF PtSend, PCaller, PInApp
<1>4. SemOf(id, "send") = ptssem[id] /\ "send" \in Roles
  BY DEF SemOf, Roles
<1> HIDE DEF r
<1> QED BY <1>2, <1>3, <1>4, EnterStep

LEMMA PtRecvStep ==
    ASSUME IInv, PortInv, NEW id \in Port, PtRecv(id)
    PROVE  IInv' /\ PortInv'
<1> DEFINE r == [NoLocal EXCEPT !.port = id, !.seq = ptseq[id]]
<1>1. ptseq[id] \in Nat
  BY DEF PortInv, PTypes
<1>2. r \in Locals /\ r.port = id /\ r.seq = ptseq[id]
  BY <1>1 DEF NoLocal, Locals
<1>3. PIn("app") /\ ptstate[id] = "ALLOC" /\ ptrsem[id] # NoSem /\ Local(r) /\ PGoTo("recv")
      /\ Wait(ptrsem[id])
      /\ UNCHANGED <<ptstate, ptssem, ptrsem, ptmaxcnt, ptseq, ptlist, ptfree, ptmsg,
                     ptnextid, broken, received, orphaned>>
  BY DEF PtRecv, PCaller, PInApp
<1>4. SemOf(id, "recv") = ptrsem[id] /\ "recv" \in Roles
  BY DEF SemOf, Roles
<1> HIDE DEF r
<1> QED BY <1>2, <1>3, <1>4, EnterStep

(* The port call of a process is over. *)
LEMMA CallOver ==
    ASSUME PTypes, NEW p \in Pid, ppc' = [ppc EXCEPT ![p] = "app"],
           plocal' = [plocal EXCEPT ![p] = NoLocal]
    PROVE  /\ ppc' \in [Pid -> PPcs] /\ plocal' \in [Pid -> Locals]
           /\ ppc'[p] = "app" /\ \A x \in Pid : x # p => ppc'[x] = ppc[x] /\ plocal'[x] = plocal[x]
<1>1. 0 \in Port
  BY NPORTSAssumption DEF Port
<1>2. NoLocal \in Locals
  BY <1>1 DEF NoLocal, Locals
<1> QED BY <1>2 DEF PTypes, PPcs

LEMMA PtGoneStep ==
    ASSUME IInv, PortInv, PtGone
    PROVE  IInv' /\ PortInv'
<1>1. /\ PIn("send") \/ PIn("recv")
      /\ ~(ptstate[plocal[currpid].port] = "ALLOC"
           /\ ptseq[plocal[currpid].port] = plocal[currpid].seq)
      /\ ppc' = [ppc EXCEPT ![currpid] = "app"] /\ plocal' = [plocal EXCEPT ![currpid] = NoLocal]
      /\ UNCHANGED <<vars, ptstate, ptssem, ptrsem, ptmaxcnt, ptseq, ptlist, ptfree,
                     ptmsg, ptnextid, broken, received, orphaned, kills>>
  BY DEF PtGone, SamePort, PReturn, PGoTo, Local, me
<1>2. /\ currpid \in Pid /\ ppc[currpid] \in Roles /\ Calm /\ \A t : ~InReset(t)
  BY <1>1, InCode DEF Roles
<1>3. Idle
  BY <1>2, IdleNow DEF PortInv, Roles
<1>4. /\ ppc' \in [Pid -> PPcs] /\ plocal' \in [Pid -> Locals] /\ ppc'[currpid] = "app"
      /\ \A x \in Pid : x # currpid => ppc'[x] = ppc[x] /\ plocal'[x] = plocal[x]
  BY <1>1, <1>2, CallOver DEF PortInv
<1>5. PTypes'
  BY <1>1, <1>4 DEF PortInv, PTypes
<1>6. Settled
  BY <1>1, <1>2, <1>3, <1>4 DEF Settled, Idle, ClearPcs
<1>7. IInv' /\ UNCHANGED <<currpid, cont, karg, kcount, scount, sstate, prstate, prsem>>
  BY <1>1, StutterIInv DEF vars, sched, semvars, kvars
<1>8. Parked' = Parked
  BY <1>7 DEF Parked
<1>9. (\A t : ~InReset(t)') /\ LoopFits'
  BY <1>2, <1>7, CalmAfter DEF CalmStep
<1>10. SemsFit'
  BY <1>6, <1>7, SettledSems DEF PortInv
<1>11. ClearFits'
  <2>1. \A j \in Port : ptlist'[j] = ptlist[j] /\ Undisturbed(j)
    BY <1>1, <1>7 DEF Undisturbed
  <2> QED BY <1>2, <1>6, <1>9, <2>1, SettledClear DEF PortInv
<1>12. CreateFits' /\ SeqFits' /\ CapsFit'
  <2>1. CallsFit
    BY <1>2, <1>4 DEF CallsFit, Roles
  <2> QED BY <1>6, <2>1, SettledRest DEF PortInv
<1>13. ASSUME NEW j \in Port, NEW b \in Roles PROVE Claims(j, b)' = Claims(j, b)
  <2>1. currpid \notin Claims(j, b)
    BY <1>1, <1>2 DEF PortInv, SeqFits, Claims, Created
  <2>2. currpid \notin Claims(j, b)'
    BY <1>4 DEF Claims, Roles
  <2>3. \A x \in Pid : x # currpid => (x \in Claims(j, b)' <=> x \in Claims(j, b))
    BY <1>1, <1>4 DEF Claims
  <2>4. Claims(j, b) \subseteq Pid /\ Claims(j, b)' \subseteq Pid
    BY DEF Claims
  <2> QED BY <2>1, <2>2, <2>3, <2>4
<1>14. BooksFit'
  <2>1. ASSUME NEW j \in Port, NEW b \in Roles, Created(j)', SemOf(j, b)' # NoSem
        PROVE  BookOf(j, b)'
    <3>1. BookOf(j, b) /\ SemOf(j, b)' = SemOf(j, b)
      BY <1>6, <2>1, SettledOwners DEF PortInv, BooksFit
    <3>2. Target(j, b)' = Target(j, b)
      BY <1>1 DEF Target
    <3> QED BY <1>1, <1>7, <1>8, <1>13, <3>1, <3>2, BookKept
  <2> QED BY <2>1 DEF BooksFit
<1>15. NodesPartitioned'
  <2>1. \A j \in Port : Held'[j] = Held[j]
    BY <1>1, <1>6, SettledOwners, HeldKept
  <2> QED BY <1>1, <2>1, NodesKept DEF PortInv
<1>16. NoEmptyReceive'
  BY <1>1 DEF PortInv, NoEmptyReceive
<1> QED BY <1>5, <1>7, <1>9, <1>10, <1>11, <1>12, <1>14, <1>15, <1>16 DEF PortInv

(* A semaphore whose count is not negative has no process waiting. *)
LEMMA NobodyWaits ==
    ASSUME IInv, NEW s \in Sem, ~InReset(s), scount[s] >= 0
    PROVE  \A p \in Pid : Parked[p] # s
<1>1. Len(squeue[s]) = IF scount[s] < 0 THEN -scount[s] ELSE 0
  BY DEF IInv, SemCount
<1>2. squeue[s] \in Seq(Pid) /\ OnQueue(squeue[s], WaitProcs(prstate, prsem, s))
  BY TakeApart DEF Queues, QueuesAgree
<1>3. scount[s] \in Int
  BY ParkedTypes
<1>4. Len(squeue[s]) = 0
  BY <1>1, <1>3
<1>5. squeue[s] = <<>>
  BY <1>2, <1>4
<1>6. WaitProcs(prstate, prsem, s) = {}
  BY <1>2, <1>5 DEF OnQueue, ToSet
<1> QED BY <1>6, NoSemIsNone DEF WaitProcs, Parked

LEMMA SemTypes ==
    ASSUME PTypes, NEW id \in Port, NEW pc \in Roles
    PROVE  /\ SemOf(id, pc) # NoSem => SemOf(id, pc) \in Sem
           /\ Owned(id, pc) => SemOf(id, pc) \in Sem
           /\ Len(ptlist[id]) \in Nat /\ Target(id, pc) \in Int
<1>1. ptssem[id] \in Sem \cup {NoSem} /\ ptrsem[id] \in Sem \cup {NoSem}
      /\ ptlist[id] \in Seq(Node) /\ ptmaxcnt[id] \in Nat
  BY DEF PTypes
<1>2. Len(ptlist[id]) \in Nat
  BY <1>1
<1>3. SemOf(id, pc) # NoSem => SemOf(id, pc) \in Sem
  BY <1>1 DEF SemOf
<1> QED BY <1>1, <1>2, <1>3 DEF Target, Owned

(* The end of kill: the process takes its port call with it. *)
LEMMA KilledStep ==
    ASSUME IInv, PortInv, Killed
    PROVE  IInv' /\ PortInv'
<1>1. PICK p \in Pid :
         /\ IInv' /\ p = karg[currpid] /\ sstate' = sstate /\ cont[currpid] = "kill"
         /\ \A x \in Pid : Parked'[x] = IF x = p THEN NoSem ELSE Parked[x]
         /\ scount' = IF Parked[p] = NoSem THEN scount
                      ELSE [scount EXCEPT ![Parked[p]] = @ + 1]
  BY KillEndEffect DEF Killed
<1>2. /\ ppc' = [ppc EXCEPT ![p] = "app"] /\ plocal' = [plocal EXCEPT ![p] = NoLocal]
      /\ orphaned' = IF ppc[p] # "app" /\ prstate[p] # "WAIT"
                     THEN orphaned \cup {plocal[p].port} ELSE orphaned
      /\ UNCHANGED <<ptstate, ptssem, ptrsem, ptmaxcnt, ptseq, ptlist, ptfree, ptmsg,
                     ptnextid, broken, received, kills>>
      /\ cont' = [x \in Pid |-> IF x \in {p, currpid} THEN "user" ELSE cont[x]]
  BY <1>1 DEF Killed, KillEnd
<1>3. currpid \in Pid /\ scount \in [Sem -> Int]
      /\ (Parked[p] # NoSem => Parked[p] \in Sem /\ prstate[p] = "WAIT")
      /\ (prstate[p] = "WAIT" => Parked[p] # NoSem)
  BY ParkedTypes, NoSemIsNone
<1>4. Calm /\ \A t : ~InReset(t)
  BY <1>1, CalmNow DEF Deferring
<1>5. Idle
  BY <1>1, IdleNow DEF PortInv
<1>6. /\ ppc' \in [Pid -> PPcs] /\ plocal' \in [Pid -> Locals] /\ ppc'[p] = "app"
      /\ \A x \in Pid : x # p => ppc'[x] = ppc[x] /\ plocal'[x] = plocal[x]
  BY <1>2, CallOver DEF PortInv
<1>7. PTypes'
  BY <1>2, <1>6 DEF PortInv, PTypes
<1>8. Settled
  BY <1>2, <1>5, <1>6 DEF Settled, Idle, ClearPcs
<1>9. (\A t : ~InReset(t)') /\ LoopFits'
  BY <1>1, <1>2, <1>4, CalmAfter DEF CalmStep
<1>10. SemsFit'
  BY <1>1, <1>8, SettledSems DEF PortInv
<1>11. ClearFits'
  <2>1. ASSUME NEW j \in Port, NEW b \in Roles, Owned(j, b), scount[SemOf(j, b)] >= 0
        PROVE  scount'[SemOf(j, b)] = scount[SemOf(j, b)]
    <3>1. SemOf(j, b) \in Sem
      BY <2>1, SemTypes DEF PortInv
    <3>2. Parked[p] # SemOf(j, b)
      BY <1>4, <2>1, <3>1, NobodyWaits
    <3> QED BY <1>1, <1>3, <3>1, <3>2
  <2>2. \A j \in Port : ptlist'[j] = ptlist[j] /\ Undisturbed(j)
    BY <1>2, <2>1 DEF Undisturbed
  <2> QED BY <1>4, <1>8, <1>9, <2>2, SettledClear DEF PortInv
<1>12. CreateFits' /\ SeqFits' /\ CapsFit'
  <2>1. CallsFit
    BY <1>6 DEF CallsFit, Roles
  <2> QED BY <1>8, <2>1, SettledRest DEF PortInv
<1>13. ASSUME NEW j \in Port, NEW b \in Roles PROVE Claims(j, b)' = Claims(j, b) \ {p}
  <2>1. p \notin Claims(j, b)'
    BY <1>6 DEF Claims, Roles
  <2>2. \A x \in Pid : x # p => (x \in Claims(j, b)' <=> x \in Claims(j, b))
    BY <1>2, <1>6 DEF Claims
  <2>3. Claims(j, b) \subseteq Pid /\ Claims(j, b)' \subseteq Pid
    BY DEF Claims
  <2> QED BY <2>1, <2>2, <2>3
<1>14. BooksFit'
  <2>1. ASSUME NEW j \in Port, NEW b \in Roles, Created(j)', SemOf(j, b)' # NoSem
        PROVE  BookOf(j, b)'
    <3> DEFINE s == SemOf(j, b)
    <3>1. BookOf(j, b) /\ SemOf(j, b)' = s /\ s # NoSem
      BY <1>8, <2>1, SettledOwners DEF PortInv, BooksFit
    <3>2. Target(j, b)' = Target(j, b) /\ Target(j, b) \in Int /\ s \in Sem
      BY <1>2, <2>1, <3>1, SemTypes DEF PortInv, Target
    <3>3. scount[s] \in Int
      BY <1>3, <3>2
    <3>4. (Parked[p] = s => p \in Claims(j, b))
          /\ (p \in Claims(j, b) => Parked[p] \in {s, NoSem})
      BY <3>1 DEF BookOf, Book
    <3>5. CASE p \notin Claims(j, b)
      <4>1. Claims(j, b)' = Claims(j, b)
        BY <1>13, <3>5
      <4>2. scount'[s] = scount[s]
        BY <1>1, <1>3, <3>2, <3>4, <3>5
      <4>3. \A x \in Pid : /\ Parked'[x] = s => Parked[x] = s
                           /\ x \in Claims(j, b) => Parked'[x] \in {Parked[x], NoSem}
        BY <1>1, <3>1
      <4>4. j \notin orphaned' => j \notin orphaned
        BY <1>2
      <4> QED BY <3>1, <3>2, <4>1, <4>2, <4>3, <4>4, BookKept
    <3>6. CASE p \in Claims(j, b) /\ Parked[p] = s
      <4>1. orphaned' = orphaned /\ scount'[s] = scount[s] + 1
        BY <1>1, <1>2, <1>3, <3>1, <3>2, <3>6
      <4>2. Book(b = "recv" \/ SmallCounts, scount[s] + 1, s, Parked', Claims(j, b) \ {p},
                 Target(j, b), j \notin orphaned)
        BY <1>1, <3>1, <3>2, <3>3, <3>6, BookKillWaiting DEF BookOf
      <4> QED BY <1>13, <3>1, <3>2, <4>1, <4>2 DEF BookOf, SmallCounts
    <3>7. CASE p \in Claims(j, b) /\ Parked[p] = NoSem
      <4>1. j \in orphaned' /\ scount'[s] = scount[s]
        BY <1>1, <1>2, <1>3, <3>7 DEF Claims, Roles
      <4>2. (j \notin orphaned') = FALSE
        BY <4>1
      <4>3. Book(b = "recv" \/ SmallCounts, scount[s], s, Parked, Claims(j, b), Target(j, b), FALSE)
        BY <3>1, <4>1, BookOther DEF BookOf
      <4>4. Book(b = "recv" \/ SmallCounts, scount[s], s, Parked', Claims(j, b) \ {p}, Target(j, b), FALSE)
        <5>1. \A x \in Pid : Parked'[x] = IF x = p THEN NoSem ELSE Parked[x]
          BY <1>1
        <5>2. p \in Claims(j, b) /\ s # NoSem /\ Target(j, b) \in Int
          BY <3>1, <3>2, <3>7
        <5> HIDE DEF s
        <5> QED BY <3>3, <4>3, <5>1, <5>2, BookKillRunning
      <4> QED BY <1>13, <3>1, <3>2, <4>1, <4>2, <4>4 DEF BookOf, SmallCounts
    <3> QED BY <3>4, <3>5, <3>6, <3>7
  <2> QED BY <2>1 DEF BooksFit
<1>15. NodesPartitioned'
  <2>1. \A j \in Port : Held'[j] = Held[j]
    BY <1>2, <1>8, SettledOwners, HeldKept
  <2> QED BY <1>2, <2>1, NodesKept DEF PortInv
<1>16. NoEmptyReceive'
  BY <1>2 DEF PortInv, NoEmptyReceive
<1> QED BY <1>1, <1>7, <1>9, <1>10, <1>11, <1>12, <1>14, <1>15, <1>16 DEF PortInv

(* Nodes move between the free list and one port. *)
LEMMA NodesMove ==
    ASSUME PTypes, NodesPartitioned, NEW id \in Port, NEW T, NEW F,
           OnQueue(Held'[id], T), OnQueue(ptfree', F),
           \A j \in Port : j # id => Held'[j] = Held[j],
           T \cap F = {}, T \cup F = ToSet(Held[id]) \cup ToSet(ptfree)
    PROVE  NodesPartitioned'
<1> DEFINE H(j) == ToSet(Held[j])
           U == UNION {H(j) : j \in Port}
           V == UNION {ToSet(Held'[j]) : j \in Port}
<1>1. ToSet(ptfree) = Node \ U /\ \A i, j \in Port : i # j => H(i) \cap H(j) = {}
  BY DEF NodesPartitioned, OnQueue
<1>2. \A j \in Port : H(j) \subseteq Node
  <2>1. \A j \in Port : Held[j] \in Seq(Node)
    BY DEF Held, PTypes
  <2>2. ASSUME NEW q \in Seq(Node) PROVE ToSet(q) \subseteq Node
    BY DEF ToSet
  <2> QED BY <2>1, <2>2
<1>3. ToSet(Held'[id]) = T /\ ToSet(ptfree') = F /\ IsInjective(ptfree') /\ IsInjective(Held'[id])
  BY DEF OnQueue
<1>4. \A j \in Port : j # id => ToSet(Held'[j]) = H(j) /\ IsInjective(Held'[j])
  BY DEF NodesPartitioned
<1> HIDE DEF H
<1>5. \A x : x \in U <=> \E j \in Port : x \in H(j)
  OBVIOUS
<1>6. \A x : x \in V <=> x \in T \/ \E j \in Port : j # id /\ x \in H(j)
  BY <1>3, <1>4
<1> HIDE DEF U, V
<1>7. \A x : x \in T \cup F <=> x \in H(id) \/ x \in Node \ U
  BY <1>1 DEF H
<1>8. F = Node \ V
  <2>1. ASSUME NEW x \in F PROVE x \in Node \ V
    BY <1>1, <1>2, <1>5, <1>6, <1>7, <2>1
  <2>2. ASSUME NEW x \in Node, x \notin V PROVE x \in F
    BY <1>5, <1>6, <1>7, <2>2
  <2> QED BY <2>1, <2>2
<1>9. ASSUME NEW i \in Port, NEW j \in Port, i # j
      PROVE  ToSet(Held'[i]) \cap ToSet(Held'[j]) = {}
  <2>1. \A k \in Port : k # id => T \cap H(k) = {}
    BY <1>1, <1>5, <1>7
  <2> QED BY <1>1, <1>3, <1>4, <1>9, <2>1
<1>10. OnQueue(ptfree', Node \ V)
  BY <1>3, <1>8 DEF OnQueue
<1>11. \A j \in Port : IsInjective(Held'[j])
  BY <1>3, <1>4
<1> QED BY <1>9, <1>10, <1>11 DEF NodesPartitioned, V

(* The rest of ptsend and ptrecv: a node has moved, and the other side is  *)
(* told.                                                                   *)
LEMMA LeaveStep ==
    ASSUME IInv, PortInv, NEW id \in Port, NEW pc \in Roles, NEW oc \in Roles, pc # oc,
           PIn(pc), plocal[currpid].port = id, plocal[currpid].seq = ptseq[id],
           OnSem(SemOf(id, oc), Signal), PReturn,
           ptlist' \in [Port -> Seq(Node)], ptfree' \in Seq(Node),
           ptmsg' \in [Node -> Msgs \cup {NoMessage}],
           received' \in [Port -> Msgs \cup {NoMessage}],
           \A j \in Port : j # id => ptlist'[j] = ptlist[j],
           Target(id, pc)' = Target(id, pc) - 1, Target(id, oc)' = Target(id, oc) + 1,
           NodesPartitioned',
           UNCHANGED <<ptstate, ptssem, ptrsem, ptmaxcnt, ptseq, ptnextid, broken, orphaned>>
    PROVE  IInv' /\ PortInv'
<1> DEFINE c == currpid
           t == SemOf(id, oc)
<1>1. /\ currpid \in Pid /\ ppc[currpid] = pc /\ Calm /\ Parked[currpid] = NoSem
      /\ \A u : ~InReset(u)
  BY InCode
<1>2. Idle
  BY <1>1, IdleNow DEF PortInv, Roles
<1>3. /\ ppc' \in [Pid -> PPcs] /\ plocal' \in [Pid -> Locals] /\ ppc'[c] = "app"
      /\ \A x \in Pid : x # c => ppc'[x] = ppc[x] /\ plocal'[x] = plocal[x]
  BY <1>1, CallOver DEF PortInv, PReturn, PGoTo, Local
<1>4. PTypes'
  BY <1>3 DEF PortInv, PTypes
<1>5. Settled
  BY <1>1, <1>2, <1>3 DEF Settled, Idle, ClearPcs
<1>6. scount \in [Sem -> Int]
  BY ParkedTypes
<1>7. /\ IInv' /\ sstate' = sstate /\ cont' = cont /\ Released(t)
      /\ \A u \in Sem : scount'[u] = IF u = t THEN scount[u] + 1 ELSE scount[u]
  <2>1. CASE t = NoSem
    <3>1. UNCHANGED vars
      BY <2>1 DEF OnSem
    <3>2. IInv' /\ UNCHANGED <<cont, scount, sstate, prstate, prsem>>
      BY <3>1, StutterIInv DEF vars, sched, semvars, kvars
    <3> QED BY <2>1, <3>2, NoSemIsNone DEF Released, Parked
  <2>2. CASE t # NoSem
    <3>1. Signal(t) /\ t \in Sem
      BY <2>2, SemTypes DEF OnSem, PortInv
    <3> HIDE DEF t
    <3>2. /\ IInv' /\ sstate' = sstate /\ cont' = cont /\ Released(t)
          /\ scount' = [scount EXCEPT ![t] = @ + 1]
      BY <3>1, SignalEffect
    <3> QED BY <1>6, <3>1, <3>2
  <2> QED BY <2>1, <2>2
<1>8. (\A u : ~InReset(u)') /\ LoopFits'
  BY <1>1, <1>7, CalmAfter DEF CalmStep
<1>9. SemsFit'
  BY <1>5, <1>7, SettledSems DEF PortInv
<1>10. /\ Created(id) /\ SemOf(id, pc) # NoSem /\ c \in Claims(id, pc)
       /\ t # NoSem => Owned(id, oc)
  BY <1>1, CreatedOwns DEF PortInv, SeqFits, Claims
<1>11. ASSUME NEW j \in Port, NEW b \in Roles, Owned(j, b), j # id \/ b # oc
       PROVE  SemOf(j, b) # t /\ scount'[SemOf(j, b)] = scount[SemOf(j, b)]
  <2>1. SemOf(j, b) \in Sem
    BY <1>11, SemTypes DEF PortInv
  <2>2. SemOf(j, b) # t
    BY <1>10, <1>11, <2>1, OwnSem, NoSemIsNone DEF PortInv
  <2> QED BY <1>7, <2>1, <2>2
<1>12. ClearFits'
  <2>1. ptstate[id] = "ALLOC"
    BY <1>10 DEF Created
  <2>2. \A j \in Port : ptstate[j] = "LIMBO" => ptlist'[j] = ptlist[j] /\ Undisturbed(j)
    BY <1>11, <2>1 DEF Undisturbed
  <2> QED BY <1>1, <1>5, <1>8, <2>2, SettledClear DEF PortInv
<1>13. CreateFits' /\ SeqFits' /\ CapsFit'
  <2>1. CallsFit
    BY <1>1, <1>3 DEF CallsFit, Roles
  <2> QED BY <1>5, <2>1, SettledRest DEF PortInv
<1>14. ASSUME NEW j \in Port, NEW b \in Roles PROVE Claims(j, b)' = Claims(j, b) \ {c}
  <2>1. c \notin Claims(j, b)'
    BY <1>3 DEF Claims, Roles
  <2>2. \A x \in Pid : x # c => (x \in Claims(j, b)' <=> x \in Claims(j, b))
    BY <1>3 DEF Claims
  <2>3. Claims(j, b) \subseteq Pid /\ Claims(j, b)' \subseteq Pid
    BY DEF Claims
  <2> QED BY <2>1, <2>2, <2>3
<1>15. BooksFit'
  <2>1. ASSUME NEW j \in Port, NEW b \in Roles, Created(j)', SemOf(j, b)' # NoSem
        PROVE  BookOf(j, b)'
    <3> DEFINE s == SemOf(j, b)
    <3>1. BookOf(j, b) /\ SemOf(j, b)' = s /\ s # NoSem /\ Owned(j, b)
      BY <1>5, <2>1, SettledOwners, CreatedOwns DEF PortInv, BooksFit
    <3>2. Target(j, b) \in Int /\ s \in Sem /\ scount[s] \in Int
      BY <1>6, <2>1, <3>1, SemTypes DEF PortInv
    <3>3. CASE ~(j = id /\ b = pc)
      <4>1. c \notin Claims(j, b)
        BY <1>1, <3>3 DEF Claims
      <4>2. Claims(j, b)' = Claims(j, b)
        <5>1. Claims(j, b)' = Claims(j, b) \ {c}
          BY <1>14
        <5>2. Claims(j, b) \ {c} = Claims(j, b)
          BY <4>1
        <5> QED BY <5>1, <5>2
      <4>3. CASE j = id /\ b = oc
        <5>1. s = t /\ scount'[s] = scount[s] + 1 /\ Target(j, b)' = Target(j, b) + 1
          BY <1>7, <3>2, <4>3
        <5>2. \A x \in Pid : Parked'[x] = Parked[x] \/ (Parked[x] = s /\ Parked'[x] = NoSem)
          BY <1>7, <5>1 DEF Released
        <5>3. Book(b = "recv" \/ SmallCounts, scount[s] + 1, s, Parked', Claims(j, b),
                   Target(j, b) + 1, j \notin orphaned)
          <6> DEFINE n == scount[s]
                     g == Target(j, b)
                     all == Claims(j, b)
                     counted == b = "recv" \/ SmallCounts
                     exact == j \notin orphaned
          <6>1. Book(counted, n, s, Parked, all, g, exact)
            BY <3>1 DEF BookOf
          <6>2. s # NoSem /\ n \in Int /\ g \in Int
            BY <3>1, <3>2
          <6> HIDE DEF s, n, g, all, counted, exact
          <6>3. Book(counted, n + 1, s, Parked', all, g + 1, exact)
            BY <5>2, <6>1, <6>2, BookSignal
          <6> QED BY <6>3 DEF n, g, all, counted, exact
        <5> QED BY <3>1, <4>2, <5>1, <5>3 DEF BookOf, SmallCounts
      <4>4. CASE ~(j = id /\ b = oc)
        <5>1. s # t /\ scount'[s] = scount[s]
          BY <1>11, <3>1, <4>4
        <5>2. j # id
          BY <3>3, <4>4 DEF Roles
        <5>3. Target(j, b)' = Target(j, b)
          BY <5>2 DEF Target
        <5>4. \A x \in Pid : /\ Parked'[x] = s => Parked[x] = s
                             /\ x \in Claims(j, b) => Parked'[x] \in {Parked[x], NoSem}
          BY <1>7, <3>1 DEF Released
        <5> QED BY <3>1, <4>2, <5>1, <5>3, <5>4, BookKept
      <4> QED BY <4>3, <4>4
    <3>4. CASE j = id /\ b = pc
      <4>1. s # t /\ scount'[s] = scount[s]
        BY <1>11, <3>1, <3>4
      <4>2. Target(j, b)' = Target(j, b) - 1
        BY <3>4
      <4>3. Book(b = "recv" \/ SmallCounts, scount[s], s, Parked, Claims(j, b) \ {c},
                 Target(j, b) - 1, j \notin orphaned)
        BY <1>1, <1>10, <3>1, <3>2, <3>4, BookTake DEF BookOf
      <4>4. \A x \in Pid : /\ Parked'[x] = s => Parked[x] = s
                           /\ x \in Claims(j, b) \ {c} => Parked'[x] \in {Parked[x], NoSem}
        BY <1>7, <3>1 DEF Released
      <4>5. Book(b = "recv" \/ SmallCounts, scount[s], s, Parked', Claims(j, b) \ {c},
                 Target(j, b) - 1, j \notin orphaned)
        BY <4>3, <4>4, BookOther
      <4> QED BY <1>14, <3>1, <4>1, <4>2, <4>5 DEF BookOf, SmallCounts
    <3> QED BY <3>3, <3>4
  <2> QED BY <2>1 DEF BooksFit
<1>16. NoEmptyReceive'
  BY DEF PortInv, NoEmptyReceive
<1> QED BY <1>4, <1>7, <1>8, <1>9, <1>12, <1>13, <1>15, <1>16 DEF PortInv

-----------------------------------------------------------------------------
(***************************************************************************)
(* How many processes wait.                                                *)
(***************************************************************************)
(* The calls that are pending are those that wait and those that have been *)
(* released.                                                               *)
LEMMA PromisedCounted ==
    ASSUME IInv, PTypes, NEW id \in Port, NEW pc \in Roles, BookOf(id, pc),
           SemOf(id, pc) # NoSem, ~InReset(SemOf(id, pc))
    PROVE  /\ Cardinality(Promised(id, pc)) \in Nat /\ Cardinality(Claims(id, pc)) \in Nat
           /\ Cardinality(Claims(id, pc))
                 = Cardinality(Promised(id, pc)) + Len(squeue[SemOf(id, pc)])
           /\ IsFiniteSet(Promised(id, pc))
<1> DEFINE s == SemOf(id, pc)
           W == Waiters(s)
           C == Claims(id, pc)
<1>1. s \in Sem
  BY SemTypes
<1>2. Cardinality(W) = Len(squeue[s]) /\ Len(squeue[s]) \in Nat
  BY <1>1, WaitersCounted
<1>3. W \subseteq C /\ C \subseteq Pid /\ \A p \in C : Parked[p] \in {s, NoSem}
  BY DEF BookOf, Book, Waiters
<1>4. \A p \in Pid : prstate[p] = "WAIT" <=> Parked[p] # NoSem
  BY ParkedTypes, NoSemIsNone
<1>5. Promised(id, pc) = C \ W
  <2>1. Promised(id, pc) = {p \in C : prstate[p] # "WAIT"}
    BY DEF Promised, Claims
  <2>2. \A p \in C : prstate[p] # "WAIT" <=> p \notin W
    BY <1>3, <1>4 DEF Waiters
  <2> QED BY <2>1, <2>2
<1> HIDE DEF W, C, s
<1>6. IsFiniteSet(C) /\ Cardinality(C) \in Nat /\ IsFiniteSet(C \ W) /\ Cardinality(C \ W) \in Nat
  BY <1>3, PidSets
<1>7. Cardinality(C \ W) = Cardinality(C) - Cardinality(C \cap W)
  BY <1>6, FS_Difference
<1>8. C \cap W = W
  BY <1>3
<1>9. Cardinality(C) = Cardinality(C \ W) + Cardinality(W)
  <2> DEFINE c == Cardinality(C)
             d == Cardinality(C \ W)
             w == Cardinality(W)
  <2>1. c \in Nat /\ d \in Nat /\ w \in Nat /\ d = c - w
    BY <1>2, <1>6, <1>7, <1>8
  <2> HIDE DEF c, d, w
  <2>2. c = d + w
    BY <2>1
  <2> QED BY <2>2 DEF c, d, w
<1> QED BY <1>2, <1>5, <1>6, <1>9 DEF C, s

(* A receiver that got past wait and finds the port as it was finds a      *)
(* message.                                                                *)
LEMMA MessageThere ==
    ASSUME IInv, PortInv, NEW id \in Port, PIn("recv"),
           plocal[currpid].port = id, plocal[currpid].seq = ptseq[id]
    PROVE  ptlist[id] # <<>>
<1> DEFINE s == SemOf(id, "recv")
           n == Cardinality(Claims(id, "recv"))
           k == Cardinality(Promised(id, "recv"))
           w == Len(squeue[s])
           l == Len(ptlist[id])
<1>1. currpid \in Pid /\ ppc[currpid] = "recv" /\ Parked[currpid] = NoSem /\ \A u : ~InReset(u)
  BY InCode
<1>2. Created(id) /\ s # NoSem /\ "recv" \in Roles
  BY <1>1 DEF PortInv, SeqFits, Roles
<1>3. BookOf(id, "recv") /\ s \in Sem /\ l \in Nat
  BY <1>2, SemTypes DEF PortInv, BooksFit
<1>4. scount[s] + n <= l
  BY <1>3 DEF BookOf, Book, UpTo, Target
<1>5. n = k + w /\ k \in Nat /\ n \in Nat /\ IsFiniteSet(Promised(id, "recv"))
  BY <1>1, <1>2, <1>3, PromisedCounted DEF PortInv
<1>6. currpid \in Promised(id, "recv")
  <2>1. prstate[currpid] # "WAIT"
    BY <1>1, ParkedTypes, NoSemIsNone
  <2> QED BY <1>1, <2>1 DEF Promised
<1>7. k # 0
  BY <1>5, <1>6, FS_EmptySet
<1>8. scount[s] \in Int /\ w \in Nat /\ w = IF scount[s] < 0 THEN -scount[s] ELSE 0
  BY <1>1, <1>3, WaitersCounted
<1> HIDE DEF s, n, k, w, l
<1>9. l # 0
  BY <1>3, <1>4, <1>5, <1>7, <1>8
<1> QED BY <1>9 DEF l

(* A port call returns, and no port is being created. *)
LEMMA ReturnIdle ==
    ASSUME IInv, PTypes, CreateFits, NEW pc \in PPcs, pc # "create", PIn(pc), PReturn,
           ptstate' = ptstate
    PROVE  Idle /\ Idle' /\ \A j \in Port : Created(j)' <=> Created(j)
<1>1. currpid \in Pid /\ ppc[currpid] = pc
  BY InCode
<1>2. Idle
  BY <1>1, IdleNow
<1>3. Idle'
  BY <1>1, <1>2, CallOver DEF Idle, PReturn, PGoTo, Local
<1> QED BY <1>2, <1>3, CreatedIdle

LEMMA PtSendEndStep ==
    ASSUME IInv, PortInv, PtSendEnd
    PROVE  IInv' /\ PortInv'
<1> DEFINE h == Head(ptfree)
<1>1. currpid \in Pid /\ ppc[currpid] = "send" /\ PIn("send") /\ PReturn
  BY InCode DEF PtSendEnd
<1>2. PICK id \in Port : id = plocal[currpid].port
  BY <1>1 DEF PortInv, PTypes, Locals
<1>3. /\ ptstate[id] = "ALLOC" /\ ptseq[id] = plocal[currpid].seq /\ ptfree # <<>>
      /\ ptfree' = Tail(ptfree) /\ ptmsg' = [ptmsg EXCEPT ![h] = plocal[currpid].msg]
      /\ ptlist' = [ptlist EXCEPT ![id] = Append(ptlist[id], h)]
      /\ OnSem(ptrsem[id], Signal)
      /\ UNCHANGED <<ptstate, ptssem, ptrsem, ptmaxcnt, ptseq, ptnextid, broken,
                     received, orphaned, kills>>
  BY <1>2 DEF PtSendEnd, me, SamePort, NoNodes, Filled, Linked
<1>4. plocal[currpid].msg \in Msgs
  BY <1>1, <1>2 DEF PortInv, SeqFits, Roles
<1>5. /\ ptfree \in Seq(Node) /\ ptlist \in [Port -> Seq(Node)] /\ ptlist[id] \in Seq(Node)
      /\ ptmsg \in [Node -> Msgs \cup {NoMessage}] /\ received \in [Port -> Msgs \cup {NoMessage}]
      /\ ptmaxcnt[id] \in Nat
  BY DEF PortInv, PTypes
<1>6. \A j \in Port : (Created(j)' <=> Created(j)) /\ (Created(j) <=> ptstate[j] = "ALLOC")
  <2>1. "send" \in PPcs
    BY DEF PPcs, Roles
  <2> QED BY <1>1, <1>3, <2>1, ReturnIdle, CreatedIdle DEF PortInv
<1>7. Held[id] = ptlist[id] /\ Held'[id] = ptlist'[id]
  BY <1>3, <1>6 DEF Held
<1> DEFINE F == ToSet(ptfree)
           T == ToSet(ptlist[id])
<1>8. OnQueue(ptfree, F) /\ OnQueue(ptlist[id], T) /\ F \cap T = {}
  BY <1>7 DEF PortInv, NodesPartitioned, OnQueue
<1>9. /\ h \in F /\ h \in Node /\ Tail(ptfree) \in Seq(Node) /\ OnQueue(Tail(ptfree), F \ {h})
  BY <1>3, <1>5, <1>8, TailOnQueue
<1> HIDE DEF F, T, h
<1>10. /\ Append(ptlist[id], h) \in Seq(Node) /\ OnQueue(Append(ptlist[id], h), T \cup {h})
       /\ Len(Append(ptlist[id], h)) = Len(ptlist[id]) + 1
  <2>1. h \notin T
    BY <1>8, <1>9
  <2> QED BY <1>5, <1>8, <1>9, <2>1, EnqueueOnQueue DEF Enqueue
<1>11. ptlist'[id] = Append(ptlist[id], h) /\ \A j \in Port : j # id => ptlist'[j] = ptlist[j]
  BY <1>3, <1>5 DEF h
<1>12. NodesPartitioned'
  <2>1. \A j \in Port : j # id => Held'[j] = Held[j]
    BY <1>6, <1>11, HeldKept
  <2>2. OnQueue(Held'[id], T \cup {h}) /\ OnQueue(ptfree', F \ {h})
    BY <1>3, <1>7, <1>9, <1>10, <1>11
  <2>3. (T \cup {h}) \cap (F \ {h}) = {}
    BY <1>8
  <2>4. (T \cup {h}) \cup (F \ {h}) = ToSet(Held[id]) \cup ToSet(ptfree)
    BY <1>7, <1>9 DEF F, T
  <2> QED BY <2>1, <2>2, <2>3, <2>4, NodesMove DEF PortInv
<1>13. /\ ptlist' \in [Port -> Seq(Node)] /\ ptfree' \in Seq(Node)
       /\ ptmsg' \in [Node -> Msgs \cup {NoMessage}]
       /\ received' \in [Port -> Msgs \cup {NoMessage}]
  BY <1>3, <1>4, <1>5, <1>9, <1>10, <1>11
<1>14. /\ Target(id, "send")' = Target(id, "send") - 1
       /\ Target(id, "recv")' = Target(id, "recv") + 1
  <2> DEFINE l == Len(ptlist[id])
  <2>1. l \in Nat /\ Len(ptlist'[id]) = l + 1 /\ ptmaxcnt'[id] = ptmaxcnt[id]
    BY <1>3, <1>5, <1>10, <1>11
  <2>2. /\ Target(id, "send") = ptmaxcnt[id] - l /\ Target(id, "recv") = l
        /\ Target(id, "send")' = ptmaxcnt[id] - (l + 1) /\ Target(id, "recv")' = l + 1
    BY <2>1 DEF Target
  <2> HIDE DEF l
  <2> QED BY <1>5, <2>1, <2>2
<1>15. SemOf(id, "recv") = ptrsem[id] /\ "recv" \in Roles /\ "send" \in Roles
  BY DEF SemOf, Roles
<1> QED BY <1>1, <1>2, <1>3, <1>11, <1>12, <1>13, <1>14, <1>15, LeaveStep

LEMMA PtRecvEndStep ==
    ASSUME IInv, PortInv, PtRecvEnd
    PROVE  IInv' /\ PortInv'
<1>1. currpid \in Pid /\ ppc[currpid] = "recv" /\ PIn("recv")
  BY InCode DEF PtRecvEnd
<1>2. PICK id \in Port : id = plocal[currpid].port
  BY <1>1 DEF PortInv, PTypes, Locals
<1> DEFINE h == Head(ptlist[id])
<1>3. ptstate[id] = "ALLOC" /\ ptseq[id] = plocal[currpid].seq
  BY <1>2 DEF PtRecvEnd, me, SamePort
<1>4. ptlist[id] # <<>>
  BY <1>1, <1>2, <1>3, MessageThere
<1>5. /\ received' = [received EXCEPT ![id] = ptmsg[h]] /\ ptfree' = <<h>> \o ptfree
      /\ ptlist' = [ptlist EXCEPT ![id] = Tail(ptlist[id])]
      /\ OnSem(ptssem[id], Signal) /\ PReturn
      /\ UNCHANGED <<ptstate, ptssem, ptrsem, ptmaxcnt, ptseq, ptnextid, broken,
                     ptmsg, orphaned, kills>>
  BY <1>2, <1>4 DEF PtRecvEnd, me
<1>6. /\ ptfree \in Seq(Node) /\ ptlist \in [Port -> Seq(Node)] /\ ptlist[id] \in Seq(Node)
      /\ ptmsg \in [Node -> Msgs \cup {NoMessage}] /\ received \in [Port -> Msgs \cup {NoMessage}]
      /\ ptmaxcnt[id] \in Nat
  BY DEF PortInv, PTypes
<1>7. \A j \in Port : (Created(j)' <=> Created(j)) /\ (Created(j) <=> ptstate[j] = "ALLOC")
  <2>1. "recv" \in PPcs
    BY DEF PPcs, Roles
  <2> QED BY <1>1, <1>5, <2>1, ReturnIdle, CreatedIdle DEF PortInv
<1>8. Held[id] = ptlist[id] /\ Held'[id] = ptlist'[id]
  BY <1>3, <1>5, <1>7 DEF Held
<1> DEFINE F == ToSet(ptfree)
           T == ToSet(ptlist[id])
<1>9. OnQueue(ptfree, F) /\ OnQueue(ptlist[id], T) /\ F \cap T = {}
  BY <1>8 DEF PortInv, NodesPartitioned, OnQueue
<1>10. /\ h \in T /\ h \in Node /\ Tail(ptlist[id]) \in Seq(Node)
       /\ Len(Tail(ptlist[id])) = Len(ptlist[id]) - 1 /\ OnQueue(Tail(ptlist[id]), T \ {h})
  BY <1>4, <1>6, <1>9, TailOnQueue
<1> HIDE DEF F, T, h
<1>11. <<h>> \o ptfree \in Seq(Node) /\ OnQueue(<<h>> \o ptfree, {h} \cup F)
  <2>1. <<h>> \in Seq(Node) /\ OnQueue(<<h>>, {h})
    BY <1>10 DEF OnQueue, IsInjective, ToSet
  <2>2. {h} \cap F = {}
    BY <1>9, <1>10
  <2> QED BY <1>6, <1>9, <2>1, <2>2, ConcatOnQueue
<1>12. ptlist'[id] = Tail(ptlist[id]) /\ \A j \in Port : j # id => ptlist'[j] = ptlist[j]
  BY <1>5, <1>6
<1>13. NodesPartitioned'
  <2>1. \A j \in Port : j # id => Held'[j] = Held[j]
    BY <1>7, <1>12, HeldKept
  <2>2. OnQueue(Held'[id], T \ {h}) /\ OnQueue(ptfree', {h} \cup F)
    BY <1>5, <1>8, <1>10, <1>11, <1>12 DEF h
  <2>3. (T \ {h}) \cap ({h} \cup F) = {}
    BY <1>9
  <2>4. (T \ {h}) \cup ({h} \cup F) = ToSet(Held[id]) \cup ToSet(ptfree)
    BY <1>8, <1>10 DEF F, T
  <2> QED BY <2>1, <2>2, <2>3, <2>4, NodesMove DEF PortInv
<1>14. /\ ptlist' \in [Port -> Seq(Node)] /\ ptfree' \in Seq(Node)
       /\ ptmsg' \in [Node -> Msgs \cup {NoMessage}]
       /\ received' \in [Port -> Msgs \cup {NoMessage}]
  BY <1>5, <1>6, <1>10, <1>11, <1>12 DEF h
<1>15. /\ Target(id, "recv")' = Target(id, "recv") - 1
       /\ Target(id, "send")' = Target(id, "send") + 1
  <2> DEFINE l == Len(ptlist[id])
  <2>1. l \in Nat /\ Len(ptlist'[id]) = l - 1 /\ ptmaxcnt'[id] = ptmaxcnt[id]
    BY <1>5, <1>6, <1>10, <1>12
  <2>2. /\ Target(id, "send") = ptmaxcnt[id] - l /\ Target(id, "recv") = l
        /\ Target(id, "send")' = ptmaxcnt[id] - (l - 1) /\ Target(id, "recv")' = l - 1
    BY <2>1 DEF Target
  <2> DEFINE m == ptmaxcnt[id]
  <2>3. m \in Nat
    BY <1>6
  <2> HIDE DEF l, m
  <2>4. m - (l - 1) = (m - l) + 1
    BY <2>1, <2>3
  <2> QED BY <2>2, <2>4 DEF m
<1>16. SemOf(id, "send") = ptssem[id] /\ "recv" \in Roles /\ "send" \in Roles
  BY DEF SemOf, Roles
<1> QED BY <1>1, <1>2, <1>3, <1>5, <1>12, <1>13, <1>14, <1>15, <1>16, LeaveStep

-----------------------------------------------------------------------------
(***************************************************************************)
(* Steps of ptcreate and _ptclear, and of the loops that _ptclear is in:   *)
(* the current process works on port id, which has no pending calls.       *)
(***************************************************************************)
Beyond(id, pc, r) == pc = "app" \/ (pc \notin Roles /\ r.port = id)

Apart(id) ==
    /\ \A j \in Port : j # id =>
          /\ ptstate'[j] = ptstate[j] /\ ptssem'[j] = ptssem[j] /\ ptrsem'[j] = ptrsem[j]
          /\ ptmaxcnt'[j] = ptmaxcnt[j] /\ ptseq'[j] = ptseq[j] /\ ptlist'[j] = ptlist[j]
    /\ \A p \in Pid : \/ ppc'[p] = ppc[p] /\ plocal'[p] = plocal[p]
                      \/ /\ p = currpid
                         /\ Beyond(id, ppc[p], plocal[p]) /\ Beyond(id, ppc'[p], plocal'[p])

(* The semaphores of other ports are left alone. *)
Safe(id) ==
    \A j \in Port, pc \in Roles : j # id /\ Owned(j, pc) =>
        /\ sstate'[SemOf(j, pc)] = sstate[SemOf(j, pc)]
        /\ scount'[SemOf(j, pc)] = scount[SemOf(j, pc)]
        /\ ~InReset(SemOf(j, pc)) /\ ~InReset(SemOf(j, pc))'

LEMMA ApartOthers ==
    ASSUME NEW id \in Port, Apart(id), NEW j \in Port, j # id
    PROVE  /\ Clearers(j)' = Clearers(j)
           /\ \A p \in Clearers(j) : ppc'[p] = ppc[p] /\ plocal'[p] = plocal[p]
           /\ Created(j)' <=> Created(j)
           /\ \A pc \in Roles : /\ SemOf(j, pc)' = SemOf(j, pc) /\ (Owned(j, pc)' <=> Owned(j, pc))
                                /\ Claims(j, pc)' = Claims(j, pc)
                                /\ Target(j, pc)' = Target(j, pc)
<1>1. \A p \in Pid : \/ ppc'[p] = ppc[p] /\ plocal'[p] = plocal[p]
                     \/ /\ ppc[p] = "app" \/ (ppc[p] \notin Roles /\ plocal[p].port = id)
                        /\ ppc'[p] = "app" \/ (ppc'[p] \notin Roles /\ plocal'[p].port = id)
  BY DEF Apart, Beyond
<1>2. Clearers(j)' = Clearers(j) /\ \A p \in Clearers(j) : ppc'[p] = ppc[p] /\ plocal'[p] = plocal[p]
  <2>1. ASSUME NEW p \in Pid
        PROVE  /\ ppc'[p] \in ClearPcs /\ plocal'[p].port = j <=> ppc[p] \in ClearPcs /\ plocal[p].port = j
               /\ ppc[p] \in ClearPcs /\ plocal[p].port = j => ppc'[p] = ppc[p] /\ plocal'[p] = plocal[p]
    BY <1>1 DEF ClearPcs
  <2> QED BY <2>1 DEF Clearers
<1>3. Created(j)' <=> Created(j)
  <2>1. \A p \in Pid : ppc'[p] = "create" /\ plocal'[p].port = j <=> ppc[p] = "create" /\ plocal[p].port = j
    BY <1>1
  <2> QED BY <2>1 DEF Created, Apart
<1>4. ASSUME NEW pc \in Roles PROVE Claims(j, pc)' = Claims(j, pc)
  <2>1. \A p \in Pid : ppc'[p] = pc /\ plocal'[p].port = j /\ plocal'[p].seq = ptseq'[j]
                       <=> ppc[p] = pc /\ plocal[p].port = j /\ plocal[p].seq = ptseq[j]
    BY <1>1 DEF Apart, Roles
  <2> QED BY <2>1 DEF Claims
<1>5. ASSUME NEW pc \in Roles
      PROVE  SemOf(j, pc)' = SemOf(j, pc) /\ Target(j, pc)' = Target(j, pc) /\ ptstate'[j] = ptstate[j]
  BY DEF Apart, SemOf, Target
<1>6. ASSUME NEW pc \in Roles PROVE Owned(j, pc)' <=> Owned(j, pc)
  BY <1>2, <1>3, <1>5 DEF Owned, Relies
<1> QED BY <1>2, <1>3, <1>4, <1>5, <1>6

(* No call is pending on the port. *)
NoCalls(id) ==
    \A p \in Pid : ppc'[p] \in Roles /\ plocal'[p].port = id => plocal'[p].seq < ptseq'[id]

LEMMA CallsGone ==
    ASSUME PTypes, SeqFits, NEW id \in Port, Apart(id),
           \/ ~Created(id) /\ ptseq'[id] = ptseq[id]
           \/ ptseq'[id] = ptseq[id] + 1
    PROVE  NoCalls(id)
<1>1. SUFFICES ASSUME NEW p \in Pid, ppc'[p] \in Roles, plocal'[p].port = id
               PROVE  plocal'[p].seq < ptseq'[id]
  BY DEF NoCalls
<1>2. ppc'[p] = ppc[p] /\ plocal'[p] = plocal[p]
  BY <1>1 DEF Apart, Beyond, Roles
<1>3. plocal[p].seq <= ptseq[id] /\ (plocal[p].seq = ptseq[id] => Created(id))
  BY <1>1, <1>2 DEF SeqFits
<1>4. plocal[p].seq \in Nat /\ ptseq[id] \in Nat
  BY DEF PTypes, Locals
<1> QED BY <1>2, <1>3, <1>4

LEMMA ApartCalls ==
    ASSUME PTypes, PTypes', SeqFits, NEW id \in Port, Apart(id), NoCalls(id)
    PROVE  SeqFits' /\ \A pc \in Roles : Claims(id, pc)' = {}
<1>1. \A pc \in Roles : Claims(id, pc)' = {}
  <2>1. ASSUME NEW pc \in Roles, NEW p \in Claims(id, pc)' PROVE FALSE
    <3>1. ppc'[p] \in Roles /\ plocal'[p].port = id /\ plocal'[p].seq = ptseq'[id] /\ p \in Pid
      BY <2>1 DEF Claims
    <3>2. ptseq'[id] \in Nat
      BY DEF PTypes
    <3> QED BY <3>1, <3>2 DEF NoCalls
  <2> QED BY <2>1
<1>2. ASSUME NEW p \in Pid, NEW j \in Port, NEW pc \in Roles, ppc'[p] = pc, plocal'[p].port = j
      PROVE  /\ plocal'[p].seq <= ptseq'[j]
             /\ plocal'[p].seq = ptseq'[j] => Created(j)' /\ SemOf(j, pc)' # NoSem
             /\ pc = "send" => plocal'[p].msg \in Msgs
  <2>1. ppc'[p] = ppc[p] /\ plocal'[p] = plocal[p]
    BY <1>2 DEF Apart, Beyond, Roles
  <2>2. CASE j # id
    <3>1. ptseq'[j] = ptseq[j] /\ (Created(j)' <=> Created(j)) /\ SemOf(j, pc)' = SemOf(j, pc)
      BY <2>2, ApartOthers DEF Apart
    <3> QED BY <1>2, <2>1, <3>1 DEF SeqFits
  <2>3. CASE j = id
    <3>1. plocal'[p].seq < ptseq'[id] /\ plocal'[p].seq \in Nat /\ ptseq'[id] \in Nat
      BY <1>2, <2>3 DEF NoCalls, PTypes, Locals
    <3>2. plocal'[p].seq <= ptseq'[id] /\ plocal'[p].seq # ptseq'[id]
      BY <3>1
    <3> QED BY <1>2, <2>1, <2>3, <3>2 DEF SeqFits
  <2> QED BY <2>2, <2>3
<1>3. SeqFits'
  <2>1. SUFFICES ASSUME NEW p \in Pid, NEW j \in Port, ppc'[p] \in Roles, plocal'[p].port = j
                 PROVE  /\ plocal'[p].seq <= ptseq'[j]
                        /\ plocal'[p].seq = ptseq'[j] =>
                              Created(j)' /\ (IF ppc'[p] = "send" THEN ptssem'[j] ELSE ptrsem'[j]) # NoSem
                        /\ ppc'[p] = "send" => plocal'[p].msg \in Msgs
    BY DEF SeqFits, SemOf
  <2>2. PICK pc \in Roles : ppc'[p] = pc
    BY <2>1
  <2> QED BY <1>2, <2>1, <2>2 DEF SemOf
<1> QED BY <1>1, <1>3

(* What the step has to show for its own port. *)
OwnSems(id) ==
    /\ \A a \in Roles : Owned(id, a)' =>
          /\ sstate'[SemOf(id, a)'] = "USED"
          /\ \A j \in Port, b \in Roles : j # id /\ Owned(j, b) => SemOf(j, b) # SemOf(id, a)'
    /\ \A a, b \in Roles : Owned(id, a)' /\ Owned(id, b)' /\ a # b => SemOf(id, a)' # SemOf(id, b)'

OwnClear(id) == (\A p, x \in Clearers(id) : p = x) /\ \A p \in Clearers(id) : ClearAt(id, p)

OwnBooks(id) == \A pc \in Roles : Created(id) /\ SemOf(id, pc) # NoSem => BookOf(id, pc)

LEMMA ApartSems ==
    ASSUME SemsFit, NEW id \in Port, Apart(id), Safe(id), OwnSems(id)
    PROVE  SemsFit'
<1>1. ASSUME NEW j \in Port, NEW b \in Roles, Owned(j, b)'
      PROVE  sstate'[SemOf(j, b)'] = "USED"
  <2>1. CASE j = id
    BY <1>1, <2>1 DEF OwnSems
  <2>2. CASE j # id
    BY <1>1, <2>2, ApartOthers DEF Safe, SemsFit
  <2> QED BY <2>1, <2>2
<1>2. ASSUME NEW i \in Port, NEW j \in Port, NEW a \in Roles, NEW b \in Roles,
             Owned(i, a)', Owned(j, b)', SemOf(i, a)' = SemOf(j, b)'
      PROVE  i = j /\ a = b
  <2>1. CASE i = id /\ j = id
    BY <1>2, <2>1 DEF OwnSems
  <2>2. CASE i = id /\ j # id
    <3>1. Owned(j, b) /\ SemOf(j, b)' = SemOf(j, b)
      BY <1>2, <2>2, ApartOthers
    <3> QED BY <1>2, <2>2, <3>1 DEF OwnSems
  <2>3. CASE i # id /\ j = id
    <3>1. Owned(i, a) /\ SemOf(i, a)' = SemOf(i, a)
      BY <1>2, <2>3, ApartOthers
    <3> QED BY <1>2, <2>3, <3>1 DEF OwnSems
  <2>4. CASE i # id /\ j # id
    <3>1. /\ Owned(i, a) /\ SemOf(i, a)' = SemOf(i, a)
          /\ Owned(j, b) /\ SemOf(j, b)' = SemOf(j, b)
      BY <1>2, <2>4, ApartOthers
    <3> QED BY <1>2, <3>1 DEF SemsFit
  <2> QED BY <2>1, <2>2, <2>3, <2>4
<1> QED BY <1>1, <1>2 DEF SemsFit

LEMMA ApartClear ==
    ASSUME ClearFits, NEW id \in Port, Apart(id), Safe(id), OwnClear(id)'
    PROVE  ClearFits'
<1>1. ASSUME NEW j \in Port, j # id, NEW p \in Clearers(j)' PROVE ClearAt(j, p)'
  <2>1. /\ p \in Clearers(j) /\ ppc'[p] = ppc[p] /\ plocal'[p] = plocal[p]
        /\ ptstate'[j] = ptstate[j] /\ ptlist'[j] = ptlist[j] /\ ptmaxcnt'[j] = ptmaxcnt[j]
    BY <1>1, ApartOthers DEF Apart
  <2>2. ClearAt(j, p)
    BY <2>1 DEF ClearFits
  <2>3. ASSUME NEW pc \in Roles, NEW n, plocal[p].new = "ALLOC", ResetTo(SemOf(j, pc), n)
        PROVE  ResetTo(SemOf(j, pc), n)'
    <3>1. SemOf(j, pc)' = SemOf(j, pc)
      BY <1>1, ApartOthers
    <3>2. SemOf(j, pc) # NoSem =>
             /\ scount'[SemOf(j, pc)] = scount[SemOf(j, pc)]
             /\ ~InReset(SemOf(j, pc)) /\ ~InReset(SemOf(j, pc))'
      BY <1>1, <2>1, <2>3, ClearerOwns DEF Safe
    <3> QED BY <2>3, <3>1, <3>2 DEF ResetTo
  <2>4. "send" \in Roles /\ "recv" \in Roles
    BY DEF Roles
  <2>5. ASSUME plocal[p].new = "ALLOC", ppc[p] # "clear1"
        PROVE  ResetTo(SemOf(j, "send"), ptmaxcnt[j])'
    <3>1. PICK n : n = ptmaxcnt[j]
      OBVIOUS
    <3>2. ResetTo(SemOf(j, "send"), n)'
      BY <2>2, <2>3, <2>4, <2>5, <3>1 DEF ClearAt
    <3> QED BY <2>1, <3>1, <3>2 DEF ResetTo
  <2>6. ASSUME plocal[p].new = "ALLOC", ppc[p] = "clear3"
        PROVE  ResetTo(SemOf(j, "recv"), 0)'
    BY <2>2, <2>3, <2>4, <2>6 DEF ClearAt
  <2> QED BY <2>1, <2>2, <2>5, <2>6 DEF ClearAt
<1>2. ASSUME NEW j \in Port, j # id, NEW p \in Clearers(j)', NEW x \in Clearers(j)' PROVE p = x
  BY <1>2, ApartOthers DEF ClearFits
<1>3. (\A p, x \in Clearers(id)' : p = x) /\ \A p \in Clearers(id)' : ClearAt(id, p)'
  BY DEF OwnClear
<1>4. ASSUME NEW j \in Port
      PROVE  (\A p, x \in Clearers(j)' : p = x) /\ \A p \in Clearers(j)' : ClearAt(j, p)'
  BY <1>1, <1>2, <1>3
<1> QED BY <1>4 DEF ClearFits

LEMMA ApartBooks ==
    ASSUME BooksFit, NEW id \in Port, Apart(id), Safe(id), OwnBooks(id)',
           \A x \in Pid : Parked'[x] \in {Parked[x], NoSem}, orphaned \ {id} \subseteq orphaned'
    PROVE  BooksFit'
<1>1. ASSUME NEW j \in Port, NEW b \in Roles, Created(j)', SemOf(j, b)' # NoSem
      PROVE  BookOf(j, b)'
  <2>1. CASE j = id
    BY <1>1, <2>1 DEF OwnBooks
  <2>2. CASE j # id
    <3>1. /\ Created(j) /\ SemOf(j, b)' = SemOf(j, b) /\ SemOf(j, b) # NoSem
          /\ Claims(j, b)' = Claims(j, b) /\ Target(j, b)' = Target(j, b)
      BY <1>1, <2>2, ApartOthers
    <3>2. BookOf(j, b) /\ Owned(j, b)
      BY <3>1, CreatedOwns DEF BooksFit
    <3>3. scount'[SemOf(j, b)] = scount[SemOf(j, b)]
      BY <2>2, <3>2 DEF Safe
    <3>4. j \notin orphaned' => j \notin orphaned
      BY <2>2
    <3>5. \A x \in Pid : /\ Parked'[x] = SemOf(j, b) => Parked[x] = SemOf(j, b)
                         /\ x \in Claims(j, b) => Parked'[x] \in {Parked[x], NoSem}
      BY <3>1
    <3> QED BY <3>1, <3>2, <3>3, <3>4, <3>5, BookKept
  <2> QED BY <2>1, <2>2
<1> QED BY <1>1 DEF BooksFit

LEMMA ApartStep ==
    ASSUME PortInv, NEW id \in Port, Apart(id), Safe(id), NoCalls(id), PTypes', CreateFits',
           LoopFits', CapsFit', NodesPartitioned', OwnSems(id), OwnClear(id)', OwnBooks(id)',
           \A x \in Pid : Parked'[x] \in {Parked[x], NoSem}, orphaned \ {id} \subseteq orphaned',
           broken' = broken
    PROVE  PortInv'
<1>1. SemsFit' /\ ClearFits' /\ BooksFit' /\ SeqFits'
  BY ApartSems, ApartClear, ApartBooks, ApartCalls DEF PortInv
<1>2. NoEmptyReceive'
  BY DEF PortInv, NoEmptyReceive
<1> QED BY <1>1, <1>2 DEF PortInv

(* semcreate, if there is a semaphore left. *)
LEMMA TrySemCreateEffect ==
    ASSUME IInv, NEW n \in Int, TrySemCreate(n), NEW s, s = NewSemOr
    PROVE  /\ IInv' /\ Parked' = Parked /\ UNCHANGED <<currpid, cont, karg, kcount>>
           /\ s \in Sem \cup {NoSem}
           /\ \A u \in Sem : u # s => scount'[u] = scount[u] /\ sstate'[u] = sstate[u]
           /\ s # NoSem => /\ s \in Sem /\ sstate[s] = "FREE" /\ sstate'[s] = "USED" /\ scount'[s] = n
                           /\ \A p \in Pid : Parked[p] # s
<1>1. CASE SemsFrom = {}
  <2>1. UNCHANGED vars /\ s = NoSem
    BY <1>1 DEF TrySemCreate, NewSemOr
  <2>2. IInv' /\ UNCHANGED <<currpid, cont, karg, kcount, scount, sstate, prstate, prsem>>
    BY <2>1, StutterIInv DEF vars, sched, semvars, kvars
  <2> QED BY <2>1, <2>2 DEF Parked
<1>2. CASE SemsFrom # {}
  <2>1. SemCreate(n) /\ s = NewSem
    BY <1>2 DEF TrySemCreate, NewSemOr
  <2>2. /\ IInv' /\ Parked' = Parked /\ UNCHANGED <<currpid, cont, karg, kcount>>
        /\ s \in Sem /\ sstate[s] = "FREE"
        /\ sstate' = [sstate EXCEPT ![s] = "USED"] /\ scount' = [scount EXCEPT ![s] = n]
        /\ \A p \in Pid : Parked[p] # s
    BY <2>1, SemCreateEffect
  <2>3. scount \in [Sem -> Int] /\ sstate \in [Sem -> {"FREE", "USED"}]
    BY ParkedTypes
  <2> QED BY <2>2, <2>3
<1> QED BY <1>1, <1>2

(* A new semaphore is not one that a port relies on. *)
LEMMA NewSemSafe ==
    ASSUME IInv, PortInv, NEW n \in Int, TrySemCreate(n), NEW s, s = NewSemOr,
           Calm, \A u : ~InReset(u), NEW j \in Port, NEW b \in Roles, Owned(j, b)
    PROVE  /\ SemOf(j, b) # s /\ SemOf(j, b) \in Sem
           /\ sstate'[SemOf(j, b)] = sstate[SemOf(j, b)]
           /\ scount'[SemOf(j, b)] = scount[SemOf(j, b)]
           /\ ~InReset(SemOf(j, b)) /\ ~InReset(SemOf(j, b))' /\ sstate[SemOf(j, b)] = "USED"
<1>1. /\ IInv' /\ cont' = cont
      /\ \A u \in Sem : u # s => scount'[u] = scount[u] /\ sstate'[u] = sstate[u]
      /\ s # NoSem => s \in Sem /\ sstate[s] = "FREE"
  BY TrySemCreateEffect
<1>2. SemOf(j, b) \in Sem /\ sstate[SemOf(j, b)] = "USED"
  BY SemTypes DEF PortInv, SemsFit
<1>3. \A u : ~InReset(u)'
  BY <1>1, CalmAfter DEF CalmStep
<1>4. SemOf(j, b) # s
  BY <1>1, <1>2, NoSemIsNone
<1> QED BY <1>1, <1>2, <1>3, <1>4

(* The port that ptcreate finds is free. *)
LEMMA NewPortFree ==
    ASSUME PTypes, FreeFrom # {}, NEW id, id = (ptnextid + Min(FreeFrom)) % NPORTS
    PROVE  id \in Port /\ ptstate[id] = "FREE" /\ (id + 1) % NPORTS \in Port
<1>1. FreeFrom \in SUBSET Nat
  BY NPORTSAssumption DEF FreeFrom
<1>2. Min(FreeFrom) \in FreeFrom
  BY <1>1, MinOfNats
<1>3. ptstate[id] = "FREE"
  BY <1>2 DEF FreeFrom
<1>4. ptnextid + Min(FreeFrom) \in Nat
  <2>1. ptnextid \in 0 .. NPORTS - 1
    BY DEF PTypes, Port
  <2>2. Min(FreeFrom) \in Nat
    BY <1>1, <1>2
  <2> QED BY <2>1, <2>2, NPORTSAssumption
<1>5. id \in 0 .. NPORTS - 1
  BY <1>4, NPORTSAssumption, ModRange
<1>6. id + 1 \in Nat
  BY <1>5
<1>7. (id + 1) % NPORTS \in 0 .. NPORTS - 1
  BY <1>6, NPORTSAssumption, ModRange
<1> QED BY <1>3, <1>5, <1>7 DEF Port

(* A count that fits is not cut off. *)
LEMMA CutOff ==
    ASSUME NEW n \in Nat
    PROVE  n % 2^CntBits \in Nat /\ (n < 2^CntBits => n % 2^CntBits = n)
<1>1. 2^CntBits \in Nat \ {0}
  BY CntBitsAssumption
<1> DEFINE m == 2^CntBits
<1> HIDE DEF m
<1>2. m \in Nat \ {0}
  BY <1>1 DEF m
<1>3. n % m \in Nat /\ (n < m => n % m = n)
  BY <1>2
<1> QED BY <1>3 DEF m

(* A port that is not in LIMBO is cleared by nobody. *)
LEMMA NotCleared ==
    ASSUME ClearFits, NEW id \in Port, ptstate[id] # "LIMBO"
    PROVE  Clearers(id) = {}
BY DEF ClearFits, ClearAt

LEMMA PtCreateStep ==
    ASSUME IInv, PortInv, NEW n \in Counts, PtCreate(n)
    PROVE  IInv' /\ PortInv'
<1>1. PICK id : id = (ptnextid + Min(FreeFrom)) % NPORTS
  OBVIOUS
<1>2. PICK s : s = NewSemOr
  OBVIOUS
<1> DEFINE r == [NoLocal EXCEPT !.port = id]
<1>3. /\ PIn("app") /\ n >= 0 /\ FreeFrom # {} /\ ptnextid' = (id + 1) % NPORTS
      /\ ptstate' = [ptstate EXCEPT ![id] = "ALLOC"] /\ ptssem' = [ptssem EXCEPT ![id] = s]
      /\ ptmaxcnt' = [ptmaxcnt EXCEPT ![id] = n % 2^CntBits] /\ TrySemCreate(n)
      /\ ppc' = [ppc EXCEPT ![currpid] = "create"] /\ plocal' = [plocal EXCEPT ![currpid] = r]
      /\ UNCHANGED <<ptrsem, ptseq, ptlist, ptfree, ptmsg, broken, received, orphaned, kills>>
  BY <1>1, <1>2 DEF PtCreate, PCaller, PInApp, PGoTo, Local
<1>4. id \in Port /\ ptstate[id] = "FREE" /\ (id + 1) % NPORTS \in Port
  BY <1>1, <1>3, NewPortFree DEF PortInv
<1>5. n \in Nat /\ n % 2^CntBits \in Nat /\ (SmallCounts => n % 2^CntBits = n)
  <2>1. n \in Nat
    BY <1>3, CountsAssumption
  <2> QED BY <2>1, CutOff DEF SmallCounts
<1>6. /\ currpid \in Pid /\ ppc[currpid] = "app" /\ Calm /\ cont[currpid] = "user"
      /\ \A u : ~InReset(u)
  BY <1>3, InCode
<1>7. Idle
  BY <1>6, IdleNow DEF PortInv
<1>8. /\ IInv' /\ Parked' = Parked /\ UNCHANGED <<currpid, cont, karg, kcount>>
      /\ s \in Sem \cup {NoSem}
      /\ s # NoSem => s \in Sem /\ sstate'[s] = "USED" /\ scount'[s] = n
  BY <1>2, <1>3, <1>5, TrySemCreateEffect
<1>9. r \in Locals /\ r.port = id
  BY <1>4 DEF NoLocal, Locals
<1> HIDE DEF r
<1>10. PTypes'
  <2>1. /\ ptstate' \in [Port -> {"FREE", "ALLOC", "LIMBO"}]
        /\ ptssem' \in [Port -> Sem \cup {NoSem}] /\ ptmaxcnt' \in [Port -> Nat]
        /\ ptnextid' \in Port
    BY <1>3, <1>4, <1>5, <1>8 DEF PortInv, PTypes
  <2>2. ppc' \in [Pid -> PPcs] /\ plocal' \in [Pid -> Locals]
    BY <1>3, <1>6, <1>9 DEF PortInv, PTypes, PPcs, r
  <2> QED BY <1>3, <2>1, <2>2 DEF PortInv, PTypes
<1>11. /\ \A p \in Pid : p # currpid => ppc'[p] = ppc[p] /\ plocal'[p] = plocal[p]
       /\ ppc'[currpid] = "create" /\ plocal'[currpid] = r
  BY <1>3, <1>6 DEF PortInv, PTypes, r
<1>12. /\ \A j \in Port : j # id => ptstate'[j] = ptstate[j] /\ ptssem'[j] = ptssem[j]
                                    /\ ptmaxcnt'[j] = ptmaxcnt[j]
       /\ ptstate'[id] = "ALLOC" /\ ptssem'[id] = s /\ ptmaxcnt'[id] = n % 2^CntBits
  BY <1>3, <1>4 DEF PortInv, PTypes
<1>13. Apart(id)
  BY <1>3, <1>6, <1>9, <1>11, <1>12 DEF Apart, Beyond, Roles
<1>14. Safe(id)
  BY <1>2, <1>3, <1>5, <1>6, NewSemSafe DEF Safe
<1>15. ~Created(id) /\ ~Created(id)'
  <2>1. ppc'[currpid] = "create" /\ plocal'[currpid].port = id
    BY <1>9, <1>11
  <2> QED BY <1>4, <1>6, <2>1 DEF Created
<1>16. NoCalls(id)
  BY <1>3, <1>4, <1>13, <1>15, CallsGone DEF PortInv
<1>17. CreateFits'
  <2>1. ASSUME NEW p \in Pid, NEW j \in Port, ppc'[p] = "create", plocal'[p].port = j
        PROVE  p = currpid /\ j = id
    BY <1>7, <1>9, <1>11, <2>1 DEF Idle
  <2>2. s # NoSem => scount'[s] >= 0 /\ (SmallCounts => scount'[s] = n % 2^CntBits)
    BY <1>5, <1>8
  <2> QED BY <1>6, <1>8, <1>12, <2>1, <2>2 DEF CreateFits, SmallCounts
<1>18. LoopFits'
  BY <1>6, <1>8, CalmAfter DEF CalmStep
<1>19. CapsFit'
  BY <1>5, <1>12 DEF PortInv, CapsFit, SmallCounts
<1>20. NodesPartitioned'
  <2>1. Held'[id] = Held[id]
    BY <1>3, <1>4, <1>15, HeldKept
  <2>2. \A j \in Port : j # id => Held'[j] = Held[j]
    BY <1>3, <1>4, <1>13, ApartOthers, HeldKept
  <2> QED BY <1>3, <2>1, <2>2, NodesKept DEF PortInv
<1>21. Clearers(id)' = {}
  <2>1. Clearers(id) = {}
    BY <1>4, NotCleared DEF PortInv
  <2> QED BY <1>11, <2>1 DEF Clearers, ClearPcs
<1>22. OwnSems(id)
  <2>1. ASSUME Owned(id, "recv")' PROVE FALSE
    BY <1>15, <1>21, <2>1 DEF Owned, Relies
  <2>2. ASSUME Owned(id, "send")'
        PROVE  /\ sstate'[SemOf(id, "send")'] = "USED"
               /\ \A j \in Port, b \in Roles : j # id /\ Owned(j, b) => SemOf(j, b) # SemOf(id, "send")'
    <3>1. SemOf(id, "send")' = s /\ s # NoSem
      BY <1>12, <2>2 DEF SemOf, Owned
    <3> QED BY <1>2, <1>3, <1>5, <1>6, <1>8, <3>1, NewSemSafe
  <2> QED BY <2>1, <2>2 DEF OwnSems, Roles
<1>23. OwnClear(id)' /\ OwnBooks(id)'
  BY <1>15, <1>21 DEF OwnClear, OwnBooks
<1>24. PortInv'
  BY <1>3, <1>4, <1>8, <1>10, <1>13, <1>14, <1>16, <1>17, <1>18, <1>19, <1>20, <1>22, <1>23, ApartStep
<1> QED BY <1>8, <1>24

LEMMA PtCreateEndStep ==
    ASSUME IInv, PortInv, PtCreateEnd
    PROVE  IInv' /\ PortInv'
<1>1. /\ currpid \in Pid /\ ppc[currpid] = "create" /\ Calm /\ cont[currpid] = "user"
      /\ \A u : ~InReset(u)
  BY InCode DEF PtCreateEnd
<1>2. PICK id \in Port : id = plocal[currpid].port
  BY <1>1 DEF PortInv, PTypes, Locals
<1>3. PICK s : s = NewSemOr
  OBVIOUS
<1>4. /\ ptrsem' = [ptrsem EXCEPT ![id] = s] /\ ptlist' = [ptlist EXCEPT ![id] = <<>>]
      /\ ptseq' = [ptseq EXCEPT ![id] = ptseq[id] + 1] /\ TrySemCreate(0)
      /\ ppc' = [ppc EXCEPT ![currpid] = "app"] /\ plocal' = [plocal EXCEPT ![currpid] = NoLocal]
      /\ UNCHANGED <<ptstate, ptssem, ptmaxcnt, ptfree, ptmsg, ptnextid,
                     broken, received, orphaned, kills>>
  BY <1>2, <1>3 DEF PtCreateEnd, me, PReturn, PGoTo, Local
<1>5. /\ ptstate[id] = "ALLOC"
      /\ ptssem[id] # NoSem => /\ scount[ptssem[id]] >= 0
                               /\ SmallCounts => scount[ptssem[id]] = ptmaxcnt[id]
  BY <1>1, <1>2 DEF PortInv, CreateFits
<1>6. /\ IInv' /\ Parked' = Parked /\ UNCHANGED <<currpid, cont, karg, kcount>>
      /\ s \in Sem \cup {NoSem}
      /\ s # NoSem => /\ s \in Sem /\ sstate'[s] = "USED" /\ scount'[s] = 0
                      /\ \A p \in Pid : Parked[p] # s
  BY <1>3, <1>4, TrySemCreateEffect
<1>7. /\ ppc' \in [Pid -> PPcs] /\ plocal' \in [Pid -> Locals] /\ ppc'[currpid] = "app"
      /\ \A x \in Pid : x # currpid => ppc'[x] = ppc[x] /\ plocal'[x] = plocal[x]
  BY <1>1, <1>4, CallOver DEF PortInv
<1>8. PTypes'
  <2>1. ptrsem' \in [Port -> Sem \cup {NoSem}] /\ ptseq' \in [Port -> Nat]
    BY <1>4, <1>6 DEF PortInv, PTypes
  <2>2. ptlist' \in [Port -> Seq(Node)]
    BY <1>4 DEF PortInv, PTypes
  <2> QED BY <1>4, <1>7, <2>1, <2>2 DEF PortInv, PTypes
<1>9. /\ \A j \in Port : j # id => /\ ptrsem'[j] = ptrsem[j] /\ ptlist'[j] = ptlist[j]
                                   /\ ptseq'[j] = ptseq[j]
      /\ ptrsem'[id] = s /\ ptlist'[id] = <<>> /\ ptseq'[id] = ptseq[id] + 1
  BY <1>4 DEF PortInv, PTypes
<1>10. Apart(id)
  <2>1. Beyond(id, ppc[currpid], plocal[currpid]) /\ Beyond(id, ppc'[currpid], plocal'[currpid])
    BY <1>1, <1>2, <1>7 DEF Beyond, Roles
  <2> QED BY <1>4, <1>7, <1>9, <2>1 DEF Apart
<1>11. Safe(id)
  BY <1>1, <1>3, <1>4, NewSemSafe DEF Safe
<1>12. NoCalls(id)
  BY <1>9, <1>10, CallsGone DEF PortInv
<1>13. Idle'
  <2>1. \A p \in Pid : p # currpid => ppc[p] # "create"
    <3>1. \A p \in Pid : plocal[p].port \in Port
      BY DEF PortInv, PTypes, Locals
    <3> QED BY <3>1 DEF PortInv, CreateFits
  <2> QED BY <1>7, <2>1 DEF Idle
<1>14. CreateFits' /\ Created(id)' /\ ~Created(id)
  BY <1>1, <1>2, <1>4, <1>5, <1>13 DEF CreateFits, Idle, Created
<1>15. LoopFits' /\ \A u : ~InReset(u)'
  BY <1>1, <1>6, CalmAfter DEF CalmStep
<1>16. CapsFit'
  BY <1>4 DEF PortInv, CapsFit, SmallCounts
<1>17. NodesPartitioned'
  <2>1. Held'[id] = Held[id]
    BY <1>9, <1>14 DEF Held
  <2>2. \A j \in Port : j # id => Held'[j] = Held[j]
    BY <1>9, <1>10, ApartOthers, HeldKept
  <2> QED BY <1>4, <2>1, <2>2, NodesKept DEF PortInv
<1>18. Clearers(id)' = {}
  <2>1. Clearers(id) = {}
    BY <1>5, NotCleared DEF PortInv
  <2> QED BY <1>7, <2>1 DEF Clearers, ClearPcs
<1>19. /\ SemOf(id, "send")' = SemOf(id, "send") /\ SemOf(id, "send") = ptssem[id]
       /\ SemOf(id, "recv")' = s
       /\ SemOf(id, "send") # NoSem => Owned(id, "send")
  BY <1>4, <1>5, <1>9 DEF SemOf, Owned, Relies
<1>20. ASSUME SemOf(id, "send") # NoSem
       PROVE  /\ Owned(id, "send") /\ SemOf(id, "send") # s /\ SemOf(id, "send") \in Sem
              /\ sstate'[SemOf(id, "send")] = "USED"
              /\ scount'[SemOf(id, "send")] = scount[SemOf(id, "send")]
  <2>1. "send" \in Roles /\ Owned(id, "send")
    BY <1>19, <1>20 DEF Roles
  <2> QED BY <1>1, <1>3, <1>4, <2>1, NewSemSafe
<1>21. OwnSems(id)
  <2>1. ASSUME Owned(id, "recv")'
        PROVE  /\ sstate'[SemOf(id, "recv")'] = "USED"
               /\ \A j \in Port, b \in Roles : j # id /\ Owned(j, b) => SemOf(j, b) # SemOf(id, "recv")'
               /\ Owned(id, "send")' => SemOf(id, "send")' # SemOf(id, "recv")'
    <3>1. s # NoSem
      BY <1>19, <2>1 DEF Owned
    <3>2. Owned(id, "send")' => SemOf(id, "send") # NoSem
      BY <1>19 DEF Owned
    <3> QED BY <1>1, <1>3, <1>4, <1>6, <1>19, <1>20, <3>1, <3>2, NewSemSafe
  <2>2. ASSUME Owned(id, "send")'
        PROVE  /\ sstate'[SemOf(id, "send")'] = "USED"
               /\ \A j \in Port, b \in Roles : j # id /\ Owned(j, b) => SemOf(j, b) # SemOf(id, "send")'
    <3>1. SemOf(id, "send") # NoSem /\ "send" \in Roles
      BY <1>19, <2>2 DEF Owned, Roles
    <3> QED BY <1>19, <1>20, <3>1, OwnSem DEF PortInv
  <2> QED BY <2>1, <2>2 DEF OwnSems, Roles
<1>22. OwnClear(id)'
  BY <1>18 DEF OwnClear
<1>23. OwnBooks(id)'
  <2>1. \A pc \in Roles : Claims(id, pc)' = {}
    BY <1>8, <1>10, <1>12, ApartCalls DEF PortInv
  <2>2. /\ Target(id, "recv")' = 0 /\ Target(id, "send")' = ptmaxcnt[id] - 0
        /\ ptmaxcnt[id] \in Nat
    BY <1>4, <1>9 DEF Target, PortInv, PTypes
  <2>3. ASSUME s # NoSem PROVE BookOf(id, "recv")'
    <3> DEFINE small == "recv" = "recv" \/ SmallCounts
               exact == id \notin orphaned'
    <3>1. \A p \in Pid : Parked'[p] # s
      BY <1>6, <2>3
    <3> HIDE DEF small, exact
    <3>2. Book(small, 0, s, Parked', {}, 0, exact)
      BY <3>1, BookOpen
    <3> QED BY <1>6, <1>19, <2>1, <2>2, <2>3, <3>2 DEF BookOf, Roles, SmallCounts, small, exact
  <2>4. ASSUME SemOf(id, "send") # NoSem PROVE BookOf(id, "send")'
    <3> DEFINE u == SemOf(id, "send")
               c == scount[u]
               m == ptmaxcnt[id]
               small == "send" = "recv" \/ SmallCounts
               exact == id \notin orphaned'
    <3>1. u \in Sem /\ c >= 0 /\ c \in Int /\ (small => c = m) /\ scount'[u] = c
      BY <1>5, <1>19, <1>20, <2>4, ParkedTypes
    <3>2. \A p \in Pid : Parked'[p] # u
      BY <1>1, <1>6, <3>1, NobodyWaits
    <3>3. m - 0 = m
      BY <2>2
    <3>4. small => c = m - 0
      BY <3>1, <3>3
    <3> HIDE DEF u, c, m, small, exact
    <3>5. Book(small, c, u, Parked', {}, m - 0, exact)
      BY <3>1, <3>2, <3>4, BookOpen
    <3> QED BY <1>19, <2>1, <2>2, <3>1, <3>5 DEF BookOf, Roles, SmallCounts, u, c, m, small, exact
  <2>5. "recv" \in Roles /\ "send" \in Roles
    BY DEF Roles
  <2> QED BY <1>19, <2>3, <2>4 DEF OwnBooks, Roles
<1>24. PortInv'
  BY <1>4, <1>6, <1>8, <1>10, <1>11, <1>12, <1>14, <1>15, <1>16, <1>17, <1>21, <1>22, <1>23, ApartStep
<1> QED BY <1>6, <1>24

(* A step of the port code that makes no call of the process manager. *)
LEMMA NoCall ==
    ASSUME IInv, UNCHANGED vars, Calm, \A u : ~InReset(u)
    PROVE  /\ IInv' /\ Parked' = Parked /\ UNCHANGED <<currpid, cont, karg, kcount, scount, sstate>>
           /\ LoopFits' /\ (\A u : ~InReset(u)') /\ \A id \in Port : Safe(id)
<1>1. UNCHANGED <<currpid, cont, karg, kcount, scount, sstate, prstate, prsem>>
  BY DEF vars, sched, semvars, kvars
<1>2. IInv' /\ Parked' = Parked
  BY <1>1, StutterIInv DEF Parked
<1>3. LoopFits' /\ \A u : ~InReset(u)'
  BY <1>1, <1>2, CalmAfter DEF CalmStep
<1> QED BY <1>1, <1>2, <1>3 DEF Safe

LEMMA PtClearStep ==
    ASSUME IInv, PortInv, NEW id \in Port, NEW new \in {"ALLOC", "FREE"}, PtClear(id, new)
    PROVE  IInv' /\ PortInv'
<1> DEFINE r == [NoLocal EXCEPT !.port = id, !.new = new]
<1>1. /\ PIn("app") /\ ptstate[id] = "ALLOC"
      /\ ptstate' = [ptstate EXCEPT ![id] = "LIMBO"] /\ ptseq' = [ptseq EXCEPT ![id] = ptseq[id] + 1]
      /\ ptfree' = ptlist[id] \o ptfree
      /\ ptlist' = IF new = "ALLOC" THEN [ptlist EXCEPT ![id] = <<>>] ELSE ptlist
      /\ ppc' = [ppc EXCEPT ![currpid] = "clear1"] /\ plocal' = [plocal EXCEPT ![currpid] = r]
      /\ UNCHANGED <<vars, ptssem, ptrsem, ptmaxcnt, ptmsg, ptnextid, broken, received, orphaned, kills>>
  BY DEF PtClear, PCaller, PInApp, PGoTo, Local, Recycled
<1>2. /\ currpid \in Pid /\ ppc[currpid] = "app" /\ Calm /\ \A u : ~InReset(u)
  BY <1>1, InCode
<1>3. /\ IInv' /\ Parked' = Parked /\ UNCHANGED <<currpid, cont, karg, kcount, scount, sstate>>
      /\ LoopFits' /\ Safe(id)
  BY <1>1, <1>2, NoCall
<1>4. Idle /\ Created(id)
  <2>1. Idle
    BY <1>2, IdleNow DEF PortInv
  <2> QED BY <1>1, <2>1, CreatedIdle
<1>5. r \in Locals /\ r.port = id /\ r.new = new
  BY DEF NoLocal, Locals
<1> HIDE DEF r
<1>6. /\ ppc' \in [Pid -> PPcs] /\ plocal' \in [Pid -> Locals]
      /\ ppc'[currpid] = "clear1" /\ plocal'[currpid] = r
      /\ \A x \in Pid : x # currpid => ppc'[x] = ppc[x] /\ plocal'[x] = plocal[x]
  BY <1>1, <1>2, <1>5 DEF PortInv, PTypes, PPcs, ClearPcs
<1>7. /\ ptlist \in [Port -> Seq(Node)] /\ ptlist[id] \in Seq(Node) /\ ptfree \in Seq(Node)
  BY DEF PortInv, PTypes
<1>8. /\ \A j \in Port : j # id => /\ ptstate'[j] = ptstate[j] /\ ptlist'[j] = ptlist[j]
                                   /\ ptseq'[j] = ptseq[j]
      /\ ptstate'[id] = "LIMBO" /\ ptseq'[id] = ptseq[id] + 1
      /\ new = "ALLOC" => ptlist'[id] = <<>>
  BY <1>1 DEF PortInv, PTypes
<1>9. Apart(id)
  <2>1. Beyond(id, ppc[currpid], plocal[currpid]) /\ Beyond(id, ppc'[currpid], plocal'[currpid])
    BY <1>2, <1>5, <1>6 DEF Beyond, Roles
  <2> QED BY <1>1, <1>6, <1>8, <2>1 DEF Apart
<1>10. NoCalls(id)
  BY <1>8, <1>9, CallsGone DEF PortInv
<1>11. ~Created(id)' /\ CreateFits'
  BY <1>4, <1>6, <1>8 DEF Created, Idle, CreateFits
<1>12. Held[id] = ptlist[id] /\ Held'[id] = <<>>
  BY <1>4, <1>11 DEF Held
<1>13. ptfree' \in Seq(Node) /\ NodesPartitioned'
  <2> DEFINE F == ToSet(ptfree)
             T == ToSet(ptlist[id])
  <2>1. OnQueue(ptfree, F) /\ OnQueue(ptlist[id], T) /\ T \cap F = {}
    BY <1>12 DEF PortInv, NodesPartitioned, OnQueue
  <2>2. T \cup F = ToSet(Held[id]) \cup ToSet(ptfree)
    BY <1>12
  <2> HIDE DEF F, T
  <2>3. ptfree' \in Seq(Node) /\ OnQueue(ptfree', T \cup F)
    BY <1>1, <1>7, <2>1, ConcatOnQueue
  <2>4. OnQueue(Held'[id], {})
    BY <1>12 DEF OnQueue, ToSet, IsInjective
  <2>5. \A j \in Port : j # id => Held'[j] = Held[j]
    BY <1>8, <1>9, ApartOthers, HeldKept
  <2>6. {} \cap (T \cup F) = {} /\ {} \cup (T \cup F) = ToSet(Held[id]) \cup ToSet(ptfree)
    BY <2>2
  <2>7. NodesPartitioned'
    BY <2>3, <2>4, <2>5, <2>6, NodesMove DEF PortInv
  <2> QED BY <2>3, <2>7
<1>14. PTypes'
  <2>1. ptstate' \in [Port -> {"FREE", "ALLOC", "LIMBO"}] /\ ptseq' \in [Port -> Nat]
    BY <1>1 DEF PortInv, PTypes
  <2>2. ptlist' \in [Port -> Seq(Node)]
    BY <1>1, <1>7
  <2> QED BY <1>1, <1>6, <1>13, <2>1, <2>2 DEF PortInv, PTypes
<1>15. CapsFit'
  <2>1. \A j \in Port : ptstate'[j] # "FREE" => ptstate[j] # "FREE"
    BY <1>1, <1>8
  <2> QED BY <1>1, <2>1 DEF PortInv, CapsFit, SmallCounts
<1>16. \A p \in Clearers(id)' : p = currpid
  <2>1. Clearers(id) = {}
    BY <1>1, NotCleared DEF PortInv
  <2> QED BY <1>6, <2>1 DEF Clearers, ClearPcs
<1>17. OwnClear(id)'
  <2>1. \A p \in Clearers(id)' : ClearAt(id, p)'
    BY <1>3, <1>5, <1>6, <1>8, <1>16 DEF ClearAt
  <2>2. \A p, x \in Clearers(id)' : p = x
    BY <1>16
  <2> QED BY <2>1, <2>2 DEF OwnClear
<1>18. OwnSems(id)
  <2>1. \A a \in Roles : SemOf(id, a)' = SemOf(id, a) /\ (Owned(id, a)' => Owned(id, a))
    BY <1>1, <1>4 DEF SemOf, Owned, Relies
  <2>2. \A a \in Roles : Owned(id, a) => sstate'[SemOf(id, a)] = "USED"
    BY <1>3 DEF PortInv, SemsFit
  <2> QED BY <2>1, <2>2, OwnSem DEF OwnSems, PortInv
<1>19. OwnBooks(id)'
  BY <1>11 DEF OwnBooks
<1>20. PortInv'
  BY <1>1, <1>3, <1>9, <1>10, <1>11, <1>13, <1>14, <1>15, <1>17, <1>18, <1>19, ApartStep
<1> QED BY <1>3, <1>20

(* _ptclear comes to a semaphore: it is reset, deleted or was never there. *)
LEMMA ClearSemEffect ==
    ASSUME IInv, NEW s \in Sem \cup {NoSem}, NEW n \in Nat, ClearSem(s, n)
    PROVE  /\ IInv' /\ Parked' = Parked /\ scount' = scount /\ currpid' = currpid
           /\ \A p \in Pid : p # currpid => cont'[p] = cont[p]
           /\ \A u \in Sem : u # s => sstate'[u] = sstate[u]
           /\ \/ s = NoSem /\ cont' = cont
              \/ /\ s \in Sem /\ me.new = "ALLOC" /\ sstate' = sstate
                 /\ cont'[currpid] = "semreset" /\ karg'[currpid] = s /\ kcount'[currpid] = n
              \/ /\ s \in Sem /\ me.new # "ALLOC" /\ sstate'[s] = "FREE"
                 /\ cont'[currpid] = "semdelete" /\ karg'[currpid] = s
<1>1. /\ currpid \in Pid /\ cont \in [Pid -> Conts] /\ karg \in [Pid -> Int]
      /\ kcount \in [Pid -> Nat] /\ sstate \in [Sem -> {"FREE", "USED"}]
  BY ParkedTypes
<1>2. CASE s = NoSem
  <2>1. UNCHANGED vars
    BY <1>2 DEF ClearSem, OnSem
  <2>2. UNCHANGED <<currpid, cont, scount, sstate, prstate, prsem>>
    BY <2>1 DEF vars, sched, semvars, kvars
  <2> QED BY <1>2, <2>1, <2>2, StutterIInv DEF Parked
<1>3. CASE s # NoSem /\ me.new = "ALLOC"
  <2>1. SemReset(s, n) /\ s \in Sem /\ n \in Int
    BY <1>3 DEF ClearSem, OnSem
  <2>2. IInv' /\ NoEffect /\ currpid' = currpid
    BY <2>1, SemResetEffect
  <2>3. /\ cont' = [cont EXCEPT ![currpid] = "semreset"] /\ karg' = [karg EXCEPT ![currpid] = s]
        /\ kcount' = [kcount EXCEPT ![currpid] = n]
    BY <2>1 DEF SemReset, Then, With
  <2> QED BY <1>1, <1>3, <2>1, <2>2, <2>3 DEF NoEffect
<1>4. CASE s # NoSem /\ me.new # "ALLOC"
  <2>1. SemDelete(s) /\ s \in Sem
    BY <1>4 DEF ClearSem, OnSem
  <2>2. /\ IInv' /\ Parked' = Parked /\ scount' = scount /\ currpid' = currpid
        /\ sstate' = [sstate EXCEPT ![s] = "FREE"]
        /\ cont'[currpid] = "semdelete" /\ karg'[currpid] = s
    BY <2>1, SemDeleteEffect
  <2>3. cont' = [cont EXCEPT ![currpid] = "semdelete"]
    BY <2>1 DEF SemDelete, Then
  <2> QED BY <1>1, <1>4, <2>1, <2>2, <2>3
<1> QED BY <1>2, <1>3, <1>4

(* One of the two semaphores, on the way to state to. *)
LEMMA ClearingStep ==
    ASSUME IInv, PortInv, NEW id \in Port, id = plocal[currpid].port, NEW role \in Roles,
           NEW from, NEW to, NEW n \in Nat, NEW s, s = SemOf(id, role),
           \/ role = "send" /\ from = "clear1" /\ to = "clear2" /\ n = ptmaxcnt[id]
           \/ role = "recv" /\ from = "clear2" /\ to = "clear3" /\ n = 0,
           PIn(from), ClearSem(s, n), PGoTo(to),
           UNCHANGED <<ptstate, ptssem, ptrsem, ptmaxcnt, ptseq, ptlist, ptfree, ptmsg,
                       ptnextid, plocal, broken, received, orphaned, kills>>
    PROVE  IInv' /\ PortInv'
<1>1. PICK c \in Pid : c = currpid
  BY InCode
<1>2. /\ ppc[c] = from /\ Calm /\ cont[c] = "user" /\ \A u : ~InReset(u)
  BY <1>1, InCode
<1>3. PICK new \in {"ALLOC", "FREE"} : new = plocal[c].new
  BY DEF PortInv, PTypes, Locals
<1>4. s \in Sem \cup {NoSem}
  BY SemTypes DEF PortInv
<1>5. /\ IInv' /\ Parked' = Parked /\ scount' = scount /\ currpid' = c
      /\ \A p \in Pid : p # c => cont'[p] = cont[p]
      /\ \A u \in Sem : u # s => sstate'[u] = sstate[u]
      /\ \/ s = NoSem /\ cont'[c] = "user"
         \/ /\ s \in Sem /\ new = "ALLOC" /\ sstate' = sstate
            /\ cont'[c] = "semreset" /\ karg'[c] = s /\ kcount'[c] = n
         \/ /\ s \in Sem /\ new # "ALLOC" /\ sstate'[s] = "FREE"
            /\ cont'[c] = "semdelete" /\ karg'[c] = s
  BY <1>1, <1>2, <1>3, <1>4, ClearSemEffect DEF me
<1>6. /\ from \in ClearPcs /\ to \in ClearPcs /\ to \in PPcs
      /\ ppc' \in [Pid -> PPcs] /\ ppc'[c] = to /\ \A p \in Pid : p # c => ppc'[p] = ppc[p]
  BY <1>1 DEF PGoTo, PortInv, PTypes, PPcs, ClearPcs
<1>7. /\ c \in Clearers(id) /\ Clearers(id)' = Clearers(id) /\ \A p \in Clearers(id) : p = c
      /\ ClearAt(id, c) /\ ptstate[id] = "LIMBO"
  <2>1. c \in Clearers(id) /\ Clearers(id)' = Clearers(id)
    BY <1>1, <1>2, <1>6 DEF Clearers
  <2> QED BY <2>1 DEF PortInv, ClearFits, ClearAt
<1>8. PTypes'
  BY <1>6 DEF PortInv, PTypes
<1>9. Apart(id)
  <2>1. Beyond(id, ppc[c], plocal[c]) /\ Beyond(id, ppc'[c], plocal'[c])
    BY <1>1, <1>2, <1>6 DEF Beyond, Roles, ClearPcs
  <2> QED BY <1>1, <1>6, <2>1 DEF Apart
<1>10. Idle /\ Idle'
  <2>1. Idle
    BY <1>1, <1>2, <1>6, IdleNow DEF PortInv, ClearPcs
  <2> QED BY <1>6, <2>1 DEF Idle, ClearPcs
<1>11. CreateFits' /\ CapsFit'
  BY <1>10 DEF CreateFits, Idle, PortInv, CapsFit, SmallCounts
<1>12. ~Created(id) /\ ~Created(id)' /\ \A j \in Port : Created(j)' <=> Created(j)
  BY <1>7, <1>10, CreatedIdle
<1>13. NoCalls(id)
  BY <1>9, <1>12, CallsGone DEF PortInv
<1>14. NodesPartitioned'
  BY <1>12, HeldKept, NodesKept DEF PortInv
<1>15. \A j \in Port, b \in Roles : SemOf(j, b)' = SemOf(j, b)
  BY DEF SemOf
<1>16. s # NoSem => Owned(id, role)
  BY <1>2, <1>7 DEF Owned, Relies
<1>17. ASSUME NEW j \in Port, NEW b \in Roles, Owned(j, b), j # id \/ b # role
       PROVE  /\ SemOf(j, b) # s /\ SemOf(j, b) \in Sem
              /\ sstate'[SemOf(j, b)] = sstate[SemOf(j, b)] /\ ~InReset(SemOf(j, b))'
  <2>1. SemOf(j, b) \in Sem
    BY <1>17, SemTypes DEF PortInv
  <2>2. SemOf(j, b) # s
    BY <1>16, <1>17, <2>1, NoSemIsNone, OwnSem DEF PortInv
  <2>3. PICK u : u = SemOf(j, b)
    OBVIOUS
  <2>4. ~InReset(u)'
    BY <1>5, <2>2, <2>3 DEF InReset
  <2>5. u = SemOf(j, b)'
    BY <1>15, <2>3
  <2> QED BY <1>5, <2>1, <2>2, <2>4, <2>5 DEF InReset
<1>18. Safe(id)
  BY <1>2, <1>5, <1>17 DEF Safe
<1>19. LoopFits'
  <2>1. ASSUME NEW p \in Pid, p # c PROVE cont'[p] \notin Loops
    BY <1>2, <1>5, <2>1 DEF Calm, Loops, Deferring
  <2>2. PICK b \in Roles : b = IF ppc'[c] = "clear2" THEN "send" ELSE "recv"
    BY DEF Roles
  <2>3. b = role /\ SemOf(plocal[c].port, b)' = s /\ ppc'[c] \in {"clear2", "clear3"}
    BY <1>1, <1>6, <2>2 DEF SemOf
  <2>4. SemOf(plocal[c].port, IF ppc[c] = "clear2" THEN "send" ELSE "recv")' = s
    BY <2>2, <2>3 DEF SemOf
  <2>5. cont'[c] \in Loops =>
           /\ karg'[c] = s /\ (cont'[c] = "semreset" => plocal'[c].new = "ALLOC")
           /\ (cont'[c] = "semdelete" => sstate'[karg'[c]] = "FREE")
    BY <1>3, <1>5 DEF Loops
  <2> QED BY <2>1, <2>3, <2>4, <2>5 DEF LoopFits
<1>20. ASSUME NEW a \in Roles, Owned(id, a)'
       PROVE  Owned(id, a) /\ (new # "ALLOC" => a # role)
  <2>1. Relies(id, a)' /\ SemOf(id, a) # NoSem
    BY <1>15, <1>20 DEF Owned
  <2>2. new = "ALLOC" \/ ppc'[c] = "clear1" \/ (a = "recv" /\ ppc'[c] = "clear2")
    BY <1>3, <1>7, <1>12, <2>1 DEF Relies
  <2>3. new = "ALLOC" \/ (a = "recv" /\ from = "clear1" /\ role = "send")
    BY <1>6, <2>2
  <2> QED BY <1>2, <1>3, <1>7, <2>1, <2>3 DEF Owned, Relies
<1>21. OwnSems(id)
  <2>1. ASSUME NEW a \in Roles, Owned(id, a)'
        PROVE  sstate'[SemOf(id, a)'] = "USED"
    <3>1. Owned(id, a) /\ sstate[SemOf(id, a)] = "USED" /\ SemOf(id, a)' = SemOf(id, a)
      BY <1>15, <1>20, <2>1 DEF PortInv, SemsFit
    <3>2. CASE new = "ALLOC"
      BY <1>4, <1>5, <3>1, <3>2, SemTypes, NoSemIsNone DEF PortInv
    <3>3. CASE new # "ALLOC"
      BY <1>17, <1>20, <2>1, <3>1, <3>3
    <3> QED BY <3>2, <3>3
  <2>2. ASSUME NEW a \in Roles, Owned(id, a)', NEW j \in Port, NEW b \in Roles,
               j # id \/ a # b, Owned(j, b)
        PROVE  SemOf(j, b) # SemOf(id, a)'
    BY <1>15, <1>20, <2>2, OwnSem DEF PortInv
  <2>3. ASSUME NEW a \in Roles, NEW b \in Roles, Owned(id, a)', Owned(id, b)', a # b
        PROVE  SemOf(id, a)' # SemOf(id, b)'
    BY <1>15, <1>20, <2>3, OwnSem DEF PortInv
  <2> QED BY <2>1, <2>2, <2>3 DEF OwnSems
<1>22. OwnClear(id)'
  <2>1. ASSUME new = "ALLOC", s # NoSem
        PROVE  /\ n = IF InReset(s)' THEN kcount'[c] ELSE scount'[s]
               /\ \A a \in Roles : SemOf(id, a) # NoSem => Owned(id, a)
    <3>1. InReset(s)' /\ kcount'[c] = n
      BY <1>5, <2>1 DEF InReset
    <3>2. \A a \in Roles : SemOf(id, a) # NoSem => Owned(id, a)
      BY <1>3, <1>7, <2>1, ClearerOwns
    <3> QED BY <3>1, <3>2
  <2>2. ASSUME new = "ALLOC" PROVE ResetTo(SemOf(id, role), n)'
    BY <1>5, <1>15, <2>1, <2>2 DEF ResetTo
  <2>3. ASSUME new = "ALLOC", role = "recv" PROVE ResetTo(SemOf(id, "send"), ptmaxcnt[id])'
    <3>1. ResetTo(SemOf(id, "send"), ptmaxcnt[id]) /\ "send" \in Roles
      BY <1>2, <1>3, <1>7, <2>3 DEF ClearAt, Roles
    <3>2. PICK u : u = SemOf(id, "send")
      OBVIOUS
    <3>3. u = SemOf(id, "send")' /\ ptmaxcnt'[id] = ptmaxcnt[id]
      BY <1>15, <3>1, <3>2
    <3>4. u # NoSem => ~InReset(u) /\ ptmaxcnt[id] = scount[u]
      BY <1>2, <3>1, <3>2 DEF ResetTo
    <3>5. u # NoSem => Owned(id, "send")
      BY <1>3, <1>7, <2>3, <3>1, <3>2, ClearerOwns
    <3>6. u # NoSem => ~InReset(u)'
      BY <1>17, <2>3, <3>1, <3>2, <3>3, <3>5 DEF InReset
    <3> QED BY <1>5, <3>3, <3>4, <3>6 DEF ResetTo
  <2>4. ASSUME new = "ALLOC"
        PROVE  /\ ResetTo(SemOf(id, "send"), ptmaxcnt[id])'
               /\ to = "clear3" => ResetTo(SemOf(id, "recv"), 0)'
    <3>1. CASE role = "send"
      BY <2>2, <2>4, <3>1 DEF ResetTo, SemOf
    <3>2. CASE role = "recv"
      BY <2>2, <2>3, <2>4, <3>2 DEF ResetTo, SemOf
    <3> QED BY <3>1, <3>2 DEF Roles
  <2>5. ClearAt(id, c)'
    BY <1>3, <1>6, <1>7, <2>4 DEF ClearAt
  <2> QED BY <1>7, <2>5 DEF OwnClear
<1>23. OwnBooks(id)'
  BY <1>12 DEF OwnBooks
<1>24. PortInv'
  BY <1>5, <1>8, <1>9, <1>11, <1>13, <1>14, <1>18, <1>19, <1>21, <1>22, <1>23, ApartStep
<1> QED BY <1>5, <1>24

LEMMA PtClearSemsStep ==
    ASSUME IInv, PortInv, PtClearSenders \/ PtClearReceivers
    PROVE  IInv' /\ PortInv'
<1>1. currpid \in Pid
  BY ParkedTypes
<1>2. PICK id \in Port : id = plocal[currpid].port
  BY <1>1 DEF PortInv, PTypes, Locals
<1>3. ptmaxcnt[id] \in Nat /\ 0 \in Nat /\ "send" \in Roles /\ "recv" \in Roles
  BY DEF PortInv, PTypes, Roles
<1>4. PICK s : s = ptssem[id]
  OBVIOUS
<1>5. PICK u : u = ptrsem[id]
  OBVIOUS
<1>6. s = SemOf(id, "send") /\ u = SemOf(id, "recv")
  BY <1>4, <1>5 DEF SemOf
<1>7. CASE PtClearSenders
  <2>1. /\ PIn("clear1") /\ ClearSem(s, ptmaxcnt[id]) /\ PGoTo("clear2")
        /\ UNCHANGED <<ptstate, ptssem, ptrsem, ptmaxcnt, ptseq, ptlist, ptfree, ptmsg,
                       ptnextid, plocal, broken, received, orphaned, kills>>
    BY <1>2, <1>4, <1>7 DEF PtClearSenders, ResetCounts, me
  <2> QED BY <1>2, <1>3, <1>6, <2>1, ClearingStep
<1>8. CASE PtClearReceivers
  <2>1. /\ PIn("clear2") /\ ClearSem(u, 0) /\ PGoTo("clear3")
        /\ UNCHANGED <<ptstate, ptssem, ptrsem, ptmaxcnt, ptseq, ptlist, ptfree, ptmsg,
                       ptnextid, plocal, broken, received, orphaned, kills>>
    BY <1>2, <1>5, <1>8 DEF PtClearReceivers, ResetCounts, me
  <2> QED BY <1>2, <1>3, <1>6, <2>1, ClearingStep
<1> QED BY <1>7, <1>8

LEMMA PtClearEndStep ==
    ASSUME IInv, PortInv, PtClearEnd
    PROVE  IInv' /\ PortInv'
<1>1. PICK c \in Pid : c = currpid
  BY ParkedTypes
<1>2. /\ ppc[c] = "clear3" /\ Calm /\ \A u : ~InReset(u)
  BY <1>1, InCode DEF PtClearEnd
<1>3. PICK id \in Port : id = plocal[c].port
  BY DEF PortInv, PTypes, Locals
<1>4. PICK new \in {"ALLOC", "FREE"} : new = plocal[c].new
  BY DEF PortInv, PTypes, Locals
<1>5. /\ ptstate' = [ptstate EXCEPT ![id] = new]
      /\ ptnextid' = IF new = "FREE" THEN id ELSE ptnextid
      /\ ppc' = [ppc EXCEPT ![c] = "app"] /\ plocal' = [plocal EXCEPT ![c] = NoLocal]
      /\ orphaned' = orphaned \ {id}
      /\ UNCHANGED <<vars, ptssem, ptrsem, ptmaxcnt, ptseq, ptlist, ptfree, ptmsg,
                     broken, received, kills>>
  BY <1>1, <1>3, <1>4 DEF PtClearEnd, PReturn, PGoTo, Local, me
<1>6. /\ IInv' /\ Parked' = Parked /\ UNCHANGED <<currpid, cont, karg, kcount, scount, sstate>>
      /\ LoopFits' /\ Safe(id)
  BY <1>2, <1>5, NoCall
<1>7. /\ ppc' \in [Pid -> PPcs] /\ plocal' \in [Pid -> Locals] /\ ppc'[c] = "app"
      /\ \A x \in Pid : x # c => ppc'[x] = ppc[x] /\ plocal'[x] = plocal[x]
  BY <1>5, CallOver DEF PortInv
<1>8. /\ c \in Clearers(id) /\ (\A p \in Clearers(id) : p = c) /\ Clearers(id)' = {}
      /\ ClearAt(id, c) /\ ptstate[id] = "LIMBO"
  <2>1. c \in Clearers(id)
    BY <1>2, <1>3 DEF Clearers, ClearPcs
  <2>2. \A p \in Clearers(id) : p = c
    BY <2>1 DEF PortInv, ClearFits
  <2>3. Clearers(id)' = {}
    BY <1>7, <2>2 DEF Clearers, ClearPcs
  <2> QED BY <2>1, <2>2, <2>3 DEF PortInv, ClearFits, ClearAt
<1>9. PTypes'
  <2>1. ptstate' \in [Port -> {"FREE", "ALLOC", "LIMBO"}] /\ ptnextid' \in Port
    BY <1>5 DEF PortInv, PTypes
  <2> QED BY <1>5, <1>7, <2>1 DEF PortInv, PTypes
<1>10. ptstate'[id] = new /\ \A j \in Port : j # id => ptstate'[j] = ptstate[j]
  BY <1>5 DEF PortInv, PTypes
<1>11. Apart(id)
  <2>1. Beyond(id, ppc[c], plocal[c]) /\ Beyond(id, ppc'[c], plocal'[c])
    BY <1>2, <1>3, <1>7 DEF Beyond, Roles
  <2> QED BY <1>1, <1>5, <1>7, <1>10, <2>1 DEF Apart
<1>12. Idle /\ Idle'
  <2>1. Idle
    BY <1>1, <1>2, IdleNow DEF PortInv
  <2> QED BY <1>7, <2>1 DEF Idle
<1>13. CreateFits' /\ CapsFit'
  <2>1. \A j \in Port : ptstate'[j] # "FREE" => ptstate[j] # "FREE"
    BY <1>8, <1>10
  <2> QED BY <1>5, <1>12, <2>1 DEF CreateFits, Idle, PortInv, CapsFit, SmallCounts
<1>14. ~Created(id) /\ (Created(id)' <=> new = "ALLOC")
  BY <1>8, <1>10, <1>12, CreatedIdle
<1>15. NoCalls(id)
  BY <1>5, <1>11, <1>14, CallsGone DEF PortInv
<1>16. NodesPartitioned'
  <2>1. Held'[id] = Held[id]
    BY <1>4, <1>5, <1>8, <1>14 DEF Held, ClearAt
  <2>2. \A j \in Port : j # id => Held'[j] = Held[j]
    BY <1>5, <1>11, ApartOthers, HeldKept
  <2> QED BY <1>5, <2>1, <2>2, NodesKept DEF PortInv
<1>17. \A a \in Roles : /\ SemOf(id, a)' = SemOf(id, a)
                        /\ new = "ALLOC" /\ SemOf(id, a) # NoSem => Owned(id, a)
  BY <1>4, <1>5, <1>8, ClearerOwns DEF SemOf
<1>18. OwnSems(id)
  <2>1. \A a \in Roles : Owned(id, a)' => Owned(id, a)
    BY <1>8, <1>10, <1>14, <1>17 DEF Owned, Relies
  <2>2. \A a \in Roles : Owned(id, a) => sstate'[SemOf(id, a)] = "USED"
    BY <1>6 DEF PortInv, SemsFit
  <2> QED BY <1>17, <2>1, <2>2, OwnSem DEF OwnSems, PortInv
<1>19. OwnClear(id)'
  BY <1>8 DEF OwnClear
<1>20. OwnBooks(id)'
  <2>1. ASSUME NEW pc \in Roles, new = "ALLOC", SemOf(id, pc) # NoSem PROVE BookOf(id, pc)'
    <3>1. Claims(id, pc)' = {}
      BY <1>9, <1>11, <1>15, ApartCalls DEF PortInv
    <3>2. ptlist[id] = <<>> /\ ptmaxcnt[id] \in Nat
      BY <1>4, <1>8, <2>1 DEF ClearAt, PortInv, PTypes
    <3> DEFINE u == SemOf(id, pc)
               n == scount[u]
               t == Target(id, pc)
               small == pc = "recv" \/ SmallCounts
               exact == id \notin orphaned'
    <3>3. t = n /\ n \in Int /\ n >= 0
      <4>1. CASE pc = "send"
        <5>1. t = ptmaxcnt[id] - 0
          BY <3>2, <4>1 DEF Target
        <5>2. n = ptmaxcnt[id]
          BY <1>2, <1>4, <1>8, <2>1, <4>1 DEF ClearAt, ResetTo
        <5> QED BY <3>2, <5>1, <5>2
      <4>2. CASE pc = "recv"
        <5>1. t = 0
          BY <3>2, <4>2 DEF Target
        <5>2. n = 0
          BY <1>2, <1>4, <1>8, <2>1, <4>2 DEF ClearAt, ResetTo
        <5> QED BY <5>1, <5>2
      <4> QED BY <4>1, <4>2 DEF Roles
    <3>4. u \in Sem
      BY <2>1, SemTypes DEF PortInv
    <3>5. \A p \in Pid : Parked'[p] # u
      BY <1>2, <1>6, <3>3, <3>4, NobodyWaits
    <3>6. Target(id, pc)' = t /\ SemOf(id, pc)' = u /\ scount'[u] = n
      BY <1>5, <1>6, <1>17 DEF Target
    <3> HIDE DEF u, n, t, small, exact
    <3>7. Book(small, n, u, Parked', {}, t, exact)
      BY <3>3, <3>5, BookOpen
    <3> QED BY <3>1, <3>6, <3>7 DEF BookOf, SmallCounts, small, exact
  <2> QED BY <1>14, <1>17, <2>1 DEF OwnBooks
<1>21. PortInv'
  BY <1>5, <1>6, <1>9, <1>11, <1>13, <1>15, <1>16, <1>18, <1>19, <1>20, ApartStep
<1> QED BY <1>6, <1>21

(* What a turn of a loop does to the pending kernel calls. *)
LEMMA ReleasingConts ==
    ASSUME IInv, SemResetLoop \/ SemResetEnd \/ SemDeleteLoop \/ SemDeleteEnd
    PROVE  \A p \in Pid : cont'[p] = "user" \/ (cont'[p] = cont[p] /\ karg'[p] = karg[p])
<1>1. cont \in [Pid -> Conts] /\ karg \in [Pid -> Int] /\ currpid \in Pid
  BY ParkedTypes
<1>2. CASE SemResetLoop \/ SemDeleteLoop
  <2>1. cont' = cont /\ karg' = karg
    BY <1>2 DEF SemResetLoop, SemDeleteLoop, kvars
  <2> QED BY <2>1
<1>3. CASE SemResetEnd \/ SemDeleteEnd
  <2>1. cont' = [cont EXCEPT ![currpid] = "user"] /\ karg' = [karg EXCEPT ![currpid] = 0]
    BY <1>3 DEF SemResetEnd, SemDeleteEnd, Return
  <2> QED BY <1>1, <2>1
<1> QED BY <1>2, <1>3

LEMMA ReleasingStep ==
    ASSUME IInv, PortInv, Releasing
    PROVE  IInv' /\ PortInv'
<1>1. /\ SemResetLoop \/ SemResetEnd \/ SemDeleteLoop \/ SemDeleteEnd
      /\ UNCHANGED <<ptstate, ptssem, ptrsem, ptmaxcnt, ptseq, ptlist, ptfree, ptmsg,
                     ptnextid, ppc, plocal, broken, received, orphaned, kills>>
  BY DEF Releasing, pvars
<1>2. PICK c \in Pid : c = currpid
  BY ParkedTypes
<1>3. PICK s : s = karg[c]
  OBVIOUS
<1>4. /\ IInv' /\ s \in Sem /\ Released(s) /\ sstate' = sstate /\ cont[c] \in Loops
      /\ \/ /\ cont[c] = "semreset" /\ scount' = scount
            /\ InReset(s)' /\ kcount'[currpid'] = kcount[c]
         \/ /\ cont[c] = "semreset" /\ cont'[c] = "user"
            /\ scount' = [scount EXCEPT ![s] = kcount[c]]
         \/ cont[c] = "semdelete" /\ scount' = [scount EXCEPT ![s] = @ + 1]
  <2>1. Loops = {"semreset", "semdelete"}
    BY DEF Loops
  <2> QED BY <1>1, <1>2, <1>3, <2>1, ReleasingEffect
<1>5. \A p \in Pid : cont'[p] = "user" \/ (cont'[p] = cont[p] /\ karg'[p] = karg[p])
  BY <1>1, <1>2, ReleasingConts
<1>6. PICK id \in Port : id = plocal[c].port
  BY DEF PortInv, PTypes, Locals
<1>7. PICK role \in Roles : role = IF ppc[c] = "clear2" THEN "send" ELSE "recv"
  BY DEF Roles
<1>8. /\ ppc[c] \in {"clear2", "clear3"} /\ s = SemOf(id, role)
      /\ cont[c] = "semreset" => plocal[c].new = "ALLOC"
      /\ cont[c] = "semdelete" => sstate[s] = "FREE"
  BY <1>3, <1>4, <1>6, <1>7 DEF PortInv, LoopFits
<1>9. /\ c \in Clearers(id) /\ (\A p \in Clearers(id) : p = c) /\ Clearers(id)' = Clearers(id)
      /\ ClearAt(id, c) /\ ptstate[id] = "LIMBO"
  <2>1. c \in Clearers(id)
    BY <1>6, <1>8 DEF Clearers, ClearPcs
  <2>2. Clearers(id)' = Clearers(id)
    BY <1>1 DEF Clearers
  <2> QED BY <2>1, <2>2 DEF PortInv, ClearFits, ClearAt
<1>10. \A p \in Pid : p # c => cont[p] \notin Loops
  <2>1. cont[currpid] \in Deferring
    BY <1>2, <1>4 DEF Loops, Deferring
  <2> QED BY <1>2, <2>1, InLoop DEF Loops, Deferring
<1>11. \A u : InReset(u)' => u = s /\ cont'[c] = "semreset"
  <2>1. currpid' \in Pid
    BY <1>4 DEF IInv, TypeOK
  <2> QED BY <1>3, <1>5, <1>10, <2>1 DEF InReset, Loops
<1>12. \A u : InReset(u) => u = s
  BY <1>2, <1>3 DEF InReset
<1>13. scount \in [Sem -> Int] /\ \A u \in Sem : u # s => scount'[u] = scount[u]
  BY <1>4, ParkedTypes
<1>14. cont[c] = "semreset" => Owned(id, role)
  <2>1. s # NoSem
    BY <1>4, NoSemIsNone
  <2> QED BY <1>8, <1>9, <2>1, ClearerOwns
<1>15. plocal[c].new = "ALLOC" => cont[c] = "semreset"
  <2>1. ASSUME plocal[c].new = "ALLOC", cont[c] = "semdelete" PROVE FALSE
    <3>1. Owned(id, role)
      BY <1>4, <1>8, <1>9, <2>1, NoSemIsNone, ClearerOwns
    <3>2. sstate[s] = "USED"
      BY <1>8, <3>1 DEF PortInv, SemsFit
    <3> QED BY <1>8, <2>1, <3>2
  <2> QED BY <1>4, <2>1 DEF Loops
<1>16. ASSUME NEW j \in Port, NEW b \in Roles, Owned(j, b), j # id \/ b # role
       PROVE  SemOf(j, b) # s /\ SemOf(j, b) \in Sem
  <2>1. SemOf(j, b) \in Sem /\ sstate[SemOf(j, b)] = "USED"
    BY <1>16, SemTypes DEF PortInv, SemsFit
  <2>2. CASE cont[c] = "semreset"
    BY <1>8, <1>14, <1>16, <2>1, <2>2, OwnSem DEF PortInv
  <2>3. CASE cont[c] = "semdelete"
    BY <1>8, <2>1, <2>3
  <2> QED BY <1>4, <2>2, <2>3 DEF Loops
<1>17. \A j \in Port, b \in Roles : /\ SemOf(j, b)' = SemOf(j, b)
                                    /\ Owned(j, b)' <=> Owned(j, b)
  <2>1. \A j \in Port, b \in Roles : SemOf(j, b)' = SemOf(j, b)
    BY <1>1 DEF SemOf
  <2>2. \A j \in Port, b \in Roles : Relies(j, b)' <=> Relies(j, b)
    BY <1>1 DEF Relies, Created, Clearers
  <2> QED BY <2>1, <2>2 DEF Owned
<1>18. Safe(id)
  <2>1. ASSUME NEW j \in Port, NEW b \in Roles, j # id, Owned(j, b)
        PROVE  /\ sstate'[SemOf(j, b)] = sstate[SemOf(j, b)]
               /\ scount'[SemOf(j, b)] = scount[SemOf(j, b)]
               /\ ~InReset(SemOf(j, b)) /\ ~InReset(SemOf(j, b))'
    <3>1. SemOf(j, b) # s /\ SemOf(j, b) \in Sem /\ SemOf(j, b)' = SemOf(j, b)
      BY <1>16, <1>17, <2>1
    <3>2. ~InReset(SemOf(j, b))'
      BY <1>11, <3>1 DEF InReset
    <3> QED BY <1>4, <1>12, <1>13, <3>1, <3>2
  <2> QED BY <2>1 DEF Safe
<1>19. Apart(id) /\ PTypes' /\ CapsFit'
  BY <1>1 DEF Apart, PortInv, PTypes, CapsFit, SmallCounts
<1>20. Idle /\ Idle' /\ CreateFits'
  <2>1. Idle
    BY <1>2, <1>4, IdleNow DEF PortInv, Loops
  <2> QED BY <1>1, <2>1 DEF Idle, CreateFits
<1>21. ~Created(id) /\ ~Created(id)' /\ \A j \in Port : Created(j)' <=> Created(j)
  BY <1>1, <1>9, <1>20, CreatedIdle
<1>22. NoCalls(id)
  BY <1>1, <1>19, <1>21, CallsGone DEF PortInv
<1>23. NodesPartitioned'
  BY <1>1, <1>21, HeldKept, NodesKept DEF PortInv
<1>24. LoopFits'
  <2>1. ASSUME NEW p \in Pid, cont'[p] \in Loops
        PROVE  cont'[p] = cont[p] /\ karg'[p] = karg[p]
    BY <1>5, <2>1 DEF Loops
  <2> QED BY <1>1, <1>4, <2>1 DEF PortInv, LoopFits, SemOf
<1>25. OwnSems(id)
  <2>1. \A a \in Roles : Owned(id, a) => sstate'[SemOf(id, a)] = "USED"
    BY <1>4 DEF PortInv, SemsFit
  <2> QED BY <1>17, <2>1, OwnSem DEF OwnSems, PortInv
<1>26. OwnBooks(id)'
  BY <1>21 DEF OwnBooks
<1>27. ASSUME NEW a \in Roles, NEW n, plocal[c].new = "ALLOC", ResetTo(SemOf(id, a), n)
       PROVE  ResetTo(SemOf(id, a), n)'
  <2>1. PICK u : u = SemOf(id, a)
    OBVIOUS
  <2>2. SemOf(id, a)' = u
    BY <1>17, <2>1
  <2>3. u # NoSem => Owned(id, a)
    BY <1>9, <1>27, <2>1, ClearerOwns
  <2>4. CASE a # role
    <3>1. u # NoSem => u # s /\ u \in Sem
      BY <1>16, <2>1, <2>3, <2>4
    <3>2. u # NoSem => ~InReset(u) /\ ~InReset(u)' /\ scount'[u] = scount[u]
      BY <1>11, <1>12, <1>13, <3>1
    <3> QED BY <1>27, <2>1, <2>2, <3>2 DEF ResetTo
  <2>5. CASE a = role
    <3>1. u = s /\ InReset(s) /\ s # NoSem /\ cont[c] = "semreset"
      BY <1>2, <1>3, <1>4, <1>8, <1>15, <1>27, <2>1, <2>5, NoSemIsNone DEF InReset
    <3>2. n = kcount[c]
      BY <1>2, <1>27, <2>1, <3>1 DEF ResetTo
    <3>3. CASE InReset(s)' /\ kcount'[currpid'] = kcount[c]
      BY <2>2, <3>1, <3>2, <3>3 DEF ResetTo
    <3>4. CASE scount' = [scount EXCEPT ![s] = kcount[c]] /\ cont'[c] = "user"
      <4>1. scount'[s] = kcount[c] /\ ~InReset(s)'
        BY <1>4, <1>11, <1>13, <3>4
      <4> QED BY <2>2, <3>1, <3>2, <4>1 DEF ResetTo
    <3> QED BY <1>4, <3>1, <3>3, <3>4
  <2> QED BY <2>4, <2>5
<1>28. OwnClear(id)'
  <2>1. "send" \in Roles /\ "recv" \in Roles
    BY DEF Roles
  <2>2. ASSUME plocal[c].new = "ALLOC", ppc[c] # "clear1"
        PROVE  ResetTo(SemOf(id, "send"), ptmaxcnt[id])'
    <3>1. PICK n : n = ptmaxcnt[id]
      OBVIOUS
    <3>2. ResetTo(SemOf(id, "send"), n)'
      BY <1>9, <1>27, <2>1, <2>2, <3>1 DEF ClearAt
    <3> QED BY <1>1, <3>1, <3>2 DEF ResetTo
  <2>3. ASSUME plocal[c].new = "ALLOC", ppc[c] = "clear3"
        PROVE  ResetTo(SemOf(id, "recv"), 0)'
    BY <1>9, <1>27, <2>1, <2>3 DEF ClearAt
  <2>4. ClearAt(id, c)'
    BY <1>1, <1>9, <2>2, <2>3 DEF ClearAt
  <2> QED BY <1>9, <2>4 DEF OwnClear
<1>29. PortInv'
  BY <1>1, <1>4, <1>18, <1>19, <1>20, <1>22, <1>23, <1>24, <1>25, <1>26, <1>28, ApartStep DEF Released
<1> QED BY <1>4, <1>29

-----------------------------------------------------------------------------
(***************************************************************************)
(* The invariant holds of every state.                                     *)
(***************************************************************************)
LEMMA PInitInv == PInit => IInv /\ PortInv
<1> SUFFICES ASSUME PInit PROVE IInv /\ PortInv
  OBVIOUS
<1>1. IInv
  BY InitIInv DEF PInit
<1>2. cont = [p \in Pid |-> "user"]
  BY DEF PInit, Init
<1>3. ptfree \in Seq(Node) /\ Len(ptfree) = MaxMsgs /\ \A i \in 1 .. MaxMsgs : ptfree[i] = i
  BY MaxMsgsAssumption DEF PInit, Node
<1>4. 0 \in Port /\ NoLocal \in Locals
  BY NPORTSAssumption DEF Port, NoLocal, Locals
<1>5. NSEM \in Nat \ {0} /\ 0 \in Sem
  BY NSEMAssumption DEF Sem
<1>6. PTypes
  <2>1. /\ ptstate \in [Port -> {"FREE", "ALLOC", "LIMBO"}]
        /\ ptssem \in [Port -> Sem \cup {NoSem}] /\ ptrsem \in [Port -> Sem \cup {NoSem}]
        /\ ptmaxcnt \in [Port -> Nat] /\ ptseq \in [Port -> Nat]
        /\ ptlist \in [Port -> Seq(Node)] /\ ptnextid \in Port
    BY <1>4, <1>5 DEF PInit
  <2>2. /\ ptmsg \in [Node -> Msgs \cup {NoMessage}] /\ received \in [Port -> Msgs \cup {NoMessage}]
        /\ ppc \in [Pid -> PPcs] /\ plocal \in [Pid -> Locals]
    BY <1>4 DEF PInit, PPcs
  <2> QED BY <1>3, <2>1, <2>2 DEF PTypes
<1>7. (\A p \in Pid : ppc[p] = "app") /\ (\A id \in Port : ptstate[id] = "FREE")
  BY DEF PInit
<1>8. \A id \in Port : ~Created(id) /\ Clearers(id) = {}
  BY <1>7 DEF Created, Clearers, ClearPcs
<1>9. CreateFits /\ ClearFits /\ SeqFits
  BY <1>7, <1>8 DEF CreateFits, ClearFits, SeqFits, Roles
<1>10. \A id \in Port, pc \in Roles : ~Owned(id, pc)
  BY <1>7, <1>8 DEF Owned, Relies
<1>11. SemsFit /\ LoopFits /\ BooksFit /\ CapsFit
  BY <1>2, <1>7, <1>8, <1>10 DEF SemsFit, LoopFits, Loops, BooksFit, CapsFit
<1>12. NodesPartitioned
  <2>1. \A id \in Port : Held[id] = <<>>
    BY <1>8 DEF Held
  <2>2. \A id \in Port : ToSet(Held[id]) = {} /\ IsInjective(Held[id])
    BY <2>1 DEF ToSet, IsInjective
  <2>3. Node \ UNION {ToSet(Held[id]) : id \in Port} = Node
    BY <2>2
  <2>4. OnQueue(ptfree, Node)
    BY <1>3 DEF OnQueue, ToSet, IsInjective, Node
  <2> QED BY <2>2, <2>3, <2>4 DEF NodesPartitioned
<1>13. NoEmptyReceive
  BY DEF PInit, NoEmptyReceive
<1> QED BY <1>1, <1>6, <1>9, <1>11, <1>12, <1>13 DEF PortInv

LEMMA PNextStep ==
    ASSUME IInv, PortInv, [PNext]_pallvars
    PROVE  IInv' /\ PortInv'
<1>1. CASE PortCall
  <2>1. ASSUME NEW n \in Counts, PtCreate(n) PROVE IInv' /\ PortInv'
    BY <2>1, PtCreateStep
  <2>2. ASSUME NEW id \in Port, NEW m \in Msgs, PtSend(id, m) PROVE IInv' /\ PortInv'
    BY <2>2, PtSendStep
  <2>3. ASSUME NEW id \in Port, PtRecv(id) PROVE IInv' /\ PortInv'
    BY <2>3, PtRecvStep
  <2>4. ASSUME NEW id \in Port, PtClear(id, "ALLOC") \/ PtClear(id, "FREE") PROVE IInv' /\ PortInv'
    BY <2>4, PtClearStep
  <2> QED BY <1>1, <2>1, <2>2, <2>3, <2>4 DEF PortCall
<1>2. CASE PortContinue
  <2>1. CASE PtSendPanic
    <3>1. broken' # "null" /\
          UNCHANGED <<vars, ptstate, ptssem, ptrsem, ptmaxcnt, ptseq, ptlist, ptfree, ptmsg,
                      ptnextid, ppc, plocal, received, orphaned>>
      BY <2>1 DEF PtSendPanic
    <3> QED BY <3>1, StoppedStep
  <2>2. CASE PtClearSenders \/ PtClearReceivers
    BY <2>2, PtClearSemsStep
  <2>3. CASE PtCreateEnd \/ PtSendEnd \/ PtRecvEnd \/ PtGone \/ PtClearEnd
    BY <2>3, PtCreateEndStep, PtSendEndStep, PtRecvEndStep, PtGoneStep, PtClearEndStep
  <2> QED BY <1>2, <2>1, <2>2, <2>3 DEF PortContinue
<1>3. CASE Spawn \/ Start \/ Preempt \/ KillOther
  BY <1>3, SpawnStep
<1>4. CASE Releasing \/ Killed
  BY <1>4, ReleasingStep, KilledStep
<1>5. CASE Stopped \/ UNCHANGED pallvars
  <2>1. broken' = broken /\
        UNCHANGED <<vars, ptstate, ptssem, ptrsem, ptmaxcnt, ptseq, ptlist, ptfree, ptmsg,
                    ptnextid, ppc, plocal, received, orphaned>>
    BY <1>5 DEF Stopped, pallvars, pvars
  <2> QED BY <2>1, StoppedStep
<1> QED BY <1>1, <1>2, <1>3, <1>4, <1>5 DEF PNext

(* The invariants together: the process manager's, which the port calls    *)
(* keep like any other system call, and that of the ports.                 *)
THEOREM PortsInductive == PSpec => [](IInv /\ PortInv)
<1>1. IInv /\ PortInv /\ [PNext]_pallvars => (IInv /\ PortInv)'
  BY PNextStep
<1> QED BY <1>1, PInitInv, PTL DEF PSpec

(* A receiver that got past wait() and the test of the sequence number     *)
(* finds a message, whatever was sent, received, reset, deleted or killed  *)
(* while it was off the processor: ptrecv may take the head of the list    *)
(* without a test.                                                         *)
THEOREM ReceiversFindMessages == PSpec => []NoEmptyReceive
<1>1. IInv /\ PortInv => NoEmptyReceive
  BY DEF PortInv
<1> QED BY <1>1, PortsInductive, PTL

(* No message node is ever lost, shared by two ports or used twice.        *)
THEOREM NodesArePartitioned == PSpec => []NodesPartitioned
<1>1. IInv /\ PortInv => NodesPartitioned
  BY DEF PortInv
<1> QED BY <1>1, PortsInductive, PTL

(* Between port calls, the account of a semaphore tells who is promised    *)
(* what.                                                                   *)
LEMMA Accounts ==
    ASSUME IInv, PortInv, PInApp, NEW id \in Port, NEW pc \in Roles, ptstate[id] = "ALLOC",
           SemOf(id, pc) # NoSem, id \notin orphaned, NEW s, s = SemOf(id, pc)
    PROVE  /\ scount[s] \in Int /\ Len(squeue[s]) \in Nat /\ Cardinality(Promised(id, pc)) \in Nat
           /\ squeue[s] = <<>> <=> Len(squeue[s]) = 0
           /\ Len(squeue[s]) = IF scount[s] < 0 THEN -scount[s] ELSE 0
           /\ pc = "recv" \/ SmallCounts =>
                 scount[s] + (Cardinality(Promised(id, pc)) + Len(squeue[s])) = Target(id, pc)
<1>1. (\A u : ~InReset(u)) /\ ppc[currpid] = "app"
  BY InCode DEF PInApp
<1>2. Created(id) /\ s \in Sem
  <2>1. Idle
    BY <1>1, IdleNow DEF PortInv
  <2> QED BY <2>1, CreatedIdle, SemTypes DEF PortInv
<1>3. BookOf(id, pc)
  BY <1>2 DEF PortInv, BooksFit
<1>4. pc = "recv" \/ SmallCounts => scount[s] + Cardinality(Claims(id, pc)) = Target(id, pc)
  BY <1>3 DEF BookOf, Book, UpTo
<1>5. /\ Cardinality(Promised(id, pc)) \in Nat
      /\ Cardinality(Claims(id, pc)) = Cardinality(Promised(id, pc)) + Len(squeue[s])
  BY <1>1, <1>3, PromisedCounted DEF PortInv
<1> QED BY <1>1, <1>2, <1>4, <1>5, WaitersCounted

(* ptcount is right between port calls, on every port on which no process  *)
(* was killed that had been released: a negative count is the number of    *)
(* blocked receivers, any other the number of unclaimed messages and       *)
(* blocked senders.                                                        *)
THEOREM CountIsExact == PSpec => []CountExact
<1>1. IInv /\ PortInv => CountExact
  <2> SUFFICES ASSUME IInv, PortInv, NEW id \in Port \ orphaned, ptstate[id] = "ALLOC",
                      HasSems(id), PInApp
               PROVE  PtCount(id) = IF squeue[ptrsem[id]] # <<>> THEN -Len(squeue[ptrsem[id]])
                                    ELSE (Len(ptlist[id]) - Cardinality(Promised(id, "recv")))
                                            + Len(squeue[ptssem[id]])
    BY DEF CountExact
  <2> DEFINE s == ptrsem[id]
             u == ptssem[id]
             n == scount[s]
             m == scount[u]
             w == Len(squeue[s])
             v == Len(squeue[u])
             k == Cardinality(Promised(id, "recv"))
             l == Len(ptlist[id])
  <2>1. /\ "recv" \in Roles /\ "send" \in Roles /\ id \in Port /\ id \notin orphaned
        /\ s = SemOf(id, "recv") /\ u = SemOf(id, "send") /\ s # NoSem /\ u # NoSem
    BY DEF Roles, SemOf, HasSems
  <2>2. /\ n \in Int /\ w \in Nat /\ k \in Nat /\ (squeue[s] = <<>> <=> w = 0)
        /\ w = (IF n < 0 THEN -n ELSE 0) /\ n + (k + w) = Target(id, "recv")
    BY <2>1, Accounts
  <2>3. m \in Int /\ v \in Nat /\ v = IF m < 0 THEN -m ELSE 0
    BY <2>1, Accounts
  <2>4. Target(id, "recv") = l /\ l \in Nat
    BY <2>1, SemTypes DEF Target, PortInv
  <2>5. PtCount(id) = IF n >= 0 /\ m < 0 THEN n - m ELSE n
    BY DEF PtCount
  <2> HIDE DEF n, m, w, v, k, l
  <2>6. PtCount(id) = IF w # 0 THEN -w ELSE (l - k) + v
    BY <2>2, <2>3, <2>4, <2>5
  <2> QED BY <2>2, <2>6 DEF n, m, w, v, k, l
<1> QED BY <1>1, PortsInductive, PTL

(* Nobody blocks without need: while a process waits to send, every place  *)
(* of the port is taken or promised, and while one waits to receive, every *)
(* message is promised, unless a released process was killed.  The count   *)
(* of the port has to fit ptmaxcnt, a uint16: ptcreate starts the          *)
(* semaphore of the senders with the full count.                           *)
THEOREM NobodyBlocksWithoutNeed ==
    ASSUME SmallCounts
    PROVE  PSpec => []BlockedForReason
<1>1. IInv /\ PortInv => BlockedForReason
  <2> SUFFICES ASSUME IInv, PortInv, NEW id \in Port \ orphaned, ptstate[id] = "ALLOC",
                      HasSems(id), PInApp
               PROVE  /\ squeue[ptssem[id]] # <<>> =>
                            Len(ptlist[id]) + Cardinality(Promised(id, "send")) = ptmaxcnt[id]
                      /\ squeue[ptrsem[id]] # <<>> =>
                            Len(ptlist[id]) = Cardinality(Promised(id, "recv"))
    BY DEF BlockedForReason
  <2> DEFINE s == ptrsem[id]
             u == ptssem[id]
             n == scount[s]
             m == scount[u]
             w == Len(squeue[s])
             v == Len(squeue[u])
             k == Cardinality(Promised(id, "recv"))
             j == Cardinality(Promised(id, "send"))
             l == Len(ptlist[id])
             c == ptmaxcnt[id]
  <2>1. /\ "recv" \in Roles /\ "send" \in Roles /\ id \in Port /\ id \notin orphaned
        /\ s = SemOf(id, "recv") /\ u = SemOf(id, "send") /\ s # NoSem /\ u # NoSem
    BY DEF Roles, SemOf, HasSems
  <2>2. /\ n \in Int /\ w \in Nat /\ k \in Nat /\ (squeue[s] = <<>> <=> w = 0)
        /\ w = (IF n < 0 THEN -n ELSE 0) /\ n + (k + w) = Target(id, "recv")
    BY <2>1, Accounts
  <2>3. /\ m \in Int /\ v \in Nat /\ j \in Nat /\ (squeue[u] = <<>> <=> v = 0)
        /\ v = (IF m < 0 THEN -m ELSE 0) /\ m + (j + v) = Target(id, "send")
    BY <2>1, Accounts
  <2>4. Target(id, "recv") = l /\ Target(id, "send") = c - l /\ l \in Nat /\ c \in Nat
    BY <2>1, SemTypes DEF Target, PortInv, PTypes
  <2> HIDE DEF n, m, w, v, k, j, l, c
  <2>5. (v # 0 => l + j = c) /\ (w # 0 => l = k)
    BY <2>2, <2>3, <2>4
  <2> QED BY <2>2, <2>3, <2>5 DEF n, m, w, v, k, j, l, c
<1> QED BY <1>1, PortsInductive, PTL

-----------------------------------------------------------------------------
(***************************************************************************)
(* A port implements the queue of PortSpec.                                *)
(***************************************************************************)
(* The steps of the queue, for port id. *)
Kept(id) == CapOf(id)' = CapOf(id) /\ Content(id)' = Content(id) /\ received'[id] = received[id]

Closes(id) == CapOf(id) # -1 /\ CapOf(id)' = -1 /\ Content(id)' = <<>> /\ received'[id] = received[id]

QueueStep(id) ==
    \/ Kept(id) \/ Closes(id)
    \/ /\ CapOf(id) = -1 /\ CapOf(id)' \in Counts
       /\ Content(id)' = <<>> /\ received'[id] = received[id]
    \/ \E m \in Msgs : /\ Len(Content(id)) < CapOf(id) /\ Content(id)' = Append(Content(id), m)
                       /\ CapOf(id)' = CapOf(id) /\ received'[id] = received[id]
    \/ /\ Content(id) # <<>> /\ received'[id] = Head(Content(id))
       /\ Content(id)' = Tail(Content(id)) /\ CapOf(id)' = CapOf(id)
    \/ /\ CapOf(id) # -1 /\ Content(id)' = <<>>
       /\ CapOf(id)' = CapOf(id) /\ received'[id] = received[id]

(* A process on whose progress it depends whether the port is open. *)
Reopens(id, p) == ppc[p] \in ClearPcs /\ plocal[p].port = id /\ plocal[p].new = "ALLOC"
Decides(id, p) == ppc[p] \in {"create"} \cup ClearPcs /\ plocal[p].port = id

LEMMA OpenIs ==
    ASSUME NEW id \in Port
    PROVE  /\ IsOpen(id) <=> Created(id) \/ (ptstate[id] = "LIMBO" /\ \E p \in Pid : Reopens(id, p))
           /\ IsOpen(id)' <=> Created(id)' \/ (ptstate'[id] = "LIMBO" /\ \E p \in Pid : Reopens(id, p)')
BY DEF IsOpen, Reopens, ClearPcs

(* A step of others. *)
Aside(id, p) ==
    \/ ppc'[p] = ppc[p] /\ plocal'[p] = plocal[p]
    \/ ~Decides(id, p) /\ ~Decides(id, p)'
    \/ ppc[p] \in ClearPcs /\ ppc'[p] \in ClearPcs /\ plocal'[p] = plocal[p]

LEMMA OpenKept ==
    ASSUME NEW id \in Port, ptstate'[id] = ptstate[id], \A p \in Pid : Aside(id, p)
    PROVE  IsOpen(id)' <=> IsOpen(id)
<1>1. ASSUME NEW p \in Pid
      PROVE  /\ Reopens(id, p)' <=> Reopens(id, p)
             /\ ppc'[p] = "create" /\ plocal'[p].port = id <=> ppc[p] = "create" /\ plocal[p].port = id
  BY DEF Aside, Decides, Reopens, ClearPcs
<1>2. Created(id)' <=> Created(id)
  BY <1>1 DEF Created
<1> QED BY <1>1, <1>2, OpenIs

LEMMA KeptWhen ==
    ASSUME NEW id \in Port, ptstate'[id] = ptstate[id], ptlist'[id] = ptlist[id],
           ptmaxcnt'[id] = ptmaxcnt[id], received'[id] = received[id],
           IsOpen(id) => \A i \in DOMAIN ptlist[id] : ptmsg'[ptlist[id][i]] = ptmsg[ptlist[id][i]],
           \A p \in Pid : Aside(id, p)
    PROVE  Kept(id)
<1>1. IsOpen(id)' <=> IsOpen(id)
  BY OpenKept
<1>2. CapOf(id)' = CapOf(id)
  BY <1>1 DEF CapOf
<1>3. Content(id)' = Content(id)
  <2>1. CASE IsOpen(id)
    BY <1>1, <2>1 DEF Content
  <2>2. CASE ~IsOpen(id)
    BY <1>1, <2>2 DEF Content
  <2> QED BY <2>1, <2>2
<1> QED BY <1>2, <1>3 DEF Kept

(* The port stays as it is, and so do the nodes. *)
LEMMA KeptAside ==
    ASSUME NEW id \in Port, ptstate'[id] = ptstate[id], ptlist'[id] = ptlist[id],
           ptmaxcnt'[id] = ptmaxcnt[id], ptmsg' = ptmsg, received' = received,
           \A p \in Pid : Aside(id, p)
    PROVE  QueueStep(id)
BY KeptWhen DEF QueueStep

(* The nodes of an open port are not on the free list. *)
LEMMA OpenNodes ==
    ASSUME PortInv, NEW id \in Port, IsOpen(id)
    PROVE  /\ ToSet(ptlist[id]) \cap ToSet(ptfree) = {}
           /\ ptlist[id] \in Seq(Node) /\ ptmaxcnt[id] \in Nat
           /\ CapOf(id) = ptmaxcnt[id] /\ CapOf(id) # -1
<1>1. ptlist[id] \in Seq(Node) /\ ptmaxcnt[id] \in Nat
  BY DEF PortInv, PTypes
<1>2. CapOf(id) = ptmaxcnt[id] /\ CapOf(id) # -1
  BY <1>1 DEF CapOf
<1>3. CASE Created(id)
  <2>1. Held[id] = ptlist[id]
    BY <1>3 DEF Held
  <2>2. ToSet(ptfree) = Node \ UNION {ToSet(Held[j]) : j \in Port}
    BY DEF PortInv, NodesPartitioned, OnQueue
  <2>3. ToSet(ptlist[id]) \cap ToSet(ptfree) = {}
    BY <2>1, <2>2
  <2> QED BY <1>1, <1>2, <2>3
<1>4. CASE ~Created(id)
  <2>1. PICK p \in Pid : Reopens(id, p)
    BY <1>4, OpenIs
  <2>2. p \in Clearers(id) /\ plocal[p].new = "ALLOC"
    BY <2>1 DEF Reopens, Clearers
  <2>3. ptlist[id] = <<>>
    BY <2>2 DEF PortInv, ClearFits, ClearAt
  <2>4. ToSet(ptlist[id]) = {}
    BY <2>3 DEF ToSet
  <2> QED BY <1>1, <1>2, <2>4
<1> QED BY <1>3, <1>4

(* What the queue holds. *)
LEMMA ContentIs ==
    ASSUME NEW id \in Port, IsOpen(id), ptlist[id] \in Seq(Node),
           ptmsg \in [Node -> Msgs \cup {NoMessage}]
    PROVE  /\ Content(id) \in Seq(Msgs \cup {NoMessage}) /\ Len(Content(id)) = Len(ptlist[id])
           /\ \A i \in 1 .. Len(ptlist[id]) : Content(id)[i] = ptmsg[ptlist[id][i]]
<1>1. Content(id) = [i \in 1 .. Len(ptlist[id]) |-> ptmsg[ptlist[id][i]]]
  BY DEF Content
<1>2. Len(ptlist[id]) \in Nat /\ \A i \in 1 .. Len(ptlist[id]) : ptlist[id][i] \in Node
  OBVIOUS
<1> DEFINE n == Len(ptlist[id])
<1> HIDE DEF n
<1>3. Content(id) = [i \in 1 .. n |-> ptmsg[ptlist[id][i]]] /\ n \in Nat
      /\ \A i \in 1 .. n : ptmsg[ptlist[id][i]] \in Msgs \cup {NoMessage}
  BY <1>1, <1>2 DEF n
<1>4. Content(id) \in Seq(Msgs \cup {NoMessage}) /\ Len(Content(id)) = n
      /\ \A i \in 1 .. n : Content(id)[i] = ptmsg[ptlist[id][i]]
  BY <1>3
<1> QED BY <1>4 DEF n

(* Steps that leave the ports alone. *)
LEMMA QuietQueue ==
    ASSUME IInv, PortInv, NEW id \in Port,
           \/ Spawn \/ Start \/ Preempt \/ KillOther \/ Releasing \/ UNCHANGED pallvars
           \/ (\E j \in Port, m \in Msgs : PtSend(j, m)) \/ (\E j \in Port : PtRecv(j))
           \/ PtGone \/ PtSendPanic \/ PtClearSenders \/ PtClearReceivers
    PROVE  QueueStep(id)
<1>1. PICK c \in Pid : c = currpid
  BY ParkedTypes
<1>2. ppc \in [Pid -> PPcs] /\ plocal \in [Pid -> Locals]
  BY DEF PortInv, PTypes
<1>3. ASSUME UNCHANGED <<ptstate, ptlist, ptmaxcnt, ptmsg, received>>, \A p \in Pid : Aside(id, p)
      PROVE  QueueStep(id)
  BY <1>3, KeptAside
<1>4. CASE Spawn \/ Start \/ Preempt \/ KillOther \/ Releasing \/ UNCHANGED pallvars \/ PtSendPanic
  <2>1. UNCHANGED <<ptstate, ptlist, ptmaxcnt, ptmsg, received, ppc, plocal>>
    BY <1>4 DEF Spawn, Start, Preempt, KillOther, Releasing, pallvars, pvars, PtSendPanic
  <2>2. \A p \in Pid : Aside(id, p)
    BY <2>1 DEF Aside
  <2> QED BY <1>3, <2>1, <2>2
<1>5. ASSUME NEW from \in {"app", "send", "recv"}, NEW to \in {"app", "send", "recv"}, NEW r,
             ppc[c] = from, ppc' = [ppc EXCEPT ![c] = to], plocal' = [plocal EXCEPT ![c] = r],
             UNCHANGED <<ptstate, ptlist, ptmaxcnt, ptmsg, received>>
      PROVE  QueueStep(id)
  <2>1. ppc'[c] = to /\ \A p \in Pid : p # c => ppc'[p] = ppc[p] /\ plocal'[p] = plocal[p]
    BY <1>2, <1>5
  <2>2. \A p \in Pid : Aside(id, p)
    BY <1>5, <2>1 DEF Aside, Decides, ClearPcs
  <2> QED BY <1>3, <1>5, <2>2
<1>6. ASSUME NEW j \in Port, NEW m \in Msgs, PtSend(j, m) PROVE QueueStep(id)
  BY <1>1, <1>5, <1>6 DEF PtSend, PCaller, PInApp, PIn, PGoTo, Local
<1>7. ASSUME NEW j \in Port, PtRecv(j) PROVE QueueStep(id)
  BY <1>1, <1>5, <1>7 DEF PtRecv, PCaller, PInApp, PIn, PGoTo, Local
<1>8. CASE PtGone
  BY <1>1, <1>5, <1>8 DEF PtGone, PIn, PReturn, PGoTo, Local
<1>9. CASE PtClearSenders \/ PtClearReceivers
  <2>1. /\ ppc[c] \in ClearPcs /\ UNCHANGED <<ptstate, ptlist, ptmaxcnt, ptmsg, received, plocal>>
        /\ \E to \in ClearPcs : ppc' = [ppc EXCEPT ![c] = to]
    BY <1>1, <1>9 DEF PtClearSenders, PtClearReceivers, PIn, PGoTo, ClearPcs
  <2>2. ppc'[c] \in ClearPcs /\ \A p \in Pid : p # c => ppc'[p] = ppc[p]
    BY <1>2, <2>1
  <2>3. \A p \in Pid : Aside(id, p)
    BY <2>1, <2>2 DEF Aside
  <2> QED BY <1>3, <2>1, <2>3
<1> QED BY <1>4, <1>6, <1>7, <1>8, <1>9

(* A process that clears the port may be killed. *)
LEMMA KilledQueue ==
    ASSUME IInv, PortInv, NEW id \in Port, Killed
    PROVE  QueueStep(id)
<1>1. PICK p : p = karg[currpid]
  OBVIOUS
<1>2. /\ p \in Pid /\ cont[currpid] = "kill"
      /\ ppc' = [ppc EXCEPT ![p] = "app"] /\ plocal' = [plocal EXCEPT ![p] = NoLocal]
      /\ UNCHANGED <<ptstate, ptlist, ptmaxcnt, ptmsg, received>>
  BY <1>1, KillEndEffect DEF Killed
<1>3. ppc'[p] = "app" /\ \A x \in Pid : x # p => ppc'[x] = ppc[x] /\ plocal'[x] = plocal[x]
  BY <1>2, CallOver DEF PortInv
<1>4. Idle /\ Idle'
  <2>1. Idle
    BY <1>2, IdleNow DEF PortInv
  <2> QED BY <1>3, <2>1 DEF Idle
<1>5. CASE ~Reopens(id, p)
  <2>1. \A x \in Pid : Reopens(id, x)' <=> Reopens(id, x)
    BY <1>3, <1>5 DEF Reopens, ClearPcs
  <2>2. Created(id)' <=> Created(id)
    BY <1>2, <1>4, CreatedIdle
  <2>3. IsOpen(id)' <=> IsOpen(id)
    BY <1>2, <2>1, <2>2, OpenIs
  <2>4. Kept(id)
    BY <1>2, <2>3 DEF Kept, CapOf, Content
  <2> QED BY <2>4 DEF QueueStep
<1>6. CASE Reopens(id, p)
  <2>1. p \in Clearers(id)
    BY <1>2, <1>6 DEF Reopens, Clearers
  <2>2. ptstate[id] = "LIMBO" /\ \A x \in Clearers(id) : x = p
    BY <2>1 DEF PortInv, ClearFits, ClearAt
  <2>3. IsOpen(id)
    BY <1>2, <1>6, <2>2, OpenIs
  <2>4. \A x \in Pid : ~Reopens(id, x)'
    BY <1>3, <2>2 DEF Reopens, Clearers, ClearPcs
  <2>5. ~Created(id)'
    BY <1>2, <2>2 DEF Created
  <2>6. ~IsOpen(id)'
    BY <2>4, <2>5, OpenIs
  <2>7. Closes(id)
    BY <1>2, <2>3, <2>6, OpenNodes DEF Closes, CapOf, Content
  <2> QED BY <2>7 DEF QueueStep
<1> QED BY <1>5, <1>6

(* A step of ptcreate or _ptclear on another port. *)
LEMMA ApartQueue ==
    ASSUME PortInv, NEW id \in Port, NEW j \in Port, id # j, NEW c \in Pid,
           ptstate'[id] = ptstate[id], ptlist'[id] = ptlist[id], ptmaxcnt'[id] = ptmaxcnt[id],
           ptmsg' = ptmsg, received' = received,
           \A p \in Pid : p # c => ppc'[p] = ppc[p] /\ plocal'[p] = plocal[p],
           ppc[c] = "app" \/ plocal[c].port = j, ppc'[c] = "app" \/ plocal'[c].port = j
    PROVE  QueueStep(id)
<1>1. \A p \in Pid : Aside(id, p)
  BY DEF Aside, Decides, ClearPcs
<1> QED BY <1>1, KeptAside

LEMMA PtCreateQueue ==
    ASSUME IInv, PortInv, PortInv', NEW id \in Port, NEW n \in Counts, PtCreate(n)
    PROVE  QueueStep(id)
<1>1. PICK j : j = (ptnextid + Min(FreeFrom)) % NPORTS
  OBVIOUS
<1>2. PICK c \in Pid : c = currpid
  BY ParkedTypes
<1> DEFINE r == [NoLocal EXCEPT !.port = j]
<1>3. /\ ppc[c] = "app" /\ FreeFrom # {} /\ ptstate' = [ptstate EXCEPT ![j] = "ALLOC"]
      /\ ptmaxcnt' = [ptmaxcnt EXCEPT ![j] = n % 2^CntBits]
      /\ ppc' = [ppc EXCEPT ![c] = "create"] /\ plocal' = [plocal EXCEPT ![c] = r]
      /\ UNCHANGED <<ptlist, ptmsg, received>>
  BY <1>1, <1>2 DEF PtCreate, PCaller, PInApp, PIn, PGoTo, Local
<1>4. j \in Port /\ ptstate[j] = "FREE"
  BY <1>1, <1>3, NewPortFree DEF PortInv
<1>5. /\ r.port = j /\ ppc'[c] = "create" /\ plocal'[c] = r
      /\ \A p \in Pid : p # c => ppc'[p] = ppc[p] /\ plocal'[p] = plocal[p]
      /\ ptstate'[j] = "ALLOC"
      /\ \A i \in Port : i # j => ptstate'[i] = ptstate[i] /\ ptmaxcnt'[i] = ptmaxcnt[i]
  BY <1>3, <1>4 DEF PortInv, PTypes, NoLocal
<1> HIDE DEF r
<1>6. CASE id # j
  BY <1>3, <1>4, <1>5, <1>6, ApartQueue
<1>7. CASE id = j
  <2>1. ~IsOpen(id)
    BY <1>4, <1>7, OpenIs DEF Created
  <2>2. ~IsOpen(id)'
    BY <1>5, <1>7, OpenIs DEF Created
  <2>3. Kept(id)
    BY <1>3, <2>1, <2>2 DEF Kept, CapOf, Content
  <2> QED BY <2>3 DEF QueueStep
<1> QED BY <1>6, <1>7

LEMMA PtCreateEndQueue ==
    ASSUME SmallCounts, IInv, PortInv, PortInv', NEW id \in Port, PtCreateEnd
    PROVE  QueueStep(id)
<1>1. PICK c \in Pid : c = currpid
  BY ParkedTypes
<1>2. PICK j \in Port : j = plocal[c].port
  BY DEF PortInv, PTypes, Locals
<1>3. /\ ppc[c] = "create" /\ ptlist' = [ptlist EXCEPT ![j] = <<>>]
      /\ ppc' = [ppc EXCEPT ![c] = "app"] /\ plocal' = [plocal EXCEPT ![c] = NoLocal]
      /\ UNCHANGED <<ptstate, ptmaxcnt, ptmsg, received>>
  BY <1>1, <1>2 DEF PtCreateEnd, PIn, PReturn, PGoTo, Local, me
<1>4. /\ ppc'[c] = "app" /\ \A p \in Pid : p # c => ppc'[p] = ppc[p] /\ plocal'[p] = plocal[p]
      /\ ptlist'[j] = <<>> /\ \A i \in Port : i # j => ptlist'[i] = ptlist[i]
  BY <1>3 DEF PortInv, PTypes
<1>5. CASE id # j
  BY <1>2, <1>3, <1>4, <1>5, ApartQueue
<1>6. CASE id = j
  <2>1. ptstate[id] = "ALLOC" /\ ~Created(id) /\ \A p \in Pid : p # c => ppc[p] # "create"
    <3>1. \A p \in Pid : plocal[p].port \in Port
      BY DEF PortInv, PTypes, Locals
    <3> QED BY <1>1, <1>2, <1>3, <1>6, <3>1 DEF PortInv, CreateFits, Created
  <2>2. Created(id)'
    BY <1>3, <1>4, <2>1 DEF Created
  <2>3. IsOpen(id)' /\ ~IsOpen(id)
    BY <2>1, <2>2, OpenIs
  <2>4. CapOf(id) = -1 /\ CapOf(id)' = ptmaxcnt[id] /\ Content(id)' = <<>>
    BY <1>3, <1>4, <1>6, <2>3 DEF CapOf, Content
  <2>5. ptmaxcnt[id] \in Counts
    BY <2>1 DEF PortInv, CapsFit
  <2> QED BY <1>3, <2>4, <2>5 DEF QueueStep
<1> QED BY <1>5, <1>6

LEMMA PtClearQueue ==
    ASSUME IInv, PortInv, PortInv', NEW id \in Port, NEW j \in Port,
           NEW new \in {"ALLOC", "FREE"}, PtClear(j, new)
    PROVE  QueueStep(id)
<1>1. PICK c \in Pid : c = currpid
  BY ParkedTypes
<1> DEFINE r == [NoLocal EXCEPT !.port = j, !.new = new]
<1>2. /\ ppc[c] = "app" /\ ptstate[j] = "ALLOC" /\ ptstate' = [ptstate EXCEPT ![j] = "LIMBO"]
      /\ ptlist' = IF new = "ALLOC" THEN [ptlist EXCEPT ![j] = <<>>] ELSE ptlist
      /\ ppc' = [ppc EXCEPT ![c] = "clear1"] /\ plocal' = [plocal EXCEPT ![c] = r]
      /\ UNCHANGED <<ptmaxcnt, ptmsg, received>>
  BY <1>1 DEF PtClear, PCaller, PInApp, PIn, PGoTo, Local
<1>3. /\ r.port = j /\ r.new = new /\ ppc'[c] = "clear1" /\ plocal'[c] = r
      /\ \A p \in Pid : p # c => ppc'[p] = ppc[p] /\ plocal'[p] = plocal[p]
      /\ ptstate'[j] = "LIMBO" /\ (new = "ALLOC" => ptlist'[j] = <<>>)
      /\ \A i \in Port : i # j => ptstate'[i] = ptstate[i] /\ ptlist'[i] = ptlist[i]
  BY <1>2 DEF PortInv, PTypes, NoLocal
<1> HIDE DEF r
<1>4. CASE id # j
  BY <1>2, <1>3, <1>4, ApartQueue
<1>5. CASE id = j
  <2>1. IsOpen(id) /\ CapOf(id) = ptmaxcnt[id] /\ CapOf(id) # -1
    <3>1. Idle
      BY <1>1, <1>2, IdleNow DEF PortInv
    <3>2. IsOpen(id)
      BY <1>2, <1>5, <3>1, CreatedIdle, OpenIs
    <3> QED BY <3>2, OpenNodes
  <2>2. CASE new = "ALLOC"
    <3>1. Reopens(id, c)'
      BY <1>3, <1>5, <2>2 DEF Reopens, ClearPcs
    <3>2. IsOpen(id)'
      BY <1>3, <1>5, <3>1, OpenIs
    <3>3. CapOf(id)' = CapOf(id) /\ Content(id)' = <<>>
      BY <1>2, <1>3, <1>5, <2>1, <2>2, <3>2 DEF CapOf, Content
    <3> QED BY <1>2, <2>1, <3>3 DEF QueueStep
  <2>3. CASE new = "FREE"
    <3>1. Clearers(id) = {}
      BY <1>2, <1>5, NotCleared DEF PortInv
    <3>2. \A p \in Pid : ~Reopens(id, p)'
      BY <1>3, <2>3, <3>1 DEF Reopens, Clearers
    <3>3. ~IsOpen(id)'
      BY <1>3, <1>5, <3>2, OpenIs DEF Created
    <3>4. Closes(id)
      BY <1>2, <2>1, <3>3 DEF Closes, CapOf, Content
    <3> QED BY <3>4 DEF QueueStep
  <2> QED BY <2>2, <2>3
<1> QED BY <1>4, <1>5

LEMMA PtClearEndQueue ==
    ASSUME IInv, PortInv, PortInv', NEW id \in Port, PtClearEnd
    PROVE  QueueStep(id)
<1>1. PICK c \in Pid : c = currpid
  BY ParkedTypes
<1>2. PICK j \in Port : j = plocal[c].port
  BY DEF PortInv, PTypes, Locals
<1>3. PICK new \in {"ALLOC", "FREE"} : new = plocal[c].new
  BY DEF PortInv, PTypes, Locals
<1>4. /\ ppc[c] = "clear3" /\ ptstate' = [ptstate EXCEPT ![j] = new]
      /\ ppc' = [ppc EXCEPT ![c] = "app"] /\ plocal' = [plocal EXCEPT ![c] = NoLocal]
      /\ UNCHANGED <<ptlist, ptmaxcnt, ptmsg, received>>
  BY <1>1, <1>2, <1>3 DEF PtClearEnd, PIn, PReturn, PGoTo, Local, me
<1>5. /\ ppc'[c] = "app" /\ \A p \in Pid : p # c => ppc'[p] = ppc[p] /\ plocal'[p] = plocal[p]
      /\ ptstate'[j] = new /\ \A i \in Port : i # j => ptstate'[i] = ptstate[i]
  BY <1>4 DEF PortInv, PTypes
<1>6. CASE id # j
  BY <1>2, <1>4, <1>5, <1>6, ApartQueue
<1>7. CASE id = j
  <2>1. /\ ptstate[id] = "LIMBO" /\ (\A p \in Clearers(id) : p = c) /\ c \in Clearers(id)
        /\ new = "ALLOC" => ptlist[id] = <<>>
    <3>1. c \in Clearers(id)
      BY <1>2, <1>4, <1>7 DEF Clearers, ClearPcs
    <3> QED BY <1>3, <3>1 DEF PortInv, ClearFits, ClearAt
  <2>2. IsOpen(id) <=> new = "ALLOC"
    <3>1. (\E p \in Pid : Reopens(id, p)) <=> new = "ALLOC"
      BY <1>3, <2>1 DEF Reopens, Clearers
    <3> QED BY <2>1, <3>1, OpenIs DEF Created
  <2>3. IsOpen(id)' <=> new = "ALLOC"
    <3>1. Idle'
      <4>1. Idle
        BY <1>1, <1>4, IdleNow DEF PortInv
      <4> QED BY <1>5, <4>1 DEF Idle
    <3>2. Created(id)' <=> new = "ALLOC"
      BY <1>5, <1>7, <3>1, CreatedIdle
    <3> QED BY <1>5, <1>7, <3>2, OpenIs
  <2>4. Kept(id)
    BY <1>4, <2>2, <2>3 DEF Kept, CapOf, Content
  <2> QED BY <2>4 DEF QueueStep
<1> QED BY <1>6, <1>7

(* ptsend and ptrecv keep what is open open. *)
LEMMA EndKeepsOpen ==
    ASSUME PortInv, NEW c \in Pid, ppc[c] \in Roles, ppc' = [ppc EXCEPT ![c] = "app"],
           plocal' = [plocal EXCEPT ![c] = NoLocal], ptstate' = ptstate
    PROVE  \A id \in Port : (\A p \in Pid : Aside(id, p)) /\ (IsOpen(id)' <=> IsOpen(id))
<1>1. ppc'[c] = "app" /\ \A x \in Pid : x # c => ppc'[x] = ppc[x] /\ plocal'[x] = plocal[x]
  BY CallOver DEF PortInv
<1>2. \A id \in Port, p \in Pid : Aside(id, p)
  BY <1>1 DEF Aside, Decides, ClearPcs, Roles
<1> QED BY <1>2, OpenKept

(* A sender that got past wait has a place. *)
LEMMA PlaceThere ==
    ASSUME SmallCounts, IInv, PortInv, NEW id \in Port, PIn("send"),
           plocal[currpid].port = id, plocal[currpid].seq = ptseq[id]
    PROVE  Len(ptlist[id]) < ptmaxcnt[id] /\ Created(id) /\ plocal[currpid].msg \in Msgs
<1> DEFINE s == SemOf(id, "send")
           n == Cardinality(Claims(id, "send"))
           k == Cardinality(Promised(id, "send"))
           w == Len(squeue[s])
           l == Len(ptlist[id])
           m == ptmaxcnt[id]
<1>1. currpid \in Pid /\ ppc[currpid] = "send" /\ Parked[currpid] = NoSem /\ \A u : ~InReset(u)
  BY InCode
<1>2. Created(id) /\ s # NoSem /\ "send" \in Roles /\ plocal[currpid].msg \in Msgs
  BY <1>1 DEF PortInv, SeqFits, Roles
<1>3. BookOf(id, "send") /\ s \in Sem /\ l \in Nat /\ m \in Nat
  BY <1>2, SemTypes DEF PortInv, BooksFit, PTypes
<1>4. scount[s] + n <= m - l
  BY <1>3 DEF BookOf, Book, UpTo, Target
<1>5. n = k + w /\ k \in Nat /\ n \in Nat /\ IsFiniteSet(Promised(id, "send"))
  BY <1>1, <1>2, <1>3, PromisedCounted DEF PortInv
<1>6. currpid \in Promised(id, "send")
  <2>1. prstate[currpid] # "WAIT"
    BY <1>1, ParkedTypes, NoSemIsNone
  <2> QED BY <1>1, <2>1 DEF Promised
<1>7. k # 0
  BY <1>5, <1>6, FS_EmptySet
<1>8. scount[s] \in Int /\ w \in Nat /\ w = IF scount[s] < 0 THEN -scount[s] ELSE 0
  BY <1>1, <1>3, WaitersCounted
<1> HIDE DEF s, n, k, w, l, m
<1>9. l < m
  BY <1>3, <1>4, <1>5, <1>7, <1>8
<1> QED BY <1>2, <1>9 DEF l, m

(* A message is added at the end, or taken from the front. *)
LEMMA AddedLast ==
    ASSUME NEW X, NEW L \in Seq(Node), NEW f \in [Node -> X], NEW h \in Node, NEW m \in X,
           \A i \in 1 .. Len(L) : L[i] # h
    PROVE  LET g == [f EXCEPT ![h] = m]
               A == Append(L, h)
           IN  [i \in DOMAIN A |-> g[A[i]]] = Append([i \in DOMAIN L |-> f[L[i]]], m)
<1> DEFINE g == [f EXCEPT ![h] = m]
           A == Append(L, h)
           l == Len(L)
           C == [i \in 1 .. l |-> f[L[i]]]
           D == [i \in 1 .. l + 1 |-> g[A[i]]]
<1>1. l \in Nat /\ DOMAIN L = 1 .. l /\ \A i \in 1 .. l : L[i] \in Node /\ L[i] # h
  OBVIOUS
<1>2. DOMAIN A = 1 .. l + 1 /\ A[l + 1] = h /\ \A i \in 1 .. l : A[i] = L[i]
  BY <1>1
<1>3. g[h] = m /\ \A x \in Node : x # h => g[x] = f[x]
  OBVIOUS
<1> HIDE DEF g, A, l
<1>4. C \in Seq(X) /\ Len(C) = l /\ \A i \in 1 .. l : C[i] = f[L[i]]
  BY <1>1
<1>5. /\ Append(C, m) \in Seq(X) /\ Len(Append(C, m)) = l + 1 /\ Append(C, m)[l + 1] = m
      /\ \A i \in 1 .. l : Append(C, m)[i] = C[i]
  <2> HIDE DEF C
  <2> QED BY <1>1, <1>4
<1>6. \A i \in 1 .. l + 1 : D[i] = Append(C, m)[i]
  <2>1. ASSUME NEW i \in 1 .. l + 1 PROVE D[i] = Append(C, m)[i]
    <3>1. CASE i \in 1 .. l
      BY <1>1, <1>2, <1>3, <1>4, <1>5, <3>1
    <3>2. CASE i = l + 1
      BY <1>1, <1>2, <1>3, <1>5, <3>2
    <3> QED BY <1>1, <3>1, <3>2
  <2> QED BY <2>1
<1>7. D = Append(C, m)
  <2> DEFINE E == Append(C, m)
  <2>1. E = [i \in 1 .. l + 1 |-> E[i]]
    <3> HIDE DEF E
    <3>1. E \in Seq(X) /\ Len(E) = l + 1
      BY <1>5 DEF E
    <3> QED BY <3>1
  <2>2. \A i \in 1 .. l + 1 : g[A[i]] = E[i]
    BY <1>6
  <2> HIDE DEF E
  <2>3. D = E
    BY <2>1, <2>2
  <2> QED BY <2>3 DEF E
<1> QED BY <1>1, <1>2, <1>7 DEF g, A, l

LEMMA TakenFirst ==
    ASSUME NEW X, NEW L \in Seq(Node), L # <<>>, NEW f \in [Node -> X]
    PROVE  LET C == [i \in DOMAIN L |-> f[L[i]]]
           IN  /\ C # <<>> /\ Head(C) = f[Head(L)]
               /\ [i \in DOMAIN Tail(L) |-> f[Tail(L)[i]]] = Tail(C)
<1> DEFINE l == Len(L)
           C == [i \in 1 .. l |-> f[L[i]]]
           T == Tail(L)
<1>1. l \in Nat /\ l # 0 /\ DOMAIN L = 1 .. l /\ Head(L) = L[1] /\ \A i \in 1 .. l : L[i] \in Node
  OBVIOUS
<1>2. T \in Seq(Node) /\ DOMAIN T = 1 .. l - 1 /\ \A i \in 1 .. l - 1 : T[i] = L[i + 1]
  OBVIOUS
<1> HIDE DEF l, T
<1>3. C \in Seq(X) /\ Len(C) = l /\ C[1] = f[L[1]] /\ \A i \in 1 .. l : C[i] = f[L[i]]
  BY <1>1
<1>4. \A i \in 1 .. l - 1 : C[i + 1] = f[T[i]]
  BY <1>1, <1>2, <1>3
<1> DEFINE D == [i \in 1 .. l - 1 |-> f[T[i]]]
<1>5. C # <<>> /\ Head(C) = f[Head(L)]
  <2> HIDE DEF C
  <2> QED BY <1>1, <1>3
<1>6. D = Tail(C)
  <2> HIDE DEF C
  <2> DEFINE E == Tail(C)
  <2>1. C # <<>>
    BY <1>5
  <2>2. E \in Seq(X) /\ Len(E) = l - 1 /\ \A i \in 1 .. l - 1 : E[i] = C[i + 1]
    BY <1>1, <1>3, <2>1
  <2> HIDE DEF E
  <2>3. E = [i \in 1 .. l - 1 |-> E[i]]
    BY <1>1, <2>2
  <2>4. D = E
    BY <1>4, <2>2, <2>3
  <2> QED BY <2>4 DEF E
<1> QED BY <1>1, <1>2, <1>5, <1>6 DEF T

LEMMA PtSendEndQueue ==
    ASSUME SmallCounts, IInv, PortInv, PortInv', NEW id \in Port, PtSendEnd
    PROVE  QueueStep(id)
<1>1. PICK c \in Pid : c = currpid
  BY ParkedTypes
<1>2. PICK j \in Port : j = plocal[c].port
  BY DEF PortInv, PTypes, Locals
<1>3. PICK h : h = Head(ptfree)
  OBVIOUS
<1>4. PICK m : m = plocal[c].msg
  OBVIOUS
<1>5. /\ PIn("send") /\ ppc[c] = "send" /\ ptseq[j] = plocal[c].seq /\ ptfree # <<>>
      /\ ptmsg' = [ptmsg EXCEPT ![h] = m]
      /\ ptlist' = [ptlist EXCEPT ![j] = Append(ptlist[j], h)]
      /\ ppc' = [ppc EXCEPT ![c] = "app"] /\ plocal' = [plocal EXCEPT ![c] = NoLocal]
      /\ UNCHANGED <<ptstate, ptmaxcnt, received>>
  BY <1>1, <1>2, <1>3, <1>4 DEF PtSendEnd, PIn, SamePort, NoNodes, Filled, Linked, PReturn, PGoTo, Local, me
<1>6. /\ ptfree \in Seq(Node) /\ ptmsg \in [Node -> Msgs \cup {NoMessage}]
      /\ ptlist \in [Port -> Seq(Node)]
  BY DEF PortInv, PTypes
<1>7. h \in Node /\ h \in ToSet(ptfree)
  <2>1. Len(ptfree) \in Nat /\ Len(ptfree) # 0 /\ ptfree[1] = h /\ 1 \in 1 .. Len(ptfree)
    BY <1>3, <1>5, <1>6
  <2> QED BY <1>6, <2>1 DEF ToSet
<1>8. ptlist'[j] = Append(ptlist[j], h) /\ \A i \in Port : i # j => ptlist'[i] = ptlist[i]
  BY <1>5, <1>6
<1>9. \A i \in Port : (\A p \in Pid : Aside(i, p)) /\ (IsOpen(i)' <=> IsOpen(i))
  BY <1>5, EndKeepsOpen DEF Roles
<1>10. ASSUME NEW k \in Port, IsOpen(k), NEW i \in 1 .. Len(ptlist[k])
       PROVE  ptlist[k][i] # h /\ ptlist[k][i] \in Node
  <2>1. ToSet(ptlist[k]) \cap ToSet(ptfree) = {} /\ ptlist[k] \in Seq(Node)
    BY <1>10, OpenNodes
  <2> QED BY <1>7, <2>1 DEF ToSet
<1>11. CASE id # j
  <2>1. IsOpen(id) => \A i \in DOMAIN ptlist[id] : ptmsg'[ptlist[id][i]] = ptmsg[ptlist[id][i]]
    <3>1. DOMAIN ptlist[id] = 1 .. Len(ptlist[id])
      BY <1>6
    <3> QED BY <1>5, <1>6, <1>7, <1>10, <3>1
  <2>2. Kept(id)
    BY <1>5, <1>8, <1>9, <1>11, <2>1, KeptWhen
  <2> QED BY <2>2 DEF QueueStep
<1>12. CASE id = j
  <2>1. Len(ptlist[id]) < ptmaxcnt[id] /\ Created(id) /\ m \in Msgs
    BY <1>1, <1>2, <1>4, <1>5, <1>12, PlaceThere
  <2>2. IsOpen(id) /\ IsOpen(id)'
    BY <1>9, <2>1, OpenIs
  <2>3. Len(Content(id)) < CapOf(id)
    BY <1>6, <2>1, <2>2, ContentIs, OpenNodes
  <2>4. CapOf(id)' = CapOf(id)
    BY <1>5, <2>2 DEF CapOf
  <2>5. Content(id)' = Append(Content(id), m)
    <3> DEFINE L == ptlist[id]
               A == Append(L, h)
               f == ptmsg
               g == [f EXCEPT ![h] = m]
    <3>1. Content(id) = [i \in DOMAIN L |-> f[L[i]]]
      BY <2>2 DEF Content
    <3>2. Content(id)' = [i \in DOMAIN A |-> g[A[i]]]
      BY <1>5, <1>8, <1>12, <2>2 DEF Content
    <3>3. L \in Seq(Node) /\ f \in [Node -> Msgs \cup {NoMessage}] /\ m \in Msgs \cup {NoMessage}
      BY <1>6, <2>1
    <3>4. \A i \in 1 .. Len(L) : L[i] # h
      BY <1>10, <2>2
    <3>5. [i \in DOMAIN A |-> g[A[i]]] = Append([i \in DOMAIN L |-> f[L[i]]], m)
      BY <1>7, <3>3, <3>4, AddedLast
    <3> QED BY <3>1, <3>2, <3>5
  <2> QED BY <1>5, <2>1, <2>3, <2>4, <2>5 DEF QueueStep
<1> QED BY <1>11, <1>12

LEMMA PtRecvEndQueue ==
    ASSUME IInv, PortInv, PortInv', NEW id \in Port, PtRecvEnd
    PROVE  QueueStep(id)
<1>1. PICK c \in Pid : c = currpid
  BY ParkedTypes
<1>2. PICK j \in Port : j = plocal[c].port
  BY DEF PortInv, PTypes, Locals
<1>3. PIn("recv") /\ ppc[c] = "recv" /\ ptseq[j] = plocal[c].seq /\ ptstate[j] = "ALLOC"
  BY <1>1, <1>2 DEF PtRecvEnd, PIn, SamePort, me
<1>4. ptlist[j] # <<>>
  BY <1>1, <1>2, <1>3, MessageThere
<1>5. /\ received' = [received EXCEPT ![j] = ptmsg[Head(ptlist[j])]]
      /\ ptlist' = [ptlist EXCEPT ![j] = Tail(ptlist[j])]
      /\ ppc' = [ppc EXCEPT ![c] = "app"] /\ plocal' = [plocal EXCEPT ![c] = NoLocal]
      /\ UNCHANGED <<ptstate, ptmaxcnt, ptmsg>>
  BY <1>1, <1>2, <1>4 DEF PtRecvEnd, PReturn, PGoTo, Local, me
<1>6. /\ ptmsg \in [Node -> Msgs \cup {NoMessage}] /\ ptlist \in [Port -> Seq(Node)]
      /\ received \in [Port -> Msgs \cup {NoMessage}]
  BY DEF PortInv, PTypes
<1>7. /\ ptlist'[j] = Tail(ptlist[j]) /\ received'[j] = ptmsg[Head(ptlist[j])]
      /\ \A i \in Port : i # j => ptlist'[i] = ptlist[i] /\ received'[i] = received[i]
  BY <1>5, <1>6
<1>8. \A i \in Port : (\A p \in Pid : Aside(i, p)) /\ (IsOpen(i)' <=> IsOpen(i))
  BY <1>3, <1>5, EndKeepsOpen DEF Roles
<1>9. CASE id # j
  <2>1. Kept(id)
    BY <1>5, <1>7, <1>8, <1>9, KeptWhen
  <2> QED BY <2>1 DEF QueueStep
<1>10. CASE id = j
  <2>1. IsOpen(id) /\ IsOpen(id)'
    <3>1. Idle
      BY <1>1, <1>3, IdleNow DEF PortInv
    <3> QED BY <1>3, <1>8, <1>10, <3>1, CreatedIdle, OpenIs
  <2>2. CapOf(id)' = CapOf(id)
    BY <1>5, <2>1 DEF CapOf
  <2> DEFINE L == ptlist[id]
             f == ptmsg
  <2>3. Content(id) = [i \in DOMAIN L |-> f[L[i]]]
    BY <2>1 DEF Content
  <2>4. Content(id)' = [i \in DOMAIN Tail(L) |-> f[Tail(L)[i]]]
    <3>1. Content(id)' = [i \in DOMAIN ptlist'[id] |-> ptmsg'[ptlist'[id][i]]]
      BY <2>1 DEF Content
    <3>2. PICK T : T = Tail(L)
      OBVIOUS
    <3>3. ptlist'[id] = T /\ ptmsg' = f
      BY <1>5, <1>7, <1>10, <3>2
    <3>4. Content(id)' = [i \in DOMAIN T |-> f[T[i]]]
      BY <3>1, <3>3
    <3> QED BY <3>2, <3>4
  <2>5. L \in Seq(Node) /\ L # <<>> /\ f \in [Node -> Msgs \cup {NoMessage}]
    BY <1>4, <1>6, <1>10
  <2>6. received'[id] = f[Head(L)]
    BY <1>7, <1>10
  <2> HIDE DEF L, f
  <2>7. /\ Content(id) # <<>> /\ Head(Content(id)) = f[Head(L)]
        /\ [i \in DOMAIN Tail(L) |-> f[Tail(L)[i]]] = Tail(Content(id))
    BY <2>3, <2>5, TakenFirst
  <2> QED BY <2>2, <2>4, <2>6, <2>7 DEF QueueStep
<1> QED BY <1>9, <1>10

(* Every step is one of the queue, or none. *)
LEMMA EveryStepQueue ==
    ASSUME SmallCounts, IInv, PortInv, PortInv', [PNext]_pallvars, NEW id \in Port
    PROVE  QueueStep(id)
<1>1. CASE PortCall
  <2>1. ASSUME NEW n \in Counts, PtCreate(n) PROVE QueueStep(id)
    BY <2>1, PtCreateQueue
  <2>2. ASSUME NEW j \in Port, NEW m \in Msgs, PtSend(j, m) PROVE QueueStep(id)
    BY <2>2, QuietQueue
  <2>3. ASSUME NEW j \in Port, PtRecv(j) PROVE QueueStep(id)
    BY <2>3, QuietQueue
  <2>4. ASSUME NEW j \in Port, PtClear(j, "ALLOC") \/ PtClear(j, "FREE") PROVE QueueStep(id)
    BY <2>4, PtClearQueue
  <2> QED BY <1>1, <2>1, <2>2, <2>3, <2>4 DEF PortCall
<1>2. CASE PortContinue
  <2>1. CASE PtSendPanic \/ PtGone \/ PtClearSenders \/ PtClearReceivers
    BY <2>1, QuietQueue
  <2>2. CASE PtCreateEnd \/ PtSendEnd \/ PtRecvEnd \/ PtClearEnd
    BY <2>2, PtCreateEndQueue, PtSendEndQueue, PtRecvEndQueue, PtClearEndQueue
  <2> QED BY <1>2, <2>1, <2>2 DEF PortContinue
<1>3. CASE Spawn \/ Start \/ Preempt \/ KillOther \/ Releasing
  BY <1>3, QuietQueue
<1>4. CASE Killed
  BY <1>4, KilledQueue
<1>5. CASE Stopped \/ UNCHANGED pallvars
  <2>1. UNCHANGED pallvars
    BY <1>5 DEF Stopped
  <2> QED BY <2>1, QuietQueue
<1> QED BY <1>1, <1>2, <1>3, <1>4, <1>5 DEF PNext

(* A port is a queue: messages are accepted only when there is room, are   *)
(* received in order and once, and nothing of an earlier life of the port  *)
(* gets into it, through blocked senders and receivers, resets, deletions  *)
(* and kills.  The capacities have to fit ptmaxcnt, a uint16.              *)
THEOREM PortImplementsQueue ==
    ASSUME SmallCounts
    PROVE  PSpec => Implements
<1>1. 0 \in Port
  BY NPORTSAssumption DEF Port
<1>2. PInit => APort!SpecInit
  <2> SUFFICES ASSUME PInit PROVE APort!SpecInit
    OBVIOUS
  <2>1. ptstate[0] = "FREE" /\ received[0] = NoMessage
    BY <1>1 DEF PInit
  <2>2. ~IsOpen(0)
    BY <2>1 DEF IsOpen, Created
  <2> QED BY <2>1, <2>2 DEF APort!SpecInit, APort!Closed, CapOf, Content
<1>3. IInv /\ PortInv /\ (IInv /\ PortInv)' /\ [PNext]_pallvars
         => [APort!SpecNext]_<<CapOf(0), Content(0), received[0]>>
  <2> SUFFICES ASSUME IInv, PortInv, PortInv', [PNext]_pallvars
               PROVE  [APort!SpecNext]_<<CapOf(0), Content(0), received[0]>>
    OBVIOUS
  <2>1. QueueStep(0)
    BY <1>1, EveryStepQueue
  <2> QED BY <2>1 DEF QueueStep, Kept, Closes, APort!SpecNext, APort!Open, APort!SendMsg,
                      APort!ReceiveMsg, APort!Empty, APort!Close, APort!Closed
<1> QED BY <1>2, <1>3, PortsInductive, PTL DEF PSpec, Implements, APort!PortQueue
==============================================================================
