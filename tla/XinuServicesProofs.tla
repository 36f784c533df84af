-------------------------- MODULE XinuServicesProofs --------------------------
(***************************************************************************)
(* Futures, and buffer pools with xmalloc, for every number of processes.  *)
(* A step of either is a step of the process manager, so what              *)
(* XinuKernelProofs shows of the manager holds here too.  Of its effects   *)
(* the proofs about futures need only who is suspended and which table     *)
(* entries are free, those about pools the counts of the semaphores and    *)
(* who waits on which.                                                     *)
(***************************************************************************)
EXTENDS XinuFutures, XinuPools, XinuKernelProofs

Susp == {p \in Pid : prstate[p] = "SUSP"}
Unused == {p \in Pid : prstate[p] = "FREE"}

-----------------------------------------------------------------------------
(***************************************************************************)
(* What the calls of the process manager do to the two sets.               *)
(***************************************************************************)
(* The current process is in neither. *)
LEMMA CurrentRuns ==
    ASSUME IInv
    PROVE  currpid \in Pid /\ currpid \notin Susp /\ currpid \notin Unused
BY Types DEF Susp, Unused

(* A process outside the ready list and the processor keeps its state. *)
LEMMA FrameSets ==
    ASSUME NEW ps \in [Pid -> States], NEW k, Frame(ps, k)
    PROVE  /\ Susp' = {p \in Pid : ps[p] = "SUSP"}
           /\ Unused' = {p \in Pid : ps[p] = "FREE"}
<1>1. \A x \in Pid : prstate'[x] = ps[x] \/ {ps[x], prstate'[x]} \subseteq {"CURR", "READY"}
  BY DEF Frame
<1>2. \A x \in Pid : /\ prstate'[x] = "SUSP" <=> ps[x] = "SUSP"
                     /\ prstate'[x] = "FREE" <=> ps[x] = "FREE"
  BY <1>1
<1> QED BY <1>2 DEF Susp, Unused

(* suspend *)
LEMMA SuspendSets ==
    ASSUME IInv, Suspend(currpid)
    PROVE  Susp' = Susp \cup {currpid} /\ Unused' = Unused
<1> DEFINE ps == Put(prstate, currpid, "SUSP")
<1>1. ReschedWith(preempt, ndefers, readylist, ps, qkey) /\ currpid # NULLPROC
  BY Types DEF Suspend, Resched, Put
<1>2. Fit(readylist, ps, qkey) /\ ps \in [Pid -> States]
  BY <1>1, Types, FitLeave DEF States, Fit
<1>3. \A x \in Pid : ps[x] = IF x = currpid THEN "SUSP" ELSE prstate[x]
  BY Types DEF Put
<1> HIDE DEF ps
<1>4. Frame(ps, qkey)
  BY <1>1, <1>2, Types, ReschedFrame
<1>5. Susp' = {p \in Pid : ps[p] = "SUSP"} /\ Unused' = {p \in Pid : ps[p] = "FREE"}
  BY <1>2, <1>4, FrameSets
<1> QED BY <1>3, <1>5, CurrentRuns DEF Susp, Unused

(* resume *)
LEMMA ResumeSets ==
    ASSUME IInv, NEW p \in Pid, Resume(p)
    PROVE  p \in Susp /\ Susp' = Susp \ {p} /\ Unused' = Unused
<1> DEFINE rl == Insert(readylist, qkey, p, prprio[p])
           ps == Put(prstate, p, "READY")
           l == Put(qkey, p, prprio[p])
<1>1. prstate[p] = "SUSP" /\ Ready(p, readylist, prstate, qkey)
  BY DEF Resume
<1>2. Fit(rl, ps, l) /\ ReschedWith(preempt, ndefers, rl, ps, l)
  BY <1>1, Types, FitReady
<1>3. \A x \in Pid : ps[x] = IF x = p THEN "READY" ELSE prstate[x]
  BY Types DEF Put
<1> HIDE DEF rl, ps, l
<1>4. Frame(ps, l) /\ ps \in [Pid -> States]
  BY <1>2, Types, ReschedFrame DEF Fit
<1>5. Susp' = {x \in Pid : ps[x] = "SUSP"} /\ Unused' = {x \in Pid : ps[x] = "FREE"}
  BY <1>4, FrameSets
<1> QED BY <1>1, <1>3, <1>5 DEF Susp, Unused

(* create *)
LEMMA CreateSets ==
    ASSUME IInv, NEW prio, Create(prio)
    PROVE  \/ Susp' = Susp /\ Unused' = Unused
           \/ \E n \in Unused : Susp' = Susp \cup {n} /\ Unused' = Unused \ {n}
<1>1. CASE prio < 1
  BY <1>1 DEF Create, Susp, Unused
<1>2. CASE ~(prio < 1)
  <2>1. prstate' = [prstate EXCEPT ![NewPid] = "SUSP"] /\ PidsFrom # {}
    BY <1>2 DEF Create
  <2>2. NewPid \in Pid /\ prstate[NewPid] = "FREE"
    BY <2>1, NewPidFree
  <2> DEFINE n == NewPid
  <2>3. \A x \in Pid : prstate'[x] = IF x = n THEN "SUSP" ELSE prstate[x]
    BY <2>1, Types
  <2> HIDE DEF n
  <2>4. n \in Unused /\ Susp' = Susp \cup {n} /\ Unused' = Unused \ {n}
    BY <2>2, <2>3 DEF Susp, Unused, n
  <2> QED BY <2>4
<1> QED BY <1>1, <1>2

(* The clock. *)
LEMMA TickSets ==
    ASSUME IInv, Tick
    PROVE  Susp' = Susp /\ Unused' = Unused
<1>1. TickedKeys \in [Pid -> Int] /\ prstate \in [Pid -> States] /\ ndefers \in Nat
  BY Types, SleepKeys
<1>2. \/ \E slice : ReschedWith(slice, ndefers, readylist, prstate, TickedKeys)
      \/ prstate' = prstate
  BY DEF Tick, CountDown, Resched
<1>3. ASSUME NEW slice, ReschedWith(slice, ndefers, readylist, prstate, TickedKeys)
      PROVE  Susp' = Susp /\ Unused' = Unused
  <2>1. Fit(readylist, prstate, TickedKeys)
    BY <1>1, FitSame
  <2>2. Frame(prstate, TickedKeys)
    BY <1>1, <1>3, <2>1, ReschedFrame
  <2> QED BY <1>1, <2>2, FrameSets DEF Susp, Unused
<1> QED BY <1>2, <1>3 DEF Susp, Unused

-----------------------------------------------------------------------------
(***************************************************************************)
(* The invariant.  A process is at a place of future.c that belongs to the *)
(* mode; a table entry that is free is at none.  A value that future_get   *)
(* may return, because the state says so or because the caller has been or *)
(* is being resumed and does not look again, is one that was stored; and   *)
(* only such values were ever returned.                                    *)
(***************************************************************************)
Pcs == {"app", "getX", "getS", "setS", "getQ", "getQend", "setQ"}

FTypes ==
    /\ mode \in Modes /\ fstate \in {"EMPTY", "WAITING", "READY"}
    /\ fvalue \in Values /\ fpid \in Pid
    /\ set_queue \in Seq(Pid) /\ get_queue \in Seq(Pid)
    /\ fpc \in [Pid -> Pcs] /\ pending \in [Pid -> Values]
    /\ nextval \in 1 .. MaxSets + 1 /\ stored \subseteq 1 .. nextval - 1
    /\ got \in [Values -> 0 .. 2]

ModeOf(pc) ==
    CASE pc = "getX" -> {"EXCLUSIVE"}
      [] pc \in {"getS", "setS"} -> {"SHARED"}
      [] pc \in {"getQ", "getQend", "setQ"} -> {"QUEUE"}
      [] OTHER -> Modes

PcFits ==
    /\ \A p \in Pid : mode \in ModeOf(fpc[p])
    /\ \A p \in Pid : fpc[p] = "setQ" => pending[p] \in 1 .. nextval - 1
    /\ \A p \in Unused : fpc[p] = "app"
    /\ mode = "QUEUE" => fstate # "WAITING"

Resumed == {p \in Pid \ Susp : fpc[p] \in {"getS", "getQend", "setS"}}
Known == fstate = "READY" \/ Resumed # {} => fvalue \in stored

Untaken == \A v \in Values \ stored : got[v] = 0

FInv == FTypes /\ PcFits /\ Known /\ Untaken /\ WaitersFindable /\ ExclusiveOnce /\ AllResumed

(* Who is suspended where, after a step in which only c moves. *)
LEMMA ParkedMoves ==
    ASSUME NEW c \in Pid, c \notin Susp, \A x \in Pid : x # c => fpc'[x] = fpc[x], NEW pcs
    PROVE  /\ Susp' = Susp => SuspendedIn(pcs)' = SuspendedIn(pcs)
           /\ Susp' = Susp \cup {c} =>
                 SuspendedIn(pcs)' = IF fpc'[c] \in pcs THEN SuspendedIn(pcs) \cup {c}
                                     ELSE SuspendedIn(pcs)
           /\ \A p : Susp' = Susp \ {p} => SuspendedIn(pcs)' = SuspendedIn(pcs) \ {p}
<1>1. SuspendedIn(pcs) = {p \in Susp : fpc[p] \in pcs}
  BY DEF SuspendedIn, Susp
<1>2. SuspendedIn(pcs)' = {p \in Susp' : fpc'[p] \in pcs}
  BY DEF SuspendedIn, Susp
<1>3. Susp \subseteq Pid
  BY DEF Susp
<1> QED BY <1>1, <1>2, <1>3

(* Two sets that hold the same. *)
LEMMA QueueUnchanged ==
    ASSUME NEW q, NEW S, NEW T, OnQueue(q, S), S = T
    PROVE  OnQueue(q, T)
OBVIOUS

(* What a call of future_get that returns the value does to the history. *)
LEMMA TakeOK ==
    ASSUME FTypes, Untaken, fvalue \in stored, Take, stored' = stored
    PROVE  /\ got' \in [Values -> 0 .. 2] /\ Untaken'
           /\ got[fvalue] = 0 => got'[fvalue] = 1
           /\ \A v \in Values : v # fvalue => got'[v] = got[v]
<1> DEFINE g == got[fvalue]
           m == Min({g + 1, 2})
<1>1. fvalue \in Values /\ got \in [Values -> 0 .. 2] /\ g \in 0 .. 2
  BY DEF FTypes
<1>2. got' = [got EXCEPT ![fvalue] = m]
  BY DEF Take
<1>3. m \in {g + 1, 2} /\ \A y \in {g + 1, 2} : m <= y
  <2>1. {g + 1, 2} \in SUBSET Nat /\ {g + 1, 2} # {}
    BY <1>1
  <2> HIDE DEF g
  <2> QED BY <2>1, MinOfNats
<1> HIDE DEF m, g
<1>4. m \in 0 .. 2 /\ (g = 0 => m = 1)
  BY <1>1, <1>3
<1>5. got' \in [Values -> 0 .. 2] /\ got'[fvalue] = m /\ \A v \in Values : v # fvalue => got'[v] = got[v]
  BY <1>1, <1>2, <1>4
<1>6. Untaken'
  BY <1>5 DEF Untaken, Values
<1> QED BY <1>4, <1>5, <1>6 DEF g

(* Storing a value that no call has returned yet. *)
LEMMA StoreOK ==
    ASSUME FTypes, Untaken, NEW v \in 1 .. MaxSets, Store(v), got' = got
    PROVE  /\ fvalue' = v /\ v \in Values /\ fstate' = "READY" /\ stored' = stored \cup {v}
           /\ Untaken' /\ Known'
<1>1. fvalue' = v /\ fstate' = "READY" /\ stored' = stored \cup {v}
  BY DEF Store
<1>2. v \in Values
  BY MaxSetsAssumption DEF Values, Garbage
<1>3. Untaken'
  BY <1>1 DEF Untaken, Values
<1>4. Known'
  BY <1>1 DEF Known
<1> QED BY <1>1, <1>2, <1>3, <1>4

(* The places of future.c after a step in which only c moves. *)
LEMMA PcFitsMoves ==
    ASSUME FTypes, PcFits, NEW c \in Pid, c \notin Unused, mode' = mode,
           \A x \in Pid : x # c => fpc'[x] = fpc[x] /\ pending'[x] = pending[x],
           nextval' = nextval \/ nextval' = nextval + 1, Unused' \subseteq Unused,
           mode \in ModeOf(fpc'[c]),
           fpc'[c] = "setQ" => pending'[c] \in 1 .. nextval' - 1,
           mode = "QUEUE" => fstate' # "WAITING"
    PROVE  PcFits'
<1>1. \A p \in Pid : mode' \in ModeOf(fpc'[p])
  BY DEF PcFits
<1>2. \A p \in Pid : fpc'[p] = "setQ" => pending'[p] \in 1 .. nextval' - 1
  <2>1. nextval \in Nat
    BY DEF FTypes
  <2>2. ASSUME NEW p \in Pid, p # c, fpc'[p] = "setQ" PROVE pending'[p] \in 1 .. nextval' - 1
    <3>1. pending[p] \in 1 .. nextval - 1 /\ pending'[p] = pending[p]
      BY <2>2 DEF PcFits
    <3> QED BY <2>1, <3>1
  <2> QED BY <2>2
<1>3. \A p \in Unused' : fpc'[p] = "app"
  <2>1. Unused \subseteq Pid
    BY DEF Unused
  <2> QED BY <2>1 DEF PcFits
<1> QED BY <1>1, <1>2, <1>3 DEF PcFits, ModeOf

(* The places of each mode. *)
LEMMA ModePcs ==
    ASSUME FTypes, PcFits, NEW p \in Pid
    PROVE  /\ mode = "EXCLUSIVE" => fpc[p] \in {"app", "getX"}
           /\ mode = "SHARED" => fpc[p] \in {"app", "getS", "setS"}
           /\ mode = "QUEUE" => fpc[p] \in {"app", "getQ", "getQend", "setQ"}
<1>1. fpc[p] \in Pcs /\ mode \in ModeOf(fpc[p])
  BY DEF FTypes, PcFits
<1> QED BY <1>1 DEF Pcs, ModeOf

-----------------------------------------------------------------------------
(***************************************************************************)
(* FUTURE_EXCLUSIVE                                                        *)
(***************************************************************************)
(* What is left to show of a step in this mode. *)
LEMMA ExclusiveParts ==
    ASSUME mode = "EXCLUSIVE", mode' = mode, FTypes', PcFits', Untaken', WaitersFindable', ExclusiveOnce',
           fstate' = "READY" => fvalue' \in stored'
    PROVE  FInv'
<1>1. \A p \in Pid : fpc'[p] \notin {"getS", "getQend", "setS"}
  <2>1. \A p \in Pid : fpc'[p] \in Pcs /\ mode' \in ModeOf(fpc[p])'
    BY DEF FTypes, PcFits
  <2> QED BY <2>1 DEF ModeOf
<1>2. Known'
  BY <1>1 DEF Known, Resumed
<1>3. AllResumed'
  BY DEF AllResumed
<1> QED BY <1>2, <1>3 DEF FInv

(* future_get that waits *)
LEMMA GetExclusiveWaits ==
    ASSUME IInv, FInv, GetExclusive, fstate = "EMPTY"
    PROVE  FInv'
<1>1. /\ mode = "EXCLUSIVE" /\ fpid' = currpid /\ fstate' = "WAITING"
      /\ fpc' = [fpc EXCEPT ![currpid] = "getX"] /\ Suspend(currpid)
      /\ UNCHANGED <<got, mode, fvalue, set_queue, get_queue, pending, fault, nextval, stored>>
  BY DEF GetExclusive, GoTo, queues
<1>2. currpid \in Pid /\ currpid \notin Susp /\ currpid \notin Unused
  BY CurrentRuns
<1>3. Susp' = Susp \cup {currpid} /\ Unused' = Unused
  BY <1>1, SuspendSets
<1>4. fpc'[currpid] = "getX" /\ \A x \in Pid : x # currpid => fpc'[x] = fpc[x]
  BY <1>1, <1>2 DEF FInv, FTypes
<1>5. FTypes'
  BY <1>1, <1>2 DEF FInv, FTypes, Pcs
<1>6. PcFits'
  <2>1. mode \in ModeOf(fpc'[currpid])
    BY <1>1, <1>4 DEF ModeOf
  <2> QED BY <1>1, <1>2, <1>3, <1>4, <2>1, PcFitsMoves DEF FInv
<1>7. Untaken'
  BY <1>1 DEF FInv, Untaken, Values
<1>8. WaitersFindable'
  <2>1. SuspendedIn({"getX"}) = {}
    BY DEF FInv, WaitersFindable
  <2>2. SuspendedIn({"getX"})' = {currpid}
    <3>1. SuspendedIn({"getX"})' = SuspendedIn({"getX"}) \cup {currpid}
      BY <1>2, <1>3, <1>4, ParkedMoves
    <3> QED BY <2>1, <3>1
  <2>3. SuspendedIn({"getS", "getQend"})' = SuspendedIn({"getS", "getQend"})
    BY <1>2, <1>3, <1>4, ParkedMoves
  <2>4. SuspendedIn({"setQ"})' = SuspendedIn({"setQ"})
    BY <1>2, <1>3, <1>4, ParkedMoves
  <2> QED BY <1>1, <2>2, <2>3, <2>4 DEF FInv, WaitersFindable
<1>9. ExclusiveOnce'
  BY <1>1 DEF FInv, ExclusiveOnce
<1> QED BY <1>1, <1>5, <1>6, <1>7, <1>8, <1>9, ExclusiveParts

(* future_get and its end, as far as the value goes *)
LEMMA ExclusiveTaken ==
    ASSUME IInv, FInv, mode = "EXCLUSIVE", ExclusiveGetTail, Susp' = Susp, Unused' = Unused,
           fpc' = fpc \/ fpc' = [fpc EXCEPT ![currpid] = "app"],
           UNCHANGED <<mode, fvalue, fpid, queues, pending, fault, nextval, stored>>
    PROVE  FInv'
<1>1. set_queue' = set_queue /\ get_queue' = get_queue
  BY DEF queues
<1>2. currpid \in Pid /\ currpid \notin Susp /\ currpid \notin Unused
  BY CurrentRuns
<1>3. /\ fpc' \in [Pid -> Pcs] /\ fpc'[currpid] \in {"app", fpc[currpid]}
      /\ \A x \in Pid : x # currpid => fpc'[x] = fpc[x]
  BY <1>2 DEF FInv, FTypes, Pcs
<1>4. /\ fstate' \in {fstate, "EMPTY"} /\ fstate' # "READY"
      /\ fstate' = "WAITING" <=> fstate = "WAITING"
  BY DEF ExclusiveGetTail
<1>5. /\ got' \in [Values -> 0 .. 2] /\ Untaken'
      /\ \A v \in stored : v \in Values /\ got'[v] = 1
  <2>0. \A v \in stored : v \in Values
    BY MaxSetsAssumption DEF FInv, FTypes, Values, Garbage
  <2>1. CASE fstate = "READY"
    <3>1. Take /\ fvalue \in stored
      BY <2>1 DEF ExclusiveGetTail, FInv, Known
    <3>2. /\ got' \in [Values -> 0 .. 2] /\ Untaken'
          /\ got[fvalue] = 0 => got'[fvalue] = 1
          /\ \A v \in Values : v # fvalue => got'[v] = got[v]
      BY <3>1, TakeOK DEF FInv
    <3>3. \A v \in stored : got[v] = IF fvalue = v THEN 0 ELSE 1
      BY <2>1 DEF FInv, ExclusiveOnce
    <3> QED BY <2>0, <3>1, <3>2, <3>3
  <2>2. CASE fstate # "READY"
    <3>1. got' = got
      BY <2>2 DEF ExclusiveGetTail
    <3>2. \A v \in stored : got[v] = 1
      BY <2>2 DEF FInv, ExclusiveOnce
    <3> QED BY <2>0, <3>1, <3>2 DEF FInv, FTypes, Untaken, Values
  <2> QED BY <2>1, <2>2
<1>6. FTypes'
  BY <1>1, <1>3, <1>4, <1>5 DEF FInv, FTypes
<1>7. PcFits'
  <2>1. mode \in ModeOf(fpc'[currpid])
    <3>1. mode \in ModeOf(fpc[currpid]) /\ mode \in Modes
      BY <1>2 DEF FInv, FTypes, PcFits
    <3> QED BY <1>3, <3>1 DEF ModeOf
  <2>2. fpc'[currpid] = "setQ" => pending'[currpid] \in 1 .. nextval' - 1
    BY <1>2, <1>3 DEF FInv, PcFits
  <2> QED BY <1>2, <1>3, <2>1, <2>2, PcFitsMoves DEF FInv
<1>8. WaitersFindable'
  <2>1. SuspendedIn({"getX"})' = SuspendedIn({"getX"})
    BY <1>2, <1>3, ParkedMoves
  <2>2. SuspendedIn({"getS", "getQend"})' = SuspendedIn({"getS", "getQend"})
    BY <1>2, <1>3, ParkedMoves
  <2>3. SuspendedIn({"setQ"})' = SuspendedIn({"setQ"})
    BY <1>2, <1>3, ParkedMoves
  <2> QED BY <1>1, <1>4, <2>1, <2>2, <2>3 DEF FInv, WaitersFindable
<1>9. ExclusiveOnce'
  BY <1>4, <1>5 DEF ExclusiveOnce
<1> QED BY <1>4, <1>5, <1>6, <1>7, <1>8, <1>9, ExclusiveParts

(* A set that wakes the holder, if there is one. *)
LEMMA SetExclusiveOK ==
    ASSUME IInv, FInv, SetExclusive
    PROVE  FInv'
<1>1. /\ mode = "EXCLUSIVE" /\ nextval <= MaxSets /\ fstate # "READY"
      /\ Store(nextval) /\ nextval' = nextval + 1
      /\ IF fstate = "WAITING" THEN TryResume(fpid) ELSE UNCHANGED vars
      /\ UNCHANGED <<mode, fpid, set_queue, get_queue, fpc, pending, fault, got>>
  BY DEF SetExclusive, queues
<1>2. currpid \in Pid /\ currpid \notin Susp /\ currpid \notin Unused
  BY CurrentRuns
<1>0. nextval \in 1 .. MaxSets
  BY <1>1, MaxSetsAssumption DEF FInv, FTypes
<1>3. /\ fvalue' = nextval /\ nextval \in Values /\ fstate' = "READY" /\ stored' = stored \cup {nextval}
      /\ Untaken' /\ Known'
  BY <1>0, <1>1, StoreOK DEF FInv
<1>4. Unused' = Unused /\ SuspendedIn({"getX"})' = {} /\ (Susp' = Susp \/ Susp' = Susp \ {fpid})
  <2>1. CASE fstate = "WAITING"
    <3>1. SuspendedIn({"getX"}) = {fpid} /\ fpid \in Pid
      BY <1>1, <2>1 DEF FInv, FTypes, WaitersFindable
    <3>2. prstate[fpid] = "SUSP"
      BY <3>1 DEF SuspendedIn
    <3>3. Resume(fpid)
      BY <1>1, <2>1, <3>2 DEF TryResume
    <3>4. Susp' = Susp \ {fpid} /\ Unused' = Unused
      BY <3>1, <3>3, ResumeSets
    <3>5. SuspendedIn({"getX"})' = SuspendedIn({"getX"}) \ {fpid}
      BY <1>1, <1>2, <3>4, ParkedMoves
    <3> QED BY <3>1, <3>4, <3>5
  <2>2. CASE fstate # "WAITING"
    <3>1. prstate' = prstate
      BY <1>1, <2>2 DEF vars, sched
    <3>2. Susp' = Susp /\ Unused' = Unused
      BY <3>1 DEF Susp, Unused
    <3>3. SuspendedIn({"getX"})' = SuspendedIn({"getX"})
      BY <1>1, <1>2, <3>2, ParkedMoves
    <3> QED BY <2>2, <3>2, <3>3 DEF FInv, WaitersFindable
  <2> QED BY <2>1, <2>2
<1>5. FTypes'
  <2>1. nextval' \in 1 .. MaxSets + 1 /\ stored' \subseteq 1 .. nextval' - 1
    BY <1>0, <1>1, <1>3, MaxSetsAssumption DEF FInv, FTypes
  <2> QED BY <1>1, <1>3, <2>1 DEF FInv, FTypes
<1>6. PcFits'
  <2>1. mode \in ModeOf(fpc'[currpid]) /\ (fpc'[currpid] # "setQ")
    <3>1. mode \in ModeOf(fpc[currpid])
      BY <1>2 DEF FInv, PcFits
    <3> QED BY <1>1, <1>2, <3>1, ModePcs DEF FInv
  <2> QED BY <1>1, <1>2, <1>4, <2>1, PcFitsMoves DEF FInv
<1>7. WaitersFindable'
  <2>1. ASSUME NEW pcs \in {{"getS", "getQend"}, {"setQ"}} PROVE SuspendedIn(pcs)' = {} /\ SuspendedIn(pcs) = {}
    <3>1. SuspendedIn(pcs) = {}
      BY <1>1, ModePcs DEF FInv, SuspendedIn
    <3>2. SuspendedIn(pcs)' = SuspendedIn(pcs) \/ SuspendedIn(pcs)' = SuspendedIn(pcs) \ {fpid}
      BY <1>1, <1>2, <1>4, ParkedMoves
    <3> QED BY <3>1, <3>2
  <2>2. SuspendedIn({"getS", "getQend"})' = SuspendedIn({"getS", "getQend"})
    BY <2>1
  <2>3. SuspendedIn({"setQ"})' = SuspendedIn({"setQ"})
    BY <2>1
  <2> QED BY <1>1, <1>3, <1>4, <2>2, <2>3 DEF FInv, WaitersFindable
<1>8. ExclusiveOnce'
  <2>1. \A v \in stored : got[v] = 1 /\ v # nextval
    BY <1>0, <1>1 DEF FInv, FTypes, ExclusiveOnce
  <2>2. got[nextval] = 0
    BY <1>0, <1>3 DEF FInv, FTypes, Untaken
  <2> QED BY <1>1, <1>3, <2>1, <2>2 DEF ExclusiveOnce
<1> QED BY <1>1, <1>3, <1>5, <1>6, <1>7, <1>8, ExclusiveParts

(* All the steps of this mode. *)
LEMMA ExclusiveStepOK ==
    ASSUME IInv, FInv, ExclusiveStep
    PROVE  FInv'
<1>0. ASSUME UNCHANGED vars PROVE Susp' = Susp /\ Unused' = Unused
  BY <1>0 DEF vars, sched, Susp, Unused
<1>1. CASE GetExclusive /\ fstate # "EMPTY"
  <2>1. /\ mode = "EXCLUSIVE" /\ ExclusiveGetTail /\ UNCHANGED vars /\ fpc' = fpc
        /\ UNCHANGED <<mode, fvalue, fpid, queues, pending, fault, nextval, stored>>
    BY <1>1 DEF GetExclusive
  <2> QED BY <1>0, <2>1, ExclusiveTaken
<1>2. CASE GetExclusiveEnd
  <2>1. /\ fpc[currpid] = "getX" /\ ExclusiveGetTail /\ UNCHANGED vars
        /\ fpc' = [fpc EXCEPT ![currpid] = "app"]
        /\ UNCHANGED <<mode, fvalue, fpid, queues, pending, fault, nextval, stored>>
    BY <1>2 DEF GetExclusiveEnd, In, GoTo
  <2>2. mode = "EXCLUSIVE"
    <3>1. mode \in ModeOf(fpc[currpid])
      BY CurrentRuns DEF FInv, PcFits
    <3> QED BY <2>1, <3>1 DEF ModeOf
  <2> QED BY <1>0, <2>1, <2>2, ExclusiveTaken
<1> QED BY <1>1, <1>2, GetExclusiveWaits, SetExclusiveOK DEF ExclusiveStep

-----------------------------------------------------------------------------
(***************************************************************************)
(* FUTURE_SHARED                                                           *)
(***************************************************************************)
(* What is left to show of a step in this mode. *)
LEMMA SharedParts ==
    ASSUME mode = "SHARED", mode' = mode, FTypes', PcFits', Known', Untaken', WaitersFindable', AllResumed'
    PROVE  FInv'
BY DEF FInv, ExclusiveOnce

(* The current process goes on at pc, and its place belongs to the mode. *)
LEMMA MovePcs ==
    ASSUME IInv, FInv, NEW pc \in Pcs, fpc' = [fpc EXCEPT ![currpid] = pc],
           mode \in ModeOf(pc), pc # "setQ",
           UNCHANGED <<mode, pending, nextval>> \/ (UNCHANGED <<mode, pending>> /\ nextval' = nextval + 1),
           Unused' = Unused, mode = "QUEUE" => fstate' # "WAITING"
    PROVE  /\ PcFits' /\ fpc' \in [Pid -> Pcs] /\ fpc'[currpid] = pc
           /\ \A x \in Pid : x # currpid => fpc'[x] = fpc[x]
<1>1. currpid \in Pid /\ currpid \notin Unused
  BY CurrentRuns
<1>2. fpc' \in [Pid -> Pcs] /\ fpc'[currpid] = pc /\ \A x \in Pid : x # currpid => fpc'[x] = fpc[x]
  BY <1>1 DEF FInv, FTypes
<1>3. PcFits'
  BY <1>1, <1>2, PcFitsMoves DEF FInv
<1> QED BY <1>2, <1>3

(* The same without a move. *)
LEMMA StayPcs ==
    ASSUME IInv, FInv, UNCHANGED <<mode, fpc, pending>>,
           nextval' = nextval \/ nextval' = nextval + 1,
           Unused' = Unused, mode = "QUEUE" => fstate' # "WAITING"
    PROVE  PcFits'
<1>1. currpid \in Pid /\ currpid \notin Unused
  BY CurrentRuns
<1>2. mode \in ModeOf(fpc'[currpid]) /\ (fpc[currpid] = "setQ" => pending[currpid] \in 1 .. nextval - 1)
  BY <1>1 DEF FInv, PcFits
<1>3. nextval \in Nat
  BY DEF FInv, FTypes
<1>4. fpc'[currpid] = "setQ" => pending'[currpid] \in 1 .. nextval' - 1
  BY <1>2, <1>3
<1> QED BY <1>1, <1>2, <1>4, PcFitsMoves DEF FInv

(* Nothing happens to the processes. *)
LEMMA NobodyMoves ==
    ASSUME UNCHANGED vars
    PROVE  Susp' = Susp /\ Unused' = Unused
BY DEF vars, sched, Susp, Unused

(* Nobody is suspended or resumed, and the queues stay. *)
LEMMA WaitersStay ==
    ASSUME IInv, FInv, Susp' = Susp, \A x \in Pid : x # currpid => fpc'[x] = fpc[x],
           UNCHANGED <<mode, queues, fpid>>, mode # "EXCLUSIVE"
    PROVE  WaitersFindable'
<1>1. currpid \in Pid /\ currpid \notin Susp
  BY CurrentRuns
<1>2. SuspendedIn({"getX"})' = SuspendedIn({"getX"})
  BY <1>1, ParkedMoves
<1>3. SuspendedIn({"getS", "getQend"})' = SuspendedIn({"getS", "getQend"})
  BY <1>1, ParkedMoves
<1>4. SuspendedIn({"setQ"})' = SuspendedIn({"setQ"})
  BY <1>1, ParkedMoves
<1> QED BY <1>2, <1>3, <1>4 DEF FInv, WaitersFindable, queues

(* The current process is suspended, at the end of the queue of getters. *)
LEMMA GetterWaits ==
    ASSUME IInv, FInv, Suspend(currpid), get_queue' = Append(get_queue, currpid),
           NEW pc \in {"getS", "getQend"}, fpc' = [fpc EXCEPT ![currpid] = pc],
           UNCHANGED <<mode, set_queue, fpid>>, mode # "EXCLUSIVE"
    PROVE  /\ WaitersFindable' /\ get_queue' \in Seq(Pid)
           /\ Susp' = Susp \cup {currpid} /\ Unused' = Unused
<1>1. currpid \in Pid /\ currpid \notin Susp
  BY CurrentRuns
<1>2. Susp' = Susp \cup {currpid} /\ Unused' = Unused
  BY SuspendSets
<1>3. fpc'[currpid] = pc /\ \A x \in Pid : x # currpid => fpc'[x] = fpc[x]
  BY <1>1 DEF FInv, FTypes
<1>4. SuspendedIn({"getX"})' = SuspendedIn({"getX"})
  BY <1>1, <1>2, <1>3, ParkedMoves
<1>5. SuspendedIn({"getS", "getQend"})' = SuspendedIn({"getS", "getQend"}) \cup {currpid}
  BY <1>1, <1>2, <1>3, ParkedMoves
<1>6. SuspendedIn({"setQ"})' = SuspendedIn({"setQ"})
  BY <1>1, <1>2, <1>3, ParkedMoves
<1>7. /\ OnQueue(get_queue, SuspendedIn({"getS", "getQend"})) /\ get_queue \in Seq(Pid)
      /\ currpid \notin SuspendedIn({"getS", "getQend"})
  BY <1>1 DEF FInv, FTypes, WaitersFindable, SuspendedIn, Susp
<1>8. /\ get_queue' \in Seq(Pid)
      /\ OnQueue(get_queue', SuspendedIn({"getS", "getQend"}) \cup {currpid})
  BY <1>1, <1>7, EnqueueOnQueue DEF Enqueue
<1>9. WaitersFindable'
  BY <1>4, <1>5, <1>6, <1>8 DEF FInv, WaitersFindable
<1> QED BY <1>2, <1>8, <1>9

(* The first getter is resumed. *)
LEMMA GetterGoes ==
    ASSUME IInv, FInv, get_queue # <<>>, get_queue' = Tail(get_queue), TryResume(Head(get_queue)),
           \A x \in Pid : x # currpid => fpc'[x] = fpc[x],
           UNCHANGED <<mode, set_queue, fpid>>, mode # "EXCLUSIVE"
    PROVE  /\ WaitersFindable' /\ get_queue' \in Seq(Pid) /\ Unused' = Unused
           /\ Head(get_queue) \in Pid /\ Resume(Head(get_queue))
<1> DEFINE h == Head(get_queue)
<1>1. currpid \in Pid /\ currpid \notin Susp
  BY CurrentRuns
<1>2. OnQueue(get_queue, SuspendedIn({"getS", "getQend"})) /\ get_queue \in Seq(Pid)
  BY DEF FInv, FTypes, WaitersFindable
<1>3. /\ h \in SuspendedIn({"getS", "getQend"}) /\ h \in Pid /\ Tail(get_queue) \in Seq(Pid)
      /\ OnQueue(Tail(get_queue), SuspendedIn({"getS", "getQend"}) \ {h})
  BY <1>2, TailOnQueue
<1>4. prstate[h] = "SUSP" /\ fpc[h] \in {"getS", "getQend"}
  BY <1>3 DEF SuspendedIn
<1>5. Resume(h)
  BY <1>4 DEF TryResume
<1> HIDE DEF h
<1>6. Susp' = Susp \ {h} /\ Unused' = Unused
  BY <1>3, <1>5, ResumeSets
<1>7. SuspendedIn({"getX"})' = SuspendedIn({"getX"})
  <2>1. SuspendedIn({"getX"})' = SuspendedIn({"getX"}) \ {h}
    BY <1>1, <1>6, ParkedMoves
  <2>2. h \notin SuspendedIn({"getX"})
    BY <1>4 DEF SuspendedIn
  <2> QED BY <2>1, <2>2
<1>8. SuspendedIn({"setQ"})' = SuspendedIn({"setQ"})
  <2>1. SuspendedIn({"setQ"})' = SuspendedIn({"setQ"}) \ {h}
    BY <1>1, <1>6, ParkedMoves
  <2>2. h \notin SuspendedIn({"setQ"})
    BY <1>4 DEF SuspendedIn
  <2> QED BY <2>1, <2>2
<1>9. SuspendedIn({"getS", "getQend"})' = SuspendedIn({"getS", "getQend"}) \ {h}
  BY <1>1, <1>6, ParkedMoves
<1>10. WaitersFindable'
  BY <1>3, <1>7, <1>8, <1>9 DEF FInv, WaitersFindable
<1> QED BY <1>3, <1>5, <1>6, <1>10 DEF h

(* A process that goes away from future_get leaves no new claim behind. *)
LEMMA KnownKept ==
    ASSUME FTypes, Known, currpid \in Pid, Susp \subseteq Susp',
           \A x \in Pid : x # currpid => fpc'[x] = fpc[x],
           currpid \in Susp' \/ fpc'[currpid] \in {"app", "getQ"},
           fstate' = "READY" => fstate = "READY", UNCHANGED <<fvalue, stored>>
    PROVE  Known'
<1>1. Resumed' \subseteq Resumed
  BY DEF Resumed
<1> QED BY <1>1 DEF Known

(* The value that was taken is one that was stored. *)
LEMMA KnownTaken ==
    ASSUME fvalue \in stored, UNCHANGED <<fvalue, stored>>
    PROVE  Known'
BY DEF Known

(* future_get *)
LEMMA GetSharedOK ==
    ASSUME IInv, FInv, GetShared
    PROVE  FInv'
<1>0. mode = "SHARED" /\ currpid \in Pid /\ fpc[currpid] = "app" /\ mode \in Modes
  BY CurrentRuns DEF GetShared, Caller, InApp, FInv, FTypes
<1>1. CASE Unset
  <2>1. /\ fstate' = "WAITING" /\ get_queue' = Append(get_queue, currpid)
        /\ fpc' = [fpc EXCEPT ![currpid] = "getS"] /\ Suspend(currpid)
        /\ UNCHANGED <<got, mode, fvalue, fpid, set_queue, pending, fault, nextval, stored>>
    BY <1>1 DEF GetShared, GoTo
  <2>2. /\ WaitersFindable' /\ get_queue' \in Seq(Pid)
        /\ Susp' = Susp \cup {currpid} /\ Unused' = Unused
    BY <1>0, <2>1, GetterWaits
  <2>3. /\ PcFits' /\ fpc' \in [Pid -> Pcs] /\ fpc'[currpid] = "getS"
        /\ \A x \in Pid : x # currpid => fpc'[x] = fpc[x]
    BY <1>0, <2>1, <2>2, MovePcs DEF ModeOf, Pcs
  <2>4. FTypes'
    BY <2>1, <2>2, <2>3 DEF FInv, FTypes
  <2>5. Known'
    BY <1>0, <2>1, <2>2, <2>3, KnownKept DEF FInv
  <2>6. Untaken' /\ AllResumed'
    BY <2>1 DEF FInv, Untaken, Values, AllResumed
  <2> QED BY <1>0, <2>1, <2>2, <2>3, <2>4, <2>5, <2>6, SharedParts
<1>2. CASE ~Unset
  <2>1. /\ Take /\ fstate = "READY" /\ fstate' = (IF get_queue = <<>> THEN "EMPTY" ELSE fstate)
        /\ UNCHANGED vars /\ get_queue' = get_queue /\ fpc' = fpc
        /\ UNCHANGED <<mode, fvalue, fpid, set_queue, pending, fault, nextval, stored>>
    BY <1>2 DEF GetShared, SharedGetTail, Unset
  <2>2. fvalue \in stored
    BY <2>1 DEF FInv, Known
  <2>3. got' \in [Values -> 0 .. 2] /\ Untaken'
    BY <2>1, <2>2, TakeOK DEF FInv
  <2>4. Susp' = Susp /\ Unused' = Unused
    BY <2>1, NobodyMoves
  <2>5. PcFits'
    BY <1>0, <2>1, <2>4, StayPcs
  <2>6. WaitersFindable'
    BY <1>0, <2>1, <2>4, WaitersStay DEF queues
  <2>7. FTypes'
    BY <2>1, <2>3 DEF FInv, FTypes
  <2>8. AllResumed'
    BY <2>1 DEF FInv, AllResumed
  <2> QED BY <1>0, <2>1, <2>2, <2>3, <2>5, <2>6, <2>7, <2>8, KnownTaken, SharedParts
<1> QED BY <1>1, <1>2

(* future_get, resumed *)
LEMMA GetSharedEndOK ==
    ASSUME IInv, FInv, GetSharedEnd
    PROVE  FInv'
<1>0. /\ fpc[currpid] = "getS" /\ currpid \in Pid /\ currpid \notin Susp
      /\ Take /\ fstate' = (IF get_queue = <<>> THEN "EMPTY" ELSE fstate)
      /\ UNCHANGED vars /\ fpc' = [fpc EXCEPT ![currpid] = "app"]
      /\ UNCHANGED <<mode, fvalue, fpid, set_queue, get_queue, pending, fault, nextval, stored>>
  BY CurrentRuns DEF GetSharedEnd, In, GoTo, SharedGetTail, queues
<1>1. mode = "SHARED" /\ mode \in Modes
  <2>1. mode \in ModeOf(fpc[currpid]) /\ mode \in Modes
    BY <1>0 DEF FInv, FTypes, PcFits
  <2> QED BY <1>0, <2>1 DEF ModeOf
<1>2. fvalue \in stored
  BY <1>0 DEF FInv, Known, Resumed
<1>3. got' \in [Values -> 0 .. 2] /\ Untaken'
  BY <1>0, <1>2, TakeOK DEF FInv
<1>4. Susp' = Susp /\ Unused' = Unused
  BY <1>0, NobodyMoves
<1>5. /\ PcFits' /\ fpc' \in [Pid -> Pcs] /\ fpc'[currpid] = "app"
      /\ \A x \in Pid : x # currpid => fpc'[x] = fpc[x]
  BY <1>0, <1>1, <1>4, MovePcs DEF ModeOf, Pcs
<1>6. WaitersFindable'
  BY <1>0, <1>1, <1>4, <1>5, WaitersStay DEF queues
<1>7. FTypes'
  BY <1>0, <1>3, <1>5 DEF FInv, FTypes
<1>8. AllResumed'
  <2>1. ASSUME fstate' = "READY", get_queue' # <<>> PROVE \E p \in Pid : fpc'[p] = "setS"
    <3>1. \E p \in Pid : fpc[p] = "setS"
      BY <1>0, <1>1, <2>1 DEF FInv, AllResumed
    <3>2. PICK p \in Pid : fpc[p] = "setS"
      BY <3>1
    <3>3. fpc'[p] = "setS"
      BY <1>0, <1>5, <3>2
    <3> QED BY <3>3
  <2> QED BY <2>1 DEF AllResumed
<1> QED BY <1>0, <1>1, <1>2, <1>3, <1>5, <1>6, <1>7, <1>8, KnownTaken, SharedParts

(* future_set: the value, *)
LEMMA SetSharedOK ==
    ASSUME IInv, FInv, SetShared
    PROVE  FInv'
<1>0. /\ mode = "SHARED" /\ currpid \in Pid /\ nextval <= MaxSets
      /\ Store(nextval) /\ nextval' = nextval + 1 /\ fpc' = [fpc EXCEPT ![currpid] = "setS"]
      /\ UNCHANGED vars
      /\ UNCHANGED <<mode, fpid, set_queue, get_queue, pending, fault, got>>
  BY CurrentRuns DEF SetShared, GoTo, queues
<1>1. nextval \in 1 .. MaxSets
  BY <1>0, MaxSetsAssumption DEF FInv, FTypes
<1>2. /\ fvalue' = nextval /\ nextval \in Values /\ fstate' = "READY" /\ stored' = stored \cup {nextval}
      /\ Untaken' /\ Known'
  BY <1>0, <1>1, StoreOK DEF FInv
<1>3. Susp' = Susp /\ Unused' = Unused
  BY <1>0, NobodyMoves
<1>4. /\ PcFits' /\ fpc' \in [Pid -> Pcs] /\ fpc'[currpid] = "setS"
      /\ \A x \in Pid : x # currpid => fpc'[x] = fpc[x]
  BY <1>0, <1>2, <1>3, MovePcs DEF ModeOf, Pcs
<1>5. WaitersFindable'
  BY <1>0, <1>3, <1>4, WaitersStay DEF queues
<1>6. FTypes'
  <2>1. nextval' \in 1 .. MaxSets + 1 /\ stored' \subseteq 1 .. nextval' - 1
    BY <1>0, <1>1, <1>2, MaxSetsAssumption DEF FInv, FTypes
  <2> QED BY <1>0, <1>2, <1>4, <2>1 DEF FInv, FTypes
<1>7. AllResumed'
  BY <1>0, <1>4 DEF AllResumed
<1> QED BY <1>0, <1>2, <1>4, <1>5, <1>6, <1>7, SharedParts

(* then a turn of the loop for each getter, *)
LEMMA SetSharedLoopOK ==
    ASSUME IInv, FInv, SetSharedLoop
    PROVE  FInv'
<1>0. /\ fpc[currpid] = "setS" /\ currpid \in Pid /\ currpid \notin Susp
      /\ get_queue # <<>> /\ get_queue' = Tail(get_queue) /\ TryResume(Head(get_queue))
      /\ UNCHANGED <<mode, fstate, fvalue, fpid, set_queue, fpc, pending, fault, nextval, stored, got>>
  BY CurrentRuns DEF SetSharedLoop, In, history
<1>1. mode = "SHARED"
  <2>1. mode \in ModeOf(fpc[currpid])
    BY <1>0 DEF FInv, PcFits
  <2> QED BY <1>0, <2>1 DEF ModeOf
<1>2. fvalue \in stored
  BY <1>0 DEF FInv, Known, Resumed
<1>3. WaitersFindable' /\ get_queue' \in Seq(Pid) /\ Unused' = Unused
  BY <1>0, <1>1, GetterGoes
<1>4. PcFits'
  BY <1>0, <1>1, <1>3, StayPcs
<1>5. FTypes'
  BY <1>0, <1>3 DEF FInv, FTypes
<1>6. Untaken'
  BY <1>0 DEF FInv, Untaken, Values
<1>7. AllResumed'
  BY <1>0 DEF AllResumed
<1> QED BY <1>0, <1>1, <1>2, <1>3, <1>4, <1>5, <1>6, <1>7, KnownTaken, SharedParts

(* and the end of the loop. *)
LEMMA SetSharedEndOK ==
    ASSUME IInv, FInv, SetSharedEnd
    PROVE  FInv'
<1>0. /\ fpc[currpid] = "setS" /\ currpid \in Pid /\ get_queue = <<>> /\ UNCHANGED vars
      /\ fpc' = [fpc EXCEPT ![currpid] = "app"]
      /\ UNCHANGED <<mode, fstate, fvalue, fpid, set_queue, get_queue, pending, fault, nextval, stored, got>>
  BY CurrentRuns DEF SetSharedEnd, In, GoTo, history, queues
<1>1. mode = "SHARED" /\ mode \in Modes
  <2>1. mode \in ModeOf(fpc[currpid]) /\ mode \in Modes
    BY <1>0 DEF FInv, FTypes, PcFits
  <2> QED BY <1>0, <2>1 DEF ModeOf
<1>2. Susp' = Susp /\ Unused' = Unused
  BY <1>0, NobodyMoves
<1>3. /\ PcFits' /\ fpc' \in [Pid -> Pcs] /\ fpc'[currpid] = "app"
      /\ \A x \in Pid : x # currpid => fpc'[x] = fpc[x]
  BY <1>0, <1>1, <1>2, MovePcs DEF ModeOf, Pcs
<1>4. WaitersFindable'
  BY <1>0, <1>1, <1>2, <1>3, WaitersStay DEF queues
<1>5. FTypes'
  BY <1>0, <1>3 DEF FInv, FTypes
<1>6. Untaken'
  BY <1>0 DEF FInv, Untaken, Values
<1>7. Known'
  BY <1>0, <1>2, <1>3, KnownKept DEF FInv
<1>8. AllResumed'
  BY <1>0 DEF AllResumed
<1> QED BY <1>0, <1>1, <1>3, <1>4, <1>5, <1>6, <1>7, <1>8, SharedParts

(* All the steps of this mode. *)
LEMMA SharedStepOK ==
    ASSUME IInv, FInv, SharedStep
    PROVE  FInv'
BY GetSharedOK, GetSharedEndOK, SetSharedOK, SetSharedLoopOK, SetSharedEndOK DEF SharedStep

-----------------------------------------------------------------------------
(***************************************************************************)
(* FUTURE_QUEUE                                                            *)
(***************************************************************************)
(* What is left to show of a step in this mode. *)
LEMMA QueueParts ==
    ASSUME mode = "QUEUE", mode' = mode, FTypes', PcFits', Known', Untaken', WaitersFindable'
    PROVE  FInv'
BY DEF FInv, ExclusiveOnce, AllResumed

(* future_get with a setter in the queue, which is resumed *)
LEMMA GetQueueReleaseOK ==
    ASSUME IInv, FInv, GetQueueRelease
    PROVE  FInv'
<1> DEFINE h == Head(set_queue)
<1>0. /\ mode = "QUEUE" /\ currpid \in Pid /\ currpid \notin Susp
      /\ set_queue # <<>> /\ set_queue' = Tail(set_queue)
      /\ fpc' = [fpc EXCEPT ![currpid] = "getQ"] /\ TryResume(h)
      /\ UNCHANGED <<mode, fstate, fvalue, fpid, get_queue, pending, fault, nextval, stored, got>>
  BY CurrentRuns DEF GetQueueRelease, GoTo, history
<1>1. OnQueue(set_queue, SuspendedIn({"setQ"})) /\ set_queue \in Seq(Pid)
  BY DEF FInv, FTypes, WaitersFindable
<1>2. /\ h \in SuspendedIn({"setQ"}) /\ h \in Pid /\ Tail(set_queue) \in Seq(Pid)
      /\ OnQueue(Tail(set_queue), SuspendedIn({"setQ"}) \ {h})
  BY <1>0, <1>1, TailOnQueue
<1>3. prstate[h] = "SUSP" /\ fpc[h] = "setQ"
  BY <1>2 DEF SuspendedIn
<1>4. Resume(h)
  BY <1>0, <1>3 DEF TryResume
<1> HIDE DEF h
<1>5. Susp' = Susp \ {h} /\ Unused' = Unused
  BY <1>2, <1>4, ResumeSets
<1>6. /\ PcFits' /\ fpc' \in [Pid -> Pcs] /\ fpc'[currpid] = "getQ"
      /\ \A x \in Pid : x # currpid => fpc'[x] = fpc[x]
  <2>1. mode = "QUEUE" => fstate' # "WAITING"
    BY <1>0 DEF FInv, PcFits
  <2> QED BY <1>0, <1>5, <2>1, MovePcs DEF ModeOf, Pcs
<1>7. WaitersFindable'
  <2>1. SuspendedIn({"setQ"})' = SuspendedIn({"setQ"}) \ {h}
    BY <1>0, <1>5, <1>6, ParkedMoves
  <2>2. SuspendedIn({"getX"})' = SuspendedIn({"getX"}) \ {h}
    BY <1>0, <1>5, <1>6, ParkedMoves
  <2>3. SuspendedIn({"getS", "getQend"})' = SuspendedIn({"getS", "getQend"}) \ {h}
    BY <1>0, <1>5, <1>6, ParkedMoves
  <2>4. h \notin SuspendedIn({"getX"}) /\ h \notin SuspendedIn({"getS", "getQend"})
    BY <1>3 DEF SuspendedIn
  <2>5. /\ SuspendedIn({"getX"})' = SuspendedIn({"getX"})
        /\ SuspendedIn({"getS", "getQend"})' = SuspendedIn({"getS", "getQend"})
    BY <2>2, <2>3, <2>4
  <2> QED BY <1>0, <1>2, <2>1, <2>5 DEF FInv, WaitersFindable, h
<1>8. Known'
  <2>1. Resumed' \subseteq Resumed
    BY <1>3, <1>5, <1>6 DEF Resumed
  <2> QED BY <1>0, <2>1 DEF FInv, Known
<1>9. FTypes'
  BY <1>0, <1>2, <1>6 DEF FInv, FTypes
<1>10. Untaken'
  BY <1>0 DEF FInv, Untaken, Values
<1> QED BY <1>0, <1>6, <1>7, <1>8, <1>9, <1>10, QueueParts

(* The mode of a process that is on its way through future_get. *)
LEMMA InQueueMode ==
    ASSUME IInv, FInv, GetQueueBody \/ In("getQend") \/ In("setQ")
    PROVE  mode = "QUEUE" /\ mode \in Modes /\ fstate # "WAITING"
<1>1. mode \in ModeOf(fpc[currpid]) /\ mode \in Modes
  BY CurrentRuns DEF FInv, FTypes, PcFits
<1>2. mode = "QUEUE"
  BY <1>1 DEF GetQueueBody, In, ModeOf
<1> QED BY <1>1, <1>2 DEF FInv, PcFits

(* future_get that waits *)
LEMMA GetQueueWaitOK ==
    ASSUME IInv, FInv, GetQueueWait
    PROVE  FInv'
<1>0. /\ mode = "QUEUE" /\ currpid \in Pid /\ fstate # "WAITING"
      /\ get_queue' = Append(get_queue, currpid)
      /\ fpc' = [fpc EXCEPT ![currpid] = "getQend"] /\ Suspend(currpid)
      /\ UNCHANGED <<mode, fstate, fvalue, fpid, set_queue, pending, fault, nextval, stored, got>>
  BY CurrentRuns, InQueueMode DEF GetQueueWait, GoTo, history
<1>1. /\ WaitersFindable' /\ get_queue' \in Seq(Pid)
      /\ Susp' = Susp \cup {currpid} /\ Unused' = Unused
  BY <1>0, GetterWaits
<1>2. /\ PcFits' /\ fpc' \in [Pid -> Pcs] /\ fpc'[currpid] = "getQend"
      /\ \A x \in Pid : x # currpid => fpc'[x] = fpc[x]
  BY <1>0, <1>1, MovePcs DEF ModeOf, Pcs
<1>3. FTypes'
  BY <1>0, <1>1, <1>2 DEF FInv, FTypes
<1>4. Known'
  BY <1>0, <1>1, <1>2, KnownKept DEF FInv
<1>5. Untaken'
  BY <1>0 DEF FInv, Untaken, Values
<1> QED BY <1>0, <1>1, <1>2, <1>3, <1>4, <1>5, QueueParts

(* future_get that takes a value *)
LEMMA GetQueueTakeOK ==
    ASSUME IInv, FInv, GetQueueNow \/ GetQueueEnd
    PROVE  FInv'
<1>0. /\ mode = "QUEUE" /\ mode \in Modes /\ currpid \in Pid /\ currpid \notin Susp
      /\ Take /\ fstate' = "EMPTY" /\ fpc' = [fpc EXCEPT ![currpid] = "app"] /\ UNCHANGED vars
      /\ UNCHANGED <<mode, fvalue, fpid, set_queue, get_queue, pending, fault, nextval, stored>>
  BY CurrentRuns, InQueueMode DEF GetQueueNow, GetQueueEnd, GetQueueTake, GoTo, queues
<1>1. fvalue \in stored
  <2>1. CASE GetQueueNow
    <3>1. fstate = "READY"
      BY <2>1, InQueueMode DEF GetQueueNow, FInv, FTypes
    <3> QED BY <3>1 DEF FInv, Known
  <2>2. CASE GetQueueEnd
    <3>1. currpid \in Resumed
      BY <1>0, <2>2 DEF GetQueueEnd, In, Resumed
    <3> QED BY <3>1 DEF FInv, Known
  <2> QED BY <2>1, <2>2
<1>2. got' \in [Values -> 0 .. 2] /\ Untaken'
  BY <1>0, <1>1, TakeOK DEF FInv
<1>3. Susp' = Susp /\ Unused' = Unused
  BY <1>0, NobodyMoves
<1>4. /\ PcFits' /\ fpc' \in [Pid -> Pcs] /\ fpc'[currpid] = "app"
      /\ \A x \in Pid : x # currpid => fpc'[x] = fpc[x]
  BY <1>0, <1>3, MovePcs DEF ModeOf, Pcs
<1>5. WaitersFindable'
  BY <1>0, <1>3, <1>4, WaitersStay DEF queues
<1>6. FTypes'
  BY <1>0, <1>2, <1>4 DEF FInv, FTypes
<1> QED BY <1>0, <1>1, <1>2, <1>4, <1>5, <1>6, KnownTaken, QueueParts

(* future_set that waits *)
LEMMA SetQueueWaitOK ==
    ASSUME IInv, FInv, SetQueueWait
    PROVE  FInv'
<1>0. /\ mode = "QUEUE" /\ currpid \in Pid /\ currpid \notin Susp /\ currpid \notin Unused
      /\ nextval <= MaxSets /\ nextval' = nextval + 1
      /\ pending' = [pending EXCEPT ![currpid] = nextval]
      /\ set_queue' = Append(set_queue, currpid)
      /\ fpc' = [fpc EXCEPT ![currpid] = "setQ"] /\ Suspend(currpid)
      /\ UNCHANGED <<mode, fstate, fvalue, fpid, get_queue, fault, stored, got>>
  BY CurrentRuns DEF SetQueueWait, GoTo
<1>1. Susp' = Susp \cup {currpid} /\ Unused' = Unused
  BY <1>0, SuspendSets
<1>2. nextval \in 1 .. MaxSets /\ nextval \in Values /\ nextval' \in 1 .. MaxSets + 1
  BY <1>0, MaxSetsAssumption DEF FInv, FTypes, Values, Garbage
<1>3. /\ fpc' \in [Pid -> Pcs] /\ fpc'[currpid] = "setQ"
      /\ pending' \in [Pid -> Values] /\ pending'[currpid] = nextval
      /\ \A x \in Pid : x # currpid => fpc'[x] = fpc[x] /\ pending'[x] = pending[x]
  BY <1>0, <1>2 DEF FInv, FTypes, Pcs
<1>4. PcFits'
  <2>1. mode \in ModeOf(fpc'[currpid])
    BY <1>0, <1>3 DEF ModeOf
  <2>2. pending'[currpid] \in 1 .. nextval' - 1
    BY <1>0, <1>2, <1>3
  <2>3. fstate' # "WAITING"
    BY <1>0 DEF FInv, PcFits
  <2> QED BY <1>0, <1>1, <1>3, <2>1, <2>2, <2>3, PcFitsMoves DEF FInv
<1>5. set_queue' \in Seq(Pid) /\ OnQueue(set_queue', SuspendedIn({"setQ"}) \cup {currpid})
  <2>1. /\ OnQueue(set_queue, SuspendedIn({"setQ"})) /\ set_queue \in Seq(Pid)
        /\ currpid \notin SuspendedIn({"setQ"})
    BY <1>0 DEF FInv, FTypes, WaitersFindable, SuspendedIn, Susp
  <2> QED BY <1>0, <2>1, EnqueueOnQueue DEF Enqueue
<1>6. WaitersFindable'
  <2>1. SuspendedIn({"setQ"})' = SuspendedIn({"setQ"}) \cup {currpid}
    BY <1>0, <1>1, <1>3, ParkedMoves
  <2>2. SuspendedIn({"getX"})' = SuspendedIn({"getX"})
    BY <1>0, <1>1, <1>3, ParkedMoves
  <2>3. SuspendedIn({"getS", "getQend"})' = SuspendedIn({"getS", "getQend"})
    BY <1>0, <1>1, <1>3, ParkedMoves
  <2> QED BY <1>0, <1>5, <2>1, <2>2, <2>3 DEF FInv, WaitersFindable
<1>7. FTypes'
  <2>1. stored' \subseteq 1 .. nextval' - 1
    BY <1>0, <1>2 DEF FInv, FTypes
  <2> QED BY <1>0, <1>2, <1>3, <1>5, <2>1 DEF FInv, FTypes
<1>8. Known'
  BY <1>0, <1>1, <1>3, KnownKept DEF FInv
<1>9. Untaken'
  BY <1>0 DEF FInv, Untaken, Values
<1> QED BY <1>0, <1>4, <1>6, <1>7, <1>8, <1>9, QueueParts

(* future_set that stores its value, at once or after it waited *)
LEMMA SetQueueStoreOK ==
    ASSUME IInv, FInv, mode = "QUEUE", NEW v \in 1 .. MaxSets, SetQueueStore(v),
           \A x \in Pid : x # currpid => fpc'[x] = fpc[x],
           fpc' \in [Pid -> Pcs], pending' \in [Pid -> Values],
           nextval' \in 1 .. MaxSets + 1, nextval <= nextval', v <= nextval' - 1,
           Unused' = Unused /\ fstate' = "READY" => PcFits'
    PROVE  FInv'
<1>0. /\ Store(v) /\ UNCHANGED <<mode, fpid, set_queue, got>>
      /\ \/ get_queue = <<>> /\ UNCHANGED <<vars, get_queue>>
         \/ get_queue # <<>> /\ get_queue' = Tail(get_queue) /\ TryResume(Head(get_queue))
  BY DEF SetQueueStore
<1>1. /\ fvalue' = v /\ v \in Values /\ fstate' = "READY" /\ stored' = stored \cup {v}
      /\ Untaken' /\ Known'
  BY <1>0, StoreOK DEF FInv
<1>2. WaitersFindable' /\ get_queue' \in Seq(Pid) /\ Unused' = Unused
  <2>1. CASE get_queue = <<>> /\ UNCHANGED <<vars, get_queue>>
    <3>1. Susp' = Susp /\ Unused' = Unused
      BY <2>1, NobodyMoves
    <3>2. WaitersFindable'
      BY <1>0, <2>1, <3>1, WaitersStay DEF queues
    <3> QED BY <2>1, <3>1, <3>2 DEF FInv, FTypes
  <2>2. CASE get_queue # <<>> /\ get_queue' = Tail(get_queue) /\ TryResume(Head(get_queue))
    BY <1>0, <2>2, GetterGoes
  <2> QED BY <1>0, <2>1, <2>2
<1>3. stored' \subseteq 1 .. nextval' - 1
  <2>1. nextval \in Nat /\ stored \subseteq 1 .. nextval - 1 /\ nextval' \in Nat /\ v \in Nat /\ 1 <= v
    BY MaxSetsAssumption DEF FInv, FTypes
  <2>2. \A n, m, x \in Nat : 1 <= x /\ x <= n - 1 /\ n <= m => x \in 1 .. m - 1
    OBVIOUS
  <2>3. \A x \in stored : x \in Nat /\ 1 <= x /\ x <= nextval - 1
    BY <2>1
  <2>4. \A x \in stored : x \in 1 .. nextval' - 1
    BY <2>1, <2>2, <2>3
  <2>5. v \in 1 .. nextval' - 1
    <3>1. \A m, x \in Nat : 1 <= x /\ x <= m - 1 => x \in 1 .. m - 1
      OBVIOUS
    <3>2. nextval' \in Nat /\ v \in Nat /\ 1 <= v /\ v <= nextval' - 1
      BY <2>1
    <3> QED BY <3>1, <3>2
  <2> QED BY <1>1, <2>4, <2>5
<1>4. FTypes'
  BY <1>0, <1>1, <1>2, <1>3 DEF FInv, FTypes
<1> QED BY <1>0, <1>1, <1>2, <1>4, QueueParts

(* All the steps of this mode. *)
LEMMA QueueStepOK ==
    ASSUME IInv, FInv, QueueStep
    PROVE  FInv'
<1>1. CASE SetQueueNow
  <2>1. /\ mode = "QUEUE" /\ nextval <= MaxSets /\ SetQueueStore(nextval)
        /\ nextval' = nextval + 1 /\ UNCHANGED <<fpc, pending>> /\ mode' = mode
    BY <1>1 DEF SetQueueNow, SetQueueStore
  <2>2. nextval \in 1 .. MaxSets /\ nextval' \in 1 .. MaxSets + 1
    BY <2>1, MaxSetsAssumption DEF FInv, FTypes
  <2>3. Unused' = Unused /\ fstate' = "READY" => PcFits'
    BY <2>1, StayPcs
  <2>4. fpc \in [Pid -> Pcs] /\ pending \in [Pid -> Values]
    BY DEF FInv, FTypes
  <2> QED BY <2>1, <2>2, <2>3, <2>4, SetQueueStoreOK
<1>2. CASE SetQueueEnd
  <2>1. /\ fpc[currpid] = "setQ" /\ currpid \in Pid /\ currpid \notin Unused
        /\ SetQueueStore(pending[currpid])
        /\ pending' = [pending EXCEPT ![currpid] = Garbage]
        /\ fpc' = [fpc EXCEPT ![currpid] = "app"] /\ nextval' = nextval /\ mode' = mode
    BY <1>2, CurrentRuns DEF SetQueueEnd, In, GoTo, SetQueueStore
  <2>2. mode = "QUEUE" /\ mode \in Modes
    BY <1>2, InQueueMode DEF SetQueueEnd
  <2>3. pending[currpid] \in 1 .. nextval - 1 /\ nextval \in 1 .. MaxSets + 1
    BY <2>1 DEF FInv, FTypes, PcFits
  <2>4. pending[currpid] \in 1 .. MaxSets /\ pending[currpid] <= nextval - 1 /\ Garbage \in Values
    BY <2>3, MaxSetsAssumption DEF Values, Garbage
  <2>5. /\ fpc' \in [Pid -> Pcs] /\ pending' \in [Pid -> Values] /\ fpc'[currpid] = "app"
        /\ \A x \in Pid : x # currpid => fpc'[x] = fpc[x] /\ pending'[x] = pending[x]
    BY <2>1, <2>4 DEF FInv, FTypes, Pcs
  <2>6. Unused' = Unused /\ fstate' = "READY" => PcFits'
    <3>1. mode \in ModeOf(fpc'[currpid])
      BY <2>2, <2>5 DEF ModeOf
    <3> QED BY <2>1, <2>5, <3>1, PcFitsMoves DEF FInv
  <2>7. nextval' \in 1 .. MaxSets + 1 /\ nextval <= nextval' /\ pending[currpid] <= nextval' - 1
    BY <2>1, <2>3, <2>4
  <2> QED BY <2>1, <2>2, <2>4, <2>5, <2>6, <2>7, SetQueueStoreOK
<1> QED BY <1>1, <1>2, GetQueueReleaseOK, GetQueueWaitOK, GetQueueTakeOK, SetQueueWaitOK DEF QueueStep

-----------------------------------------------------------------------------
(***************************************************************************)
(* The theorems.                                                           *)
(***************************************************************************)
(* A step outside future.c: a table entry that is taken is at no place. *)
LEMMA OutsideOK ==
    ASSUME IInv, FInv, UNCHANGED fvars,
           \/ Susp' = Susp /\ Unused' = Unused
           \/ \E n \in Unused : Susp' = Susp \cup {n} /\ Unused' = Unused \ {n}
           \/ \E p \in Susp : fpc[p] = "app" /\ Susp' = Susp \ {p} /\ Unused' = Unused
    PROVE  FInv'
<1>0. UNCHANGED <<mode, fstate, fvalue, fpid, set_queue, get_queue, fpc, pending, fault,
                  nextval, stored, got>>
  BY DEF fvars, queues, history
<1>1. \A p \in Unused : fpc[p] = "app"
  BY DEF FInv, PcFits
<1>2. ASSUME NEW pcs, "app" \notin pcs PROVE SuspendedIn(pcs)' = SuspendedIn(pcs)
  <2>1. SuspendedIn(pcs) = {p \in Susp : fpc[p] \in pcs}
    BY DEF SuspendedIn, Susp
  <2>2. SuspendedIn(pcs)' = {p \in Susp' : fpc'[p] \in pcs}
    BY DEF SuspendedIn, Susp
  <2> QED BY <1>0, <1>1, <1>2, <2>1, <2>2
<1>3. WaitersFindable'
  <2>1. /\ SuspendedIn({"getX"})' = SuspendedIn({"getX"})
        /\ SuspendedIn({"getS", "getQend"})' = SuspendedIn({"getS", "getQend"})
        /\ SuspendedIn({"setQ"})' = SuspendedIn({"setQ"})
    BY <1>2
  <2> QED BY <1>0, <2>1 DEF FInv, WaitersFindable
<1>4. FTypes'
  BY <1>0 DEF FInv, FTypes
<1>5. PcFits'
  <2>1. Unused' \subseteq Unused
    OBVIOUS
  <2>2. \A p \in Unused' : fpc'[p] = "app"
    BY <1>0, <1>1, <2>1
  <2>3. \A p \in Pid : mode' \in ModeOf(fpc[p])'
    BY <1>0 DEF FInv, PcFits, ModeOf
  <2> QED BY <1>0, <2>2, <2>3 DEF FInv, PcFits
<1>6. Known'
  <2>1. Resumed' \subseteq Resumed
    BY <1>0 DEF Resumed
  <2> QED BY <1>0, <2>1 DEF FInv, Known
<1>7. Untaken'
  BY <1>0 DEF FInv, Untaken, Values
<1>8. ExclusiveOnce' /\ AllResumed'
  BY <1>0 DEF FInv, ExclusiveOnce, AllResumed
<1> QED BY <1>3, <1>4, <1>5, <1>6, <1>7, <1>8 DEF FInv

(* Every step keeps the invariant. *)
LEMMA FInvStep ==
    ASSUME IInv, FInv, [FNext]_allvars
    PROVE  FInv'
<1>1. CASE Spawn
  BY <1>1, CreateSets, OutsideOK DEF Spawn
<1>2. CASE Start
  <2>1. PICK p \in Pid : fpc[p] = "app" /\ Resume(p) /\ UNCHANGED fvars
    BY <1>2 DEF Start
  <2>2. p \in Susp /\ Susp' = Susp \ {p} /\ Unused' = Unused
    BY <2>1, ResumeSets
  <2> QED BY <2>1, <2>2, OutsideOK
<1>3. CASE Preempt
  BY <1>3, TickSets, OutsideOK DEF Preempt
<1>4. CASE Faulted \/ UNCHANGED allvars
  <2>1. UNCHANGED vars /\ UNCHANGED fvars
    BY <1>4 DEF Faulted, allvars
  <2> QED BY <2>1, NobodyMoves, OutsideOK
<1> QED BY <1>1, <1>2, <1>3, <1>4, ExclusiveStepOK, SharedStepOK, QueueStepOK DEF FNext

(* A step of the futures is a call of the process manager or none: future.c *)
(* only ever resumes processes of the table.                                *)
LEMMA ClientStep ==
    ASSUME IInv, FInv, [FNext]_allvars
    PROVE  [Next]_vars
<1>0. currpid \in Pid
  BY CurrentRuns
<1>1. ASSUME NEW p \in Pid, Suspend(p) \/ Resume(p) PROVE [Next]_vars
  BY <1>1 DEF Next, ProcStep
<1>2. ASSUME NEW p \in Pid, TryResume(p) PROVE [Next]_vars
  BY <1>1, <1>2 DEF TryResume
<1>3. CASE ExclusiveStep
  <2>1. fpid \in Pid
    BY DEF FInv, FTypes
  <2>2. Suspend(currpid) \/ TryResume(fpid) \/ UNCHANGED vars
    BY <1>3 DEF ExclusiveStep, GetExclusive, GetExclusiveEnd, SetExclusive
  <2> QED BY <1>0, <1>1, <1>2, <2>1, <2>2
<1>4. get_queue # <<>> => Head(get_queue) \in Pid
  <2>1. get_queue \in Seq(Pid)
    BY DEF FInv, FTypes
  <2> QED BY <2>1
<1>5. CASE SharedStep
  <2>1. Suspend(currpid) \/ (get_queue # <<>> /\ TryResume(Head(get_queue))) \/ UNCHANGED vars
    BY <1>5 DEF SharedStep, GetShared, GetSharedEnd, SetShared, SetSharedLoop, SetSharedEnd
  <2> QED BY <1>0, <1>1, <1>2, <1>4, <2>1
<1>6. CASE QueueStep
  <2>1. set_queue # <<>> => Head(set_queue) \in Pid
    <3>1. set_queue \in Seq(Pid)
      BY DEF FInv, FTypes
    <3> QED BY <3>1
  <2>2. \/ Suspend(currpid) \/ (get_queue # <<>> /\ TryResume(Head(get_queue)))
        \/ (set_queue # <<>> /\ TryResume(Head(set_queue))) \/ UNCHANGED vars
    BY <1>6 DEF QueueStep, GetQueueRelease, GetQueueWait, GetQueueNow, GetQueueEnd, GetQueueTake,
                SetQueueWait, SetQueueNow, SetQueueEnd, SetQueueStore
  <2> QED BY <1>0, <1>1, <1>2, <1>4, <2>1, <2>2
<1>7. CASE Spawn \/ Start \/ Preempt
  BY <1>7 DEF Spawn, Start, Preempt, Next, ProcStep, ClockStep
<1>8. CASE Faulted \/ UNCHANGED allvars
  BY <1>8 DEF Faulted, allvars
<1> QED BY <1>3, <1>5, <1>6, <1>7, <1>8 DEF FNext

(* The invariants together. *)
THEOREM FuturesInductive == FSpec => [](IInv /\ FInv)
<1>1. FInit => IInv /\ FInv
  <2> SUFFICES ASSUME FInit PROVE IInv /\ FInv
    OBVIOUS
  <2>1. IInv
    BY InitIInv DEF FInit
  <2>2. Susp = {}
    BY DEF FInit, Init, Susp
  <2>3. NULLPROC \in Pid
    BY <2>1, Types
  <2>4. FTypes
    BY <2>3, MaxSetsAssumption DEF FInit, FTypes, Values, Garbage, Pcs
  <2>5. PcFits
    BY DEF FInit, PcFits, ModeOf, Unused
  <2>6. Known /\ Untaken /\ ExclusiveOnce /\ AllResumed
    BY DEF FInit, Known, Resumed, Untaken, ExclusiveOnce, AllResumed
  <2>7. \A pcs : SuspendedIn(pcs) = {}
    BY <2>2 DEF SuspendedIn, Susp
  <2>8. OnQueue(<<>>, {})
    BY DEF OnQueue, ToSet, IsInjective
  <2>9. WaitersFindable
    BY <2>7, <2>8 DEF FInit, WaitersFindable
  <2> QED BY <2>1, <2>4, <2>5, <2>6, <2>9 DEF FInv
<1>2. IInv /\ FInv /\ [FNext]_allvars => (IInv /\ FInv)'
  <2> SUFFICES ASSUME IInv, FInv, [FNext]_allvars PROVE IInv' /\ FInv'
    OBVIOUS
  <2>1. IInv'
    BY ClientStep, NextIInv
  <2> QED BY <2>1, FInvStep
<1> QED BY <1>1, <1>2, PTL DEF FSpec

(* So everything shown of the process manager holds under the futures. *)
THEOREM FuturesAreClients == FSpec => Spec
<1>1. FInit => Init
  BY DEF FInit
<1>2. IInv /\ FInv /\ [FNext]_allvars => [Next]_vars
  BY ClientStep
<1> QED BY <1>1, <1>2, FuturesInductive, PTL DEF FSpec, Spec

(* A process that future_get or future_set has suspended can be found by   *)
(* the call that is to resume it, although another process may use the     *)
(* future between any two steps: the queues hold exactly the suspended     *)
(* getters and setters, each once, and an exclusive future names its own.  *)
THEOREM WaitersAreFindable == FSpec => []WaitersFindable
<1>1. IInv /\ FInv => WaitersFindable
  BY DEF FInv
<1> QED BY <1>1, FuturesInductive, PTL

(* future_get never returns what was in the memory of a new future, though *)
(* a reader that was suspended does not look at the state again.           *)
THEOREM GarbageNotReturned == FSpec => []NoGarbage
<1>1. IInv /\ FInv => NoGarbage
  <2> SUFFICES ASSUME FInv PROVE got[Garbage] = 0
    BY DEF NoGarbage
  <2>1. Garbage \in Values \ stored
    BY MaxSetsAssumption DEF FInv, FTypes, Values, Garbage
  <2> QED BY <2>1 DEF FInv, Untaken
<1> QED BY <1>1, FuturesInductive, PTL

(* An exclusive future hands every value to exactly one future_get, even   *)
(* if another process takes it from under the one that was resumed.        *)
THEOREM ExclusiveValuesOnce == FSpec => []ExclusiveOnce
<1>1. IInv /\ FInv => ExclusiveOnce
  BY DEF FInv
<1> QED BY <1>1, FuturesInductive, PTL

(* While a shared future is set and processes still wait for it, a setter  *)
(* is in the loop that resumes them.                                       *)
THEOREM WaitersAreResumed == FSpec => []AllResumed
<1>1. IInv /\ FInv => AllResumed
  BY DEF FInv
<1> QED BY <1>1, FuturesInductive, PTL

-----------------------------------------------------------------------------
(***************************************************************************)
(* findClosestIndex.                                                       *)
(***************************************************************************)
LEMMA PoolSizes ==
    /\ poolnum \in Nat \ {0} /\ Pool = 1 .. poolnum
    /\ \A i \in Pool : Bufsize[i] \in Nat /\ Bufnumb[i] \in Nat \ {0}
<1>1. Bufsize \in Seq(Nat) /\ Bufsize # <<>> /\ Len(Bufsize) \in Nat
  BY BufsizeAssumption
<1>2. Len(Bufsize) # 0
  BY <1>1
<1> QED BY <1>1, <1>2, BufnumbAssumption DEF Pool, poolnum

(* The sizes grow from pool to pool. *)
LEMMA BufsizeGrows ==
    ASSUME NEW i \in Pool, NEW j \in Pool, i < j
    PROVE  Bufsize[i] < Bufsize[j]
<1> DEFINE T == {d \in Nat : d > 0 /\ \E a \in Pool : a + d \in Pool /\ ~(Bufsize[a] < Bufsize[a + d])}
<1>1. ASSUME T # {} PROVE FALSE
  <2> DEFINE d == Min(T)
  <2>1. d \in T /\ \A y \in T : d <= y
    BY <1>1, MinOfNats
  <2> HIDE DEF d
  <2>2. PICK a \in Pool : a + d \in Pool /\ ~(Bufsize[a] < Bufsize[a + d])
    BY <2>1
  <2>3. d \in Nat /\ d > 0
    BY <2>1
  <2>4. a \in Nat /\ a + d - 1 \in Pool /\ a + d \in Pool /\ a + d - 1 \in 1 .. Len(Bufsize) - 1
    BY <2>2, <2>3, PoolSizes DEF poolnum
  <2>5. Bufsize[a + d - 1] < Bufsize[(a + d - 1) + 1]
    BY <2>4, BufsizeAssumption
  <2>6. (a + d - 1) + 1 = a + d /\ a + (d - 1) = a + d - 1
    BY <2>3, <2>4
  <2>7. CASE d = 1
    BY <2>2, <2>4, <2>5, <2>6, <2>7
  <2>8. CASE d # 1
    <3>1. d - 1 \in Nat /\ d - 1 > 0 /\ ~(d <= d - 1)
      BY <2>3, <2>8
    <3>2. d - 1 \notin T
      BY <2>1, <3>1
    <3>3. Bufsize[a] < Bufsize[a + (d - 1)]
      BY <2>4, <2>6, <3>1, <3>2
    <3> QED BY <2>2, <2>4, <2>5, <2>6, <3>3, PoolSizes
  <2> QED BY <2>7, <2>8
<1>2. j - i \in Nat /\ j - i > 0 /\ i + (j - i) = j
  BY PoolSizes
<1>3. j - i \notin T
  BY <1>1
<1> QED BY <1>2, <1>3

(* The pools from a to b whose buffers are large enough, and the first. *)
Enough(a, b, size) == {i \in a .. b : Bufsize[i] >= size}
Least(a, b, size) == IF Enough(a, b, size) = {} THEN NoPool ELSE Min(Enough(a, b, size))

LEMMA LeastIs ==
    ASSUME NEW a \in Pool, NEW b \in Pool, NEW size \in Int, NEW k \in Enough(a, b, size),
           \A i \in Enough(a, b, size) : k <= i
    PROVE  Least(a, b, size) = k
<1>1. Enough(a, b, size) \in SUBSET Nat /\ Enough(a, b, size) # {}
  BY PoolSizes DEF Enough
<1> DEFINE m == Min(Enough(a, b, size))
<1>2. m \in Enough(a, b, size) /\ \A i \in Enough(a, b, size) : m <= i
  BY <1>1, MinOfNats
<1> HIDE DEF m
<1>3. m \in Nat /\ k \in Nat /\ m <= k /\ k <= m
  BY <1>1, <1>2
<1>4. m = k
  BY <1>3
<1> QED BY <1>1, <1>4 DEF Least, m

(* With nothing left to halve, the answer is the first one. *)
LEMMA ChosenIsLeast ==
    ASSUME NEW a \in Pool, NEW b \in Pool, NEW size \in Int, a <= b, b <= a + 1
    PROVE  Chosen(a, b, size) = Least(a, b, size)
<1>1. a \in Nat /\ b \in Nat /\ Bufsize[a] \in Nat /\ Bufsize[b] \in Nat
  BY PoolSizes
<1>2. \A i : i \in a .. b <=> i = a \/ i = b
  BY <1>1
<1>3. CASE Bufsize[a] >= size
  <2>1. a \in Enough(a, b, size) /\ \A i \in Enough(a, b, size) : a <= i
    BY <1>1, <1>2, <1>3 DEF Enough
  <2>2. Least(a, b, size) = a
    BY <2>1, LeastIs
  <2> QED BY <1>3, <2>2 DEF Chosen
<1>4. CASE ~(Bufsize[a] >= size) /\ Bufsize[b] >= size
  <2>1. b \in Enough(a, b, size) /\ \A i \in Enough(a, b, size) : b <= i
    BY <1>1, <1>2, <1>4 DEF Enough
  <2>2. Least(a, b, size) = b
    BY <2>1, LeastIs
  <2> QED BY <1>4, <2>2 DEF Chosen
<1>5. CASE ~(Bufsize[a] >= size) /\ ~(Bufsize[b] >= size)
  <2>1. Enough(a, b, size) = {}
    BY <1>2, <1>5 DEF Enough
  <2> QED BY <1>5, <2>1 DEF Chosen, Least
<1> QED BY <1>3, <1>4, <1>5

(* A turn of the loop keeps the answer in range. *)
LEMMA HalveKeeps ==
    ASSUME NEW a \in Pool, NEW b \in Pool, NEW size \in Int, a + 1 < b
    PROVE  \E x, y \in Pool :
              /\ Halve(a, b, a + (b - a) \div 2, size) = <<x, y>>
              /\ x < y /\ y - x < b - a
              /\ Least(x, y, size) = Least(a, b, size)
<1> DEFINE mid == a + (b - a) \div 2
<1>1. a \in Nat /\ b \in Nat /\ mid \in Pool /\ mid \in Nat /\ a < mid /\ mid < b
  BY PoolSizes
<1> HIDE DEF mid
<1>2. CASE Bufsize[mid] < size
  <2>1. Halve(a, b, mid, size) = <<mid, b>>
    BY <1>2 DEF Halve
  <2>2. ASSUME NEW i \in a .. b, Bufsize[i] >= size PROVE i \in mid .. b
    <3>1. i \in Pool /\ i \in Nat
      BY <1>1, PoolSizes
    <3>2. CASE i < mid
      <4>1. Bufsize[i] < Bufsize[mid] /\ Bufsize[i] \in Nat /\ Bufsize[mid] \in Nat
        BY <1>1, <3>1, <3>2, BufsizeGrows, PoolSizes
      <4> QED BY <1>2, <2>2, <4>1
    <3> QED BY <1>1, <3>1, <3>2
  <2>3. Enough(mid, b, size) = Enough(a, b, size)
    <3>1. \A i \in mid .. b : i \in a .. b
      BY <1>1
    <3> QED BY <2>2, <3>1 DEF Enough
  <2>4. Least(mid, b, size) = Least(a, b, size)
    BY <2>3 DEF Least
  <2>5. mid < b /\ b - mid < b - a
    BY <1>1
  <2> QED BY <1>1, <2>1, <2>4, <2>5 DEF mid
<1>3. CASE ~(Bufsize[mid] < size)
  <2>1. Halve(a, b, mid, size) = <<a, mid>>
    BY <1>3 DEF Halve
  <2>2. mid \in Enough(a, b, size) /\ mid \in Enough(a, mid, size)
    BY <1>1, <1>3, PoolSizes DEF Enough
  <2> DEFINE m == Min(Enough(a, b, size))
  <2>3. Enough(a, b, size) \in SUBSET Nat
    BY <1>1 DEF Enough
  <2>4. m \in Enough(a, b, size) /\ \A i \in Enough(a, b, size) : m <= i
    BY <2>2, <2>3, MinOfNats
  <2> HIDE DEF m
  <2>5. m \in Enough(a, mid, size)
    <3>1. m <= mid
      BY <2>2, <2>4
    <3> QED BY <1>1, <2>4, <3>1 DEF Enough
  <2>6. \A i \in Enough(a, mid, size) : i \in Enough(a, b, size)
    BY <1>1 DEF Enough
  <2>7. Least(a, b, size) = m /\ Least(a, mid, size) = m
    BY <1>1, <2>4, <2>5, <2>6, LeastIs
  <2>8. a < mid /\ mid - a < b - a
    BY <1>1
  <2> QED BY <1>1, <2>1, <2>7, <2>8 DEF mid
<1> QED BY <1>2, <1>3, PoolSizes

(* The equation of the search has a solution, so that it holds for Search. *)
Turn(f, range, size) ==
    IF range[1] + 1 < range[2]
    THEN f[Halve(range[1], range[2], range[1] + (range[2] - range[1]) \div 2, size)]
    ELSE Chosen(range[1], range[2], size)

LEMMA SearchTurns ==
    ASSUME NEW size \in Int
    PROVE  Search(size) = [range \in Pool \X Pool |-> Turn(Search(size), range, size)]
<1> DEFINE Solves(f) == f = [range \in Pool \X Pool |-> Turn(f, range, size)]
           g == [range \in Pool \X Pool |->
                    IF range[1] + 1 < range[2] THEN Least(range[1], range[2], size)
                    ELSE Chosen(range[1], range[2], size)]
<1>1. Solves(g)
  <2>1. ASSUME NEW a \in Pool, NEW b \in Pool
        PROVE  g[<<a, b>>] = Turn(g, <<a, b>>, size)
    <3>1. CASE a + 1 < b
      <4>1. PICK x, y \in Pool : /\ Halve(a, b, a + (b - a) \div 2, size) = <<x, y>>
                                 /\ x < y /\ Least(x, y, size) = Least(a, b, size)
        BY <3>1, HalveKeeps
      <4>2. g[<<x, y>>] = IF x + 1 < y THEN Least(x, y, size) ELSE Chosen(x, y, size)
        OBVIOUS
      <4>3. CASE x + 1 < y
        BY <3>1, <4>1, <4>2, <4>3 DEF Turn
      <4>4. CASE ~(x + 1 < y)
        <5>1. x <= y /\ y <= x + 1
          BY <4>1, <4>4, PoolSizes
        <5>2. Chosen(x, y, size) = Least(x, y, size)
          BY <5>1, ChosenIsLeast
        <5> QED BY <3>1, <4>1, <4>2, <4>4, <5>2 DEF Turn
      <4> QED BY <4>3, <4>4
    <3>2. CASE ~(a + 1 < b)
      BY <3>2 DEF Turn
    <3> QED BY <3>1, <3>2
  <2> DEFINE h == [range \in Pool \X Pool |-> Turn(g, range, size)]
  <2>2. \A range \in Pool \X Pool : \E a \in Pool, b \in Pool : range = <<a, b>>
    OBVIOUS
  <2>3. g = [range \in Pool \X Pool |-> g[range]]
    OBVIOUS
  <2> HIDE DEF g
  <2>4. \A range \in Pool \X Pool : g[range] = Turn(g, range, size)
    BY <2>1, <2>2
  <2> QED BY <2>3, <2>4
<1>2. Search(size) = CHOOSE f : Solves(f)
  BY DEF Search, Turn
<1> HIDE DEF Solves
<1>3. Solves(Search(size))
  BY <1>1, <1>2
<1> QED BY <1>3 DEF Solves

(* The search ends at the first pool that is large enough, by induction on *)
(* the width of the range.                                                 *)
LEMMA SearchFinds ==
    ASSUME NEW size \in Int, NEW a \in Pool, NEW b \in Pool, a <= b
    PROVE  Search(size)[<<a, b>>] = Least(a, b, size)
<1> DEFINE f == Search(size)
           Wrong(x, y) == x <= y /\ f[<<x, y>>] # Least(x, y, size)
           T == {d \in Nat : \E x, y \in Pool : y - x = d /\ Wrong(x, y)}
<1>1. ASSUME NEW x \in Pool, NEW y \in Pool
      PROVE  f[<<x, y>>] = IF x + 1 < y THEN f[Halve(x, y, x + (y - x) \div 2, size)]
                           ELSE Chosen(x, y, size)
  <2>1. f = [range \in Pool \X Pool |-> Turn(f, range, size)]
    BY SearchTurns
  <2> HIDE DEF f
  <2>2. f[<<x, y>>] = Turn(f, <<x, y>>, size)
    BY <2>1
  <2> QED BY <2>2 DEF Turn
<1> HIDE DEF f
<1>2. ASSUME T # {} PROVE FALSE
  <2> DEFINE d == Min(T)
  <2>1. d \in T /\ \A e \in T : d <= e
    BY <1>2, MinOfNats
  <2> HIDE DEF d
  <2>2. PICK x, y \in Pool : y - x = d /\ Wrong(x, y)
    BY <2>1
  <2>3. d \in Nat /\ x \in Nat /\ y \in Nat /\ x <= y /\ f[<<x, y>>] # Least(x, y, size)
    BY <2>1, <2>2, PoolSizes
  <2>4. CASE x + 1 < y
    <3>1. PICK u, v \in Pool : /\ Halve(x, y, x + (y - x) \div 2, size) = <<u, v>>
                               /\ u < v /\ v - u < y - x
                               /\ Least(u, v, size) = Least(x, y, size)
      BY <2>4, HalveKeeps
    <3>2. v - u \in Nat /\ ~(d <= v - u) /\ u <= v
      BY <2>2, <2>3, <3>1, PoolSizes
    <3>3. v - u \notin T
      BY <2>1, <3>2
    <3>4. f[<<u, v>>] = Least(u, v, size)
      BY <3>2, <3>3
    <3> QED BY <1>1, <2>3, <2>4, <3>1, <3>4
  <2>5. CASE ~(x + 1 < y)
    <3>1. x <= y /\ y <= x + 1
      BY <2>3, <2>5
    <3> QED BY <1>1, <2>3, <2>5, <3>1, ChosenIsLeast
  <2> QED BY <2>4, <2>5
<1>3. b - a \in Nat
  BY PoolSizes
<1>4. b - a \notin T
  BY <1>2
<1> QED BY <1>3, <1>4 DEF f

LEMMA ClosestFound ==
    ASSUME nbpools \in Pool, NEW size \in 1 .. Bufsize[nbpools]
    PROVE  /\ findClosestIndex(size) = Min({i \in 1 .. nbpools : Bufsize[i] >= size})
           /\ findClosestIndex(size) \in 1 .. nbpools
<1> DEFINE S == Enough(1, nbpools, size)
<1>1. nbpools \in Nat /\ 1 \in Pool /\ 1 <= nbpools /\ Bufsize[nbpools] \in Nat /\ size \in Int
      /\ size <= Bufsize[nbpools]
  BY PoolSizes
<1>2. nbpools \in S /\ S \in SUBSET Nat
  BY <1>1 DEF Enough
<1>3. Min(S) \in S /\ \A i \in S : Min(S) <= i
  BY <1>2, MinOfNats
<1>4. Least(1, nbpools, size) = Min(S)
  BY <1>2 DEF Least
<1>5. CASE size <= Bufsize[1]
  <2>1. 1 \in S /\ \A i \in S : 1 <= i
    BY <1>1, <1>5, PoolSizes DEF Enough
  <2>2. Least(1, nbpools, size) = 1
    BY <1>1, <2>1, LeastIs
  <2> QED BY <1>1, <1>4, <1>5, <2>2 DEF findClosestIndex, Enough
<1>6. CASE ~(size <= Bufsize[1])
  <2>1. findClosestIndex(size) = Least(1, nbpools, size)
    BY <1>1, <1>6, SearchFinds DEF findClosestIndex
  <2> QED BY <1>3, <1>4, <2>1 DEF Enough
<1> QED BY <1>5, <1>6

-----------------------------------------------------------------------------
(***************************************************************************)
(* The invariant of the pools.  The processes in getbuf account for the    *)
(* count of the pool's semaphore; a pool that is not made has nothing.     *)
(***************************************************************************)
XPcs == {"app", "init", "getbuf", "take"} \cup UpdatePcs
XCalls == [id : 0 .. poolnum, size : Int, tmp : Int \cup {Unknown}]

XTypes ==
    /\ nbpools \in 0 .. poolnum
    /\ bpsem \in [Pool -> Sem] /\ bpnext \in [Pool -> Seq(Buffers)]
    /\ buffer \in [Buffers -> [owner : Int, size : Int]]
    /\ allocBy \in [Pool -> Int \cup {Unknown}] /\ allocBf \in [Pool -> Int \cup {Unknown}]
    /\ xpc \in [Pid -> XPcs] /\ xlocal \in [Pid -> XCalls]
    /\ lost \in [Pool -> Nat]

(* Every pool has a semaphore of its own. *)
PoolSems ==
    /\ \A id \in 1 .. nbpools : sstate[bpsem[id]] = "USED"
    /\ \A i, j \in 1 .. nbpools : bpsem[i] = bpsem[j] => i = j

(* The calls are for pools that exist. *)
PoolCalls ==
    /\ \A p \in Pid : xpc[p] \notin {"app", "init"} => xlocal[p].id \in 1 .. nbpools
    /\ \A id \in Pool : id > nbpools => lost[id] = 0
    /\ \A b \in Buffers : b[1] > nbpools => buffer[b].owner = NoOwner

(* Until xmalloc_init has made a pool, there is only the main process. *)
Starting ==
    nbpools = 0 => \A p \in Pid : /\ p = NULLPROC \/ xpc[p] = "init" \/ p \in Unused
                                  /\ cont[p] # "kill"

PoolBook(id) ==
    Book(TRUE, scount[bpsem[id]], bpsem[id], Parked, Taking(id), Len(bpnext[id]) - lost[id], TRUE)

PoolBooks == \A id \in 1 .. nbpools : PoolBook(id)

XInv ==
    /\ XTypes /\ PoolSems /\ PoolCalls /\ Starting /\ PoolBooks /\ BuffersPartitioned
    /\ ~xbroken

LEMMA InvClosest == XInv => ClosestIsSmallest
<1> SUFFICES ASSUME XInv, nbpools > 0, NEW size \in 1 .. Bufsize[nbpools]
             PROVE  findClosestIndex(size) = Min({i \in 1 .. nbpools : Bufsize[i] >= size})
  BY DEF ClosestIsSmallest
<1>1. nbpools \in Pool
  BY PoolSizes DEF XInv, XTypes
<1> QED BY <1>1, ClosestFound

(* The processes in getbuf are those that wait and those that have been    *)
(* released.                                                               *)
LEMMA TakingCounted ==
    ASSUME IInv, XInv, NEW id \in 1 .. nbpools
    PROVE  /\ Waiting(id) = Waiters(bpsem[id]) /\ Waiting(id) \subseteq Taking(id)
           /\ Cardinality(Taking(id) \ Waiting(id)) \in Nat /\ Cardinality(Waiting(id)) \in Nat
           /\ Cardinality(Taking(id))
                 = Cardinality(Taking(id) \ Waiting(id)) + Cardinality(Waiting(id))
<1> DEFINE C == Taking(id)
           W == Waiting(id)
           s == bpsem[id]
<1>1. s \in Sem
  BY PoolSizes DEF XInv, XTypes
<1>2. C \subseteq Pid /\ (\A p \in Pid : Parked[p] = s => p \in C)
      /\ \A p \in C : Parked[p] \in {s, NoSem}
  BY DEF XInv, PoolBooks, PoolBook, Book
<1>3. \A p \in Pid : prstate[p] = "WAIT" <=> Parked[p] # NoSem
  BY ParkedTypes, NoSemIsNone
<1>4. W = Waiters(s)
  BY <1>1, <1>2, <1>3, NoSemIsNone DEF Waiting, Waiters
<1>5. W \subseteq C
  BY DEF Waiting
<1> HIDE DEF C, W
<1>6. IsFiniteSet(C) /\ Cardinality(C) \in Nat /\ Cardinality(C \ W) \in Nat /\ Cardinality(W) \in Nat
  BY <1>2, <1>5, PidSets
<1>7. Cardinality(C \ W) = Cardinality(C) - Cardinality(C \cap W)
  BY <1>6, FS_Difference
<1>8. C \cap W = W
  BY <1>5
<1>9. Cardinality(C) = Cardinality(C \ W) + Cardinality(W)
  <2> DEFINE c == Cardinality(C)
             d == Cardinality(C \ W)
             w == Cardinality(W)
  <2>1. c \in Nat /\ d \in Nat /\ w \in Nat /\ d = c - w
    BY <1>6, <1>7, <1>8
  <2> HIDE DEF c, d, w
  <2>2. c = d + w
    BY <2>1
  <2> QED BY <2>2 DEF c, d, w
<1> QED BY <1>4, <1>5, <1>6, <1>9 DEF C, W

LEMMA InvPoolCount == IInv /\ XInv => PoolCount
<1> SUFFICES ASSUME IInv, XInv, NEW id \in 1 .. nbpools
             PROVE  scount[bpsem[id]] = Len(bpnext[id]) - Promised(id) - Cardinality(Waiting(id))
  BY DEF PoolCount, XInv
<1> DEFINE c == Cardinality(Taking(id))
           d == Cardinality(Taking(id) \ Waiting(id))
           w == Cardinality(Waiting(id))
           l == Len(bpnext[id])
           n == scount[bpsem[id]]
           o == lost[id]
<1>1. c = d + w /\ d \in Nat /\ w \in Nat
  BY TakingCounted
<1>2. id \in Pool
  BY PoolSizes DEF XInv, XTypes
<1>3. bpsem[id] \in Sem /\ bpnext[id] \in Seq(Buffers) /\ o \in Nat
  BY <1>2 DEF XInv, XTypes
<1>4. l \in Nat /\ n \in Int
  BY <1>3, ParkedTypes
<1>5. n + c = l - o
  BY DEF XInv, PoolBooks, PoolBook, Book, UpTo
<1>6. Promised(id) = d + o
  BY DEF Promised
<1> HIDE DEF c, d, w, l, n, o
<1>7. n = l - (d + o) - w
  BY <1>1, <1>3, <1>4, <1>5
<1> QED BY <1>6, <1>7 DEF n, l, w

-----------------------------------------------------------------------------
(***************************************************************************)
(* The steps of the pools.                                                 *)
(***************************************************************************)
LEMMA PoolInit == XInit => IInv /\ XInv
<1> SUFFICES ASSUME XInit PROVE IInv /\ XInv
  OBVIOUS
<1>1. IInv
  BY InitIInv DEF XInit
<1>2. nbpools = 0 /\ poolnum \in Nat
  BY PoolSizes DEF XInit
<1>3. XTypes
  <2>1. 0 \in Sem
    BY NSEMAssumption DEF Sem
  <2>2. InList \in [owner : Int, size : Int]
    BY DEF InList, NoOwner
  <2>3. NoCall \in XCalls
    BY <1>2 DEF NoCall, XCalls
  <2>4. bpsem \in [Pool -> Sem] /\ bpnext \in [Pool -> Seq(Buffers)]
    BY <2>1 DEF XInit
  <2>5. buffer \in [Buffers -> [owner : Int, size : Int]]
    <3> DEFINE R == [owner : Int, size : Int]
    <3>1. InList \in R
      BY <2>2
    <3> HIDE DEF R
    <3>2. buffer \in [Buffers -> R]
      BY <3>1 DEF XInit
    <3> QED BY <3>2 DEF R
  <2>6. allocBy \in [Pool -> Int \cup {Unknown}] /\ allocBf \in [Pool -> Int \cup {Unknown}]
        /\ lost \in [Pool -> Nat]
    BY DEF XInit
  <2>7. xpc \in [Pid -> XPcs] /\ xlocal \in [Pid -> XCalls]
    BY <2>3 DEF XInit, XPcs
  <2> QED BY <1>2, <2>4, <2>5, <2>6, <2>7 DEF XTypes
<1>4. PoolSems /\ PoolBooks /\ BuffersPartitioned
  <2>1. 1 .. nbpools = {}
    BY <1>2
  <2> QED BY <2>1 DEF PoolSems, PoolBooks, BuffersPartitioned
<1>5. PoolCalls
  <2>1. \A p \in Pid : xpc[p] \in {"app", "init"}
    BY DEF XInit
  <2>2. \A b \in Buffers : buffer[b].owner = NoOwner
    BY DEF XInit, InList
  <2>3. \A id \in Pool : lost[id] = 0
    BY DEF XInit
  <2> QED BY <2>1, <2>2, <2>3 DEF PoolCalls
<1>6. Starting
  <2>1. \A p \in Pid : p = NULLPROC \/ p = MAIN \/ prstate[p] = "FREE"
    BY DEF XInit, Init
  <2>2. \A p \in Pid : p = MAIN => xpc[p] = "init"
    BY DEF XInit
  <2>3. \A p \in Pid : cont[p] # "kill"
    BY DEF XInit, Init
  <2> QED BY <2>1, <2>2, <2>3 DEF Starting, Unused
<1> QED BY <1>1, <1>3, <1>4, <1>5, <1>6 DEF XInv, XInit

(* Only the main process, in xmalloc_init, runs before there is a pool. *)
LEMMA PoolThere ==
    ASSUME IInv, XInv, \/ xpc[currpid] = "app" /\ currpid # NULLPROC
                       \/ xpc[currpid] \notin {"app", "init"}
                       \/ cont[currpid] = "kill"
    PROVE  nbpools \in Pool /\ nbpools # 0
<1>1. currpid \in Pid /\ currpid \notin Unused
  BY CurrentRuns
<1>2. CASE nbpools = 0
  <2>1. /\ currpid = NULLPROC \/ xpc[currpid] = "init" \/ currpid \in Unused
        /\ cont[currpid] # "kill"
    BY <1>1, <1>2 DEF XInv, Starting
  <2>2. xpc[currpid] \notin {"app", "init"} => xlocal[currpid].id \in 1 .. nbpools
    BY <1>1 DEF XInv, PoolCalls
  <2> QED BY <1>1, <1>2, <2>1, <2>2
<1>3. CASE nbpools # 0
  BY <1>3, PoolSizes DEF XInv, XTypes
<1> QED BY <1>2, <1>3

(* A step outside getbuf and freebuf. *)
LEMMA BufQuietStep ==
    ASSUME IInv, XInv, NoEffect, UNCHANGED <<nbpools, bpsem, bpnext, buffer, lost, xbroken>>,
           XTypes', Starting',
           \A p \in Pid : xpc'[p] \notin {"app", "init"} => xlocal'[p].id \in 1 .. nbpools,
           \A p \in Pid : /\ xpc'[p] = "take" <=> xpc[p] = "take"
                          /\ xpc[p] = "take" => xlocal'[p].id = xlocal[p].id
    PROVE  XInv'
<1>1. PoolSems'
  BY DEF XInv, PoolSems, NoEffect
<1>2. PoolCalls'
  BY DEF XInv, PoolCalls
<1>3. \A id : Taking(id)' = Taking(id)
  BY DEF Taking
<1>4. PoolBooks'
  BY <1>3 DEF XInv, PoolBooks, PoolBook, NoEffect
<1>5. BuffersPartitioned'
  BY DEF XInv, BuffersPartitioned
<1>6. ~xbroken'
  BY Zenon DEF XInv
<1> QED BY <1>1, <1>2, <1>4, <1>5, <1>6 DEF XInv

(* create, resume, kill and the clock. *)
LEMMA OutsideStep ==
    ASSUME IInv, XInv, NoEffect, UNCHANGED xvars, Starting'
    PROVE  XInv'
<1>1. UNCHANGED <<nbpools, bpsem, bpnext, buffer, lost, xbroken, xpc, xlocal, allocBy, allocBf>>
  BY DEF xvars
<1>2. XTypes'
  BY <1>1 DEF XInv, XTypes
<1>3. \A p \in Pid : xpc'[p] \notin {"app", "init"} => xlocal'[p].id \in 1 .. nbpools
  BY <1>1 DEF XInv, PoolCalls
<1>4. \A p \in Pid : /\ xpc'[p] = "take" <=> xpc[p] = "take"
                     /\ xpc[p] = "take" => xlocal'[p].id = xlocal[p].id
  BY <1>1
<1>5. UNCHANGED <<nbpools, bpsem, bpnext, buffer, lost, xbroken>>
  BY <1>1, Zenon
<1> QED BY <1>2, <1>3, <1>4, <1>5, BufQuietStep, Zenon

LEMMA AroundStep ==
    ASSUME IInv, XInv, XSpawn \/ XStart \/ XPreempt \/ KillOther
    PROVE  IInv' /\ XInv'
<1>1. ASSUME NEW prio \in Prios, XIn("app"), Create(prio), UNCHANGED xvars
      PROVE  IInv' /\ XInv'
  <2>1. currpid # NULLPROC /\ xpc[currpid] = "app"
    BY <1>1 DEF Create, Calling, XIn
  <2>2. nbpools # 0
    BY <2>1, PoolThere
  <2>3. Starting'
    BY <1>1, <2>2 DEF Starting, xvars
  <2> QED BY <1>1, <2>3, CreateEffect, OutsideStep
<1>2. ASSUME NEW p \in Pid, XIn("app"), Resume(p), UNCHANGED xvars
      PROVE  IInv' /\ XInv'
  <2>1. currpid # NULLPROC /\ xpc[currpid] = "app"
    BY <1>2 DEF Resume, Calling, XIn
  <2>2. nbpools # 0
    BY <2>1, PoolThere
  <2>3. Starting'
    BY <1>2, <2>2 DEF Starting, xvars
  <2> QED BY <1>2, <2>3, ResumeEffect, OutsideStep
<1>3. ASSUME NEW p \in Pid, XCaller, Kill(p), UNCHANGED xvars
      PROVE  IInv' /\ XInv'
  <2>1. currpid # NULLPROC /\ xpc[currpid] = "app"
    BY <1>3 DEF XCaller, XIn
  <2>2. nbpools # 0
    BY <2>1, PoolThere
  <2>3. Starting'
    BY <1>3, <2>2 DEF Starting, xvars
  <2> QED BY <1>3, <2>3, KillEffect, OutsideStep
<1>4. ASSUME Tick, UNCHANGED xvars
      PROVE  IInv' /\ XInv'
  <2>1. Unused' = Unused /\ cont' = cont
    BY <1>4, TickSets DEF Tick, kvars
  <2>2. Starting'
    BY <1>4, <2>1 DEF XInv, Starting, xvars
  <2> QED BY <1>4, <2>2, TickEffect, OutsideStep
<1> QED BY <1>1, <1>2, <1>3, <1>4 DEF XSpawn, XStart, XPreempt, KillOther

(* What holds when the current process is in the code of the pools. *)
LEMMA PoolCode ==
    ASSUME IInv, XInv, NEW pc, XIn(pc)
    PROVE  /\ currpid \in Pid /\ xpc[currpid] = pc /\ Parked[currpid] = NoSem
           /\ cont[currpid] = "user" /\ \A s : ~InReset(s)
           /\ mine \in XCalls /\ xpc \in [Pid -> XPcs] /\ xlocal \in [Pid -> XCalls]
           /\ pc \notin {"app", "init"} => mine.id \in 1 .. nbpools /\ mine.id \in Pool
                                           /\ nbpools \in Pool /\ nbpools # 0
<1>1. currpid \in Pid /\ Parked[currpid] = NoSem
  BY ParkedTypes
<1>2. xpc[currpid] = pc /\ cont[currpid] = "user"
  BY DEF XIn, Interruptible
<1>3. \A s : ~InReset(s)
  BY <1>2 DEF InReset
<1>4. mine \in XCalls /\ xpc \in [Pid -> XPcs] /\ xlocal \in [Pid -> XCalls]
  BY <1>1 DEF XInv, XTypes, mine
<1>5. ASSUME pc \notin {"app", "init"}
      PROVE  mine.id \in 1 .. nbpools /\ mine.id \in Pool /\ nbpools \in Pool /\ nbpools # 0
  <2>1. nbpools \in Pool /\ nbpools # 0
    BY <1>2, <1>5, PoolThere
  <2>2. mine.id \in 1 .. nbpools
    BY <1>1, <1>2, <1>5 DEF XInv, PoolCalls, mine
  <2> QED BY <2>1, <2>2, PoolSizes
<1> QED BY <1>1, <1>2, <1>3, <1>4, <1>5

(* A step that is not one of the process manager's. *)
LEMMA KernelAlone ==
    ASSUME IInv, UNCHANGED vars
    PROVE  IInv' /\ NoEffect /\ cont' = cont /\ Unused' = Unused
<1>1. prstate' = prstate /\ prsem' = prsem /\ scount' = scount /\ sstate' = sstate /\ cont' = cont
  BY DEF vars, sched, semvars, kvars
<1>2. IInv'
  BY StutterIInv
<1> QED BY <1>1, <1>2 DEF NoEffect, Parked, Unused

(* The current process goes from one place to another, neither of which is *)
(* in getbuf.                                                              *)
LEMMA MoveStep ==
    ASSUME IInv, XInv, NEW from, XIn(from), NEW to \in XPcs, {from, to} \cap {"take"} = {},
           nbpools # 0, UNCHANGED <<vars, nbpools, bpsem, bpnext, buffer, lost, xbroken>>,
           allocBy' \in [Pool -> Int \cup {Unknown}], allocBf' \in [Pool -> Int \cup {Unknown}],
           xpc' = [xpc EXCEPT ![currpid] = to], xlocal' \in [Pid -> XCalls],
           \A p \in Pid : p # currpid => xlocal'[p].id = xlocal[p].id,
           to \notin {"app", "init"} => xlocal'[currpid].id \in 1 .. nbpools
    PROVE  IInv' /\ XInv'
<1>1. IInv' /\ NoEffect
  BY KernelAlone
<1>2. currpid \in Pid /\ xpc[currpid] = from /\ xpc \in [Pid -> XPcs]
  BY PoolCode
<1>3. xpc' \in [Pid -> XPcs] /\ xpc'[currpid] = to /\ \A p \in Pid : p # currpid => xpc'[p] = xpc[p]
  BY <1>2
<1>4. XTypes'
  BY <1>3 DEF XInv, XTypes
<1>5. Starting'
  BY DEF Starting
<1>6. \A p \in Pid : xpc'[p] \notin {"app", "init"} => xlocal'[p].id \in 1 .. nbpools
  BY <1>2, <1>3 DEF XInv, PoolCalls
<1>7. \A p \in Pid : /\ xpc'[p] = "take" <=> xpc[p] = "take"
                     /\ xpc[p] = "take" => xlocal'[p].id = xlocal[p].id
  BY <1>2, <1>3
<1>8. UNCHANGED <<nbpools, bpsem, bpnext, buffer, lost, xbroken>>
  BY Zenon
<1> QED BY <1>1, <1>4, <1>5, <1>6, <1>7, <1>8, BufQuietStep

(* XLocal: the local variables of the current process alone. *)
LEMMA LocalKept ==
    ASSUME IInv, XInv, NEW r \in XCalls, XLocal(r)
    PROVE  /\ xlocal' \in [Pid -> XCalls] /\ xlocal'[currpid] = r
           /\ \A p \in Pid : p # currpid => xlocal'[p].id = xlocal[p].id
<1>1. currpid \in Pid /\ xlocal \in [Pid -> XCalls]
  BY CurrentRuns DEF XInv, XTypes
<1> QED BY <1>1 DEF XLocal

LEMMA CallRecords ==
    /\ NoCall \in XCalls
    /\ \A i \in 0 .. poolnum, n \in Int, t \in Int \cup {Unknown} :
          [id |-> i, size |-> n, tmp |-> t] \in XCalls /\ [id |-> i, size |-> n, tmp |-> t].id = i
    /\ \A r \in XCalls, t \in Int \cup {Unknown} : [r EXCEPT !.tmp = t] \in XCalls
                                                   /\ [r EXCEPT !.tmp = t].id = r.id
    /\ \A r \in XCalls : r.id \in 0 .. poolnum /\ r.size \in Int /\ r.tmp \in Int \cup {Unknown}
  BY PoolSizes DEF XCalls, NoCall

LEMMA XmallocInitEndStep ==
    ASSUME IInv, XInv, XmallocInitEnd
    PROVE  IInv' /\ XInv'
<1>1. XIn("init") /\ UNCHANGED <<vars, nbpools, bpsem, bpnext, buffer, lost, xbroken>>
      /\ xpc' = [xpc EXCEPT ![currpid] = "app"] /\ XLocal(NoCall) /\ UNCHANGED <<allocBy, allocBf>>
  BY Zenon DEF XmallocInitEnd, XReturn, XGoTo
<1>0. nbpools # 0
  BY PoolSizes DEF XmallocInitEnd, XInv, XTypes
<1>2. "app" \in XPcs /\ {"init", "app"} \cap {"take"} = {}
  BY DEF XPcs
<1>3. allocBy' \in [Pool -> Int \cup {Unknown}] /\ allocBf' \in [Pool -> Int \cup {Unknown}]
  BY <1>1 DEF XInv, XTypes
<1>4. xlocal' \in [Pid -> XCalls] /\ \A p \in Pid : p # currpid => xlocal'[p].id = xlocal[p].id
  BY <1>1, CallRecords, LocalKept
<1> QED BY <1>0, <1>1, <1>2, <1>3, <1>4, MoveStep

LEMMA XmallocStep ==
    ASSUME IInv, XInv, NEW size \in Sizes, Xmalloc(size)
    PROVE  IInv' /\ XInv'
<1> DEFINE id == findClosestIndex(size)
           r == [id |-> id, size |-> size, tmp |-> 0]
<1>1. XIn("app") /\ currpid # NULLPROC /\ size > 0 /\ size <= Bufsize[nbpools]
      /\ UNCHANGED <<vars, nbpools, bpsem, bpnext, buffer, lost, xbroken>>
      /\ xpc' = [xpc EXCEPT ![currpid] = "getbuf"] /\ XLocal(r) /\ UNCHANGED <<allocBy, allocBf>>
  BY Zenon DEF Xmalloc, XCaller, XGoTo
<1>2. nbpools \in Pool /\ nbpools # 0
  BY <1>1, PoolCode, PoolThere
<1>3. size \in 1 .. Bufsize[nbpools] /\ size \in Int
  BY <1>1, <1>2, PoolSizes, BufSizesAssumption
<1>4. id \in 1 .. nbpools
  BY <1>2, <1>3, ClosestFound
<1> HIDE DEF id
<1>5. id \in 0 .. poolnum
  BY <1>2, <1>4, PoolSizes
<1>6. r \in XCalls /\ r.id = id
  BY <1>3, <1>5, CallRecords
<1> HIDE DEF r
<1>7. "getbuf" \in XPcs /\ {"app", "getbuf"} \cap {"take"} = {}
  BY DEF XPcs
<1>8. allocBy' \in [Pool -> Int \cup {Unknown}] /\ allocBf' \in [Pool -> Int \cup {Unknown}]
  BY <1>1 DEF XInv, XTypes
<1>9. xlocal' \in [Pid -> XCalls] /\ (\A p \in Pid : p # currpid => xlocal'[p].id = xlocal[p].id)
      /\ xlocal'[currpid].id \in 1 .. nbpools
  BY <1>1, <1>4, <1>6, LocalKept
<1> QED BY <1>1, <1>2, <1>7, <1>8, <1>9, MoveStep

(* The updates of the two counters. *)
LEMMA LoadStep ==
    ASSUME IInv, XInv, LoadBy \/ LoadBf
    PROVE  IInv' /\ XInv'
<1>1. ASSUME NEW from \in UpdatePcs, NEW to \in UpdatePcs, XIn(from),
             NEW t \in Int \cup {Unknown}, XLocal([mine EXCEPT !.tmp = t]),
             xpc' = [xpc EXCEPT ![currpid] = to],
             UNCHANGED <<vars, nbpools, bpsem, bpnext, buffer, lost, xbroken, allocBy, allocBf>>
      PROVE  IInv' /\ XInv'
  <2>1. {from, to} \cap {"take"} = {} /\ from \notin {"app", "init"} /\ to \in XPcs
    BY DEF UpdatePcs, XPcs
  <2>2. mine \in XCalls /\ mine.id \in 1 .. nbpools /\ nbpools # 0
    BY <1>1, <2>1, PoolCode
  <2> DEFINE r == [mine EXCEPT !.tmp = t]
  <2>3. r \in XCalls /\ r.id = mine.id
    BY <2>2, CallRecords
  <2> HIDE DEF r
  <2>4. XLocal(r)
    BY <1>1 DEF r
  <2>5. xlocal' \in [Pid -> XCalls] /\ (\A p \in Pid : p # currpid => xlocal'[p].id = xlocal[p].id)
        /\ xlocal'[currpid].id \in 1 .. nbpools
    BY <2>2, <2>3, <2>4, LocalKept
  <2>6. allocBy' \in [Pool -> Int \cup {Unknown}] /\ allocBf' \in [Pool -> Int \cup {Unknown}]
    BY <1>1 DEF XInv, XTypes
  <2>7. UNCHANGED <<vars, nbpools, bpsem, bpnext, buffer, lost, xbroken>>
    BY <1>1, Zenon
  <2> QED BY <1>1, <2>1, <2>2, <2>5, <2>6, <2>7, MoveStep
<1>2. CASE LoadBy
  <2>1. mine.id \in Pool
    BY <1>2, PoolCode DEF LoadBy
  <2>2. allocBy[mine.id] \in Int \cup {Unknown}
    BY <2>1 DEF XInv, XTypes
  <2>3. UNCHANGED <<vars, nbpools, bpsem, bpnext, buffer, lost, xbroken, allocBy, allocBf>>
    BY <1>2, Zenon DEF LoadBy
  <2> QED BY <1>1, <1>2, <2>2, <2>3 DEF LoadBy, XGoTo, UpdatePcs
<1>3. CASE LoadBf
  <2>1. mine.id \in Pool
    BY <1>3, PoolCode DEF LoadBf
  <2>2. allocBf[mine.id] \in Int \cup {Unknown}
    BY <2>1 DEF XInv, XTypes
  <2>3. UNCHANGED <<vars, nbpools, bpsem, bpnext, buffer, lost, xbroken, allocBy, allocBf>>
    BY <1>3, Zenon DEF LoadBf
  <2> QED BY <1>1, <1>3, <2>2, <2>3 DEF LoadBf, XGoTo, UpdatePcs
<1> QED BY <1>2, <1>3

LEMMA SpoiltKeeps ==
    ASSUME IInv, XInv, NEW pc
    PROVE  /\ Spoilt(pc) \in [Pid -> XCalls]
           /\ \A p \in Pid : Spoilt(pc)[p].id = xlocal[p].id
<1>1. xlocal \in [Pid -> XCalls] /\ Unknown \in Int \cup {Unknown}
  BY DEF XInv, XTypes
<1>2. ASSUME NEW p \in Pid
      PROVE  Spoilt(pc)[p] \in XCalls /\ Spoilt(pc)[p].id = xlocal[p].id
  <2>1. /\ xlocal[p] \in XCalls
        /\ Spoilt(pc)[p] = xlocal[p] \/ Spoilt(pc)[p] = [xlocal[p] EXCEPT !.tmp = Unknown]
    BY <1>1 DEF Spoilt
  <2>2. CASE Spoilt(pc)[p] = xlocal[p]
    BY <2>1, <2>2
  <2>3. CASE Spoilt(pc)[p] = [xlocal[p] EXCEPT !.tmp = Unknown]
    <3> DEFINE r == xlocal[p]
    <3>1. r \in XCalls
      BY <2>1
    <3> HIDE DEF r
    <3>2. [r EXCEPT !.tmp = Unknown] \in XCalls /\ [r EXCEPT !.tmp = Unknown].id = r.id
      BY <1>1, <3>1, CallRecords
    <3> QED BY <2>3, <3>2 DEF r
  <2> QED BY <2>1, <2>2, <2>3
<1>3. Spoilt(pc) = [p \in Pid |-> Spoilt(pc)[p]]
  BY DEF Spoilt
<1> QED BY <1>2, <1>3

LEMMA StoreStep ==
    ASSUME IInv, XInv, StoreBy \/ StoreBf
    PROVE  IInv' /\ XInv'
<1>1. \A n \in Int \cup {Unknown}, d \in Int : Plus(n, d) \in Int \cup {Unknown}
  BY DEF Plus
<1>2. \A d \in Int : Step(d) \in Int
  BY DEF Step
<1>3. ASSUME NEW from \in {"by2", "bf2"}, NEW to \in {"bf", "app"}, XIn(from),
             NEW d \in Int,
             UNCHANGED <<vars, nbpools, bpsem, bpnext, buffer, lost, xbroken>>,
             \/ allocBy' = [allocBy EXCEPT ![mine.id] = Plus(mine.tmp, d)] /\ allocBf' = allocBf
             \/ allocBf' = [allocBf EXCEPT ![mine.id] = Plus(mine.tmp, d)] /\ allocBy' = allocBy,
             xpc' = [xpc EXCEPT ![currpid] = to],
             \/ xlocal' = Spoilt(from)
             \/ to = "app" /\ xlocal' = [Spoilt(from) EXCEPT ![currpid] = NoCall]
      PROVE  IInv' /\ XInv'
  <2>1. {from, to} \cap {"take"} = {} /\ from \notin {"app", "init"} /\ to \in XPcs
    BY DEF UpdatePcs, XPcs
  <2>2. mine \in XCalls /\ mine.id \in 1 .. nbpools /\ nbpools # 0 /\ currpid \in Pid
    BY <1>3, <2>1, PoolCode
  <2>3. Plus(mine.tmp, d) \in Int \cup {Unknown}
    BY <1>1, <2>2, CallRecords
  <2>4. allocBy' \in [Pool -> Int \cup {Unknown}] /\ allocBf' \in [Pool -> Int \cup {Unknown}]
    <3> DEFINE I == Int \cup {Unknown}
               t == Plus(mine.tmp, d)
    <3>1. allocBy \in [Pool -> I] /\ allocBf \in [Pool -> I] /\ t \in I
      BY <2>3 DEF XInv, XTypes
    <3>2. \/ allocBy' = [allocBy EXCEPT ![mine.id] = t] /\ allocBf' = allocBf
          \/ allocBf' = [allocBf EXCEPT ![mine.id] = t] /\ allocBy' = allocBy
      BY <1>3
    <3> HIDE DEF I, t
    <3>3. allocBy' \in [Pool -> I] /\ allocBf' \in [Pool -> I]
      BY <3>1, <3>2
    <3> QED BY <3>3 DEF I
  <2>5. Spoilt(from) \in [Pid -> XCalls] /\ \A p \in Pid : Spoilt(from)[p].id = xlocal[p].id
    BY SpoiltKeeps
  <2>6. xlocal' \in [Pid -> XCalls] /\ (\A p \in Pid : p # currpid => xlocal'[p].id = xlocal[p].id)
        /\ (to \notin {"app", "init"} => xlocal'[currpid].id \in 1 .. nbpools)
    <3> DEFINE S == Spoilt(from)
    <3>1. S \in [Pid -> XCalls] /\ \A p \in Pid : S[p].id = xlocal[p].id
      BY <2>5
    <3>2. xlocal' = S \/ (to = "app" /\ xlocal' = [S EXCEPT ![currpid] = NoCall])
      BY <1>3
    <3>3. xlocal[currpid].id \in 1 .. nbpools
      BY <2>2 DEF mine
    <3> HIDE DEF S
    <3>4. CASE xlocal' = S
      BY <2>2, <3>1, <3>3, <3>4
    <3>5. CASE to = "app" /\ xlocal' = [S EXCEPT ![currpid] = NoCall]
      BY <2>2, <3>1, <3>5, CallRecords
    <3> QED BY <3>2, <3>4, <3>5
  <2> QED BY <1>3, <2>1, <2>2, <2>4, <2>6, MoveStep
<1>4. CASE StoreBy
  <2>1. mine \in XCalls
    BY <1>4, PoolCode DEF StoreBy
  <2>2. mine.size \in Int
    BY <2>1, CallRecords
  <2>3. UNCHANGED <<vars, nbpools, bpsem, bpnext, buffer, lost, xbroken>>
    BY <1>4, Zenon DEF StoreBy
  <2> QED BY <1>3, <1>4, <2>2, <2>3 DEF StoreBy, XGoTo
<1>5. CASE StoreBf
  <2>1. mine \in XCalls
    BY <1>5, PoolCode DEF StoreBf
  <2>2. Step(mine.size) \in Int
    BY <1>2, <2>1, CallRecords
  <2>3. UNCHANGED <<vars, nbpools, bpsem, bpnext, buffer, lost, xbroken>>
    BY <1>5, Zenon DEF StoreBf
  <2> QED BY <1>3, <1>5, <2>2, <2>3 DEF StoreBf, XGoTo
<1> QED BY <1>4, <1>5

(* The account of a pool a step has nothing to do with. *)
LEMMA OtherPool ==
    ASSUME XInv, NEW i \in 1 .. nbpools, bpsem'[i] = bpsem[i], bpnext'[i] = bpnext[i],
           lost'[i] = lost[i], Taking(i)' = Taking(i), scount'[bpsem[i]] = scount[bpsem[i]],
           \A x \in Pid : /\ Parked'[x] = bpsem[i] => Parked[x] = bpsem[i]
                          /\ x \in Taking(i) => Parked'[x] \in {Parked[x], NoSem}
    PROVE  PoolBook(i)'
<1>1. Book(TRUE, scount[bpsem[i]], bpsem[i], Parked, Taking(i), Len(bpnext[i]) - lost[i], TRUE)
  BY DEF XInv, PoolBooks, PoolBook
<1> DEFINE s == bpsem[i]
           n == scount[bpsem[i]]
           T == Taking(i)
           l == Len(bpnext[i]) - lost[i]
           p2 == Parked'
<1>2. Book(TRUE, n, s, Parked, T, l, TRUE)
  BY <1>1
<1>3. \A x \in Pid : (p2[x] = s => Parked[x] = s) /\ (x \in T => p2[x] \in {Parked[x], NoSem})
  OBVIOUS
<1> HIDE DEF s, n, T, l, p2
<1>4. Book(TRUE, n, s, p2, T, l, TRUE)
  BY <1>2, <1>3, BookOther
<1> QED BY <1>4 DEF s, n, T, l, p2, PoolBook

(* What the account of a pool is made of. *)
LEMMA BookParts ==
    ASSUME IInv, XInv, NEW id \in 1 .. nbpools
    PROVE  /\ id \in Pool /\ bpsem[id] \in Sem /\ bpsem[id] # NoSem /\ scount[bpsem[id]] \in Int
           /\ bpnext[id] \in Seq(Buffers) /\ Len(bpnext[id]) \in Nat /\ lost[id] \in Nat
           /\ Len(bpnext[id]) - lost[id] \in Int /\ Taking(id) \subseteq Pid
           /\ Book(TRUE, scount[bpsem[id]], bpsem[id], Parked, Taking(id),
                   Len(bpnext[id]) - lost[id], TRUE)
           /\ \A i \in 1 .. nbpools : i # id => bpsem[i] # bpsem[id]
<1>1. id \in Pool
  BY PoolSizes DEF XInv, XTypes
<1>2. bpsem[id] \in Sem /\ bpnext[id] \in Seq(Buffers) /\ lost[id] \in Nat
  BY <1>1 DEF XInv, XTypes
<1>3. Len(bpnext[id]) \in Nat /\ scount[bpsem[id]] \in Int
  BY <1>2, ParkedTypes
<1>4. Len(bpnext[id]) - lost[id] \in Int
  BY <1>2, <1>3
<1>5. Book(TRUE, scount[bpsem[id]], bpsem[id], Parked, Taking(id), Len(bpnext[id]) - lost[id], TRUE)
  BY DEF XInv, PoolBooks, PoolBook
<1>6. \A i \in 1 .. nbpools : i # id => bpsem[i] # bpsem[id]
  BY DEF XInv, PoolSems
<1> QED BY <1>1, <1>2, <1>3, <1>4, <1>5, <1>6, NoSemIsNone DEF Taking

LEMMA GetBufStep ==
    ASSUME IInv, XInv, GetBuf
    PROVE  IInv' /\ XInv'
<1>0. PICK id : id = mine.id
  OBVIOUS
<1> DEFINE s == bpsem[id]
<1>1. XIn("getbuf") /\ Wait(s) /\ xpc' = [xpc EXCEPT ![currpid] = "take"]
      /\ UNCHANGED <<nbpools, bpsem, bpnext, buffer, allocBy, allocBf, xlocal, xbroken, lost>>
  BY <1>0, Zenon DEF GetBuf, XGoTo
<1>2. /\ currpid \in Pid /\ xpc[currpid] = "getbuf" /\ Parked[currpid] = NoSem
      /\ xpc \in [Pid -> XPcs] /\ id \in 1 .. nbpools /\ nbpools # 0
  BY <1>0, <1>1, PoolCode
<1>3. s \in Sem
  BY <1>2, BookParts
<1>4. /\ IInv' /\ sstate' = sstate /\ scount' = [scount EXCEPT ![s] = @ - 1]
      /\ \A x \in Pid : Parked'[x] = Parked[x] \/ (x = currpid /\ Parked'[x] = s)
  BY <1>1, <1>3, WaitEffect
<1>5. "take" \in XPcs
  BY DEF XPcs
<1>6. xpc' \in [Pid -> XPcs] /\ \A p \in Pid : xpc'[p] = IF p = currpid THEN "take" ELSE xpc[p]
  BY <1>1, <1>2, <1>5
<1>7. XTypes'
  BY <1>1, <1>6 DEF XInv, XTypes
<1>8. PoolSems' /\ Starting'
  BY <1>1, <1>2, <1>4 DEF XInv, PoolSems, Starting
<1>9. PoolCalls'
  BY <1>0, <1>1, <1>2, <1>6 DEF XInv, PoolCalls, mine
<1>10. BuffersPartitioned'
  BY <1>1 DEF XInv, BuffersPartitioned
<1>11. /\ currpid \notin Taking(id) /\ Taking(id)' = Taking(id) \cup {currpid}
       /\ \A i : i # id => Taking(i)' = Taking(i) /\ currpid \notin Taking(i)
  BY <1>0, <1>1, <1>2, <1>6 DEF Taking, mine
<1>12. PoolBook(id)'
  <2> DEFINE n == scount[s]
             T == Taking(id)
             l == Len(bpnext[id]) - lost[id]
             p2 == Parked'
  <2>1. Book(TRUE, n, s, Parked, T, l, TRUE) /\ n \in Int /\ l \in Int
    BY <1>2, BookParts
  <2>2. \A x \in Pid : p2[x] = Parked[x] \/ (x = currpid /\ p2[x] = s)
    BY <1>4
  <2>3. currpid \notin T
    BY <1>11
  <2>4. scount'[s] = n - 1
    BY <1>3, <1>4, ParkedTypes
  <2> HIDE DEF n, T, l, p2, s
  <2>5. Book(TRUE, n - 1, s, p2, T \cup {currpid}, l, TRUE)
    BY <1>2, <2>1, <2>2, <2>3, BookWait
  <2> QED BY <1>1, <1>11, <2>4, <2>5 DEF PoolBook, s, n, T, l, p2
<1>13. ASSUME NEW i \in 1 .. nbpools, i # id
       PROVE  PoolBook(i)'
  <2>1. bpsem[i] # s /\ bpsem[i] \in Sem
    BY <1>2, <1>13, BookParts
  <2>2. scount'[bpsem[i]] = scount[bpsem[i]]
    BY <1>3, <1>4, <2>1, ParkedTypes
  <2>3. Taking(i)' = Taking(i) /\ currpid \notin Taking(i)
    BY <1>11, <1>13
  <2>4. \A x \in Pid : /\ Parked'[x] = bpsem[i] => Parked[x] = bpsem[i]
                       /\ x \in Taking(i) => Parked'[x] \in {Parked[x], NoSem}
    BY <1>4, <2>1, <2>3
  <2>5. bpsem'[i] = bpsem[i] /\ bpnext'[i] = bpnext[i] /\ lost'[i] = lost[i]
    BY <1>1
  <2> QED BY <2>2, <2>3, <2>4, <2>5, OtherPool
<1>14. PoolBooks'
  BY <1>1, <1>12, <1>13 DEF PoolBooks
<1>15. ~xbroken'
  BY <1>1, Zenon DEF XInv
<1> QED BY <1>4, <1>7, <1>8, <1>9, <1>10, <1>14, <1>15 DEF XInv

(* getbuf does not look, but a process that got past wait finds a buffer. *)
LEMMA BufferThere ==
    ASSUME IInv, XInv, XIn("take")
    PROVE  bpnext[mine.id] # <<>> /\ currpid \in Taking(mine.id)
<1> DEFINE id == mine.id
           s == bpsem[id]
           n == Cardinality(Taking(id))
           k == Cardinality(Taking(id) \ Waiting(id))
           w == Cardinality(Waiting(id))
           l == Len(bpnext[id])
           o == lost[id]
<1>1. /\ currpid \in Pid /\ xpc[currpid] = "take" /\ Parked[currpid] = NoSem /\ id \in 1 .. nbpools
      /\ \A u : ~InReset(u)
  BY PoolCode
<1>2. currpid \in Taking(id) /\ currpid \notin Waiting(id)
  <2>1. prstate[currpid] # "WAIT"
    BY <1>1, ParkedTypes, NoSemIsNone
  <2> QED BY <1>1, <2>1 DEF Taking, Waiting, mine
<1> HIDE DEF id
<1>3. s \in Sem /\ l \in Nat /\ o \in Nat
      /\ Book(TRUE, scount[s], s, Parked, Taking(id), l - o, TRUE)
  BY <1>1, BookParts
<1>4. scount[s] + n = l - o
  BY <1>3 DEF Book, UpTo
<1>5. Waiting(id) = Waiters(s) /\ k \in Nat /\ w \in Nat /\ n = k + w /\ Taking(id) \subseteq Pid
  BY <1>1, TakingCounted DEF Taking
<1>6. k # 0
  <2>1. IsFiniteSet(Taking(id) \ Waiting(id))
    BY <1>5, PidSets
  <2> QED BY <1>2, <2>1, FS_EmptySet
<1>7. scount[s] \in Int /\ w = IF scount[s] < 0 THEN -scount[s] ELSE 0
  BY <1>1, <1>3, <1>5, WaitersCounted
<1> HIDE DEF s, n, k, w, l, o
<1>8. l # 0
  BY <1>3, <1>4, <1>5, <1>6, <1>7
<1> QED BY <1>2, <1>8 DEF l, id

LEMMA BufferParts ==
    /\ \A b \in Buffers : b[1] \in Pool
    /\ \A id \in Pool : InPool(id) = {<<id, k>> : k \in 1 .. Bufnumb[id]}
<1>1. \A b : b \in Buffers <=> \E id \in Pool : \E k \in 1 .. Bufnumb[id] : b = <<id, k>>
  BY DEF Buffers
<1>2. \A b \in Buffers : b[1] \in Pool
  BY <1>1
<1>3. ASSUME NEW id \in Pool
      PROVE  InPool(id) = {<<id, k>> : k \in 1 .. Bufnumb[id]}
  <2>1. ASSUME NEW b \in InPool(id) PROVE \E k \in 1 .. Bufnumb[id] : b = <<id, k>>
    BY <1>1, <2>1 DEF InPool
  <2>2. ASSUME NEW k \in 1 .. Bufnumb[id] PROVE <<id, k>> \in InPool(id)
    BY <1>1 DEF InPool
  <2> QED BY <2>1, <2>2
<1> QED BY <1>2, <1>3

(* The buffers of a pool that nobody has. *)
Unowned(id) == {b \in InPool(id) : buffer[b].owner = NoOwner}

(* Only the buffer at hand changes hands. *)
LEMMA OneBuffer ==
    ASSUME XInv, NEW b \in Buffers, NEW owner \in Int, NEW size \in Int,
           buffer' = [buffer EXCEPT ![b] = [owner |-> owner, size |-> size]]
    PROVE  /\ buffer' \in [Buffers -> [owner : Int, size : Int]]
           /\ buffer'[b].owner = owner /\ \A c \in Buffers : c # b => buffer'[c] = buffer[c]
<1> DEFINE R == [owner : Int, size : Int]
           r == [owner |-> owner, size |-> size]
<1>1. buffer \in [Buffers -> R] /\ r \in R /\ r.owner = owner
  BY DEF XInv, XTypes
<1>2. buffer' = [buffer EXCEPT ![b] = r]
  OBVIOUS
<1> HIDE DEF R, r
<1>3. buffer' \in [Buffers -> R] /\ buffer'[b] = r /\ \A c \in Buffers : c # b => buffer'[c] = buffer[c]
  BY <1>1, <1>2
<1> QED BY <1>1, <1>3 DEF R

LEMMA GetBufEndStep ==
    ASSUME IInv, XInv, GetBufEnd
    PROVE  IInv' /\ XInv'
<1>0. PICK id : id = mine.id
  OBVIOUS
<1> DEFINE s == bpsem[id]
           list == bpnext[id]
           h == Head(bpnext[id])
<1>1. XIn("take")
  BY DEF GetBufEnd
<1>2. /\ currpid \in Pid /\ xpc[currpid] = "take" /\ Parked[currpid] = NoSem
      /\ xpc \in [Pid -> XPcs] /\ id \in 1 .. nbpools /\ nbpools # 0 /\ mine \in XCalls
      /\ list # <<>> /\ currpid \in Taking(id)
  BY <1>0, <1>1, PoolCode, BufferThere
<1>3. /\ bpnext' = [bpnext EXCEPT ![id] = Tail(@)]
      /\ buffer' = [buffer EXCEPT ![h] = [owner |-> currpid, size |-> mine.size]]
      /\ xpc' = [xpc EXCEPT ![currpid] = "by"]
      /\ UNCHANGED <<vars, nbpools, bpsem, allocBy, allocBf, xlocal, lost>>
  BY <1>0, <1>2 DEF GetBufEnd, XGoTo, Unlinked
<1>4. ~xbroken'
  <2>1. xbroken' = xbroken
    BY <1>0, <1>2, Zenon DEF GetBufEnd
  <2> QED BY <2>1, Zenon DEF XInv
<1>5. IInv' /\ NoEffect
  BY <1>3, KernelAlone
<1>6. xpc' \in [Pid -> XPcs] /\ \A p \in Pid : xpc'[p] = IF p = currpid THEN "by" ELSE xpc[p]
  <2>1. "by" \in XPcs
    BY DEF XPcs, UpdatePcs
  <2> QED BY <1>2, <1>3, <2>1
<1>7. id \in Pool /\ list \in Seq(Buffers) /\ bpnext \in [Pool -> Seq(Buffers)]
  BY <1>2, BookParts DEF XInv, XTypes
<1>8. OnQueue(list, Unowned(id))
  BY <1>2 DEF XInv, BuffersPartitioned, OnQueue, Unowned
<1>9. /\ h \in Unowned(id) /\ h \in Buffers /\ Tail(list) \in Seq(Buffers)
      /\ Len(Tail(list)) = Len(list) - 1 /\ OnQueue(Tail(list), Unowned(id) \ {h})
  <2> HIDE DEF list
  <2>1. /\ Head(list) \in Unowned(id) /\ Head(list) \in Buffers /\ Tail(list) \in Seq(Buffers)
        /\ Len(Tail(list)) = Len(list) - 1 /\ OnQueue(Tail(list), Unowned(id) \ {Head(list)})
    BY <1>2, <1>7, <1>8, TailOnQueue
  <2> QED BY <2>1 DEF list
<1>10. bpnext' \in [Pool -> Seq(Buffers)] /\ bpnext'[id] = Tail(list)
       /\ \A i \in Pool : i # id => bpnext'[i] = bpnext[i]
  BY <1>3, <1>7, <1>9
<1>11. currpid \in Int /\ currpid # NoOwner
  BY <1>2, NPROCAssumption DEF Pid, NoOwner
<1> HIDE DEF h
<1>12. /\ buffer' \in [Buffers -> [owner : Int, size : Int]]
       /\ buffer'[h].owner = currpid /\ \A c \in Buffers : c # h => buffer'[c] = buffer[c]
  <2>1. mine.size \in Int
    BY <1>2, CallRecords
  <2> QED BY <1>3, <1>9, <1>11, <2>1, OneBuffer
<1>13. XTypes'
  BY <1>3, <1>6, <1>10, <1>12 DEF XInv, XTypes
<1>14. PoolSems' /\ Starting'
  BY <1>2, <1>3, <1>5 DEF XInv, PoolSems, Starting, NoEffect
<1>15. h[1] = id /\ h \in InPool(id)
  BY <1>9 DEF Unowned, InPool
<1>16. PoolCalls'
  <2>1. \A p \in Pid : xpc'[p] \notin {"app", "init"} => xlocal'[p].id \in 1 .. nbpools'
    BY <1>2, <1>3, <1>6 DEF XInv, PoolCalls
  <2>2. \A i \in Pool : i > nbpools' => lost'[i] = 0
    BY <1>3 DEF XInv, PoolCalls
  <2>3. \A b \in Buffers : b[1] > nbpools' => buffer'[b].owner = NoOwner
    <3>1. ~(id > nbpools)
      BY <1>2, PoolSizes DEF XInv, XTypes
    <3> QED BY <1>3, <1>12, <1>15, <3>1 DEF XInv, PoolCalls
  <2> QED BY <2>1, <2>2, <2>3 DEF PoolCalls
<1>17. BuffersPartitioned'
  <2>1. Unowned(id)' = Unowned(id) \ {h}
    BY <1>11, <1>12 DEF Unowned, InPool
  <2>2. ASSUME NEW i \in 1 .. nbpools, i # id PROVE Unowned(i)' = Unowned(i)
    BY <1>12, <1>15, <2>2 DEF Unowned, InPool
  <2>3. ASSUME NEW i \in 1 .. nbpools PROVE OnQueue(bpnext'[i], Unowned(i)')
    <3>1. CASE i = id
      BY <1>9, <1>10, <2>1, <3>1
    <3>2. CASE i # id
      <4>1. i \in Pool /\ OnQueue(bpnext[i], Unowned(i))
        BY PoolSizes DEF XInv, XTypes, BuffersPartitioned, OnQueue, Unowned
      <4> QED BY <1>10, <2>2, <3>2, <4>1
    <3> QED BY <3>1, <3>2
  <2> QED BY <1>3, <2>3 DEF BuffersPartitioned, OnQueue, Unowned
<1>18. /\ Taking(id)' = Taking(id) \ {currpid}
       /\ \A i : i # id => Taking(i)' = Taking(i)
  BY <1>0, <1>2, <1>3, <1>6 DEF Taking, mine
<1>19. PoolBook(id)'
  <2> DEFINE n == scount[s]
             T == Taking(id)
             a == Len(list)
             o == lost[id]
  <2>1. Book(TRUE, n, s, Parked, T, a - o, TRUE) /\ n \in Int /\ a \in Nat /\ o \in Nat /\ s # NoSem
    BY <1>2, BookParts
  <2>2. currpid \in T /\ Parked[currpid] = NoSem
    BY <1>2
  <2>3. scount'[s] = n /\ Len(bpnext'[id]) = a - 1 /\ lost'[id] = o /\ bpsem'[id] = s /\ Parked' = Parked
    BY <1>3, <1>5, <1>9, <1>10 DEF NoEffect
  <2>4. Taking(id)' = T \ {currpid}
    BY <1>18
  <2> HIDE DEF n, T, a, o, s
  <2>5. a - o \in Int /\ (a - o) - 1 = (a - 1) - o
    BY <2>1
  <2>6. Book(TRUE, n, s, Parked, T \ {currpid}, (a - o) - 1, TRUE)
    BY <2>1, <2>2, <2>5, BookTake
  <2> QED BY <2>3, <2>4, <2>5, <2>6 DEF PoolBook
<1>20. ASSUME NEW i \in 1 .. nbpools, i # id
       PROVE  PoolBook(i)'
  <2>1. i \in Pool
    BY BookParts
  <2>2. Taking(i)' = Taking(i)
    BY <1>18, <1>20
  <2>3. /\ bpsem'[i] = bpsem[i] /\ bpnext'[i] = bpnext[i] /\ lost'[i] = lost[i]
        /\ scount' = scount /\ Parked' = Parked
    BY <1>3, <1>5, <1>10, <1>20, <2>1 DEF NoEffect
  <2> QED BY <2>2, <2>3, OtherPool
<1>21. PoolBooks'
  BY <1>3, <1>19, <1>20 DEF PoolBooks
<1> QED BY <1>4, <1>5, <1>13, <1>14, <1>16, <1>17, <1>21 DEF XInv

(* freebuf: the buffer is put at the head of the list before the signal. *)
LEMMA XfreeStep ==
    ASSUME IInv, XInv, NEW b \in Buffers, Xfree(b)
    PROVE  IInv' /\ XInv'
<1>0. PICK id : id = b[1]
  OBVIOUS
<1> DEFINE s == bpsem[id]
           list == bpnext[id]
           r == [id |-> id, size |-> -Recorded(b), tmp |-> 0]
<1>1. /\ XIn("app") /\ currpid # NULLPROC /\ buffer[b].owner = currpid
      /\ bpnext' = [bpnext EXCEPT ![id] = <<b>> \o @]
      /\ buffer' = [buffer EXCEPT ![b] = [owner |-> NoOwner, size |-> 0]]
      /\ XLocal(r) /\ xpc' = [xpc EXCEPT ![currpid] = "by"] /\ Signal(s)
      /\ UNCHANGED <<nbpools, bpsem, allocBy, allocBf, xbroken, lost>>
  BY <1>0, Zenon DEF Xfree, XCaller, XGoTo, InList
<1>2. /\ currpid \in Pid /\ xpc[currpid] = "app" /\ xpc \in [Pid -> XPcs]
      /\ xlocal \in [Pid -> XCalls]
  BY <1>1, PoolCode
<1>3. nbpools \in Pool /\ nbpools # 0
  BY <1>1, <1>2, PoolThere
<1>4. currpid \in Int /\ currpid # NoOwner
  BY <1>2, NPROCAssumption DEF Pid, NoOwner
<1>5. id \in Pool /\ id \in 1 .. nbpools
  <2>1. id \in Pool
    BY <1>0, BufferParts
  <2>2. ~(id > nbpools)
    BY <1>0, <1>1, <1>4 DEF XInv, PoolCalls
  <2> QED BY <1>3, <2>1, <2>2, PoolSizes
<1>6. s \in Sem /\ s # NoSem /\ list \in Seq(Buffers) /\ bpnext \in [Pool -> Seq(Buffers)]
  BY <1>5, BookParts DEF XInv, XTypes
<1>7. /\ IInv' /\ sstate' = sstate /\ scount' = [scount EXCEPT ![s] = @ + 1]
      /\ \A x \in Pid : Parked'[x] = Parked[x] \/ (Parked[x] = s /\ Parked'[x] = NoSem)
  BY <1>1, <1>6, SignalEffect DEF Released
<1>8. xpc' \in [Pid -> XPcs] /\ \A p \in Pid : xpc'[p] = IF p = currpid THEN "by" ELSE xpc[p]
  <2>1. "by" \in XPcs
    BY DEF XPcs, UpdatePcs
  <2> QED BY <1>1, <1>2, <2>1
<1>9. xlocal' \in [Pid -> XCalls] /\ xlocal'[currpid].id = id
      /\ \A p \in Pid : p # currpid => xlocal'[p].id = xlocal[p].id
  <2>1. Recorded(b) \in Int
    BY DEF Recorded, XInv, XTypes
  <2>2. -Recorded(b) \in Int /\ id \in 0 .. poolnum
    BY <1>5, <2>1, PoolSizes
  <2>3. r \in XCalls /\ r.id = id
    BY <2>2, CallRecords
  <2> HIDE DEF r
  <2> QED BY <1>1, <2>3, LocalKept
<1>10. /\ buffer' \in [Buffers -> [owner : Int, size : Int]]
       /\ buffer'[b].owner = NoOwner /\ \A c \in Buffers : c # b => buffer'[c] = buffer[c]
  <2>1. NoOwner \in Int /\ 0 \in Int
    BY DEF NoOwner
  <2> QED BY <1>1, <2>1, OneBuffer
<1>11. OnQueue(list, Unowned(id))
  BY <1>5 DEF XInv, BuffersPartitioned, OnQueue, Unowned
<1>12. b \notin Unowned(id) /\ b \in InPool(id)
  BY <1>0, <1>1, <1>4 DEF Unowned, InPool
<1>13. /\ <<b>> \o list \in Seq(Buffers) /\ Len(<<b>> \o list) = Len(list) + 1
       /\ OnQueue(<<b>> \o list, {b} \cup Unowned(id))
  <2>1. <<b>> \in Seq(Buffers) /\ OnQueue(<<b>>, {b})
    BY DEF OnQueue, IsInjective, ToSet
  <2>2. {b} \cap Unowned(id) = {}
    BY <1>12
  <2>3. Len(<<b>> \o list) = Len(list) + 1
    BY <1>6
  <2> HIDE DEF list
  <2> QED BY <1>6, <1>11, <2>1, <2>2, <2>3, ConcatOnQueue
<1>14. bpnext' \in [Pool -> Seq(Buffers)] /\ bpnext'[id] = <<b>> \o list
       /\ \A i \in Pool : i # id => bpnext'[i] = bpnext[i]
  BY <1>1, <1>5, <1>6, <1>13
<1>15. XTypes'
  BY <1>1, <1>8, <1>9, <1>10, <1>14 DEF XInv, XTypes
<1>16. PoolSems' /\ Starting'
  BY <1>1, <1>3, <1>7 DEF XInv, PoolSems, Starting
<1>17. PoolCalls'
  <2>1. \A p \in Pid : xpc'[p] \notin {"app", "init"} => xlocal'[p].id \in 1 .. nbpools'
    BY <1>1, <1>5, <1>8, <1>9 DEF XInv, PoolCalls
  <2>2. \A i \in Pool : i > nbpools' => lost'[i] = 0
    BY <1>1 DEF XInv, PoolCalls
  <2>3. \A c \in Buffers : c[1] > nbpools' => buffer'[c].owner = NoOwner
    BY <1>1, <1>10 DEF XInv, PoolCalls
  <2> QED BY <2>1, <2>2, <2>3 DEF PoolCalls
<1>18. BuffersPartitioned'
  <2>1. Unowned(id)' = {b} \cup Unowned(id)
    BY <1>10, <1>12 DEF Unowned, InPool
  <2>2. ASSUME NEW i \in 1 .. nbpools, i # id PROVE Unowned(i)' = Unowned(i)
    BY <1>0, <1>10, <2>2 DEF Unowned, InPool
  <2>3. ASSUME NEW i \in 1 .. nbpools PROVE OnQueue(bpnext'[i], Unowned(i)')
    <3>1. CASE i = id
      BY <1>13, <1>14, <2>1, <3>1
    <3>2. CASE i # id
      <4>1. i \in Pool /\ OnQueue(bpnext[i], Unowned(i))
        BY PoolSizes DEF XInv, XTypes, BuffersPartitioned, OnQueue, Unowned
      <4> QED BY <1>14, <2>2, <3>2, <4>1
    <3> QED BY <3>1, <3>2
  <2> QED BY <1>1, <2>3 DEF BuffersPartitioned, OnQueue, Unowned
<1>19. \A i : Taking(i)' = Taking(i)
  BY <1>2, <1>8, <1>9 DEF Taking
<1>20. PoolBook(id)'
  <2> DEFINE n == scount[s]
             T == Taking(id)
             a == Len(list)
             o == lost[id]
             p2 == Parked'
  <2>1. Book(TRUE, n, s, Parked, T, a - o, TRUE) /\ n \in Int /\ a \in Nat /\ o \in Nat /\ s # NoSem
    BY <1>5, BookParts
  <2>2. \A x \in Pid : p2[x] = Parked[x] \/ (Parked[x] = s /\ p2[x] = NoSem)
    BY <1>7
  <2>3. scount'[s] = n + 1 /\ Len(bpnext'[id]) = a + 1 /\ lost'[id] = o /\ bpsem'[id] = s
    BY <1>1, <1>6, <1>7, <1>13, <1>14, ParkedTypes
  <2>4. Taking(id)' = T
    BY <1>19
  <2> HIDE DEF n, T, a, o, s, p2
  <2>5. a - o \in Int /\ (a - o) + 1 = (a + 1) - o
    BY <2>1
  <2>6. Book(TRUE, n + 1, s, p2, T, (a - o) + 1, TRUE)
    BY <2>1, <2>2, <2>5, BookSignal
  <2> QED BY <2>3, <2>4, <2>5, <2>6 DEF PoolBook, p2
<1>21. ASSUME NEW i \in 1 .. nbpools, i # id
       PROVE  PoolBook(i)'
  <2>1. bpsem[i] # s /\ bpsem[i] \in Sem /\ i \in Pool
    BY <1>5, <1>21, BookParts
  <2>2. scount'[bpsem[i]] = scount[bpsem[i]]
    BY <1>6, <1>7, <2>1, ParkedTypes
  <2>3. \A x \in Pid : /\ Parked'[x] = bpsem[i] => Parked[x] = bpsem[i]
                       /\ x \in Taking(i) => Parked'[x] \in {Parked[x], NoSem}
    BY <1>7, <2>1, NoSemIsNone
  <2>4. bpsem'[i] = bpsem[i] /\ bpnext'[i] = bpnext[i] /\ lost'[i] = lost[i]
    BY <1>1, <1>14, <1>21, <2>1
  <2> QED BY <1>19, <2>2, <2>3, <2>4, OtherPool
<1>22. PoolBooks'
  BY <1>1, <1>20, <1>21 DEF PoolBooks
<1>23. ~xbroken'
  BY <1>1, Zenon DEF XInv
<1> QED BY <1>7, <1>15, <1>16, <1>17, <1>18, <1>22, <1>23 DEF XInv

(* mkbufpool: the new pool has a semaphore that nobody uses, and all of    *)
(* its buffers.                                                            *)
LEMMA MkBufPoolStep ==
    ASSUME IInv, XInv, MkBufPool
    PROVE  IInv' /\ XInv'
<1>0. PICK id : id = nbpools + 1
  OBVIOUS
<1>1. PICK s : s = NewSem
  OBVIOUS
<1> DEFINE all == [k \in 1 .. Bufnumb[id] |-> <<id, k>>]
<1>2. /\ XIn("init") /\ nbpools < poolnum /\ nbpools' = id
      /\ bpsem' = [bpsem EXCEPT ![id] = s] /\ bpnext' = [bpnext EXCEPT ![id] = all]
      /\ SemCreate(Bufnumb[id])
      /\ UNCHANGED <<buffer, allocBy, allocBf, xpc, xlocal, xbroken, lost>>
  BY <1>0, <1>1, Zenon DEF MkBufPool, BufferCount
<1>3. id \in Pool /\ id \in Nat /\ id # 0 /\ nbpools \in Nat /\ id > nbpools
      /\ 1 .. id = (1 .. nbpools) \cup {id}
  BY <1>0, <1>2, PoolSizes DEF XInv, XTypes
<1>4. Bufnumb[id] \in Nat
  BY <1>3, PoolSizes
<1>5. /\ IInv' /\ Parked' = Parked /\ s \in Sem /\ sstate[s] = "FREE"
      /\ sstate' = [sstate EXCEPT ![s] = "USED"] /\ scount' = [scount EXCEPT ![s] = Bufnumb[id]]
      /\ \A p \in Pid : Parked[p] # s
  BY <1>1, <1>2, <1>4, SemCreateEffect
<1>6. sstate \in [Sem -> {"FREE", "USED"}] /\ scount \in [Sem -> Int]
  BY ParkedTypes
<1>7. \A i \in 1 .. nbpools : bpsem[i] # s /\ bpsem[i] \in Sem /\ i \in Pool /\ i # id
  <2>1. \A i \in 1 .. nbpools : sstate[bpsem[i]] = "USED"
    BY DEF XInv, PoolSems
  <2>2. \A i \in 1 .. nbpools : i # id
    BY <1>0, <1>3
  <2>3. \A i \in 1 .. nbpools : bpsem[i] \in Sem /\ i \in Pool
    BY BookParts
  <2>4. \A i \in 1 .. nbpools : bpsem[i] # s
    BY <1>5, <2>1
  <2> QED BY <2>2, <2>3, <2>4
<1>8. /\ all \in Seq(Buffers) /\ Len(all) = Bufnumb[id] /\ OnQueue(all, InPool(id))
  <2>1. \A k \in 1 .. Bufnumb[id] : <<id, k>> \in Buffers
    BY <1>3 DEF Buffers
  <2>2. all \in Seq(Buffers) /\ Len(all) = Bufnumb[id] /\ DOMAIN all = 1 .. Bufnumb[id]
    BY <1>4, <2>1
  <2>3. InPool(id) = {<<id, k>> : k \in 1 .. Bufnumb[id]}
    BY <1>3, BufferParts
  <2>4. \A k \in 1 .. Bufnumb[id] : all[k] = <<id, k>>
    OBVIOUS
  <2> HIDE DEF all
  <2>5. ToSet(all) = InPool(id)
    BY <2>2, <2>3, <2>4 DEF ToSet
  <2>6. IsInjective(all)
    BY <2>2, <2>4 DEF IsInjective
  <2> QED BY <2>2, <2>5, <2>6 DEF OnQueue
<1> HIDE DEF all
<1>9. /\ bpsem' \in [Pool -> Sem] /\ bpsem'[id] = s /\ \A i \in 1 .. nbpools : bpsem'[i] = bpsem[i]
      /\ bpnext' \in [Pool -> Seq(Buffers)] /\ bpnext'[id] = all
      /\ \A i \in 1 .. nbpools : bpnext'[i] = bpnext[i]
  BY <1>2, <1>3, <1>5, <1>7, <1>8 DEF XInv, XTypes
<1>10. XTypes'
  <2>1. nbpools' \in 0 .. poolnum
    BY <1>2, <1>3, PoolSizes
  <2> QED BY <1>2, <1>9, <2>1 DEF XInv, XTypes
<1>11. PoolSems'
  <2>1. \A i \in 1 .. nbpools : sstate'[bpsem'[i]] = "USED"
    BY <1>5, <1>6, <1>7, <1>9 DEF XInv, PoolSems
  <2>2. sstate'[bpsem'[id]] = "USED"
    BY <1>5, <1>6, <1>9
  <2>3. \A i, j \in 1 .. nbpools : bpsem'[i] = bpsem'[j] => i = j
    BY <1>9 DEF XInv, PoolSems
  <2>4. \A i \in 1 .. nbpools : bpsem'[i] # bpsem'[id]
    BY <1>7, <1>9
  <2>5. \A i, j \in 1 .. id : bpsem'[i] = bpsem'[j] => i = j
    BY <1>3, <2>3, <2>4
  <2> QED BY <1>2, <1>3, <2>1, <2>2, <2>5 DEF PoolSems
<1>12. PoolCalls'
  <2>1. \A p \in Pid : xpc'[p] \notin {"app", "init"} => xlocal'[p].id \in 1 .. nbpools'
    BY <1>2, <1>3 DEF XInv, PoolCalls
  <2>2. \A i \in Pool : i > id => i > nbpools
    BY <1>0, <1>3, PoolSizes
  <2>3. \A b \in Buffers : b[1] > id => b[1] > nbpools
    BY <2>2, BufferParts
  <2> QED BY <1>2, <2>1, <2>2, <2>3 DEF XInv, PoolCalls
<1>13. Starting'
  BY <1>2, <1>3 DEF Starting
<1>14. BuffersPartitioned'
  <2>1. \A i : Unowned(i)' = Unowned(i)
    BY <1>2 DEF Unowned
  <2>2. Unowned(id) = InPool(id)
    BY <1>3 DEF Unowned, InPool, XInv, PoolCalls
  <2>3. \A i \in 1 .. nbpools : OnQueue(bpnext[i], Unowned(i))
    BY DEF XInv, BuffersPartitioned, OnQueue, Unowned
  <2>4. \A i \in 1 .. nbpools' : OnQueue(bpnext'[i], Unowned(i)')
    BY <1>2, <1>3, <1>8, <1>9, <2>1, <2>2, <2>3
  <2> QED BY <2>4 DEF BuffersPartitioned, OnQueue, Unowned
<1>15. \A i : Taking(i)' = Taking(i)
  BY <1>2 DEF Taking
<1>16. PoolBook(id)'
  <2>1. Taking(id) = {}
    BY <1>3 DEF XInv, PoolCalls, Taking
  <2>2. lost'[id] = 0
    BY <1>2, <1>3 DEF XInv, PoolCalls
  <2>3. scount'[s] = Bufnumb[id]
    BY <1>5, <1>6
  <2>4. Len(bpnext'[id]) - lost'[id] = Bufnumb[id]
    BY <1>4, <1>8, <1>9, <2>2
  <2>5. Book(TRUE, Bufnumb[id], s, Parked, {}, Bufnumb[id], TRUE)
    <3> DEFINE n == Bufnumb[id]
    <3>1. n \in Int
      BY <1>4
    <3> HIDE DEF n
    <3>2. Book(TRUE, n, s, Parked, {}, n, TRUE)
      BY <1>5, <3>1, BookOpen
    <3> QED BY <3>2 DEF n
  <2> QED BY <1>5, <1>9, <1>15, <2>1, <2>3, <2>4, <2>5 DEF PoolBook
<1>17. ASSUME NEW i \in 1 .. nbpools
       PROVE  PoolBook(i)'
  <2>1. scount'[bpsem[i]] = scount[bpsem[i]]
    BY <1>5, <1>6, <1>7
  <2>2. bpsem'[i] = bpsem[i] /\ bpnext'[i] = bpnext[i] /\ lost'[i] = lost[i]
    BY <1>2, <1>9
  <2>3. \A x \in Pid : /\ Parked'[x] = bpsem[i] => Parked[x] = bpsem[i]
                       /\ x \in Taking(i) => Parked'[x] \in {Parked[x], NoSem}
    BY <1>5
  <2> QED BY <1>15, <2>1, <2>2, <2>3, OtherPool
<1>18. PoolBooks'
  BY <1>2, <1>3, <1>16, <1>17 DEF PoolBooks
<1>19. ~xbroken'
  BY <1>2, Zenon DEF XInv
<1> QED BY <1>5, <1>10, <1>11, <1>12, <1>13, <1>14, <1>18, <1>19 DEF XInv

(* What is left of the call of a process that is killed. *)
LEMMA KilledCall ==
    ASSUME IInv, XInv, Killed, NEW p \in Pid, p = karg[currpid]
    PROVE  /\ xpc' \in [Pid -> XPcs] /\ xlocal' \in [Pid -> XCalls]
           /\ xpc'[p] = "app" /\ \A q \in Pid : q # p => xpc'[q] = xpc[q] /\ xlocal'[q].id = xlocal[q].id
           /\ allocBy' \in [Pool -> Int \cup {Unknown}] /\ allocBf' \in [Pool -> Int \cup {Unknown}]
           /\ lost' \in [Pool -> Nat]
           /\ \A i \in Pool : lost'[i] = IF p \in Taking(i) /\ Parked[p] = NoSem
                                         THEN lost[i] + 1 ELSE lost[i]
<1>1. /\ xpc \in [Pid -> XPcs] /\ xlocal \in [Pid -> XCalls] /\ lost \in [Pool -> Nat]
      /\ allocBy \in [Pool -> Int \cup {Unknown}] /\ allocBf \in [Pool -> Int \cup {Unknown}]
  BY DEF XInv, XTypes
<1>2. xpc' \in [Pid -> XPcs] /\ xpc'[p] = "app" /\ \A q \in Pid : q # p => xpc'[q] = xpc[q]
  BY <1>1 DEF Killed, XPcs
<1>3. xlocal' = [q \in Pid |-> IF q = p THEN NoCall
                               ELSE IF SameUpdate(q, p)
                               THEN [xlocal[q] EXCEPT !.tmp = Unknown] ELSE xlocal[q]]
  BY DEF Killed
<1>4. ASSUME NEW q \in Pid
      PROVE  xlocal'[q] \in XCalls /\ (q # p => xlocal'[q].id = xlocal[q].id)
  <2> DEFINE r == xlocal[q]
             t == [xlocal[q] EXCEPT !.tmp = Unknown]
  <2>1. r \in XCalls /\ t \in XCalls /\ t.id = r.id
    <3>1. r \in XCalls /\ Unknown \in Int \cup {Unknown}
      BY <1>1
    <3> HIDE DEF r
    <3>2. [r EXCEPT !.tmp = Unknown] \in XCalls /\ [r EXCEPT !.tmp = Unknown].id = r.id
      BY <3>1, CallRecords
    <3> QED BY <3>1, <3>2 DEF r
  <2>2. xlocal'[q] = IF q = p THEN NoCall ELSE IF SameUpdate(q, p) THEN t ELSE r
    BY <1>3
  <2>3. xlocal'[q] = t \/ xlocal'[q] = r \/ (q = p /\ xlocal'[q] = NoCall)
    BY <2>2
  <2> HIDE DEF t
  <2> QED BY <2>1, <2>3, CallRecords
<1>5. xlocal' \in [Pid -> XCalls]
  <2>1. xlocal' = [q \in Pid |-> xlocal'[q]]
    BY <1>3
  <2> QED BY <1>4, <2>1
<1>6. allocBy' \in [Pool -> Int \cup {Unknown}] /\ allocBf' \in [Pool -> Int \cup {Unknown}]
  <2>1. allocBy' = [i \in Pool |-> IF i = xlocal[p].id /\ xpc[p] \in {"by", "by2"}
                                   THEN Unknown ELSE allocBy[i]]
    BY DEF Killed
  <2>2. allocBf' = [i \in Pool |-> IF i = xlocal[p].id /\ xpc[p] \in UpdatePcs
                                   THEN Unknown ELSE allocBf[i]]
    BY DEF Killed
  <2> DEFINE I == Int \cup {Unknown}
  <2>3. Unknown \in I /\ allocBy \in [Pool -> I] /\ allocBf \in [Pool -> I]
    BY <1>1
  <2> HIDE DEF I
  <2>4. allocBy' \in [Pool -> I]
    BY <2>1, <2>3
  <2>5. allocBf' \in [Pool -> I]
    BY <2>2, <2>3
  <2> QED BY <2>4, <2>5 DEF I
<1>7. lost' = [i \in Pool |-> IF i = xlocal[p].id /\ xpc[p] = "take" /\ prstate[p] # "WAIT"
                              THEN lost[i] + 1 ELSE lost[i]]
  BY DEF Killed
<1>8. lost' \in [Pool -> Nat]
  BY <1>1, <1>7
<1>9. prstate[p] # "WAIT" <=> Parked[p] = NoSem
  BY ParkedTypes, NoSemIsNone
<1>10. \A i \in Pool : lost'[i] = IF p \in Taking(i) /\ Parked[p] = NoSem
                                  THEN lost[i] + 1 ELSE lost[i]
  BY <1>7, <1>9 DEF Taking
<1> QED BY <1>2, <1>4, <1>5, <1>6, <1>8, <1>10

(* Its buffers are nobody's, but not in the list. *)
LEMMA KilledBuffers ==
    ASSUME IInv, XInv, Killed, NEW p \in Pid, p = karg[currpid]
    PROVE  /\ buffer' \in [Buffers -> [owner : Int, size : Int]]
           /\ \A b \in Buffers : buffer'[b].owner = NoOwner <=> buffer[b].owner = NoOwner
<1>1. buffer \in [Buffers -> [owner : Int, size : Int]]
  BY DEF XInv, XTypes
<1>2. buffer' = [b \in Buffers |-> IF buffer[b].owner = p
                                   THEN [buffer[b] EXCEPT !.owner = Nobody] ELSE buffer[b]]
  BY DEF Killed
<1>3. p # NoOwner /\ Nobody # NoOwner /\ Nobody \in Int
  BY NPROCAssumption DEF Pid, NoOwner, Nobody
<1>4. ASSUME NEW b \in Buffers
      PROVE  /\ buffer'[b] \in [owner : Int, size : Int]
             /\ buffer'[b].owner = NoOwner <=> buffer[b].owner = NoOwner
  <2> DEFINE r == buffer[b]
             t == [buffer[b] EXCEPT !.owner = Nobody]
  <2>1. r \in [owner : Int, size : Int]
    BY <1>1
  <2>2. t \in [owner : Int, size : Int] /\ t.owner = Nobody
    BY <1>3, <2>1
  <2>3. buffer'[b] = IF r.owner = p THEN t ELSE r
    BY <1>2
  <2> HIDE DEF r, t
  <2>4. CASE r.owner = p
    BY <1>3, <2>2, <2>3, <2>4 DEF r
  <2>5. CASE r.owner # p
    BY <2>1, <2>3, <2>5 DEF r
  <2> QED BY <2>4, <2>5
<1>5. buffer' = [b \in Buffers |-> buffer'[b]]
  BY <1>2
<1> DEFINE R == [owner : Int, size : Int]
<1>6. \A b \in Buffers : buffer'[b] \in R
  BY <1>4
<1> HIDE DEF R
<1>7. buffer' \in [Buffers -> R]
  BY <1>5, <1>6
<1> QED BY <1>4, <1>7 DEF R

LEMMA KilledStep ==
    ASSUME IInv, XInv, Killed
    PROVE  IInv' /\ XInv'
<1>0. PICK p : p = karg[currpid]
  OBVIOUS
<1>1. KillEnd /\ UNCHANGED <<nbpools, bpsem, bpnext, xbroken>>
  BY Zenon DEF Killed
<1>2. /\ IInv' /\ p \in Pid /\ sstate' = sstate /\ cont[currpid] = "kill"
      /\ \A x \in Pid : Parked'[x] = IF x = p THEN NoSem ELSE Parked[x]
      /\ scount' = IF Parked[p] = NoSem THEN scount ELSE [scount EXCEPT ![Parked[p]] = @ + 1]
  BY <1>0, <1>1, KillEndEffect
<1>3. nbpools # 0
  BY <1>2, PoolThere
<1>4. /\ xpc' \in [Pid -> XPcs] /\ xlocal' \in [Pid -> XCalls]
      /\ xpc'[p] = "app" /\ \A q \in Pid : q # p => xpc'[q] = xpc[q] /\ xlocal'[q].id = xlocal[q].id
  BY <1>0, <1>2, KilledCall
<1>5. /\ allocBy' \in [Pool -> Int \cup {Unknown}] /\ allocBf' \in [Pool -> Int \cup {Unknown}]
      /\ lost' \in [Pool -> Nat]
      /\ \A i \in Pool : lost'[i] = IF p \in Taking(i) /\ Parked[p] = NoSem
                                    THEN lost[i] + 1 ELSE lost[i]
  BY <1>0, <1>2, KilledCall
<1>6. /\ buffer' \in [Buffers -> [owner : Int, size : Int]]
      /\ \A b \in Buffers : buffer'[b].owner = NoOwner <=> buffer[b].owner = NoOwner
  BY <1>0, <1>2, KilledBuffers
<1>7. XTypes'
  BY <1>1, <1>4, <1>5, <1>6 DEF XInv, XTypes
<1>8. PoolSems' /\ Starting'
  BY <1>1, <1>2, <1>3 DEF XInv, PoolSems, Starting
<1>9. PoolCalls'
  <2>1. \A q \in Pid : xpc'[q] \notin {"app", "init"} => xlocal'[q].id \in 1 .. nbpools'
    BY <1>1, <1>2, <1>4 DEF XInv, PoolCalls
  <2>2. ASSUME NEW i \in Pool, i > nbpools PROVE lost'[i] = 0
    <3>1. p \notin Taking(i)
      <4>1. ASSUME p \in Taking(i) PROVE i \in 1 .. nbpools
        BY <4>1 DEF Taking, XInv, PoolCalls
      <4>2. i \notin 1 .. nbpools
        BY <2>2, PoolSizes DEF XInv, XTypes
      <4> QED BY <4>1, <4>2
    <3>2. lost[i] = 0
      BY <2>2 DEF XInv, PoolCalls
    <3> QED BY <1>5, <3>1, <3>2
  <2>3. \A b \in Buffers : b[1] > nbpools' => buffer'[b].owner = NoOwner
    BY <1>1, <1>6 DEF XInv, PoolCalls
  <2> QED BY <1>1, <2>1, <2>2, <2>3 DEF PoolCalls
<1>10. BuffersPartitioned'
  <2>1. \A i : Unowned(i)' = Unowned(i)
    BY <1>6 DEF Unowned, InPool
  <2> QED BY <1>1, <2>1 DEF XInv, BuffersPartitioned, Unowned
<1>11. \A i : Taking(i)' = Taking(i) \ {p}
  BY <1>4 DEF Taking
<1>12. ASSUME NEW i \in 1 .. nbpools
       PROVE  PoolBook(i)'
  <2> DEFINE s == bpsem[i]
             n == scount[s]
             T == Taking(i)
             a == Len(bpnext[i])
             o == lost[i]
             p2 == Parked'
  <2>1. /\ Book(TRUE, n, s, Parked, T, a - o, TRUE) /\ n \in Int /\ a \in Nat /\ o \in Nat
        /\ s # NoSem /\ s \in Sem /\ i \in Pool
    BY BookParts
  <2>2. Taking(i)' = T \ {p} /\ bpsem'[i] = s /\ Len(bpnext'[i]) = a /\ bpnext'[i] = bpnext[i]
    BY <1>1, <1>11
  <2>3. \A x \in Pid : p2[x] = IF x = p THEN NoSem ELSE Parked[x]
    BY <1>2
  <2>4. /\ p \in T => Parked[p] \in {s, NoSem}
        /\ Parked[p] = s => p \in T
    BY <1>2, <2>1 DEF Book
  <2>5. lost'[i] = IF p \in T /\ Parked[p] = NoSem THEN o + 1 ELSE o
    BY <1>5, <2>1
  <2>6. scount'[s] = IF Parked[p] = s THEN n + 1 ELSE n
    BY <1>2, <2>1, ParkedTypes
  <2>7. a - o \in Int /\ (a - o) - 1 = a - (o + 1)
    <3> HIDE DEF a, o
    <3> QED BY <2>1
  <2>8. CASE p \in T /\ Parked[p] = NoSem
    <3>1. lost'[i] = o + 1 /\ scount'[s] = n
      BY <2>1, <2>5, <2>6, <2>8
    <3>2. p2 = Parked
      BY <2>3, <2>8 DEF Parked
    <3> HIDE DEF s, n, T, a, o
    <3>3. Book(TRUE, n, s, Parked, T \ {p}, (a - o) - 1, TRUE)
      BY <2>1, <2>7, <2>8, BookTake
    <3> QED BY <2>2, <2>7, <3>1, <3>2, <3>3 DEF PoolBook
  <2>9. CASE p \in T /\ Parked[p] = s
    <3>1. lost'[i] = o /\ scount'[s] = n + 1
      BY <2>1, <2>5, <2>6, <2>9
    <3> HIDE DEF s, n, T, a, o, p2
    <3>2. Book(TRUE, n + 1, s, p2, T \ {p}, a - o, TRUE)
      BY <2>1, <2>3, <2>7, <2>9, BookKillWaiting
    <3> QED BY <2>2, <3>1, <3>2 DEF PoolBook, p2
  <2>10. CASE p \notin T
    <3>1. Taking(i)' = Taking(i) /\ lost'[i] = lost[i] /\ scount'[bpsem[i]] = scount[bpsem[i]]
      BY <2>2, <2>4, <2>5, <2>6, <2>10
    <3>2. \A x \in Pid : /\ Parked'[x] = bpsem[i] => Parked[x] = bpsem[i]
                         /\ x \in Taking(i) => Parked'[x] \in {Parked[x], NoSem}
      BY <2>1, <2>3
    <3> QED BY <2>2, <3>1, <3>2, OtherPool
  <2> QED BY <2>4, <2>8, <2>9, <2>10
<1>13. PoolBooks'
  BY <1>1, <1>12 DEF PoolBooks
<1>14. ~xbroken'
  BY <1>1, Zenon DEF XInv
<1> QED BY <1>2, <1>7, <1>8, <1>9, <1>10, <1>13, <1>14 DEF XInv

LEMMA PoolStutter ==
    ASSUME IInv, XInv, UNCHANGED xallvars
    PROVE  IInv' /\ XInv'
<1>1. UNCHANGED vars /\ UNCHANGED xvars
  BY Zenon DEF xallvars
<1>2. IInv' /\ NoEffect /\ cont' = cont /\ Unused' = Unused
  BY <1>1, KernelAlone
<1>3. Starting'
  BY <1>1, <1>2 DEF XInv, Starting, xvars
<1> QED BY <1>1, <1>2, <1>3, OutsideStep

LEMMA PoolsStep ==
    ASSUME IInv, XInv, [XNext]_xallvars
    PROVE  IInv' /\ XInv'
<1>1. CASE MkBufPool \/ XmallocInitEnd
  BY <1>1, MkBufPoolStep, XmallocInitEndStep
<1>2. ASSUME NEW size \in Sizes, Xmalloc(size) PROVE IInv' /\ XInv'
  BY <1>2, XmallocStep
<1>3. ASSUME NEW b \in Buffers, Xfree(b) PROVE IInv' /\ XInv'
  BY <1>3, XfreeStep
<1>4. CASE GetBuf \/ GetBufEnd
  BY <1>4, GetBufStep, GetBufEndStep
<1>5. CASE LoadBy \/ StoreBy \/ LoadBf \/ StoreBf
  BY <1>5, LoadStep, StoreStep
<1>6. CASE XSpawn \/ XStart \/ XPreempt \/ KillOther
  BY <1>6, AroundStep
<1>7. CASE Killed
  BY <1>7, KilledStep
<1>8. CASE Stopped \/ UNCHANGED xallvars
  BY <1>8, PoolStutter DEF Stopped
<1> QED BY <1>1, <1>2, <1>3, <1>4, <1>5, <1>6, <1>7, <1>8 DEF XNext

(* The pools and the process manager under them keep their invariants:     *)
(* every pool has a semaphore of its own, whose account the processes in   *)
(* getbuf keep, for every number, size and count of pools.                 *)
THEOREM PoolsInductive == XSpec => [](IInv /\ XInv)
<1>1. XInit => IInv /\ XInv
  BY PoolInit
<1>2. IInv /\ XInv /\ [XNext]_xallvars => IInv' /\ XInv'
  BY PoolsStep
<1> QED BY <1>1, <1>2, PTL DEF XSpec

(* getbuf never unlinks from an empty list, although xmalloc's look at the *)
(* list is outdated by then: the semaphore has what the list has, less     *)
(* what is promised to released processes, living or killed, and waited    *)
(* for.                                                                    *)
THEOREM PoolCountIsExact == XSpec => []PoolCount
<1>1. IInv /\ XInv => PoolCount
  BY InvPoolCount
<1> QED BY <1>1, PoolsInductive, PTL

(* getbuf and freebuf: a buffer is in the list of its pool, once, or       *)
(* somebody's.                                                             *)
THEOREM NoBufferTwice == XSpec => []BuffersPartitioned
<1>1. XInv => BuffersPartitioned
  BY DEF XInv
<1> QED BY <1>1, PoolsInductive, PTL

(* findClosestIndex, for every list of growing sizes, every size it is     *)
(* asked for, and however many of the pools could be made.                 *)
THEOREM SearchIsExact == XSpec => []ClosestIsSmallest
<1>1. XInv => ClosestIsSmallest
  BY InvClosest
<1> QED BY <1>1, PoolsInductive, PTL

-----------------------------------------------------------------------------
(***************************************************************************)
(* Sums over finite sets.                                                  *)
(***************************************************************************)
(* The parts of S with at most n elements. *)
Small(S, n) == {T \in SUBSET S : Cardinality(T) <= n}

OneOf(T) == CHOOSE x \in T : TRUE

(* h is the sum of f over the sets in D. *)
Adds(h, f, D) == h = [T \in D |-> IF T = {} THEN 0 ELSE f[OneOf(T)] + h[T \ {OneOf(T)}]]

LEMMA Smaller ==
    ASSUME NEW S, IsFiniteSet(S), NEW T \in SUBSET S, NEW x \in T
    PROVE  /\ IsFiniteSet(T) /\ Cardinality(T) \in Nat /\ Cardinality(T) # 0
           /\ T \ {x} \in SUBSET S /\ Cardinality(T \ {x}) = Cardinality(T) - 1
<1>1. IsFiniteSet(T)
  BY FS_Subset
<1>2. Cardinality(T) \in Nat
  BY <1>1, FS_CardinalityType
<1>3. Cardinality(T) # 0
  BY <1>1, FS_EmptySet
<1>4. Cardinality(T \ {x}) = Cardinality(T) - 1
  BY <1>1, FS_RemoveElement
<1> QED BY <1>1, <1>2, <1>3, <1>4

LEMMA OneOfIn == \A T : T # {} => OneOf(T) \in T
BY DEF OneOf

(* There is a sum over the parts of n elements, for every n. *)
LEMMA SmallSums ==
    ASSUME NEW S, IsFiniteSet(S), NEW f \in [S -> Int], NEW n \in Nat
    PROVE  \E h \in [Small(S, n) -> Int] : Adds(h, f, Small(S, n))
<1> DEFINE Fine(m) == \E h \in [Small(S, m) -> Int] : Adds(h, f, Small(S, m))
           Bad == {m \in Nat : ~Fine(m)}
<1>1. \A T \in SUBSET S : Cardinality(T) \in Nat /\ IsFiniteSet(T)
  BY FS_Subset, FS_CardinalityType
<1>2. Fine(0)
  <2>1. \A T \in Small(S, 0) : T = {}
    BY <1>1, FS_EmptySet DEF Small
  <2> DEFINE h == [T \in Small(S, 0) |-> 0]
  <2>2. h \in [Small(S, 0) -> Int]
    OBVIOUS
  <2>3. Adds(h, f, Small(S, 0))
    BY <2>1 DEF Adds
  <2> QED BY <2>2, <2>3
<1>3. ASSUME NEW m \in Nat, m # 0, Fine(m - 1)
      PROVE  Fine(m)
  <2> DEFINE D == Small(S, m)
             E == Small(S, m - 1)
  <2>1. PICK h \in [E -> Int] : Adds(h, f, E)
    BY <1>3
  <2> DEFINE g == [T \in D |-> IF T = {} THEN 0 ELSE f[OneOf(T)] + h[T \ {OneOf(T)}]]
  <2>2. ASSUME NEW T \in D, T # {}
        PROVE  OneOf(T) \in S /\ T \ {OneOf(T)} \in E /\ T \ {OneOf(T)} \in D
    <3>1. OneOf(T) \in T /\ T \in SUBSET S /\ Cardinality(T) <= m
      BY <2>2, OneOfIn DEF Small
    <3> DEFINE x == OneOf(T)
    <3>2. x \in T
      BY <3>1
    <3> HIDE DEF x
    <3>3. Cardinality(T) \in Nat /\ T \ {x} \in SUBSET S /\ Cardinality(T \ {x}) = Cardinality(T) - 1
      BY <3>1, <3>2, Smaller
    <3>4. Cardinality(T \ {x}) <= m - 1 /\ Cardinality(T \ {x}) <= m
      BY <3>1, <3>3
    <3>5. T \ {x} \in E /\ T \ {x} \in D
      BY <3>3, <3>4 DEF Small
    <3> QED BY <3>1, <3>5 DEF x
  <2>3. \A T \in E : T \in D /\ h[T] = IF T = {} THEN 0 ELSE f[OneOf(T)] + h[T \ {OneOf(T)}]
    <3>1. \A T \in E : T \in D
      BY <1>1 DEF Small
    <3>2. h = [T \in E |-> IF T = {} THEN 0 ELSE f[OneOf(T)] + h[T \ {OneOf(T)}]]
      BY <2>1 DEF Adds
    <3> HIDE DEF D, E
    <3> QED BY <3>1, <3>2
  <2>4. \A T \in E : g[T] = h[T]
    BY <2>3
  <2>5. g \in [D -> Int]
    <3>1. ASSUME NEW T \in D PROVE (IF T = {} THEN 0 ELSE f[OneOf(T)] + h[T \ {OneOf(T)}]) \in Int
      <4>1. CASE T = {}
        BY <4>1
      <4>2. CASE T # {}
        <5>1. f[OneOf(T)] \in Int /\ h[T \ {OneOf(T)}] \in Int
          BY <2>1, <2>2, <4>2
        <5> QED BY <4>2, <5>1
      <4> QED BY <4>1, <4>2
    <3> HIDE DEF D, E
    <3> QED BY <3>1
  <2>6. \A T \in D : T # {} => g[T \ {OneOf(T)}] = h[T \ {OneOf(T)}]
    BY <2>2, <2>4
  <2>7. Adds(g, f, D)
    <3> DEFINE k == [T \in D |-> IF T = {} THEN 0 ELSE f[OneOf(T)] + g[T \ {OneOf(T)}]]
    <3>1. \A T \in D : k[T] = g[T]
      <4>1. \A T \in D : g[T] = IF T = {} THEN 0 ELSE f[OneOf(T)] + h[T \ {OneOf(T)}]
        OBVIOUS
      <4> HIDE DEF g, D, E
      <4> QED BY <2>6, <4>1
    <3>2. g = [T \in D |-> g[T]] /\ k = [T \in D |-> k[T]]
      OBVIOUS
    <3>3. g = k
      <4> HIDE DEF g, k, D, E
      <4> QED BY <3>1, <3>2
    <3> HIDE DEF g
    <3> QED BY <3>3 DEF Adds
  <2> QED BY <2>5, <2>7
<1>4. Bad = {}
  <2> HIDE DEF Fine
  <2> SUFFICES ASSUME Bad # {} PROVE FALSE
    OBVIOUS
  <2>1. Bad \in SUBSET Nat
    OBVIOUS
  <2>2. PICK m \in Bad : \A y \in Bad : m <= y
    <3> HIDE DEF Bad
    <3> QED BY <2>1, MinOfNats
  <2>3. m \in Nat /\ ~Fine(m)
    BY <2>2
  <2>4. m # 0
    BY <1>2, <2>3
  <2>5. m - 1 \in Nat /\ ~(m <= m - 1)
    BY <2>3, <2>4
  <2>6. Fine(m - 1)
    BY <2>2, <2>5
  <2> QED BY <1>3, <2>3, <2>4, <2>6
<1> QED BY <1>4

(* h has the sums of f over the parts of S. *)
Totals(h, f, S) == IsFiniteSet(S) /\ Adds(h, f, SUBSET S)
Common(U, S, R) == U \in SUBSET S /\ U \in SUBSET R
Alike(f, e, U) == \A x \in U : f[x] = e[x]

(* Two sums agree where they add the same. *)
LEMMA SumsAgree ==
    ASSUME NEW S, NEW f, NEW h, Totals(h, f, S), NEW R, NEW e, NEW k, Totals(k, e, R),
           NEW U, Common(U, S, R), Alike(f, e, U)
    PROVE  h[U] = k[U]
<1>0. /\ IsFiniteSet(S) /\ Adds(h, f, SUBSET S) /\ Adds(k, e, SUBSET R)
      /\ U \in SUBSET S /\ U \in SUBSET R /\ \A x \in U : f[x] = e[x]
  BY DEF Totals, Common, Alike
<1> DEFINE Size(n) == \E T \in SUBSET U : Cardinality(T) = n /\ h[T] # k[T]
           Bad == {n \in Nat : Size(n)}
<1>1. IsFiniteSet(U)
  BY <1>0, FS_Subset
<1>2. \A T \in SUBSET U : Cardinality(T) \in Nat
  BY <1>1, FS_Subset, FS_CardinalityType
<1>3. \A T \in SUBSET U : h[T] = IF T = {} THEN 0 ELSE f[OneOf(T)] + h[T \ {OneOf(T)}]
  BY <1>0 DEF Adds
<1>4. \A T \in SUBSET U : k[T] = IF T = {} THEN 0 ELSE e[OneOf(T)] + k[T \ {OneOf(T)}]
  BY <1>0 DEF Adds
<1>5. Bad = {}
  <2> SUFFICES ASSUME Bad # {} PROVE FALSE
    OBVIOUS
  <2>1. Bad \in SUBSET Nat
    OBVIOUS
  <2>2. PICK n \in Bad : \A y \in Bad : n <= y
    <3> HIDE DEF Bad
    <3> QED BY <2>1, MinOfNats
  <2>3. PICK T \in SUBSET U : Cardinality(T) = n /\ h[T] # k[T]
    BY <2>2
  <2>4. T # {}
    BY <1>3, <1>4, <2>3
  <2> DEFINE x == OneOf(T)
             V == T \ {OneOf(T)}
  <2>5. x \in T
    BY <2>4, OneOfIn
  <2>6. f[x] = e[x] /\ h[T] = f[x] + h[V] /\ k[T] = e[x] + k[V]
    BY <1>0, <1>3, <1>4, <2>4, <2>5
  <2>7. V \in SUBSET U /\ Cardinality(V) = Cardinality(T) - 1 /\ Cardinality(T) \in Nat
        /\ Cardinality(T) # 0
    BY <1>1, <2>5, Smaller
  <2>8. h[V] = k[V]
    <3> SUFFICES ASSUME h[V] # k[V] PROVE FALSE
      OBVIOUS
    <3>1. Cardinality(V) \in Nat /\ Cardinality(V) = n - 1 /\ n \in Nat
      BY <2>3, <2>7
    <3>2. Cardinality(V) \in Bad
      BY <2>7, <3>1
    <3>3. n <= Cardinality(V)
      BY <2>2, <3>2
    <3> HIDE DEF V, Bad
    <3> QED BY <3>1, <3>3
  <2> QED BY <2>3, <2>6, <2>8
<1>6. ASSUME h[U] # k[U] PROVE FALSE
  <2>1. Cardinality(U) \in Bad
    BY <1>2, <1>6
  <2> QED BY <1>5, <2>1
<1> QED BY <1>6

(* SumFunction is the sum over the parts of its domain. *)
LEMMA SumIs ==
    ASSUME NEW S, IsFiniteSet(S), NEW f \in [S -> Int]
    PROVE  \E h \in [SUBSET S -> Int] : Adds(h, f, SUBSET S) /\ SumFunction(f) = h[S]
<1>1. PICK n \in Nat : n = Cardinality(S)
  BY FS_CardinalityType
<1>2. Small(S, n) = SUBSET S
  BY <1>1, FS_Subset DEF Small
<1>3. PICK g \in [SUBSET S -> Int] : Adds(g, f, SUBSET S)
  <2> DEFINE D == Small(S, n)
  <2>1. \E g \in [D -> Int] : Adds(g, f, D)
    BY SmallSums
  <2>2. D = SUBSET S
    BY <1>2
  <2> HIDE DEF D
  <2> QED BY <2>1, <2>2
<1> DEFINE h == CHOOSE h : Adds(h, f, SUBSET S)
<1>4. Adds(h, f, SUBSET S)
  BY <1>3
<1>5. SumFunction(f) = h[S]
  BY DEF SumFunction, SumFunctionOnSet, FoldFunctionOnSet, MapThenFoldSet, Adds, OneOf
<1> HIDE DEF h
<1>6. ASSUME NEW T \in SUBSET S PROVE h[T] = g[T]
  <2>1. Alike(f, f, T) /\ Common(T, S, S) /\ Totals(h, f, S) /\ Totals(g, f, S)
    BY <1>3, <1>4 DEF Alike, Common, Totals
  <2> QED BY <2>1, SumsAgree
<1>7. h = [T \in SUBSET S |-> h[T]]
  BY <1>4 DEF Adds
<1>8. h \in [SUBSET S -> Int]
  BY <1>6, <1>7
<1> QED BY <1>4, <1>5, <1>8

(* It does not matter what is added last. *)
Splits(h, f, S) == \A U \in SUBSET S : \A a \in U : h[U] = f[a] + h[U \ {a}]
Integral(h, f, S) == Totals(h, f, S) /\ f \in [S -> Int] /\ h \in [SUBSET S -> Int]

LEMMA AnyOrder ==
    ASSUME NEW S, NEW f, NEW h, Integral(h, f, S)
    PROVE  Splits(h, f, S)
<1> SUFFICES ASSUME NEW U \in SUBSET S, NEW a \in U PROVE h[U] = f[a] + h[U \ {a}]
  BY DEF Splits
<1>0. IsFiniteSet(S) /\ Adds(h, f, SUBSET S) /\ f \in [S -> Int] /\ h \in [SUBSET S -> Int]
  BY DEF Integral, Totals
<1> DEFINE Size(n) == \E T \in SUBSET S : Cardinality(T) = n
                                          /\ \E x \in T : h[T] # f[x] + h[T \ {x}]
           Bad == {n \in Nat : Size(n)}
<1>1. \A T \in SUBSET S : Cardinality(T) \in Nat
  BY <1>0, FS_Subset, FS_CardinalityType
<1>2. \A T \in SUBSET S : T # {} => h[T] = f[OneOf(T)] + h[T \ {OneOf(T)}]
  BY <1>0 DEF Adds
<1>3. Bad = {}
  <2> SUFFICES ASSUME Bad # {} PROVE FALSE
    OBVIOUS
  <2>1. Bad \in SUBSET Nat
    OBVIOUS
  <2>2. PICK n \in Bad : \A y \in Bad : n <= y
    <3> HIDE DEF Bad
    <3> QED BY <2>1, MinOfNats
  <2>3. PICK T \in SUBSET S : Cardinality(T) = n /\ \E x \in T : h[T] # f[x] + h[T \ {x}]
    BY <2>2
  <2>4. PICK x \in T : h[T] # f[x] + h[T \ {x}]
    BY <2>3
  <2>5. PICK c \in T : h[T] = f[c] + h[T \ {c}]
    BY <1>2, <2>4, OneOfIn
  <2>6. ASSUME NEW y \in T
        PROVE  \A z \in T \ {y} : h[T \ {y}] = f[z] + h[(T \ {y}) \ {z}]
    <3>1. T \ {y} \in SUBSET S /\ Cardinality(T \ {y}) = n - 1 /\ n \in Nat /\ n # 0
      BY <1>0, <2>3, Smaller
    <3>2. n - 1 \in Nat /\ ~(n <= n - 1)
      BY <3>1
    <3>3. n - 1 \notin Bad
      BY <2>2, <3>2
    <3>4. ~Size(n - 1)
      BY <3>2, <3>3
    <3> DEFINE V == T \ {y}
    <3>5. V \in SUBSET S /\ Cardinality(V) = n - 1
      BY <3>1
    <3> HIDE DEF V
    <3>6. \A z \in V : h[V] = f[z] + h[V \ {z}]
      BY <3>4, <3>5
    <3> QED BY <3>6 DEF V
  <2>7. c # x
    BY <2>4, <2>5
  <2>8. h[T \ {c}] = f[x] + h[(T \ {c}) \ {x}] /\ h[T \ {x}] = f[c] + h[(T \ {x}) \ {c}]
    BY <2>6, <2>7
  <2>9. (T \ {c}) \ {x} = (T \ {x}) \ {c}
    OBVIOUS
  <2> DEFINE W == (T \ {x}) \ {c}
  <2>10. W \in SUBSET S /\ f[x] \in Int /\ f[c] \in Int
    BY <1>0
  <2>11. h[W] \in Int
    BY <1>0, <2>10
  <2> DEFINE w == h[W]
  <2>12. h[T] = f[c] + (f[x] + w) /\ h[T \ {x}] = f[c] + w /\ w \in Int
    BY <2>5, <2>8, <2>9, <2>11
  <2> HIDE DEF w, W
  <2>13. f[c] + (f[x] + w) = f[x] + (f[c] + w)
    BY <2>10, <2>12
  <2> QED BY <2>4, <2>12, <2>13
<1>4. ASSUME h[U] # f[a] + h[U \ {a}] PROVE FALSE
  <2>1. Size(Cardinality(U))
    BY <1>4
  <2>2. Cardinality(U) \in Bad
    BY <1>1, <2>1
  <2> QED BY <1>3, <2>2
<1> QED BY <1>4

LEMMA SumType ==
    ASSUME NEW S, IsFiniteSet(S), NEW f \in [S -> Int]
    PROVE  SumFunction(f) \in Int
<1>1. PICK h \in [SUBSET S -> Int] : Adds(h, f, SUBSET S) /\ SumFunction(f) = h[S]
  BY SumIs
<1>2. S \in SUBSET S
  OBVIOUS
<1> QED BY <1>1, <1>2

(* f has one place more than g. *)
OneLonger(f, g, S, x) ==
    /\ IsFiniteSet(S) /\ x \notin S /\ f \in [S \cup {x} -> Int] /\ g \in [S -> Int]
    /\ \A y \in S : g[y] = f[y]

LEMMA SumAdd ==
    ASSUME NEW f, NEW g, NEW S, NEW x, OneLonger(f, g, S, x)
    PROVE  SumFunction(f) = f[x] + SumFunction(g) /\ SumFunction(g) \in Int
<1> DEFINE R == S \cup {x}
<1>1. /\ IsFiniteSet(R) /\ f \in [R -> Int] /\ IsFiniteSet(S) /\ g \in [S -> Int]
      /\ \A y \in S : g[y] = f[y]
  BY FS_AddElement DEF OneLonger
<1>2. S \in SUBSET R /\ R \ {x} = S /\ x \in R
  BY DEF OneLonger
<1> HIDE DEF R
<1>3. PICK h \in [SUBSET R -> Int] : Adds(h, f, SUBSET R) /\ SumFunction(f) = h[R]
  BY <1>1, SumIs
<1>4. PICK k \in [SUBSET S -> Int] : Adds(k, g, SUBSET S) /\ SumFunction(g) = k[S]
  BY <1>1, SumIs
<1>5. R \in SUBSET R /\ S \in SUBSET S
  OBVIOUS
<1>6. h[R] = f[x] + h[S]
  <2>1. Integral(h, f, R)
    BY <1>1, <1>3 DEF Integral, Totals
  <2>2. Splits(h, f, R)
    BY <2>1, AnyOrder
  <2>3. h[R] = f[x] + h[R \ {x}]
    BY <1>2, <1>5, <2>2 DEF Splits
  <2> QED BY <1>2, <2>3
<1>7. h[S] = k[S]
  <2>1. Totals(h, f, R) /\ Totals(k, g, S) /\ Common(S, R, S) /\ Alike(f, g, S)
    BY <1>1, <1>2, <1>3, <1>4, <1>5 DEF Totals, Common, Alike
  <2> QED BY <2>1, SumsAgree
<1>8. k[S] \in Int
  BY <1>4, <1>5
<1> QED BY <1>3, <1>4, <1>6, <1>7, <1>8

-----------------------------------------------------------------------------
(***************************************************************************)
(* The accounts of xmalloc.  What a counter says is what is in use less    *)
(* what is still to be counted, as long as it can be trusted.              *)
(***************************************************************************)
(* The sum of W over C. *)
Total(C, W) == SumFunction([x \in C |-> W[x]])

LEMMA TotalType ==
    ASSUME NEW C, IsFiniteSet(C), NEW W, \A x \in C : W[x] \in Int
    PROVE  Total(C, W) \in Int
<1> DEFINE f == [x \in C |-> W[x]]
<1>1. f \in [C -> Int]
  OBVIOUS
<1> HIDE DEF f
<1>2. SumFunction(f) \in Int
  BY <1>1, SumType
<1> QED BY <1>2 DEF f, Total

LEMMA TotalSame ==
    ASSUME NEW C, NEW W, NEW V, \A x \in C : V[x] = W[x]
    PROVE  Total(C, V) = Total(C, W)
<1>1. [x \in C |-> V[x]] = [x \in C |-> W[x]]
  OBVIOUS
<1> QED BY <1>1 DEF Total

LEMMA NothingTotal == \A W : Total({}, W) = 0
<1> SUFFICES ASSUME NEW W PROVE Total({}, W) = 0
  OBVIOUS
<1> DEFINE f == [x \in {} |-> W[x]]
<1>1. IsFiniteSet({}) /\ f \in [{} -> Int]
  BY FS_EmptySet
<1>2. SumFunction(f) = Total({}, W)
  BY DEF Total
<1> HIDE DEF f
<1>3. PICK h \in [SUBSET {} -> Int] : Adds(h, f, SUBSET {}) /\ SumFunction(f) = h[{}]
  BY <1>1, SumIs
<1>4. h[{}] = 0
  BY <1>3 DEF Adds
<1> QED BY <1>2, <1>3, <1>4

(* W and V agree on C, and x is new. *)
AddsOne(C, x, W, V) ==
    /\ IsFiniteSet(C) /\ x \notin C /\ V[x] \in Int
    /\ \A y \in C : W[y] \in Int /\ V[y] = W[y]

LEMMA TotalMore ==
    ASSUME NEW C, NEW x, NEW W, NEW V, AddsOne(C, x, W, V)
    PROVE  Total(C \cup {x}, V) = V[x] + Total(C, W) /\ Total(C, W) \in Int
<1> DEFINE f == [y \in C \cup {x} |-> V[y]]
           g == [y \in C |-> W[y]]
<1>1. OneLonger(f, g, C, x) /\ f[x] = V[x]
  BY DEF OneLonger, AddsOne
<1>2. SumFunction(f) = Total(C \cup {x}, V) /\ SumFunction(g) = Total(C, W)
  BY DEF Total
<1> HIDE DEF f, g
<1>3. SumFunction(f) = f[x] + SumFunction(g) /\ SumFunction(g) \in Int
  BY <1>1, SumAdd
<1> QED BY <1>1, <1>2, <1>3

(***************************************************************************)
(* A counter of pool i with the value n: u is in use, the processes at a   *)
(* pc in P have still to count, those at L have loaded it.                 *)
(***************************************************************************)
Owing(i, pc, loc, P) == {p \in Pid : pc[p] \in P /\ loc[p].id = i}
Trusted(i, pc, loc, L) == \A p \in Pid : pc[p] = L /\ loc[p].id = i => loc[p].tmp # Unknown
Balances(n, u, i, pc, loc, W, P, L) ==
    n # Unknown /\ Trusted(i, pc, loc, L) => n = u - Total(Owing(i, pc, loc, P), W)

(* Nothing is taken, given back or counted. *)
Kept(n, n2, u, i, pc, pc2, loc, loc2, W, W2, P, L) ==
    /\ Balances(n, u, i, pc, loc, W, P, L) /\ n2 \in {n, Unknown}
    /\ n2 # Unknown => Owing(i, pc2, loc2, P) = Owing(i, pc, loc, P)
    /\ \A p \in Owing(i, pc, loc, P) : W2[p] = W[p]
    /\ Trusted(i, pc2, loc2, L) => Trusted(i, pc, loc, L)

LEMMA ExactKept ==
    ASSUME NEW n, NEW n2, NEW u, NEW i, NEW pc, NEW pc2, NEW loc, NEW loc2,
           NEW W, NEW W2, NEW P, NEW L, Kept(n, n2, u, i, pc, pc2, loc, loc2, W, W2, P, L)
    PROVE  Balances(n2, u, i, pc2, loc2, W2, P, L)
<1>1. SUFFICES ASSUME n2 # Unknown, Trusted(i, pc2, loc2, L)
               PROVE  n2 = u - Total(Owing(i, pc2, loc2, P), W2)
  BY DEF Balances
<1> DEFINE C == Owing(i, pc, loc, P)
<1>2. n2 = n /\ Owing(i, pc2, loc2, P) = C /\ (\A p \in C : W2[p] = W[p]) /\ n = u - Total(C, W)
  BY <1>1 DEF Kept, Balances
<1> HIDE DEF C
<1>3. Total(C, W2) = Total(C, W)
  BY <1>2, TotalSame
<1> QED BY <1>2, <1>3

(* Process c has taken or given back a buffer, and has to count it. *)
Taken(n, u, u2, i, pc, pc2, loc, loc2, W, W2, P, L, c) ==
    /\ Balances(n, u, i, pc, loc, W, P, L) /\ n \in Int \cup {Unknown} /\ u \in Int
    /\ AddsOne(Owing(i, pc, loc, P), c, W, W2) /\ u2 = u + W2[c]
    /\ Owing(i, pc2, loc2, P) = Owing(i, pc, loc, P) \cup {c}
    /\ Trusted(i, pc2, loc2, L) => Trusted(i, pc, loc, L)

LEMMA ExactTaken ==
    ASSUME NEW n, NEW u, NEW u2, NEW i, NEW pc, NEW pc2, NEW loc, NEW loc2,
           NEW W, NEW W2, NEW P, NEW L, NEW c,
           Taken(n, u, u2, i, pc, pc2, loc, loc2, W, W2, P, L, c)
    PROVE  Balances(n, u2, i, pc2, loc2, W2, P, L)
<1>1. SUFFICES ASSUME n # Unknown, Trusted(i, pc2, loc2, L)
               PROVE  n = u2 - Total(Owing(i, pc2, loc2, P), W2)
  BY DEF Balances
<1> DEFINE C == Owing(i, pc, loc, P)
           t == Total(C, W)
           w == W2[c]
<1>2. /\ n \in Int /\ u \in Int /\ AddsOne(C, c, W, W2) /\ u2 = u + w
      /\ Owing(i, pc2, loc2, P) = C \cup {c} /\ n = u - t /\ w \in Int
  BY <1>1 DEF Taken, Balances, AddsOne
<1>3. Total(C \cup {c}, W2) = w + t /\ t \in Int
  <2> HIDE DEF C
  <2> QED BY <1>2, TotalMore
<1> HIDE DEF C, t, w
<1>4. u - t = (u + w) - (w + t)
  BY <1>2, <1>3
<1> QED BY <1>2, <1>3, <1>4

(* Process c stores what it has loaded and added to: whoever else has      *)
(* loaded the counter knows nothing.                                       *)
Counted(n, n2, u, i, pc, pc2, loc, loc2, W, W2, P, L, c) ==
    /\ Balances(n, u, i, pc, loc, W, P, L) /\ n \in Int \cup {Unknown} /\ u \in Int
    /\ AddsOne(Owing(i, pc2, loc2, P), c, W2, W)
    /\ Owing(i, pc, loc, P) = Owing(i, pc2, loc2, P) \cup {c}
    /\ loc[c].tmp \in {n, Unknown} /\ n2 = Plus(loc[c].tmp, W[c])
    /\ \A p \in Pid : pc[p] = L /\ loc[p].id = i /\ p # c =>
                         pc2[p] = L /\ loc2[p].id = i /\ loc2[p].tmp = Unknown

LEMMA ExactCounted ==
    ASSUME NEW n, NEW n2, NEW u, NEW i, NEW pc, NEW pc2, NEW loc, NEW loc2,
           NEW W, NEW W2, NEW P, NEW L, NEW c,
           Counted(n, n2, u, i, pc, pc2, loc, loc2, W, W2, P, L, c)
    PROVE  Balances(n2, u, i, pc2, loc2, W2, P, L)
<1>1. SUFFICES ASSUME n2 # Unknown, Trusted(i, pc2, loc2, L)
               PROVE  n2 = u - Total(Owing(i, pc2, loc2, P), W2)
  BY DEF Balances
<1>2. loc[c].tmp = n /\ n # Unknown /\ n2 = n + W[c]
  BY <1>1 DEF Counted, Plus
<1>3. Trusted(i, pc, loc, L)
  BY <1>1, <1>2 DEF Counted, Trusted
<1> DEFINE D == Owing(i, pc2, loc2, P)
           t == Total(D, W2)
           w == W[c]
<1>4. /\ n \in Int /\ u \in Int /\ AddsOne(D, c, W2, W) /\ n = u - Total(D \cup {c}, W) /\ w \in Int
  BY <1>2, <1>3 DEF Counted, Balances, AddsOne
<1>5. Total(D \cup {c}, W) = w + t /\ t \in Int
  <2> HIDE DEF D
  <2> QED BY <1>4, TotalMore
<1> HIDE DEF D, t, w
<1>6. (u - (w + t)) + w = u - t
  BY <1>4, <1>5
<1> QED BY <1>2, <1>4, <1>5, <1>6 DEF w, t, D

(***************************************************************************)
(* The buffers in use.                                                     *)
(***************************************************************************)
UsedIn(B, i) == {b \in InPool(i) : B[b].owner # NoOwner}
SizesIn(B) == [b \in Buffers |-> B[b].size]
BufferRecs == [owner : Int, size : Int]

LEMMA PoolsFinite ==
    ASSUME NEW i \in Pool
    PROVE  IsFiniteSet(InPool(i)) /\ InPool(i) \subseteq Buffers
<1>1. InPool(i) = {<<i, k>> : k \in 1 .. Bufnumb[i]}
  BY BufferParts
<1> DEFINE S == 1 .. Bufnumb[i]
           f == [k \in S |-> <<i, k>>]
<1>2. IsFiniteSet(S)
  <2>1. Bufnumb[i] \in Int
    BY PoolSizes
  <2> QED BY <2>1, FS_Interval
<1>3. f \in Surjection(S, InPool(i))
  BY <1>1 DEF Surjection
<1> HIDE DEF f, S
<1>4. IsFiniteSet(InPool(i))
  BY <1>2, <1>3, FS_Surjection
<1> QED BY <1>4 DEF InPool

LEMMA UsedTypes ==
    ASSUME NEW i \in Pool, NEW B \in [Buffers -> BufferRecs]
    PROVE  /\ IsFiniteSet(UsedIn(B, i)) /\ Total(UsedIn(B, i), SizesIn(B)) \in Int
           /\ Cardinality(UsedIn(B, i)) \in Int /\ UsedIn(B, i) \subseteq Buffers
           /\ \A b \in Buffers : SizesIn(B)[b] = B[b].size /\ B[b].size \in Int
<1>1. UsedIn(B, i) \subseteq InPool(i) /\ UsedIn(B, i) \subseteq Buffers
  BY PoolsFinite DEF UsedIn
<1>2. IsFiniteSet(UsedIn(B, i))
  BY <1>1, PoolsFinite, FS_Subset
<1>3. \A b \in Buffers : SizesIn(B)[b] = B[b].size /\ B[b].size \in Int
  BY DEF SizesIn, BufferRecs
<1>4. Cardinality(UsedIn(B, i)) \in Int
  BY <1>2, FS_CardinalityType
<1> DEFINE C == UsedIn(B, i)
           W == SizesIn(B)
<1>5. IsFiniteSet(C) /\ \A b \in C : W[b] \in Int
  BY <1>1, <1>2, <1>3
<1> HIDE DEF C, W
<1>6. Total(C, W) \in Int
  BY <1>5, TotalType
<1> QED BY <1>1, <1>2, <1>3, <1>4, <1>6 DEF C, W

LEMMA UsedSame ==
    ASSUME NEW i \in Pool, NEW B, NEW B2,
           \A b \in InPool(i) : /\ B2[b].owner # NoOwner <=> B[b].owner # NoOwner
                                /\ B2[b].size = B[b].size
    PROVE  /\ UsedIn(B2, i) = UsedIn(B, i)
           /\ Total(UsedIn(B2, i), SizesIn(B2)) = Total(UsedIn(B, i), SizesIn(B))
<1> DEFINE C == UsedIn(B, i)
           W == SizesIn(B)
           V == SizesIn(B2)
<1>1. UsedIn(B2, i) = C
  BY DEF UsedIn
<1>2. \A b \in C : V[b] = W[b]
  BY PoolsFinite DEF UsedIn, SizesIn
<1> HIDE DEF C, W, V
<1>3. Total(C, V) = Total(C, W)
  BY <1>2, TotalSame
<1> QED BY <1>1, <1>3 DEF C, W, V

(* In B2 one more buffer is somebody's. *)
LEMMA UsedMore ==
    ASSUME NEW i \in Pool, NEW B \in [Buffers -> BufferRecs], NEW B2 \in [Buffers -> BufferRecs],
           NEW b \in InPool(i), B[b].owner = NoOwner, B2[b].owner # NoOwner,
           \A x \in Buffers : x # b => B2[x] = B[x]
    PROVE  /\ Total(UsedIn(B2, i), SizesIn(B2)) = B2[b].size + Total(UsedIn(B, i), SizesIn(B))
           /\ Cardinality(UsedIn(B2, i)) = Cardinality(UsedIn(B, i)) + 1
<1> DEFINE C == UsedIn(B, i)
           W == SizesIn(B)
           V == SizesIn(B2)
<1>1. b \in Buffers /\ InPool(i) \subseteq Buffers
  BY PoolsFinite
<1>2. UsedIn(B2, i) = C \cup {b} /\ b \notin C
  BY <1>1 DEF UsedIn
<1>3. IsFiniteSet(C) /\ C \subseteq Buffers /\ \A x \in Buffers : W[x] = B[x].size /\ W[x] \in Int
  BY UsedTypes
<1>4. \A x \in Buffers : V[x] = B2[x].size /\ V[x] \in Int
  BY UsedTypes
<1>5. AddsOne(C, b, W, V)
  <2> HIDE DEF C, W, V
  <2> QED BY <1>1, <1>2, <1>3, <1>4 DEF AddsOne
<1> HIDE DEF C, W, V
<1>6. Total(C \cup {b}, V) = V[b] + Total(C, W)
  BY <1>5, TotalMore
<1>7. Cardinality(C \cup {b}) = Cardinality(C) + 1
  BY <1>2, <1>3, FS_AddElement
<1> QED BY <1>1, <1>2, <1>4, <1>6, <1>7 DEF C, W, V

(***************************************************************************)
(* The invariant.  allocBy is updated first, then allocBf; what a process  *)
(* has loaded is still the value of the counter, or nobody trusts it; and  *)
(* the sign of the size says what xmalloc and xfree have to count.         *)
(***************************************************************************)
ByPcs == {"by", "by2"}
CallSizes(loc) == [p \in Pid |-> loc[p].size]
CallSteps(loc) == [p \in Pid |-> Step(loc[p].size)]

BytesUsed(B, i) == Total(UsedIn(B, i), SizesIn(B))
BuffersUsed(B, i) == Cardinality(UsedIn(B, i))

ByExact(i) ==
    Balances(allocBy[i], BytesUsed(buffer, i), i, xpc, xlocal, CallSizes(xlocal), ByPcs, "by2")
BfExact(i) ==
    Balances(allocBf[i], BuffersUsed(buffer, i), i, xpc, xlocal, CallSteps(xlocal), UpdatePcs, "bf2")

Loaded ==
    \A p \in Pid :
        /\ xpc[p] = "by2" => xlocal[p].tmp \in {allocBy[xlocal[p].id], Unknown}
        /\ xpc[p] = "bf2" => xlocal[p].tmp \in {allocBf[xlocal[p].id], Unknown}

Positive ==
    /\ \A p \in Pid : xpc[p] \in {"getbuf", "take"} => xlocal[p].size > 0
    /\ \A b \in Buffers : buffer[b].owner # NoOwner => buffer[b].size > 0

Accounts == \A i \in Pool : ByExact(i) /\ BfExact(i)

AInv == Loaded /\ Positive /\ Accounts

LEMMA AccountsFollow == XInv /\ AInv => AccountsExact
<1> SUFFICES ASSUME XInv, AInv, NEW i \in Pool
             PROVE  /\ allocBy[i] # Unknown /\ (\A p \in Counting(i, {"by2"}) : xlocal[p].tmp # Unknown) =>
                          allocBy[i] = SumFunction([b \in InUse(i) |-> buffer[b].size])
                             - SumFunction([p \in Counting(i, {"by", "by2"}) |-> xlocal[p].size])
                    /\ allocBf[i] # Unknown /\ (\A p \in Counting(i, {"bf2"}) : xlocal[p].tmp # Unknown) =>
                          allocBf[i] = Cardinality(InUse(i))
                             - SumFunction([p \in Counting(i, UpdatePcs) |-> Step(xlocal[p].size)])
  BY DEF AccountsExact
<1>1. ByExact(i) /\ BfExact(i)
  BY DEF AInv, Accounts
<1>2. InUse(i) = UsedIn(buffer, i) /\ UsedIn(buffer, i) \subseteq Buffers
  BY PoolsFinite DEF InUse, UsedIn
<1>3. /\ Counting(i, ByPcs) = Owing(i, xpc, xlocal, ByPcs)
      /\ Counting(i, UpdatePcs) = Owing(i, xpc, xlocal, UpdatePcs)
  BY DEF Counting, Owing
<1>4. SumFunction([b \in InUse(i) |-> buffer[b].size]) = BytesUsed(buffer, i)
  <2>1. [b \in InUse(i) |-> buffer[b].size] = [b \in UsedIn(buffer, i) |-> SizesIn(buffer)[b]]
    BY <1>2 DEF SizesIn
  <2> QED BY <2>1 DEF BytesUsed, Total
<1>5. SumFunction([p \in Counting(i, ByPcs) |-> xlocal[p].size])
         = Total(Owing(i, xpc, xlocal, ByPcs), CallSizes(xlocal))
  <2>1. [p \in Counting(i, ByPcs) |-> xlocal[p].size]
           = [p \in Owing(i, xpc, xlocal, ByPcs) |-> CallSizes(xlocal)[p]]
    BY <1>3 DEF CallSizes, Owing
  <2> QED BY <2>1 DEF Total
<1>6. SumFunction([p \in Counting(i, UpdatePcs) |-> Step(xlocal[p].size)])
         = Total(Owing(i, xpc, xlocal, UpdatePcs), CallSteps(xlocal))
  <2>1. [p \in Counting(i, UpdatePcs) |-> Step(xlocal[p].size)]
           = [p \in Owing(i, xpc, xlocal, UpdatePcs) |-> CallSteps(xlocal)[p]]
    BY <1>3 DEF CallSteps, Owing
  <2> QED BY <2>1 DEF Total
<1>7. /\ (\A p \in Counting(i, {"by2"}) : xlocal[p].tmp # Unknown) => Trusted(i, xpc, xlocal, "by2")
      /\ (\A p \in Counting(i, {"bf2"}) : xlocal[p].tmp # Unknown) => Trusted(i, xpc, xlocal, "bf2")
  BY DEF Counting, Trusted
<1>8. allocBy[i] # Unknown /\ (\A p \in Counting(i, {"by2"}) : xlocal[p].tmp # Unknown) =>
         allocBy[i] = SumFunction([b \in InUse(i) |-> buffer[b].size])
                    - SumFunction([p \in Counting(i, {"by", "by2"}) |-> xlocal[p].size])
  BY <1>1, <1>4, <1>5, <1>7 DEF ByExact, Balances, ByPcs
<1>9. allocBf[i] # Unknown /\ (\A p \in Counting(i, {"bf2"}) : xlocal[p].tmp # Unknown) =>
         allocBf[i] = Cardinality(InUse(i))
                    - SumFunction([p \in Counting(i, UpdatePcs) |-> Step(xlocal[p].size)])
  BY <1>1, <1>2, <1>6, <1>7 DEF BfExact, Balances, BuffersUsed
<1> QED BY <1>8, <1>9

LEMMA AccountsInit == XInit => AInv
<1> SUFFICES ASSUME XInit PROVE AInv
  OBVIOUS
<1>1. \A p \in Pid : xpc[p] \in {"app", "init"}
  BY DEF XInit
<1>2. \A b \in Buffers : buffer[b].owner = NoOwner
  BY DEF XInit, InList
<1>3. Loaded /\ Positive
  BY <1>1, <1>2 DEF Loaded, Positive
<1>4. Total({}, CallSizes(xlocal)) = 0 /\ Total({}, CallSteps(xlocal)) = 0 /\ Total({}, SizesIn(buffer)) = 0
  BY NothingTotal
<1>5. ASSUME NEW i \in Pool PROVE ByExact(i) /\ BfExact(i)
  <2>1. UsedIn(buffer, i) = {}
    BY <1>2, PoolsFinite DEF UsedIn
  <2>2. Owing(i, xpc, xlocal, ByPcs) = {} /\ Owing(i, xpc, xlocal, UpdatePcs) = {}
    BY <1>1 DEF Owing, ByPcs, UpdatePcs
  <2>3. allocBy[i] = 0 /\ allocBf[i] = 0
    BY DEF XInit
  <2>4. Cardinality({}) = 0
    BY FS_EmptySet
  <2> QED BY <1>4, <2>1, <2>2, <2>3, <2>4 DEF ByExact, BfExact, Balances, BytesUsed, BuffersUsed
<1> QED BY <1>3, <1>5 DEF AInv, Accounts

(* Nobody begins or ends an update of pool i, or loses what it had to      *)
(* count; what was loaded is trusted no more than before.                  *)
Idle(i, pc, pc2, loc, loc2, P, L) ==
    \A p \in Pid :
        /\ (pc2[p] \in P /\ loc2[p].id = i) <=> (pc[p] \in P /\ loc[p].id = i)
        /\ pc[p] \in P /\ loc[p].id = i => loc2[p].size = loc[p].size
        /\ pc[p] = L /\ loc[p].id = i =>
              pc2[p] = L /\ loc2[p].id = i /\ loc2[p].tmp \in {loc[p].tmp, Unknown}

LEMMA IdleParts ==
    ASSUME NEW i, NEW pc, NEW pc2, NEW loc, NEW loc2, NEW P, NEW L,
           Idle(i, pc, pc2, loc, loc2, P, L)
    PROVE  /\ Owing(i, pc2, loc2, P) = Owing(i, pc, loc, P)
           /\ \A p \in Owing(i, pc, loc, P) : /\ CallSizes(loc2)[p] = CallSizes(loc)[p]
                                              /\ CallSteps(loc2)[p] = CallSteps(loc)[p]
           /\ Trusted(i, pc2, loc2, L) => Trusted(i, pc, loc, L)
<1>1. Owing(i, pc2, loc2, P) = Owing(i, pc, loc, P)
  BY DEF Owing, Idle
<1>2. \A p \in Owing(i, pc, loc, P) : p \in Pid /\ loc2[p].size = loc[p].size
  BY DEF Owing, Idle
<1>3. Trusted(i, pc2, loc2, L) => Trusted(i, pc, loc, L)
  BY DEF Trusted, Idle
<1> QED BY <1>1, <1>2, <1>3 DEF CallSizes, CallSteps

LEMMA ByKept ==
    ASSUME NEW i \in Pool, ByExact(i), BytesUsed(buffer', i) = BytesUsed(buffer, i),
           \/ allocBy'[i] = Unknown
           \/ allocBy'[i] = allocBy[i] /\ Idle(i, xpc, xpc', xlocal, xlocal', ByPcs, "by2")
    PROVE  ByExact(i)'
<1> DEFINE u == BytesUsed(buffer, i)
           W == CallSizes(xlocal)
           W2 == CallSizes(xlocal')
<1>1. Balances(allocBy[i], u, i, xpc, xlocal, W, ByPcs, "by2")
  BY DEF ByExact
<1>2. CASE allocBy'[i] = Unknown
  BY <1>2 DEF ByExact, Balances
<1>3. CASE allocBy'[i] = allocBy[i] /\ Idle(i, xpc, xpc', xlocal, xlocal', ByPcs, "by2")
  <2>1. Kept(allocBy[i], allocBy'[i], u, i, xpc, xpc', xlocal, xlocal', W, W2, ByPcs, "by2")
    <3> HIDE DEF u
    <3> QED BY <1>1, <1>3, IdleParts DEF Kept
  <2>2. Balances(allocBy'[i], u, i, xpc', xlocal', W2, ByPcs, "by2")
    <3> HIDE DEF u, W, W2
    <3> QED BY <2>1, ExactKept
  <2> QED BY <2>2 DEF ByExact
<1> QED BY <1>2, <1>3

LEMMA BfKept ==
    ASSUME NEW i \in Pool, BfExact(i), BuffersUsed(buffer', i) = BuffersUsed(buffer, i),
           \/ allocBf'[i] = Unknown
           \/ allocBf'[i] = allocBf[i] /\ Idle(i, xpc, xpc', xlocal, xlocal', UpdatePcs, "bf2")
    PROVE  BfExact(i)'
<1> DEFINE u == BuffersUsed(buffer, i)
           W == CallSteps(xlocal)
           W2 == CallSteps(xlocal')
<1>1. Balances(allocBf[i], u, i, xpc, xlocal, W, UpdatePcs, "bf2")
  BY DEF BfExact
<1>2. CASE allocBf'[i] = Unknown
  BY <1>2 DEF BfExact, Balances
<1>3. CASE allocBf'[i] = allocBf[i] /\ Idle(i, xpc, xpc', xlocal, xlocal', UpdatePcs, "bf2")
  <2>1. Kept(allocBf[i], allocBf'[i], u, i, xpc, xpc', xlocal, xlocal', W, W2, UpdatePcs, "bf2")
    <3> HIDE DEF u
    <3> QED BY <1>1, <1>3, IdleParts DEF Kept
  <2>2. Balances(allocBf'[i], u, i, xpc', xlocal', W2, UpdatePcs, "bf2")
    <3> HIDE DEF u, W, W2
    <3> QED BY <2>1, ExactKept
  <2> QED BY <2>2 DEF BfExact
<1> QED BY <1>2, <1>3

(* What the counters and the calls are. *)
LEMMA AccountTypes ==
    ASSUME XInv
    PROVE  /\ \A i \in Pool : /\ allocBy[i] \in Int \cup {Unknown} /\ allocBf[i] \in Int \cup {Unknown}
                              /\ BytesUsed(buffer, i) \in Int /\ BuffersUsed(buffer, i) \in Int
           /\ \A p \in Pid : /\ xlocal[p] \in XCalls /\ CallSizes(xlocal)[p] = xlocal[p].size
                             /\ CallSteps(xlocal)[p] = Step(xlocal[p].size) /\ xlocal[p].size \in Int
                             /\ Step(xlocal[p].size) \in Int
           /\ \A i, P : IsFiniteSet(Owing(i, xpc, xlocal, P)) /\ Owing(i, xpc, xlocal, P) \subseteq Pid
<1>1. /\ allocBy \in [Pool -> Int \cup {Unknown}] /\ allocBf \in [Pool -> Int \cup {Unknown}]
      /\ buffer \in [Buffers -> BufferRecs] /\ xlocal \in [Pid -> XCalls]
  BY DEF XInv, XTypes, BufferRecs
<1>2. \A i \in Pool : BytesUsed(buffer, i) \in Int /\ BuffersUsed(buffer, i) \in Int
  BY <1>1, UsedTypes DEF BytesUsed, BuffersUsed
<1>3. \A p \in Pid : xlocal[p] \in XCalls /\ xlocal[p].size \in Int
  BY <1>1, CallRecords
<1>4. \A p \in Pid : /\ CallSizes(xlocal)[p] = xlocal[p].size
                     /\ CallSteps(xlocal)[p] = Step(xlocal[p].size) /\ Step(xlocal[p].size) \in Int
  BY DEF CallSizes, CallSteps, Step
<1>5. \A i, P : Owing(i, xpc, xlocal, P) \subseteq Pid
  BY DEF Owing
<1>6. \A i, P : IsFiniteSet(Owing(i, xpc, xlocal, P))
  BY <1>5, PidSets
<1> QED BY <1>1, <1>2, <1>3, <1>4, <1>5, <1>6


(* A step that takes nothing, gives nothing back and stores nothing: the   *)
(* current process is in no update, or loads a counter.                    *)
QuietMove(c, to, r) ==
    /\ \A p \in Pid : xpc'[p] = IF p = c THEN to ELSE xpc[p]
    /\ \A p \in Pid : xlocal'[p] = IF p = c THEN r ELSE xlocal[p]
    /\ \/ xpc[c] \notin UpdatePcs /\ to \notin UpdatePcs /\ (to \in {"getbuf", "take"} => r.size > 0)
       \/ /\ r.id = xlocal[c].id /\ r.size = xlocal[c].size
          /\ \/ xpc[c] = "by" /\ to = "by2" /\ r.tmp = allocBy[r.id]
             \/ xpc[c] = "bf" /\ to = "bf2" /\ r.tmp = allocBf[r.id]

LEMMA QuietAccounts ==
    ASSUME AInv, buffer' = buffer, allocBy' = allocBy, allocBf' = allocBf,
           NEW c \in Pid, NEW to, NEW r, QuietMove(c, to, r)
    PROVE  AInv'
<1>1. Loaded'
  BY DEF AInv, Loaded, QuietMove, UpdatePcs
<1>2. Positive'
  BY DEF AInv, Positive, QuietMove, UpdatePcs
<1>3. ASSUME NEW i \in Pool PROVE ByExact(i)' /\ BfExact(i)'
  <2>1. Idle(i, xpc, xpc', xlocal, xlocal', ByPcs, "by2")
    BY DEF Idle, QuietMove, UpdatePcs, ByPcs
  <2>2. Idle(i, xpc, xpc', xlocal, xlocal', UpdatePcs, "bf2")
    BY DEF Idle, QuietMove, UpdatePcs
  <2>3. ByExact(i) /\ BfExact(i)
    BY DEF AInv, Accounts
  <2> QED BY <2>1, <2>2, <2>3, ByKept, BfKept
<1> QED BY <1>1, <1>2, <1>3 DEF AInv, Accounts

LEMMA FrameAccounts ==
    ASSUME AInv, UNCHANGED xvars
    PROVE  AInv'
<1>1. xpc' = xpc /\ xlocal' = xlocal /\ buffer' = buffer /\ allocBy' = allocBy /\ allocBf' = allocBf
  BY DEF xvars
<1> QED BY <1>1 DEF AInv, Loaded, Positive, Accounts, ByExact, BfExact

(* The variables of the current process. *)
LEMMA GoesTo ==
    ASSUME IInv, XInv, NEW to, xpc' = [xpc EXCEPT ![currpid] = to]
    PROVE  currpid \in Pid /\ \A p \in Pid : xpc'[p] = IF p = currpid THEN to ELSE xpc[p]
<1>1. currpid \in Pid /\ xpc \in [Pid -> XPcs]
  BY CurrentRuns DEF XInv, XTypes
<1> QED BY <1>1

LEMMA SetsLocal ==
    ASSUME IInv, XInv, NEW r, XLocal(r)
    PROVE  \A p \in Pid : xlocal'[p] = IF p = currpid THEN r ELSE xlocal[p]
<1>1. currpid \in Pid /\ xlocal \in [Pid -> XCalls]
  BY CurrentRuns DEF XInv, XTypes
<1> QED BY <1>1 DEF XLocal

LEMMA TmpReplaced ==
    \A r \in XCalls : \A t : /\ [r EXCEPT !.tmp = t].id = r.id
                             /\ [r EXCEPT !.tmp = t].size = r.size
                             /\ [r EXCEPT !.tmp = t].tmp = t
  BY DEF XCalls

LEMMA QuietSteps ==
    ASSUME IInv, XInv, AInv,
           \/ MkBufPool \/ XmallocInitEnd \/ (\E size \in Sizes : Xmalloc(size)) \/ GetBuf
           \/ LoadBy \/ LoadBf
    PROVE  AInv'
<1>0. currpid \in Pid
  BY CurrentRuns
<1>1. CASE MkBufPool
  <2>1. /\ buffer' = buffer /\ allocBy' = allocBy /\ allocBf' = allocBf /\ xpc' = xpc
        /\ xlocal' = xlocal /\ xpc[currpid] = "init"
    BY <1>1 DEF MkBufPool, XIn
  <2> QED BY <2>1 DEF AInv, Loaded, Positive, Accounts, ByExact, BfExact
<1>2. CASE XmallocInitEnd
  <2>1. /\ buffer' = buffer /\ allocBy' = allocBy /\ allocBf' = allocBf /\ XLocal(NoCall)
        /\ xpc' = [xpc EXCEPT ![currpid] = "app"] /\ xpc[currpid] = "init"
    BY <1>2 DEF XmallocInitEnd, XIn, XReturn, XGoTo
  <2>2. QuietMove(currpid, "app", NoCall)
    BY <2>1, GoesTo, SetsLocal DEF QuietMove, UpdatePcs
  <2> QED BY <1>0, <2>1, <2>2, QuietAccounts
<1>3. ASSUME NEW size \in Sizes, Xmalloc(size) PROVE AInv'
  <2> DEFINE r == [id |-> findClosestIndex(size), size |-> size, tmp |-> 0]
  <2>1. /\ buffer' = buffer /\ allocBy' = allocBy /\ allocBf' = allocBf /\ XLocal(r) /\ size > 0
        /\ xpc' = [xpc EXCEPT ![currpid] = "getbuf"] /\ xpc[currpid] = "app"
    BY <1>3 DEF Xmalloc, XCaller, XIn, XGoTo
  <2>2. r.size = size
    OBVIOUS
  <2> HIDE DEF r
  <2>3. \A p \in Pid : xlocal'[p] = IF p = currpid THEN r ELSE xlocal[p]
    BY <2>1, SetsLocal
  <2>4. \A p \in Pid : xpc'[p] = IF p = currpid THEN "getbuf" ELSE xpc[p]
    BY <2>1, GoesTo
  <2>5. QuietMove(currpid, "getbuf", r)
    BY <2>1, <2>2, <2>3, <2>4 DEF QuietMove, UpdatePcs
  <2> QED BY <1>0, <2>1, <2>5, QuietAccounts
<1>4. CASE GetBuf
  <2>1. /\ buffer' = buffer /\ allocBy' = allocBy /\ allocBf' = allocBf /\ xlocal' = xlocal
        /\ xpc' = [xpc EXCEPT ![currpid] = "take"] /\ xpc[currpid] = "getbuf"
    BY <1>4 DEF GetBuf, XIn, XGoTo
  <2>2. \A p \in Pid : xpc'[p] = IF p = currpid THEN "take" ELSE xpc[p]
    BY <2>1, GoesTo
  <2>3. xlocal[currpid].size > 0
    BY <1>0, <2>1 DEF AInv, Positive
  <2>4. QuietMove(currpid, "take", xlocal[currpid])
    BY <2>1, <2>2, <2>3 DEF QuietMove, UpdatePcs
  <2> QED BY <1>0, <2>1, <2>4, QuietAccounts
<1>5. ASSUME NEW t, NEW from, NEW to, XIn(from), XLocal([mine EXCEPT !.tmp = t]),
             \/ from = "by" /\ to = "by2" /\ t = allocBy[mine.id]
             \/ from = "bf" /\ to = "bf2" /\ t = allocBf[mine.id],
             xpc' = [xpc EXCEPT ![currpid] = to],
             buffer' = buffer, allocBy' = allocBy, allocBf' = allocBf
      PROVE  AInv'
  <2>1. mine \in XCalls /\ xpc[currpid] = from
    BY <1>5, PoolCode
  <2> DEFINE r == [mine EXCEPT !.tmp = t]
  <2>2. r.id = mine.id /\ r.size = mine.size /\ r.tmp = t
    BY <2>1, TmpReplaced
  <2>3. XLocal(r)
    BY <1>5
  <2> HIDE DEF r
  <2>4. \A p \in Pid : xlocal'[p] = IF p = currpid THEN r ELSE xlocal[p]
    BY <2>3, SetsLocal
  <2>5. \A p \in Pid : xpc'[p] = IF p = currpid THEN to ELSE xpc[p]
    BY <1>5, GoesTo
  <2>6. QuietMove(currpid, to, r)
    BY <1>5, <2>1, <2>2, <2>4, <2>5 DEF QuietMove, mine
  <2> QED BY <1>0, <1>5, <2>6, QuietAccounts
<1>6. CASE LoadBy
  BY <1>5, <1>6 DEF LoadBy, XGoTo
<1>7. CASE LoadBf
  BY <1>5, <1>7 DEF LoadBf, XGoTo
<1> QED BY <1>1, <1>2, <1>3, <1>4, <1>6, <1>7

(* A buffer of pool i changes hands: process c begins an update of i.      *)
Begins(i, c, s) ==
    /\ c \in Pid /\ xpc[c] \notin UpdatePcs /\ s \in Int
    /\ \A p \in Pid : xpc'[p] = IF p = c THEN "by" ELSE xpc[p]
    /\ \A p \in Pid : p # c => xlocal'[p] = xlocal[p]
    /\ xlocal'[c].id = i /\ xlocal'[c].size = s
    /\ allocBy' = allocBy /\ allocBf' = allocBf
    /\ BytesUsed(buffer', i) = BytesUsed(buffer, i) + s
    /\ BuffersUsed(buffer', i) = BuffersUsed(buffer, i) + Step(s)
    /\ \A j \in Pool : j # i => /\ BytesUsed(buffer', j) = BytesUsed(buffer, j)
                                /\ BuffersUsed(buffer', j) = BuffersUsed(buffer, j)

LEMMA BeginsOwing ==
    ASSUME NEW i, NEW c, NEW s, Begins(i, c, s), NEW P, "by" \in P, P \subseteq UpdatePcs
    PROVE  /\ Owing(i, xpc', xlocal', P) = Owing(i, xpc, xlocal, P) \cup {c}
           /\ c \notin Owing(i, xpc, xlocal, P)
           /\ \A p \in Owing(i, xpc, xlocal, P) : p \in Pid /\ p # c
<1>1. c \notin Owing(i, xpc, xlocal, P)
  BY DEF Begins, Owing
<1>2. \A p \in Owing(i, xpc, xlocal, P) : p \in Pid /\ p # c
  BY <1>1 DEF Owing
<1>3. Owing(i, xpc', xlocal', P) = Owing(i, xpc, xlocal, P) \cup {c}
  BY DEF Begins, Owing
<1> QED BY <1>1, <1>2, <1>3

LEMMA BeginsBy ==
    ASSUME XInv, NEW i \in Pool, NEW c, NEW s, Begins(i, c, s), ByExact(i)
    PROVE  ByExact(i)'
<1> DEFINE n == allocBy[i]
           u == BytesUsed(buffer, i)
           u2 == BytesUsed(buffer', i)
           W == CallSizes(xlocal)
           W2 == CallSizes(xlocal')
           C == Owing(i, xpc, xlocal, ByPcs)
<1>1. Balances(n, u, i, xpc, xlocal, W, ByPcs, "by2") /\ n \in Int \cup {Unknown} /\ u \in Int
  BY AccountTypes DEF ByExact
<1>2. Owing(i, xpc', xlocal', ByPcs) = C \cup {c} /\ c \notin C /\ \A p \in C : p \in Pid /\ p # c
  BY BeginsOwing DEF ByPcs, UpdatePcs
<1>3. W2[c] = s /\ u2 = u + s /\ s \in Int /\ \A p \in Pid : p # c => W2[p] = W[p]
  BY DEF Begins, CallSizes
<1>4. IsFiniteSet(C) /\ \A p \in Pid : W[p] \in Int
  BY AccountTypes
<1>5. Trusted(i, xpc', xlocal', "by2") => Trusted(i, xpc, xlocal, "by2")
  BY DEF Begins, Trusted, UpdatePcs
<1>6. AddsOne(C, c, W, W2)
  <2> HIDE DEF C, W, W2
  <2> QED BY <1>2, <1>3, <1>4 DEF AddsOne
<1>7. Taken(n, u, u2, i, xpc, xpc', xlocal, xlocal', W, W2, ByPcs, "by2", c)
  <2> HIDE DEF n, u, u2, W, W2
  <2> QED BY <1>1, <1>2, <1>3, <1>5, <1>6 DEF Taken
<1>8. Balances(n, u2, i, xpc', xlocal', W2, ByPcs, "by2")
  <2> HIDE DEF n, u, u2, W, W2
  <2> QED BY <1>7, ExactTaken
<1>9. allocBy'[i] = n
  BY DEF Begins
<1> QED BY <1>8, <1>9 DEF ByExact

LEMMA BeginsBf ==
    ASSUME XInv, NEW i \in Pool, NEW c, NEW s, Begins(i, c, s), BfExact(i)
    PROVE  BfExact(i)'
<1> DEFINE n == allocBf[i]
           u == BuffersUsed(buffer, i)
           u2 == BuffersUsed(buffer', i)
           W == CallSteps(xlocal)
           W2 == CallSteps(xlocal')
           C == Owing(i, xpc, xlocal, UpdatePcs)
<1>1. Balances(n, u, i, xpc, xlocal, W, UpdatePcs, "bf2") /\ n \in Int \cup {Unknown} /\ u \in Int
  BY AccountTypes DEF BfExact
<1>2. Owing(i, xpc', xlocal', UpdatePcs) = C \cup {c} /\ c \notin C /\ \A p \in C : p \in Pid /\ p # c
  BY BeginsOwing DEF UpdatePcs
<1>3. /\ W2[c] = Step(s) /\ u2 = u + Step(s) /\ Step(s) \in Int
      /\ \A p \in Pid : p # c => W2[p] = W[p]
  BY DEF Begins, CallSteps, Step
<1>4. IsFiniteSet(C) /\ \A p \in Pid : W[p] \in Int
  BY AccountTypes
<1>5. Trusted(i, xpc', xlocal', "bf2") => Trusted(i, xpc, xlocal, "bf2")
  BY DEF Begins, Trusted, UpdatePcs
<1>6. AddsOne(C, c, W, W2)
  <2> HIDE DEF C, W, W2
  <2> QED BY <1>2, <1>3, <1>4 DEF AddsOne
<1>7. Taken(n, u, u2, i, xpc, xpc', xlocal, xlocal', W, W2, UpdatePcs, "bf2", c)
  <2> HIDE DEF n, u, u2, W, W2
  <2> QED BY <1>1, <1>2, <1>3, <1>5, <1>6 DEF Taken
<1>8. Balances(n, u2, i, xpc', xlocal', W2, UpdatePcs, "bf2")
  <2> HIDE DEF n, u, u2, W, W2
  <2> QED BY <1>7, ExactTaken
<1>9. allocBf'[i] = n
  BY DEF Begins
<1> QED BY <1>8, <1>9 DEF BfExact

LEMMA BeginsAccounts ==
    ASSUME XInv, AInv, NEW i \in Pool, NEW c, NEW s, Begins(i, c, s)
    PROVE  Accounts'
<1>1. ASSUME NEW j \in Pool, j # i PROVE ByExact(j)' /\ BfExact(j)'
  <2>1. Idle(j, xpc, xpc', xlocal, xlocal', ByPcs, "by2")
    BY <1>1 DEF Idle, Begins, ByPcs, UpdatePcs
  <2>2. Idle(j, xpc, xpc', xlocal, xlocal', UpdatePcs, "bf2")
    BY <1>1 DEF Idle, Begins, UpdatePcs
  <2>3. /\ ByExact(j) /\ BfExact(j) /\ allocBy'[j] = allocBy[j] /\ allocBf'[j] = allocBf[j]
        /\ BytesUsed(buffer', j) = BytesUsed(buffer, j)
        /\ BuffersUsed(buffer', j) = BuffersUsed(buffer, j)
    BY <1>1 DEF AInv, Accounts, Begins
  <2> QED BY <2>1, <2>2, <2>3, ByKept, BfKept
<1>2. ByExact(i)' /\ BfExact(i)'
  BY BeginsBy, BeginsBf DEF AInv, Accounts
<1> QED BY <1>1, <1>2 DEF Accounts


(* xmalloc has its buffer; the size stored in it is the one it counts.     *)
LEMMA GetBufEndAccounts ==
    ASSUME IInv, XInv, AInv, GetBufEnd
    PROVE  AInv'
<1>0. PICK i : i = mine.id
  OBVIOUS
<1>1. PICK c : c = currpid
  OBVIOUS
<1> DEFINE h == Head(bpnext[i])
           s == mine.size
<1>2. XIn("take")
  BY DEF GetBufEnd
<1>3. /\ c \in Pid /\ xpc[c] = "take" /\ i \in 1 .. nbpools /\ i \in Pool /\ mine \in XCalls
      /\ bpnext[i] # <<>>
  BY <1>0, <1>1, <1>2, PoolCode, BufferThere
<1>4. /\ buffer' = [buffer EXCEPT ![h] = [owner |-> c, size |-> s]]
      /\ xpc' = [xpc EXCEPT ![c] = "by"] /\ xlocal' = xlocal
      /\ allocBy' = allocBy /\ allocBf' = allocBf
  BY <1>0, <1>1, <1>3 DEF GetBufEnd, XGoTo
<1>5. \A p \in Pid : xpc'[p] = IF p = c THEN "by" ELSE xpc[p]
  BY <1>1, <1>4, GoesTo
<1>6. xlocal[c].id = i /\ xlocal[c].size = s /\ s \in Int /\ s > 0 /\ Step(s) = 1
  <2>1. xlocal[c].id = i /\ xlocal[c].size = s /\ s \in Int
    BY <1>0, <1>1, <1>3, CallRecords DEF mine
  <2>2. s > 0
    BY <1>3, <2>1 DEF AInv, Positive
  <2> QED BY <2>1, <2>2 DEF Step
<1>7. h \in InPool(i) /\ h \in Buffers /\ buffer[h].owner = NoOwner
  <2> DEFINE list == bpnext[i]
  <2>1. list \in Seq(Buffers) /\ list # <<>> /\ OnQueue(list, Unowned(i))
    BY <1>3, BookParts DEF XInv, BuffersPartitioned, OnQueue, Unowned
  <2> HIDE DEF list
  <2>2. Head(list) \in Unowned(i)
    BY <2>1, TailOnQueue
  <2> QED BY <2>2 DEF list, Unowned, InPool
<1>8. c \in Int /\ c # NoOwner
  BY <1>3, NPROCAssumption DEF Pid, NoOwner
<1> HIDE DEF h, s
<1>9. /\ buffer' \in [Buffers -> BufferRecs] /\ buffer'[h].owner = c /\ buffer'[h].size = s
      /\ \A x \in Buffers : x # h => buffer'[x] = buffer[x]
  <2>1. buffer \in [Buffers -> BufferRecs]
    BY DEF XInv, XTypes, BufferRecs
  <2>2. [owner |-> c, size |-> s] \in BufferRecs
    BY <1>6, <1>8 DEF BufferRecs
  <2> DEFINE r == [owner |-> c, size |-> s]
  <2>3. r.owner = c /\ r.size = s /\ r \in BufferRecs /\ buffer' = [buffer EXCEPT ![h] = r]
    BY <1>4, <2>2
  <2> HIDE DEF r
  <2> QED BY <1>7, <2>1, <2>3
<1>10. Begins(i, c, s)
  <2>1. buffer \in [Buffers -> BufferRecs]
    BY DEF XInv, XTypes, BufferRecs
  <2>2. /\ BytesUsed(buffer', i) = s + BytesUsed(buffer, i)
        /\ BuffersUsed(buffer', i) = BuffersUsed(buffer, i) + 1
    BY <1>3, <1>7, <1>8, <1>9, <2>1, UsedMore DEF BytesUsed, BuffersUsed
  <2>3. BytesUsed(buffer, i) \in Int
    BY <1>3, AccountTypes
  <2>4. s + BytesUsed(buffer, i) = BytesUsed(buffer, i) + s
    BY <1>6, <2>3
  <2>5. ASSUME NEW j \in Pool, j # i
        PROVE  BytesUsed(buffer', j) = BytesUsed(buffer, j) /\ BuffersUsed(buffer', j) = BuffersUsed(buffer, j)
    <3>1. \A x \in InPool(j) : buffer'[x] = buffer[x]
      BY <1>7, <1>9, <2>5 DEF InPool
    <3> QED BY <3>1, UsedSame DEF BytesUsed, BuffersUsed
  <2>6. xpc[c] \notin UpdatePcs
    BY <1>3 DEF UpdatePcs
  <2> QED BY <1>3, <1>4, <1>5, <1>6, <2>2, <2>4, <2>5, <2>6 DEF Begins
<1>11. Accounts'
  BY <1>3, <1>10, BeginsAccounts
<1>12. Loaded'
  BY <1>4, <1>5 DEF AInv, Loaded
<1>13. Positive'
  BY <1>4, <1>5, <1>6, <1>9 DEF AInv, Positive
<1> QED BY <1>11, <1>12, <1>13 DEF AInv

(* xfree has given the buffer back, and still knows its size. *)
LEMMA XfreeAccounts ==
    ASSUME IInv, XInv, AInv, NEW b \in Buffers, Xfree(b)
    PROVE  AInv'
<1>0. PICK i : i = b[1]
  OBVIOUS
<1>1. PICK c : c = currpid
  OBVIOUS
<1>2. PICK s : s = -Recorded(b)
  OBVIOUS
<1> DEFINE r == [id |-> i, size |-> s, tmp |-> 0]
<1>3. /\ XIn("app") /\ buffer[b].owner = c
      /\ buffer' = [buffer EXCEPT ![b] = InList] /\ XLocal(r)
      /\ xpc' = [xpc EXCEPT ![c] = "by"] /\ allocBy' = allocBy /\ allocBf' = allocBf
  BY <1>0, <1>1, <1>2 DEF Xfree, XCaller, XGoTo
<1>4. c \in Pid /\ xpc[c] = "app"
  BY <1>1, <1>3, PoolCode
<1>5. c \in Int /\ c # NoOwner
  BY <1>4, NPROCAssumption DEF Pid, NoOwner
<1>6. i \in Pool /\ b \in InPool(i)
  BY <1>0, BufferParts DEF InPool
<1>7. buffer \in [Buffers -> BufferRecs]
  BY DEF XInv, XTypes, BufferRecs
<1>8. s = -buffer[b].size /\ buffer[b].size \in Int /\ s \in Int /\ Step(s) = -1
  <2>1. s = -buffer[b].size /\ buffer[b].size \in Int
    BY <1>2, <1>7 DEF Recorded, BufferRecs
  <2>2. buffer[b].size > 0
    BY <1>3, <1>5 DEF AInv, Positive
  <2> QED BY <2>1, <2>2 DEF Step
<1>9. r.id = i /\ r.size = s
  OBVIOUS
<1> HIDE DEF r
<1>10. \A p \in Pid : xpc'[p] = IF p = c THEN "by" ELSE xpc[p]
  BY <1>1, <1>3, GoesTo
<1>11. \A p \in Pid : xlocal'[p] = IF p = c THEN r ELSE xlocal[p]
  BY <1>1, <1>3, SetsLocal
<1>12. /\ buffer' \in [Buffers -> BufferRecs] /\ buffer'[b].owner = NoOwner
       /\ \A x \in Buffers : x # b => buffer'[x] = buffer[x]
  <2>1. InList \in BufferRecs /\ InList.owner = NoOwner
    BY DEF InList, BufferRecs, NoOwner
  <2> QED BY <1>3, <1>7, <2>1
<1>13. Begins(i, c, s)
  <2>1. /\ BytesUsed(buffer, i) = buffer[b].size + BytesUsed(buffer', i)
        /\ BuffersUsed(buffer, i) = BuffersUsed(buffer', i) + 1
    <3> DEFINE B == buffer'
               B2 == buffer
    <3>1. /\ B \in [Buffers -> BufferRecs] /\ B2 \in [Buffers -> BufferRecs]
          /\ B[b].owner = NoOwner /\ B2[b].owner # NoOwner
          /\ \A x \in Buffers : x # b => B2[x] = B[x]
      BY <1>3, <1>5, <1>7, <1>12
    <3> HIDE DEF B, B2
    <3>2. /\ Total(UsedIn(B2, i), SizesIn(B2)) = B2[b].size + Total(UsedIn(B, i), SizesIn(B))
          /\ Cardinality(UsedIn(B2, i)) = Cardinality(UsedIn(B, i)) + 1
      BY <1>6, <3>1, UsedMore
    <3> QED BY <3>2 DEF B, B2, BytesUsed, BuffersUsed
  <2>2. BytesUsed(buffer', i) \in Int /\ BuffersUsed(buffer', i) \in Int
    BY <1>6, <1>12, UsedTypes DEF BytesUsed, BuffersUsed
  <2>3. /\ BytesUsed(buffer', i) = BytesUsed(buffer, i) + s
        /\ BuffersUsed(buffer', i) = BuffersUsed(buffer, i) + Step(s)
    <3> DEFINE u == BytesUsed(buffer', i)
               v == BuffersUsed(buffer', i)
               z == buffer[b].size
    <3>1. u \in Int /\ v \in Int /\ z \in Int /\ s = -z /\ Step(s) = -1
      BY <1>8, <2>2
    <3>2. BytesUsed(buffer, i) = z + u /\ BuffersUsed(buffer, i) = v + 1
      BY <2>1
    <3> HIDE DEF u, v, z
    <3>3. u = (z + u) + s /\ v = (v + 1) + Step(s)
      BY <3>1
    <3> QED BY <3>2, <3>3 DEF u, v
  <2>4. ASSUME NEW j \in Pool, j # i
        PROVE  BytesUsed(buffer', j) = BytesUsed(buffer, j) /\ BuffersUsed(buffer', j) = BuffersUsed(buffer, j)
    <3>1. \A x \in InPool(j) : buffer'[x] = buffer[x]
      BY <1>6, <1>12, <2>4 DEF InPool
    <3> QED BY <3>1, UsedSame DEF BytesUsed, BuffersUsed
  <2>5. xpc[c] \notin UpdatePcs
    BY <1>4 DEF UpdatePcs
  <2> QED BY <1>3, <1>4, <1>8, <1>9, <1>10, <1>11, <2>3, <2>4, <2>5 DEF Begins
<1>14. Accounts'
  BY <1>6, <1>13, BeginsAccounts
<1>15. Loaded'
  BY <1>3, <1>10, <1>11 DEF AInv, Loaded
<1>16. Positive'
  BY <1>10, <1>11, <1>12 DEF AInv, Positive
<1> QED BY <1>14, <1>15, <1>16 DEF AInv

(* Who stores spoils what the others have loaded. *)
LEMMA SpoiltParts ==
    ASSUME XInv, NEW pc, NEW p \in Pid
    PROVE  /\ Spoilt(pc)[p].id = xlocal[p].id /\ Spoilt(pc)[p].size = xlocal[p].size
           /\ Spoilt(pc)[p].tmp = IF p # currpid /\ xpc[p] = pc /\ xlocal[p].id = mine.id
                                  THEN Unknown ELSE xlocal[p].tmp
<1> DEFINE r == xlocal[p]
<1>1. r \in XCalls
  BY DEF XInv, XTypes
<1>2. Spoilt(pc)[p] = IF p # currpid /\ xpc[p] = pc /\ r.id = mine.id
                      THEN [r EXCEPT !.tmp = Unknown] ELSE r
  BY DEF Spoilt
<1> HIDE DEF r
<1>3. /\ [r EXCEPT !.tmp = Unknown].id = r.id /\ [r EXCEPT !.tmp = Unknown].size = r.size
      /\ [r EXCEPT !.tmp = Unknown].tmp = Unknown
  BY <1>1, TmpReplaced
<1> QED BY <1>2, <1>3 DEF r

(* Process c, which is at L, stores the counter of pool i and goes on. *)
Stores(i, c, L, to) ==
    /\ c \in Pid /\ xpc[c] = L /\ xlocal[c].id = i /\ buffer' = buffer
    /\ \A p \in Pid : xpc'[p] = IF p = c THEN to ELSE xpc[p]
    /\ \A p \in Pid : p # c =>
          /\ xlocal'[p].id = xlocal[p].id /\ xlocal'[p].size = xlocal[p].size
          /\ xlocal'[p].tmp = IF xpc[p] = L /\ xlocal[p].id = i THEN Unknown ELSE xlocal[p].tmp

LEMMA StoresOwing ==
    ASSUME XInv, NEW i, NEW c, NEW L, NEW to, Stores(i, c, L, to), NEW P, L \in P, to \notin P
    PROVE  /\ Owing(i, xpc, xlocal, P) = Owing(i, xpc', xlocal', P) \cup {c}
           /\ c \notin Owing(i, xpc', xlocal', P) /\ IsFiniteSet(Owing(i, xpc', xlocal', P))
           /\ \A p \in Owing(i, xpc', xlocal', P) :
                 p \in Pid /\ p # c /\ CallSizes(xlocal')[p] = CallSizes(xlocal)[p]
                 /\ CallSteps(xlocal')[p] = CallSteps(xlocal)[p]
<1>1. c \notin Owing(i, xpc', xlocal', P)
  BY DEF Stores, Owing
<1>2. Owing(i, xpc, xlocal, P) = Owing(i, xpc', xlocal', P) \cup {c}
  BY DEF Stores, Owing
<1>3. \A p \in Owing(i, xpc', xlocal', P) : p \in Pid /\ p # c
  BY <1>1 DEF Owing
<1>4. IsFiniteSet(Owing(i, xpc', xlocal', P))
  BY <1>3, PidSets
<1>5. \A p \in Pid : p # c => CallSizes(xlocal')[p] = CallSizes(xlocal)[p]
                              /\ CallSteps(xlocal')[p] = CallSteps(xlocal)[p]
  BY DEF Stores, CallSizes, CallSteps
<1> QED BY <1>1, <1>2, <1>3, <1>4, <1>5

LEMMA StoreByAccounts ==
    ASSUME IInv, XInv, AInv, StoreBy
    PROVE  AInv'
<1>0. PICK i : i = mine.id
  OBVIOUS
<1>1. PICK c : c = currpid
  OBVIOUS
<1>2. XIn("by2") /\ xlocal' = Spoilt("by2") /\ allocBf' = allocBf /\ buffer' = buffer
      /\ xpc' = [xpc EXCEPT ![c] = "bf"]
      /\ allocBy' = [allocBy EXCEPT ![i] = Plus(xlocal[c].tmp, xlocal[c].size)]
  BY <1>0, <1>1 DEF StoreBy, XGoTo, mine
<1>3. c \in Pid /\ xpc[c] = "by2" /\ i \in Pool /\ xlocal[c].id = i
  BY <1>0, <1>1, <1>2, PoolCode DEF mine
<1>4. \A p \in Pid : xpc'[p] = IF p = c THEN "bf" ELSE xpc[p]
  BY <1>1, <1>2, GoesTo
<1>5. \A p \in Pid : /\ xlocal'[p].id = xlocal[p].id /\ xlocal'[p].size = xlocal[p].size
                     /\ xlocal'[p].tmp = IF p # c /\ xpc[p] = "by2" /\ xlocal[p].id = i
                                         THEN Unknown ELSE xlocal[p].tmp
  BY <1>0, <1>1, <1>2, SpoiltParts
<1>6. Stores(i, c, "by2", "bf")
  BY <1>2, <1>3, <1>4, <1>5 DEF Stores
<1>7. /\ allocBy'[i] = Plus(xlocal[c].tmp, xlocal[c].size)
      /\ \A j \in Pool : j # i => allocBy'[j] = allocBy[j]
  BY <1>2, <1>3 DEF XInv, XTypes
<1>8. ASSUME NEW j \in Pool PROVE BfExact(j)'
  <2>1. Idle(j, xpc, xpc', xlocal, xlocal', UpdatePcs, "bf2")
    BY <1>3, <1>4, <1>5 DEF Idle, UpdatePcs
  <2>2. BfExact(j) /\ allocBf'[j] = allocBf[j] /\ BuffersUsed(buffer', j) = BuffersUsed(buffer, j)
    BY <1>2 DEF AInv, Accounts
  <2> QED BY <2>1, <2>2, BfKept
<1>9. ASSUME NEW j \in Pool, j # i PROVE ByExact(j)'
  <2>1. Idle(j, xpc, xpc', xlocal, xlocal', ByPcs, "by2")
    BY <1>3, <1>4, <1>5, <1>9 DEF Idle, ByPcs
  <2>2. ByExact(j) /\ allocBy'[j] = allocBy[j] /\ BytesUsed(buffer', j) = BytesUsed(buffer, j)
    BY <1>2, <1>7, <1>9 DEF AInv, Accounts
  <2> QED BY <2>1, <2>2, ByKept
<1>10. ByExact(i)'
  <2> DEFINE n == allocBy[i]
             n2 == allocBy'[i]
             u == BytesUsed(buffer, i)
             W == CallSizes(xlocal)
             W2 == CallSizes(xlocal')
             D == Owing(i, xpc', xlocal', ByPcs)
  <2>1. Balances(n, u, i, xpc, xlocal, W, ByPcs, "by2") /\ n \in Int \cup {Unknown} /\ u \in Int
    BY <1>3, AccountTypes DEF AInv, Accounts, ByExact
  <2>2. /\ Owing(i, xpc, xlocal, ByPcs) = D \cup {c} /\ c \notin D /\ IsFiniteSet(D)
        /\ \A p \in D : p \in Pid /\ W2[p] = W[p]
    <3>1. "by2" \in ByPcs /\ "bf" \notin ByPcs
      BY DEF ByPcs
    <3> QED BY <1>6, <3>1, StoresOwing
  <2>3. (\A p \in Pid : W[p] \in Int) /\ W[c] = xlocal[c].size
    BY <1>3, AccountTypes
  <2>4. xlocal[c].tmp \in {n, Unknown}
    BY <1>3 DEF AInv, Loaded
  <2>5. \A p \in Pid : xpc[p] = "by2" /\ xlocal[p].id = i /\ p # c =>
                          xpc'[p] = "by2" /\ xlocal'[p].id = i /\ xlocal'[p].tmp = Unknown
    BY <1>4, <1>5
  <2>6. AddsOne(D, c, W2, W)
    <3> HIDE DEF D, W, W2
    <3> QED BY <1>3, <2>2, <2>3 DEF AddsOne
  <2>7. n2 = Plus(xlocal[c].tmp, W[c])
    BY <1>7, <2>3
  <2>8. Counted(n, n2, u, i, xpc, xpc', xlocal, xlocal', W, W2, ByPcs, "by2", c)
    <3> HIDE DEF n, n2, u, W, W2
    <3> QED BY <2>1, <2>2, <2>4, <2>5, <2>6, <2>7 DEF Counted
  <2>9. Balances(n2, u, i, xpc', xlocal', W2, ByPcs, "by2")
    <3> HIDE DEF n, n2, u, W, W2
    <3> QED BY <2>8, ExactCounted
  <2> QED BY <1>2, <2>9 DEF ByExact
<1>11. Loaded'
  <2>1. ASSUME NEW p \in Pid, xpc'[p] = "by2"
        PROVE  xlocal'[p].tmp \in {allocBy'[xlocal'[p].id], Unknown}
    <3>1. p # c /\ xpc[p] = "by2"
      BY <1>4, <2>1
    <3>2. xlocal[p].id \in Pool /\ xlocal[p].tmp \in {allocBy[xlocal[p].id], Unknown}
      <4>1. xlocal[p].id \in 1 .. nbpools
        BY <3>1 DEF XInv, PoolCalls
      <4> QED BY <3>1, <4>1, BookParts DEF AInv, Loaded
    <3> QED BY <1>5, <1>7, <3>1, <3>2
  <2>2. ASSUME NEW p \in Pid, xpc'[p] = "bf2"
        PROVE  xlocal'[p].tmp \in {allocBf'[xlocal'[p].id], Unknown}
    <3>1. p # c /\ xpc[p] = "bf2"
      BY <1>4, <2>2
    <3>2. xlocal'[p].tmp = xlocal[p].tmp
      BY <1>5, <3>1
    <3> QED BY <1>2, <1>5, <3>1, <3>2 DEF AInv, Loaded
  <2> QED BY <2>1, <2>2 DEF Loaded
<1>12. Positive'
  BY <1>2, <1>4, <1>5 DEF AInv, Positive
<1> QED BY <1>8, <1>9, <1>10, <1>11, <1>12 DEF AInv, Accounts

LEMMA StoreBfAccounts ==
    ASSUME IInv, XInv, AInv, StoreBf
    PROVE  AInv'
<1>0. PICK i : i = mine.id
  OBVIOUS
<1>1. PICK c : c = currpid
  OBVIOUS
<1>2. XIn("bf2") /\ xlocal' = [Spoilt("bf2") EXCEPT ![c] = NoCall] /\ allocBy' = allocBy
      /\ buffer' = buffer /\ xpc' = [xpc EXCEPT ![c] = "app"]
      /\ allocBf' = [allocBf EXCEPT ![i] = Plus(xlocal[c].tmp, Step(xlocal[c].size))]
  BY <1>0, <1>1 DEF StoreBf, XGoTo, mine
<1>3. c \in Pid /\ xpc[c] = "bf2" /\ i \in Pool /\ xlocal[c].id = i
  BY <1>0, <1>1, <1>2, PoolCode DEF mine
<1>4. \A p \in Pid : xpc'[p] = IF p = c THEN "app" ELSE xpc[p]
  BY <1>1, <1>2, GoesTo
<1>5. \A p \in Pid : p # c =>
         /\ xlocal'[p].id = xlocal[p].id /\ xlocal'[p].size = xlocal[p].size
         /\ xlocal'[p].tmp = IF xpc[p] = "bf2" /\ xlocal[p].id = i THEN Unknown ELSE xlocal[p].tmp
  <2> DEFINE S == Spoilt("bf2")
  <2>1. S \in [Pid -> XCalls]
    BY SpoiltKeeps
  <2>2. \A p \in Pid : /\ S[p].id = xlocal[p].id /\ S[p].size = xlocal[p].size
                       /\ S[p].tmp = IF p # c /\ xpc[p] = "bf2" /\ xlocal[p].id = i
                                     THEN Unknown ELSE xlocal[p].tmp
    BY <1>0, <1>1, SpoiltParts
  <2>3. xlocal' = [S EXCEPT ![c] = NoCall]
    BY <1>2
  <2> HIDE DEF S
  <2>4. \A p \in Pid : p # c => xlocal'[p] = S[p]
    BY <2>1, <2>3
  <2> QED BY <2>2, <2>4
<1>6. Stores(i, c, "bf2", "app")
  BY <1>2, <1>3, <1>4, <1>5 DEF Stores
<1>7. /\ allocBf'[i] = Plus(xlocal[c].tmp, Step(xlocal[c].size))
      /\ \A j \in Pool : j # i => allocBf'[j] = allocBf[j]
  BY <1>2, <1>3 DEF XInv, XTypes
<1>8. ASSUME NEW j \in Pool PROVE ByExact(j)'
  <2>1. Idle(j, xpc, xpc', xlocal, xlocal', ByPcs, "by2")
    BY <1>3, <1>4, <1>5 DEF Idle, ByPcs
  <2>2. ByExact(j) /\ allocBy'[j] = allocBy[j] /\ BytesUsed(buffer', j) = BytesUsed(buffer, j)
    BY <1>2 DEF AInv, Accounts
  <2> QED BY <2>1, <2>2, ByKept
<1>9. ASSUME NEW j \in Pool, j # i PROVE BfExact(j)'
  <2>1. Idle(j, xpc, xpc', xlocal, xlocal', UpdatePcs, "bf2")
    BY <1>3, <1>4, <1>5, <1>9 DEF Idle, UpdatePcs
  <2>2. BfExact(j) /\ allocBf'[j] = allocBf[j] /\ BuffersUsed(buffer', j) = BuffersUsed(buffer, j)
    BY <1>2, <1>7, <1>9 DEF AInv, Accounts
  <2> QED BY <2>1, <2>2, BfKept
<1>10. BfExact(i)'
  <2> DEFINE n == allocBf[i]
             n2 == allocBf'[i]
             u == BuffersUsed(buffer, i)
             W == CallSteps(xlocal)
             W2 == CallSteps(xlocal')
             D == Owing(i, xpc', xlocal', UpdatePcs)
  <2>1. Balances(n, u, i, xpc, xlocal, W, UpdatePcs, "bf2") /\ n \in Int \cup {Unknown} /\ u \in Int
    BY <1>3, AccountTypes DEF AInv, Accounts, BfExact
  <2>2. /\ Owing(i, xpc, xlocal, UpdatePcs) = D \cup {c} /\ c \notin D /\ IsFiniteSet(D)
        /\ \A p \in D : p \in Pid /\ W2[p] = W[p]
    <3>1. "bf2" \in UpdatePcs /\ "app" \notin UpdatePcs
      BY DEF UpdatePcs
    <3> QED BY <1>6, <3>1, StoresOwing
  <2>3. (\A p \in Pid : W[p] \in Int) /\ W[c] = Step(xlocal[c].size)
    BY <1>3, AccountTypes
  <2>4. xlocal[c].tmp \in {n, Unknown}
    BY <1>3 DEF AInv, Loaded
  <2>5. \A p \in Pid : xpc[p] = "bf2" /\ xlocal[p].id = i /\ p # c =>
                          xpc'[p] = "bf2" /\ xlocal'[p].id = i /\ xlocal'[p].tmp = Unknown
    BY <1>4, <1>5
  <2>6. AddsOne(D, c, W2, W)
    <3> HIDE DEF D, W, W2
    <3> QED BY <1>3, <2>2, <2>3 DEF AddsOne
  <2>7. n2 = Plus(xlocal[c].tmp, W[c])
    BY <1>7, <2>3
  <2>8. Counted(n, n2, u, i, xpc, xpc', xlocal, xlocal', W, W2, UpdatePcs, "bf2", c)
    <3> HIDE DEF n, n2, u, W, W2
    <3> QED BY <2>1, <2>2, <2>4, <2>5, <2>6, <2>7 DEF Counted
  <2>9. Balances(n2, u, i, xpc', xlocal', W2, UpdatePcs, "bf2")
    <3> HIDE DEF n, n2, u, W, W2
    <3> QED BY <2>8, ExactCounted
  <2> QED BY <1>2, <2>9 DEF BfExact
<1>11. Loaded'
  <2>1. ASSUME NEW p \in Pid, xpc'[p] = "bf2"
        PROVE  xlocal'[p].tmp \in {allocBf'[xlocal'[p].id], Unknown}
    <3>1. p # c /\ xpc[p] = "bf2"
      BY <1>4, <2>1
    <3>2. xlocal[p].id \in Pool /\ xlocal[p].tmp \in {allocBf[xlocal[p].id], Unknown}
      <4>1. xlocal[p].id \in 1 .. nbpools
        BY <3>1 DEF XInv, PoolCalls
      <4> QED BY <3>1, <4>1, BookParts DEF AInv, Loaded
    <3> QED BY <1>5, <1>7, <3>1, <3>2
  <2>2. ASSUME NEW p \in Pid, xpc'[p] = "by2"
        PROVE  xlocal'[p].tmp \in {allocBy'[xlocal'[p].id], Unknown}
    <3>1. p # c /\ xpc[p] = "by2"
      BY <1>4, <2>2
    <3>2. xlocal'[p].tmp = xlocal[p].tmp
      BY <1>5, <3>1
    <3> QED BY <1>2, <1>5, <3>1, <3>2 DEF AInv, Loaded
  <2> QED BY <2>1, <2>2 DEF Loaded
<1>12. Positive'
  BY <1>2, <1>4, <1>5 DEF AInv, Positive
<1> QED BY <1>8, <1>9, <1>10, <1>11, <1>12 DEF AInv, Accounts


(* A process that is killed in an update leaves the counter untrusted, and *)
(* whoever had loaded it as well.                                          *)
LEMMA KilledLocals ==
    ASSUME XInv, Killed, NEW p \in Pid, p = karg[currpid], NEW q \in Pid, q # p
    PROVE  /\ xpc'[q] = xpc[q] /\ xlocal'[q].id = xlocal[q].id /\ xlocal'[q].size = xlocal[q].size
           /\ xlocal'[q].tmp = IF SameUpdate(q, p) THEN Unknown ELSE xlocal[q].tmp
<1> DEFINE r == xlocal[q]
<1>1. r \in XCalls /\ xpc \in [Pid -> XPcs]
  BY DEF XInv, XTypes
<1>2. xlocal'[q] = IF SameUpdate(q, p) THEN [r EXCEPT !.tmp = Unknown] ELSE r
  BY DEF Killed
<1>3. xpc'[q] = xpc[q]
  BY <1>1 DEF Killed
<1> HIDE DEF r
<1>4. /\ [r EXCEPT !.tmp = Unknown].id = r.id /\ [r EXCEPT !.tmp = Unknown].size = r.size
      /\ [r EXCEPT !.tmp = Unknown].tmp = Unknown
  BY <1>1, TmpReplaced
<1> QED BY <1>2, <1>3, <1>4 DEF r

LEMMA KilledAccounts ==
    ASSUME IInv, XInv, AInv, Killed
    PROVE  AInv'
<1>0. PICK p : p = karg[currpid]
  OBVIOUS
<1>1. p \in Pid
  <2>1. KillEnd
    BY DEF Killed
  <2> QED BY <1>0, <2>1, KillEndEffect
<1>2. /\ allocBy' = [i \in Pool |-> IF i = xlocal[p].id /\ xpc[p] \in ByPcs
                                    THEN Unknown ELSE allocBy[i]]
      /\ allocBf' = [i \in Pool |-> IF i = xlocal[p].id /\ xpc[p] \in UpdatePcs
                                    THEN Unknown ELSE allocBf[i]]
  BY <1>0 DEF Killed, ByPcs
<1>3. xpc'[p] = "app"
  BY <1>0, <1>1 DEF Killed, XInv, XTypes
<1>4. \A q \in Pid : q # p =>
         /\ xpc'[q] = xpc[q] /\ xlocal'[q].id = xlocal[q].id /\ xlocal'[q].size = xlocal[q].size
         /\ xlocal'[q].tmp = IF SameUpdate(q, p) THEN Unknown ELSE xlocal[q].tmp
  BY <1>0, <1>1, KilledLocals
<1>5. \A b \in Buffers : /\ buffer'[b].owner = NoOwner <=> buffer[b].owner = NoOwner
                         /\ buffer'[b].size = buffer[b].size
  <2>1. \A b \in Buffers : buffer'[b].owner = NoOwner <=> buffer[b].owner = NoOwner
    BY <1>0, <1>1, KilledBuffers
  <2>2. ASSUME NEW b \in Buffers PROVE buffer'[b].size = buffer[b].size
    <3> DEFINE r == buffer[b]
    <3>1. r \in [owner : Int, size : Int]
      BY DEF XInv, XTypes
    <3>2. buffer'[b] = IF r.owner = p THEN [r EXCEPT !.owner = Nobody] ELSE r
      BY <1>0 DEF Killed
    <3> HIDE DEF r
    <3>3. [r EXCEPT !.owner = Nobody].size = r.size
      BY <3>1
    <3> QED BY <3>2, <3>3 DEF r
  <2> QED BY <2>1, <2>2
<1>6. ASSUME NEW i \in Pool PROVE ByExact(i)' /\ BfExact(i)'
  <2>1. BytesUsed(buffer', i) = BytesUsed(buffer, i) /\ BuffersUsed(buffer', i) = BuffersUsed(buffer, i)
    <3>1. \A b \in InPool(i) : /\ buffer'[b].owner # NoOwner <=> buffer[b].owner # NoOwner
                               /\ buffer'[b].size = buffer[b].size
      BY <1>5, PoolsFinite
    <3> QED BY <3>1, UsedSame DEF BytesUsed, BuffersUsed
  <2>2. \/ allocBy'[i] = Unknown
        \/ allocBy'[i] = allocBy[i] /\ Idle(i, xpc, xpc', xlocal, xlocal', ByPcs, "by2")
    <3>1. CASE i = xlocal[p].id /\ xpc[p] \in ByPcs
      BY <1>2, <3>1
    <3>2. CASE ~(i = xlocal[p].id /\ xpc[p] \in ByPcs)
      <4>1. Idle(i, xpc, xpc', xlocal, xlocal', ByPcs, "by2")
        BY <1>1, <1>3, <1>4, <3>2 DEF Idle, ByPcs
      <4> QED BY <1>2, <3>2, <4>1
    <3> QED BY <3>1, <3>2
  <2>3. \/ allocBf'[i] = Unknown
        \/ allocBf'[i] = allocBf[i] /\ Idle(i, xpc, xpc', xlocal, xlocal', UpdatePcs, "bf2")
    <3>1. CASE i = xlocal[p].id /\ xpc[p] \in UpdatePcs
      BY <1>2, <3>1
    <3>2. CASE ~(i = xlocal[p].id /\ xpc[p] \in UpdatePcs)
      <4>1. Idle(i, xpc, xpc', xlocal, xlocal', UpdatePcs, "bf2")
        BY <1>1, <1>3, <1>4, <3>2 DEF Idle, UpdatePcs
      <4> QED BY <1>2, <3>2, <4>1
    <3> QED BY <3>1, <3>2
  <2>4. ByExact(i) /\ BfExact(i)
    BY DEF AInv, Accounts
  <2> QED BY <2>1, <2>2, <2>3, <2>4, ByKept, BfKept
<1>7. Loaded'
  <2>1. ASSUME NEW q \in Pid, xpc'[q] \in {"by2", "bf2"}
        PROVE  /\ q # p /\ xpc[q] = xpc'[q] /\ xlocal'[q].id = xlocal[q].id /\ xlocal[q].id \in Pool
               /\ ~SameUpdate(q, p) => xlocal'[q].tmp = xlocal[q].tmp
               /\ SameUpdate(q, p) => xlocal'[q].tmp = Unknown
    <3>1. q # p
      BY <1>3, <2>1
    <3>2. xpc[q] = xpc'[q] /\ xlocal'[q].id = xlocal[q].id
          /\ xlocal'[q].tmp = IF SameUpdate(q, p) THEN Unknown ELSE xlocal[q].tmp
      BY <1>4, <3>1
    <3>3. xlocal[q].id \in 1 .. nbpools
      BY <2>1, <3>2 DEF XInv, PoolCalls
    <3> QED BY <3>1, <3>2, <3>3, BookParts
  <2>2. ASSUME NEW q \in Pid, xpc'[q] = "by2"
        PROVE  xlocal'[q].tmp \in {allocBy'[xlocal'[q].id], Unknown}
    <3>1. CASE SameUpdate(q, p)
      BY <2>1, <2>2, <3>1
    <3>2. CASE ~SameUpdate(q, p)
      <4>1. ~(xlocal[q].id = xlocal[p].id /\ xpc[p] \in ByPcs)
        BY <2>1, <2>2, <3>2 DEF SameUpdate, ByPcs
      <4>2. allocBy'[xlocal[q].id] = allocBy[xlocal[q].id]
        BY <1>2, <2>1, <2>2, <4>1
      <4> QED BY <2>1, <2>2, <3>2, <4>2 DEF AInv, Loaded
    <3> QED BY <3>1, <3>2
  <2>3. ASSUME NEW q \in Pid, xpc'[q] = "bf2"
        PROVE  xlocal'[q].tmp \in {allocBf'[xlocal'[q].id], Unknown}
    <3>1. CASE SameUpdate(q, p)
      BY <2>1, <2>3, <3>1
    <3>2. CASE ~SameUpdate(q, p)
      <4>1. ~(xlocal[q].id = xlocal[p].id /\ xpc[p] \in UpdatePcs)
        BY <2>1, <2>3, <3>2 DEF SameUpdate
      <4>2. allocBf'[xlocal[q].id] = allocBf[xlocal[q].id]
        BY <1>2, <2>1, <2>3, <4>1
      <4> QED BY <2>1, <2>3, <3>2, <4>2 DEF AInv, Loaded
    <3> QED BY <3>1, <3>2
  <2> QED BY <2>2, <2>3 DEF Loaded
<1>8. Positive'
  BY <1>3, <1>4, <1>5 DEF AInv, Positive
<1> QED BY <1>6, <1>7, <1>8 DEF AInv, Accounts

LEMMA AccountsStep ==
    ASSUME IInv, XInv, AInv, [XNext]_xallvars
    PROVE  AInv'
<1>1. CASE MkBufPool \/ XmallocInitEnd \/ (\E size \in Sizes : Xmalloc(size)) \/ GetBuf
           \/ LoadBy \/ LoadBf
  BY <1>1, QuietSteps
<1>2. ASSUME NEW b \in Buffers, Xfree(b) PROVE AInv'
  BY <1>2, XfreeAccounts
<1>3. CASE GetBufEnd \/ StoreBy \/ StoreBf \/ Killed
  BY <1>3, GetBufEndAccounts, StoreByAccounts, StoreBfAccounts, KilledAccounts
<1>4. CASE XSpawn \/ XStart \/ XPreempt \/ KillOther \/ Stopped \/ UNCHANGED xallvars
  <2>1. UNCHANGED xvars
    BY <1>4, Zenon DEF XSpawn, XStart, XPreempt, KillOther, Stopped, xallvars
  <2> QED BY <2>1, FrameAccounts
<1> QED BY <1>1, <1>2, <1>3, <1>4 DEF XNext

(* xmalloc and xfree, interrupted between any two of their steps: as long  *)
(* as no two updates of a counter overlapped and nobody was killed in one, *)
(* allocBy and allocBf are the sizes and the number of the buffers in use, *)
(* but for the updates still to come.                                      *)
THEOREM AccountsAreExact == XSpec => []AccountsExact
<1>1. XInit => AInv
  BY AccountsInit
<1>2. IInv /\ XInv /\ AInv /\ [XNext]_xallvars => AInv'
  BY AccountsStep
<1>3. XInv /\ AInv => AccountsExact
  BY AccountsFollow
<1> QED BY <1>1, <1>2, <1>3, PoolsInductive, PTL DEF XSpec
==============================================================================
