----------------------------- MODULE XinuFutures -----------------------------
(***************************************************************************)
(* Futures (system/future.c) on top of the process manager: processes that *)
(* share one future, in one of its three modes.                            *)
(*                                                                         *)
(* future_get and future_set run with interrupts disabled, but each        *)
(* suspend() and resume() in them may give the processor away, to a        *)
(* process that may use the same future.  So an action here is what the    *)
(* code does up to and including such a call, and fpc[p] says where in     *)
(* future.c process p continues when it is dispatched.  suspend and resume *)
(* are the actions of XinuKernel, with its scheduling.  A call that        *)
(* returns SYSERR at once changes nothing and is no step.                  *)
(***************************************************************************)
EXTENDS XinuKernel

CONSTANTS
    Modes,      \* the modes of the future: EXCLUSIVE, SHARED, QUEUE
    MaxSets     \* bound on the number of calls of future_set

ASSUME ModesAssumption   == Modes \subseteq {"EXCLUSIVE", "SHARED", "QUEUE"}
ASSUME MaxSetsAssumption == MaxSets \in Nat

VARIABLES
    mode, fstate, fvalue, fpid, set_queue, get_queue,      \* future_t
    fpc,        \* where in future.c each process continues
    pending,    \* the value that a process in future_set has still to store
    fault,      \* fdequeue has followed the NULL head of an empty queue
    nextval,    \* the n-th call of future_set passes the value n
    stored,     \* history: the values future_set has stored
    got         \* history: how often, 0, 1 or more, future_get returned each value

queues == <<set_queue, get_queue>>
history == <<nextval, stored, got>>
fvars == <<mode, fstate, fvalue, fpid, queues, fpc, pending, fault, history>>
allvars == <<vars, fvars>>

(* The memory of a new future is not cleared. *)
Garbage == 0
Values == Garbage .. MaxSets

(* What a process that is not in future.c may do. *)
InApp == ~fault /\ Interruptible /\ fpc[currpid] = "app"
Caller == InApp /\ currpid # NULLPROC
In(pc) == ~fault /\ Interruptible /\ fpc[currpid] = pc
GoTo(pc) == fpc' = [fpc EXCEPT ![currpid] = pc]

(* resume() of a process that is not suspended returns SYSERR. *)
TryResume(p) == IF prstate[p] = "SUSP" THEN Resume(p) ELSE UNCHANGED vars

(* *value = f->value *)
Take == got' = [got EXCEPT ![fvalue] = Min({@ + 1, 2})]

(* f->value = value; f->state = FUTURE_READY *)
Store(v) ==
    /\ fvalue' = v
    /\ fstate' = "READY"
    /\ stored' = stored \cup {v}

(***************************************************************************)
(* FUTURE_EXCLUSIVE                                                        *)
(***************************************************************************)
ExclusiveGetTail ==
    IF fstate = "READY"
    THEN Take /\ fstate' = "EMPTY"
    ELSE UNCHANGED <<got, fstate>>

(* Mutant: the future does not remember who waits. *)
GetExclusive_NoPid ==
    /\ Caller
    /\ mode = "EXCLUSIVE"
    /\ IF fstate = "EMPTY"
       THEN /\ fstate' = "WAITING"
            /\ GoTo("getX")
            /\ Suspend(currpid)
            /\ UNCHANGED <<got, fpid>>
       ELSE /\ ExclusiveGetTail
            /\ UNCHANGED <<vars, fpid, fpc>>
    /\ UNCHANGED <<mode, fvalue, queues, pending, fault, nextval, stored>>

GetExclusive ==
    /\ Caller
    /\ mode = "EXCLUSIVE"
    /\ IF fstate = "EMPTY"
       THEN /\ fpid' = currpid
            /\ fstate' = "WAITING"
            /\ GoTo("getX")
            /\ Suspend(currpid)
            /\ UNCHANGED got
       ELSE /\ ExclusiveGetTail
            /\ UNCHANGED <<vars, fpid, fpc>>
    /\ UNCHANGED <<mode, fvalue, queues, pending, fault, nextval, stored>>

GetExclusiveEnd ==
    /\ In("getX")
    /\ ExclusiveGetTail
    /\ GoTo("app")
    /\ UNCHANGED <<vars, mode, fvalue, fpid, queues, pending, fault, nextval, stored>>

(* Mutant: a value nobody has taken yet is overwritten. *)
SetExclusive_Overwrite ==
    /\ Caller
    /\ mode = "EXCLUSIVE"
    /\ nextval <= MaxSets
    /\ Store(nextval)
    /\ nextval' = nextval + 1
    /\ IF fstate = "WAITING" THEN TryResume(fpid) ELSE UNCHANGED vars
    /\ UNCHANGED <<mode, fpid, queues, fpc, pending, fault, got>>

SetExclusive ==
    /\ Caller
    /\ mode = "EXCLUSIVE"
    /\ nextval <= MaxSets
    /\ fstate # "READY"
    /\ Store(nextval)
    /\ nextval' = nextval + 1
    /\ IF fstate = "WAITING" THEN TryResume(fpid) ELSE UNCHANGED vars
    /\ UNCHANGED <<mode, fpid, queues, fpc, pending, fault, got>>

(***************************************************************************)
(* FUTURE_SHARED                                                           *)
(***************************************************************************)
SharedGetTail ==
    /\ Take
    /\ fstate' = IF get_queue = <<>> THEN "EMPTY" ELSE fstate

(* Mutant: a future that others wait for counts as set. *)
Unset_EmptyOnly == fstate = "EMPTY"

Unset == fstate # "READY"

GetShared ==
    /\ Caller
    /\ mode = "SHARED"
    /\ IF Unset
       THEN /\ fstate' = "WAITING"
            /\ get_queue' = Append(get_queue, currpid)
            /\ GoTo("getS")
            /\ Suspend(currpid)
            /\ UNCHANGED got
       ELSE /\ SharedGetTail
            /\ UNCHANGED <<vars, get_queue, fpc>>
    /\ UNCHANGED <<mode, fvalue, fpid, set_queue, pending, fault, nextval, stored>>

GetSharedEnd ==
    /\ In("getS")
    /\ SharedGetTail
    /\ GoTo("app")
    /\ UNCHANGED <<vars, mode, fvalue, fpid, queues, pending, fault, nextval, stored>>

SetShared ==
    /\ Caller
    /\ mode = "SHARED"
    /\ nextval <= MaxSets
    /\ fstate # "READY"
    /\ Store(nextval)
    /\ nextval' = nextval + 1
    /\ GoTo("setS")
    /\ UNCHANGED <<vars, mode, fpid, queues, pending, fault, got>>

(* Mutant: one process is resumed instead of all. *)
SetSharedLoop_Once ==
    /\ In("setS")
    /\ get_queue # <<>>
    /\ get_queue' = Tail(get_queue)
    /\ GoTo("app")
    /\ TryResume(Head(get_queue))
    /\ UNCHANGED <<mode, fstate, fvalue, fpid, set_queue, pending, fault, history>>

(* One turn of the loop that resumes the waiting processes; another        *)
(* process may run before the next turn.                                   *)
SetSharedLoop ==
    /\ In("setS")
    /\ get_queue # <<>>
    /\ get_queue' = Tail(get_queue)
    /\ TryResume(Head(get_queue))
    /\ UNCHANGED <<mode, fstate, fvalue, fpid, set_queue, fpc, pending, fault, history>>

SetSharedEnd ==
    /\ In("setS")
    /\ get_queue = <<>>
    /\ GoTo("app")
    /\ UNCHANGED <<vars, mode, fstate, fvalue, fpid, queues, pending, fault, history>>

(***************************************************************************)
(* FUTURE_QUEUE                                                            *)
(***************************************************************************)
(* A waiting setter is released first; it may run before this goes on. *)
GetQueueRelease ==
    /\ Caller
    /\ mode = "QUEUE"
    /\ set_queue # <<>>
    /\ set_queue' = Tail(set_queue)
    /\ GoTo("getQ")
    /\ TryResume(Head(set_queue))
    /\ UNCHANGED <<mode, fstate, fvalue, fpid, get_queue, pending, fault, history>>

GetQueueTake ==
    /\ Take
    /\ fstate' = "EMPTY"
    /\ GoTo("app")
    /\ UNCHANGED <<vars, mode, fvalue, fpid, queues, pending, fault, nextval, stored>>

(* The rest of future_get, when it waits and when it does not. *)
GetQueueBody == In("getQ") \/ (Caller /\ mode = "QUEUE" /\ set_queue = <<>>)

GetQueueWait ==
    /\ GetQueueBody
    /\ fstate = "EMPTY"
    /\ get_queue' = Append(get_queue, currpid)
    /\ GoTo("getQend")
    /\ Suspend(currpid)
    /\ UNCHANGED <<mode, fstate, fvalue, fpid, set_queue, pending, fault, history>>

GetQueueNow ==
    /\ GetQueueBody
    /\ fstate # "EMPTY"
    /\ GetQueueTake

GetQueueEnd == In("getQend") /\ GetQueueTake

SetQueueWait ==
    /\ Caller
    /\ mode = "QUEUE"
    /\ nextval <= MaxSets
    /\ get_queue = <<>>
    /\ nextval' = nextval + 1
    /\ pending' = [pending EXCEPT ![currpid] = nextval]
    /\ set_queue' = Append(set_queue, currpid)
    /\ GoTo("setQ")
    /\ Suspend(currpid)
    /\ UNCHANGED <<mode, fstate, fvalue, fpid, get_queue, fault, stored, got>>

(* Store the value, dequeue a getter and resume it.  What fdequeue reads   *)
(* through the head of an empty queue is unknown: the model stops there.   *)
SetQueueStore(v) ==
    /\ Store(v)
    /\ IF get_queue = <<>>
       THEN fault' = TRUE /\ UNCHANGED <<vars, get_queue>>
       ELSE /\ get_queue' = Tail(get_queue)
            /\ TryResume(Head(get_queue))
            /\ UNCHANGED fault
    /\ UNCHANGED <<mode, fpid, set_queue, got>>

SetQueueNow ==
    /\ Caller
    /\ mode = "QUEUE"
    /\ nextval <= MaxSets
    /\ get_queue # <<>>
    /\ SetQueueStore(nextval)
    /\ nextval' = nextval + 1
    /\ UNCHANGED <<fpc, pending>>

(* A setter that waited is dispatched: it does not look at get_queue again. *)
SetQueueEnd ==
    /\ In("setQ")
    /\ SetQueueStore(pending[currpid])
    /\ pending' = [pending EXCEPT ![currpid] = Garbage]
    /\ GoTo("app")
    /\ UNCHANGED nextval

(***************************************************************************)
(* The applications create processes and start them; the clock preempts    *)
(* them in application code.  Nobody sleeps, so no tick calls wakeup.      *)
(***************************************************************************)
Spawn == \E prio \in Prios : InApp /\ Create(prio) /\ UNCHANGED fvars
Start == \E p \in Pid : InApp /\ fpc[p] = "app" /\ Resume(p) /\ UNCHANGED fvars
Preempt == InApp /\ Tick /\ UNCHANGED fvars
Faulted == fault /\ UNCHANGED allvars

FInit ==
    /\ Init
    /\ mode \in Modes
    /\ fstate = "EMPTY"
    /\ fvalue = Garbage
    /\ fpid = NULLPROC
    /\ set_queue = <<>>
    /\ get_queue = <<>>
    /\ fpc = [p \in Pid |-> "app"]
    /\ pending = [p \in Pid |-> Garbage]
    /\ fault = FALSE
    /\ nextval = 1
    /\ stored = {}
    /\ got = [v \in Values |-> 0]

ExclusiveStep == GetExclusive \/ GetExclusiveEnd \/ SetExclusive
SharedStep == GetShared \/ GetSharedEnd \/ SetShared \/ SetSharedLoop \/ SetSharedEnd
QueueStep == GetQueueRelease \/ GetQueueWait \/ GetQueueNow \/ GetQueueEnd
             \/ SetQueueWait \/ SetQueueNow \/ SetQueueEnd

FNext == ExclusiveStep \/ SharedStep \/ QueueStep \/ Spawn \/ Start \/ Preempt \/ Faulted

FSpec == FInit /\ [][FNext]_allvars

-----------------------------------------------------------------------------
(* A process that future_get or future_set has suspended can be found by   *)
(* the call that is to resume it: it is on the queue of its side, once, or *)
(* is the one that an exclusive future names.  Nobody else is there.       *)
SuspendedIn(pcs) == {p \in Pid : prstate[p] = "SUSP" /\ fpc[p] \in pcs}

WaitersFindable ==
    /\ OnQueue(get_queue, SuspendedIn({"getS", "getQend"}))
    /\ OnQueue(set_queue, SuspendedIn({"setQ"}))
    /\ SuspendedIn({"getX"}) = IF fstate = "WAITING" /\ mode = "EXCLUSIVE" THEN {fpid} ELSE {}

(* future_get never returns what was in the memory before the first        *)
(* future_set: the suspended reader does not test the state again.         *)
NoGarbage == got[Garbage] = 0

(* An exclusive future hands every value to exactly one future_get: a      *)
(* value is neither overwritten before it was taken nor taken twice, even  *)
(* if another process takes it from under the one that was resumed.        *)
ExclusiveOnce ==
    mode = "EXCLUSIVE" =>
        \A v \in stored : got[v] = IF fstate = "READY" /\ fvalue = v THEN 0 ELSE 1

(* As soon as a shared future is set all waiting processes are resumed: no *)
(* process waits for a value that is there, unless a setter is about to    *)
(* resume it.                                                              *)
AllResumed ==
    mode = "SHARED" /\ fstate = "READY" /\ get_queue # <<>> =>
        \E p \in Pid : fpc[p] = "setS"
=============================================================================
