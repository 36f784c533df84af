------------------------------ MODULE XinuKernel ------------------------------
(***************************************************************************)
(* The Xinu process manager: scheduling, semaphores, messages, the sleep   *)
(* queue and the clock interrupt, process creation and termination.        *)
(*                                                                         *)
(* Xinu runs on one processor.  A system call runs with interrupts         *)
(* disabled, and the processor changes hands only in the ctxsw at the end  *)
(* of resched(), so the atomic steps are the pieces of kernel code between *)
(* two calls of resched() that may switch.  cont[p] says where p's saved   *)
(* context continues: "user" is application code with interrupts enabled,  *)
(* any other value is kernel code still to run with interrupts disabled,   *)
(* which is then the only step the processor can take.  The loops that     *)
(* release several processes under resched_cntl are one step per turn.     *)
(***************************************************************************)
EXTENDS XinuQueue

CONSTANTS
    NPROC,      \* size of the process table
    NSEM,       \* size of the semaphore table
    QUANTUM,    \* clock ticks in a time slice (arm-bbb)
    Platform,   \* "arm-qemu" or "arm-bbb": whose clkhandler is linked
    IntBits,    \* width of the 32-bit integers, scaled down
    Calls,      \* the system calls that the applications make
    Prios,      \* priorities passed to create and chprio
    Counts,     \* counts passed to semcreate, semreset and signaln
    MaxCount,   \* bound on a semaphore's count
    Delays,     \* delays passed to sleepms
    Waits       \* delays passed to recvtime

Pid == 0 .. NPROC - 1
Sem == 0 .. NSEM - 1
NULLPROC == 0
MAIN == 1       \* the process nulluser creates to run main()
NoSem == -1     \* SYSERR

ASSUME NPROCAssumption    == NPROC \in Nat /\ NPROC >= 2
ASSUME NSEMAssumption     == NSEM \in Nat \ {0}
ASSUME QUANTUMAssumption  == QUANTUM \in Nat \ {0}
ASSUME PlatformAssumption == Platform \in {"arm-qemu", "arm-bbb"}
ASSUME IntBitsAssumption  == IntBits \in Nat \ {0}
ASSUME PriosAssumption    == Prios \subseteq Int
ASSUME CountsAssumption   == Counts \subseteq Int
ASSUME MaxCountAssumption == MaxCount \in Nat
ASSUME DelaysAssumption   == Delays \subseteq 0 .. 2^IntBits - 1
ASSUME WaitsAssumption    == Waits \subseteq Int

VARIABLES
    currpid,    \* the process that holds the processor
    prstate, prprio, prsem, prparent, prhasmsg,     \* struct procent
    prcount,    \* processes in the system
    nextpid,    \* newpid's static, modulo NPROC
    readylist, sleepq, qkey,                        \* queues and their keys
    sstate, scount, squeue,                         \* struct sentry
    nextsem,    \* newsem's static
    preempt,    \* ticks left in the time slice
    ndefers, attempt,                               \* struct defer
    cont,       \* where each process's saved context continues
    karg,       \* the process or semaphore a pending kernel call is about
    kcount,     \* the count a pending kernel call still has to use
    halted,     \* xdone has halted the processor
    remain      \* history: ticks left of each delay that was asked for

sched == <<currpid, prstate, readylist, qkey, preempt, ndefers, attempt>>
semvars == <<sstate, scount, squeue>>
kvars == <<cont, karg, kcount>>
vars == <<sched, semvars, kvars, prprio, prsem, prparent, prhasmsg, prcount,
          nextpid, sleepq, nextsem, halted, remain>>

States == {"FREE", "CURR", "READY", "RECV", "SLEEP", "SUSP", "WAIT", "RECTIM"}
Conts == {"user", "receive", "recvtime", "kill",
          "signaln", "semdelete", "semreset", "wakeup", "clkhandler"}

(* A uint32 passed as an int32, as sleepms does with its delay. *)
AsInt32(n) == IF n < 2^(IntBits - 1) THEN n ELSE n - 2^IntBits

(***************************************************************************)
(* resched and ready.  They are called in the middle of other routines, so *)
(* their arguments are what those have made of the process states, the     *)
(* ready list and the keys; nd is the value of Defer.ndefers and slice      *)
(* that of preempt.                                                        *)
(***************************************************************************)
SwitchTo(rl, ps, k) ==
    /\ currpid' = Head(rl)
    /\ readylist' = Tail(rl)
    /\ prstate' = [ps EXCEPT ![Head(rl)] = "CURR"]
    /\ qkey' = k
    /\ preempt' = QUANTUM

NoSwitch(slice, rl, ps, k) ==
    /\ readylist' = rl
    /\ prstate' = ps
    /\ qkey' = k
    /\ preempt' = slice
    /\ UNCHANGED currpid

(* Mutant: a process keeps the processor from its equals. *)
Outranked_Strict(prio, rl, k) == rl # <<>> /\ prio < k[Head(rl)]

(* ! (prprio > firstkey(readylist)); an empty list's first key is MINKEY. *)
Outranked(prio, rl, k) == rl # <<>> /\ prio <= k[Head(rl)]

ReschedWith(slice, nd, rl, ps, k) ==
    LET prio     == prprio[currpid]
        eligible == ps[currpid] = "CURR"
        remains  == eligible /\ ~Outranked(prio, rl, k)
    IN  /\ ndefers' = nd
        /\ attempt' = (attempt \/ nd > 0)
        /\ IF nd > 0 \/ remains THEN NoSwitch(slice, rl, ps, k)
           ELSE IF eligible
           THEN SwitchTo(Insert(rl, k, currpid, prio),
                         [ps EXCEPT ![currpid] = "READY"],
                         [k EXCEPT ![currpid] = prio])
           ELSE SwitchTo(rl, ps, k)

Resched(nd, rl, ps, k) == ReschedWith(preempt, nd, rl, ps, k)

Ready(p, rl, ps, k) ==
    Resched(ndefers, Insert(rl, k, p, prprio[p]), [ps EXCEPT ![p] = "READY"],
            [k EXCEPT ![p] = prprio[p]])

(* The current process leaves the processor for state st. *)
Block(st) == Resched(ndefers, readylist, [prstate EXCEPT ![currpid] = st], qkey)

(* resched_cntl(DEFER_START) and resched_cntl(DEFER_STOP) *)
DeferStart ==
    /\ ndefers' = ndefers + 1
    /\ attempt' = (attempt /\ ndefers # 0)
    /\ UNCHANGED <<currpid, prstate, readylist, qkey, preempt>>

DeferStop ==
    IF ndefers = 1 /\ attempt
    THEN Resched(0, readylist, prstate, qkey)
    ELSE /\ ndefers' = ndefers - 1
         /\ UNCHANGED <<currpid, prstate, readylist, qkey, preempt, attempt>>

(***************************************************************************)
(* What the processor may do.                                              *)
(***************************************************************************)
Interruptible == ~halted /\ cont[currpid] = "user"

(* The application running on the current process makes system call c.     *)
(* The null process loops and makes none.                                  *)
Calling(c) == Interruptible /\ currpid # NULLPROC /\ c \in Calls

(* Semaphores are also signalled by device interrupt handlers, which run   *)
(* on whatever process is current, the null process included.              *)
Signalling(c) == Interruptible /\ c \in Calls

Continuing(c) == ~halted /\ cont[currpid] = c

Then(c) == cont' = [cont EXCEPT ![currpid] = c]
With(a) == karg' = [karg EXCEPT ![currpid] = a]

(* The pending kernel call of the current process returns. *)
Return ==
    /\ cont' = [cont EXCEPT ![currpid] = "user"]
    /\ karg' = [karg EXCEPT ![currpid] = 0]
    /\ kcount' = [kcount EXCEPT ![currpid] = 0]

(***************************************************************************)
(* Semaphores: wait.c, signal.c, signaln.c, semcreate.c, semdelete.c,      *)
(* semreset.c.  A call on a bad or free semaphore, or with a negative      *)
(* count, returns SYSERR and changes nothing, so it is no step.            *)
(***************************************************************************)
Wait(s) ==
    /\ Calling("wait")
    /\ sstate[s] = "USED"
    /\ scount' = [scount EXCEPT ![s] = @ - 1]
    /\ IF scount[s] - 1 < 0
       THEN /\ prsem' = [prsem EXCEPT ![currpid] = s]
            /\ squeue' = [squeue EXCEPT ![s] = Enqueue(@, currpid)]
            /\ Block("WAIT")
       ELSE UNCHANGED <<sched, prsem, squeue>>
    /\ UNCHANGED <<kvars, sstate, prprio, prparent, prhasmsg, prcount,
                   nextpid, sleepq, nextsem, halted, remain>>

(* if (semptr->scount++ < 0) ready(dequeue(semptr->squeue)) *)
SignalOnce(s) ==
    /\ scount' = [scount EXCEPT ![s] = @ + 1]
    /\ IF scount[s] < 0
       THEN /\ squeue' = [squeue EXCEPT ![s] = Tail(@)]
            /\ Ready(Head(squeue[s]), readylist, prstate, qkey)
       ELSE UNCHANGED <<sched, squeue>>
    /\ UNCHANGED sstate

Signal(s) ==
    /\ Signalling("signal")
    /\ sstate[s] = "USED"
    /\ scount[s] < MaxCount
    /\ SignalOnce(s)
    /\ UNCHANGED <<kvars, prprio, prsem, prparent, prhasmsg, prcount, nextpid,
                   sleepq, nextsem, halted, remain>>

SignalN(s, n) ==
    /\ Signalling("signaln")
    /\ n >= 0
    /\ sstate[s] = "USED"
    /\ scount[s] + n <= MaxCount
    /\ DeferStart
    /\ Then("signaln")
    /\ With(s)
    /\ kcount' = [kcount EXCEPT ![currpid] = n]
    /\ UNCHANGED <<semvars, prprio, prsem, prparent, prhasmsg, prcount,
                   nextpid, sleepq, nextsem, halted, remain>>

SignalNLoop ==
    /\ Continuing("signaln")
    /\ kcount[currpid] > 0
    /\ kcount' = [kcount EXCEPT ![currpid] = @ - 1]
    /\ SignalOnce(karg[currpid])
    /\ UNCHANGED <<cont, karg, prprio, prsem, prparent, prhasmsg, prcount,
                   nextpid, sleepq, nextsem, halted, remain>>

SignalNEnd ==
    /\ Continuing("signaln")
    /\ kcount[currpid] = 0
    /\ DeferStop
    /\ Return
    /\ UNCHANGED <<semvars, prprio, prsem, prparent, prhasmsg,
                   prcount, nextpid, sleepq, nextsem, halted, remain>>

(* Where newsem and newpid go on the next time. *)
After(i, n) == (i + 1) % n

(* newsem: the first free entry from nextsem on, cyclically. *)
SemsFrom == {i \in 0 .. NSEM - 1 : sstate[(nextsem + i) % NSEM] = "FREE"}
NewSem == (nextsem + Min(SemsFrom)) % NSEM

SemCreate(n) ==
    /\ Calling("semcreate")
    /\ n >= 0
    /\ SemsFrom # {}
    /\ sstate' = [sstate EXCEPT ![NewSem] = "USED"]
    /\ scount' = [scount EXCEPT ![NewSem] = n]
    /\ nextsem' = After(NewSem, NSEM)
    /\ UNCHANGED <<sched, kvars, squeue, prprio, prsem, prparent, prhasmsg,
                   prcount, nextpid, sleepq, halted, remain>>

SemDelete(s) ==
    /\ Calling("semdelete")
    /\ sstate[s] = "USED"
    /\ sstate' = [sstate EXCEPT ![s] = "FREE"]
    /\ DeferStart
    /\ Then("semdelete")
    /\ With(s)
    /\ UNCHANGED <<kcount, scount, squeue, prprio, prsem, prparent, prhasmsg,
                   prcount, nextpid, sleepq, nextsem, halted, remain>>

(* Mutant: one process too few is released. *)
Waited_OffByOne(s) == scount[s] < -1

Waited(s) == scount[s] < 0

(* while (semptr->scount++ < 0) ready(getfirst(semptr->squeue)) *)
SemDeleteLoop ==
    LET s == karg[currpid]
    IN  /\ Continuing("semdelete")
        /\ Waited(s)
        /\ SignalOnce(s)
        /\ UNCHANGED <<kvars, prprio, prsem, prparent, prhasmsg, prcount,
                       nextpid, sleepq, nextsem, halted, remain>>

(* The test that ends the loop increments the count once more. *)
SemDeleteEnd ==
    LET s == karg[currpid]
    IN  /\ Continuing("semdelete")
        /\ ~Waited(s)
        /\ scount' = [scount EXCEPT ![s] = @ + 1]
        /\ DeferStop
        /\ Return
        /\ UNCHANGED <<sstate, squeue, prprio, prsem, prparent,
                       prhasmsg, prcount, nextpid, sleepq, nextsem, halted,
                       remain>>

SemReset(s, n) ==
    /\ Calling("semreset")
    /\ n >= 0
    /\ sstate[s] = "USED"
    /\ DeferStart
    /\ Then("semreset")
    /\ With(s)
    /\ kcount' = [kcount EXCEPT ![currpid] = n]
    /\ UNCHANGED <<semvars, prprio, prsem, prparent, prhasmsg, prcount,
                   nextpid, sleepq, nextsem, halted, remain>>

SemResetLoop ==
    LET s == karg[currpid]
    IN  /\ Continuing("semreset")
        /\ squeue[s] # <<>>
        /\ squeue' = [squeue EXCEPT ![s] = Tail(@)]
        /\ Ready(Head(squeue[s]), readylist, prstate, qkey)
        /\ UNCHANGED <<kvars, sstate, scount, prprio, prsem, prparent,
                       prhasmsg, prcount, nextpid, sleepq, nextsem, halted,
                       remain>>

SemResetEnd ==
    LET s == karg[currpid]
    IN  /\ Continuing("semreset")
        /\ squeue[s] = <<>>
        /\ scount' = [scount EXCEPT ![s] = kcount[currpid]]
        /\ DeferStop
        /\ Return
        /\ UNCHANGED <<sstate, squeue, prprio, prsem, prparent,
                       prhasmsg, prcount, nextpid, sleepq, nextsem, halted,
                       remain>>

(***************************************************************************)
(* The sleep queue: sleep.c, unsleep.c, wakeup.c.                          *)
(***************************************************************************)
(* insertd of the current process, which then leaves the processor. *)
SleepFor(delay, st) ==
    /\ sleepq' = Insertd(sleepq, qkey, currpid, delay)
    /\ Resched(ndefers, readylist, [prstate EXCEPT ![currpid] = st],
               InsertdKeys(sleepq, qkey, currpid, delay))

SleepMs(d) ==
    /\ Calling("sleepms")
    /\ IF d = 0
       THEN /\ Resched(ndefers, readylist, prstate, qkey)
            /\ UNCHANGED <<sleepq, remain>>
       ELSE /\ SleepFor(AsInt32(d), "SLEEP")
            /\ remain' = [remain EXCEPT ![currpid] = d]
    /\ UNCHANGED <<semvars, kvars, prprio, prsem, prparent, prhasmsg, prcount,
                   nextpid, nextsem, halted>>

Yield ==
    /\ Calling("yield")
    /\ Resched(ndefers, readylist, prstate, qkey)
    /\ UNCHANGED <<semvars, kvars, prprio, prsem, prparent, prhasmsg, prcount,
                   nextpid, sleepq, nextsem, halted, remain>>

(***************************************************************************)
(* Messages: send.c, receive.c, recvtime.c, recvclr.c.  The contents of a  *)
(* message are never looked at; prhasmsg tells whether the slot is full.   *)
(***************************************************************************)
(* send(r, ...), which is also the first thing kill does. *)
SendTo(r) ==
    IF prstate[r] = "FREE" \/ prhasmsg[r]
    THEN UNCHANGED <<sched, prhasmsg, sleepq, remain>>
    ELSE /\ prhasmsg' = [prhasmsg EXCEPT ![r] = TRUE]
         /\ CASE prstate[r] = "RECV" ->
                   /\ Ready(r, readylist, prstate, qkey)
                   /\ UNCHANGED <<sleepq, remain>>
              [] prstate[r] = "RECTIM" ->
                   /\ sleepq' = GetItem(sleepq, r)
                   /\ Ready(r, readylist, prstate, UnsleepKeys(sleepq, qkey, r))
                   /\ remain' = [remain EXCEPT ![r] = 0]
              [] OTHER -> UNCHANGED <<sched, sleepq, remain>>

Send(r) ==
    /\ Calling("send")
    /\ SendTo(r)
    /\ UNCHANGED <<semvars, kvars, prprio, prsem, prparent, prcount, nextpid,
                   nextsem, halted>>

(* Take the message; with an empty slot, block until there is one. *)
Receive ==
    /\ Calling("receive")
    /\ IF prhasmsg[currpid]
       THEN /\ prhasmsg' = [prhasmsg EXCEPT ![currpid] = FALSE]
            /\ UNCHANGED <<sched, kvars>>
       ELSE /\ Then("receive")
            /\ Block("RECV")
            /\ UNCHANGED <<prhasmsg, karg, kcount>>
    /\ UNCHANGED <<semvars, prprio, prsem, prparent, prcount, nextpid, sleepq,
                   nextsem, halted, remain>>

ReceiveTimed(w) ==
    /\ Calling("recvtime")
    /\ w >= 0
    /\ IF prhasmsg[currpid]
       THEN /\ prhasmsg' = [prhasmsg EXCEPT ![currpid] = FALSE]
            /\ UNCHANGED <<sched, kvars, sleepq, remain>>
       ELSE /\ Then("recvtime")
            /\ SleepFor(w, "RECTIM")
            /\ remain' = [remain EXCEPT ![currpid] = w]
            /\ UNCHANGED <<prhasmsg, karg, kcount>>
    /\ UNCHANGED <<semvars, prprio, prsem, prparent, prcount, nextpid, nextsem,
                   halted>>

(* receive and recvtime, dispatched again: the message, if there is one,   *)
(* is taken; recvtime without one returns TIMEOUT.                         *)
ReceiveEnd ==
    /\ \E c \in {"receive", "recvtime"} : Continuing(c)
    /\ prhasmsg' = [prhasmsg EXCEPT ![currpid] = FALSE]
    /\ Return
    /\ UNCHANGED <<sched, semvars, prprio, prsem, prparent, prcount, nextpid,
                   sleepq, nextsem, halted, remain>>

RecvClr ==
    /\ Calling("recvclr")
    /\ prhasmsg' = [prhasmsg EXCEPT ![currpid] = FALSE]
    /\ UNCHANGED <<sched, semvars, kvars, prprio, prsem, prparent, prcount,
                   nextpid, sleepq, nextsem, halted, remain>>

(***************************************************************************)
(* suspend.c, resume.c, chprio.c.                                          *)
(***************************************************************************)
Suspend(p) ==
    /\ Calling("suspend")
    /\ p # NULLPROC
    /\ \/ /\ prstate[p] = "READY"
          /\ readylist' = GetItem(readylist, p)
          /\ prstate' = [prstate EXCEPT ![p] = "SUSP"]
          /\ UNCHANGED <<currpid, qkey, preempt, ndefers, attempt>>
       \/ /\ prstate[p] = "CURR"
          /\ Resched(ndefers, readylist, [prstate EXCEPT ![p] = "SUSP"], qkey)
    /\ UNCHANGED <<semvars, kvars, prprio, prsem, prparent, prhasmsg, prcount,
                   nextpid, sleepq, nextsem, halted, remain>>

(* Mutant: a process blocked in receive counts as suspended. *)
Resume_Receiver(p) ==
    /\ Calling("resume")
    /\ prstate[p] \in {"SUSP", "RECV"}
    /\ Ready(p, readylist, prstate, qkey)
    /\ UNCHANGED <<semvars, kvars, prprio, prsem, prparent, prhasmsg, prcount,
                   nextpid, sleepq, nextsem, halted, remain>>

Resume(p) ==
    /\ Calling("resume")
    /\ prstate[p] = "SUSP"
    /\ Ready(p, readylist, prstate, qkey)
    /\ UNCHANGED <<semvars, kvars, prprio, prsem, prparent, prhasmsg, prcount,
                   nextpid, sleepq, nextsem, halted, remain>>

(* Only the table entry changes: a process on the ready list keeps the key *)
(* it was inserted with.                                                   *)
ChPrio(p, new) ==
    /\ Calling("chprio")
    /\ prstate[p] # "FREE"
    /\ prprio' = [prprio EXCEPT ![p] = new]
    /\ UNCHANGED <<sched, semvars, kvars, prsem, prparent, prhasmsg, prcount,
                   nextpid, sleepq, nextsem, halted, remain>>

(***************************************************************************)
(* create.c, kill.c, xdone.c, exit.c, userret.c.                           *)
(***************************************************************************)
(* newpid: the first free entry from nextpid on, cyclically. *)
PidsFrom == {i \in 0 .. NPROC - 1 : prstate[(nextpid + i) % NPROC] = "FREE"}
NewPid == (nextpid + Min(PidsFrom)) % NPROC

(* With a priority below 1 newpid has already moved on when create fails. *)
Create(prio) ==
    /\ Calling("create")
    /\ PidsFrom # {}
    /\ nextpid' = After(NewPid, NPROC)
    /\ IF prio < 1
       THEN UNCHANGED <<prcount, prstate, prprio, prsem, prparent, prhasmsg>>
       ELSE /\ prcount' = prcount + 1
            /\ prstate' = [prstate EXCEPT ![NewPid] = "SUSP"]
            /\ prprio' = [prprio EXCEPT ![NewPid] = prio]
            /\ prsem' = [prsem EXCEPT ![NewPid] = -1]
            /\ prparent' = [prparent EXCEPT ![NewPid] = currpid]
            /\ prhasmsg' = [prhasmsg EXCEPT ![NewPid] = FALSE]
    /\ UNCHANGED <<currpid, readylist, qkey, preempt, ndefers, attempt,
                   semvars, kvars, sleepq, nextsem, halted, remain>>

(* Last user process completes *)
LastUser(n) == n <= 1

(* kill up to the message to the parent, which may be what the parent is   *)
(* waiting for and so give it the processor.  exit and userret kill the    *)
(* caller.  xdone halts and does not return.                               *)
Kill(p) ==
    /\ Calling(IF p = currpid THEN "exit" ELSE "kill")
    /\ p # NULLPROC
    /\ prstate[p] # "FREE"
    /\ prcount' = prcount - 1
    /\ IF LastUser(prcount - 1)
       THEN /\ halted' = TRUE
            /\ UNCHANGED <<sched, prhasmsg, sleepq, remain, kvars>>
       ELSE /\ SendTo(prparent[p])
            /\ Then("kill")
            /\ With(p)
            /\ UNCHANGED <<kcount, halted>>
    /\ UNCHANGED <<semvars, prprio, prsem, prparent, nextpid, nextsem>>

(* The rest of kill: take p off whatever queue its state says it is on. *)
Freed(p) == prstate' = [prstate EXCEPT ![p] = "FREE"]
StaysOn == UNCHANGED <<currpid, preempt, ndefers, attempt>>

KillAsleep(p) ==
    /\ sleepq' = GetItem(sleepq, p)
    /\ qkey' = UnsleepKeys(sleepq, qkey, p)
    /\ Freed(p)
    /\ StaysOn
    /\ UNCHANGED <<readylist, semvars>>

(* Mutant: the semaphore still counts the process that is gone. *)
KillWaiting_NoCount(p) ==
    /\ squeue' = [squeue EXCEPT ![prsem[p]] = GetItem(@, p)]
    /\ Freed(p)
    /\ StaysOn
    /\ UNCHANGED <<readylist, qkey, sstate, scount, sleepq>>

KillWaiting(p) ==
    /\ scount' = [scount EXCEPT ![prsem[p]] = @ + 1]
    /\ squeue' = [squeue EXCEPT ![prsem[p]] = GetItem(@, p)]
    /\ Freed(p)
    /\ StaysOn
    /\ UNCHANGED <<readylist, qkey, sstate, sleepq>>

(* Mutant: the process is left on the ready list. *)
KillReady_StillLinked(p) ==
    /\ Freed(p)
    /\ StaysOn
    /\ UNCHANGED <<readylist, qkey, semvars, sleepq>>

KillReady(p) ==
    /\ readylist' = GetItem(readylist, p)
    /\ Freed(p)
    /\ StaysOn
    /\ UNCHANGED <<qkey, semvars, sleepq>>

KillUnqueued(p) ==
    /\ Freed(p)
    /\ StaysOn
    /\ UNCHANGED <<readylist, qkey, semvars, sleepq>>

KillSelf(p) ==
    /\ Resched(ndefers, readylist, [prstate EXCEPT ![p] = "FREE"], qkey)
    /\ UNCHANGED <<semvars, sleepq>>

(* The saved context of p is gone with its stack. *)
KillEnd ==
    LET p == karg[currpid]
    IN  /\ Continuing("kill")
        /\ CASE prstate[p] = "CURR"  -> KillSelf(p)
             [] prstate[p] \in {"SLEEP", "RECTIM"} -> KillAsleep(p)
             [] prstate[p] = "WAIT"  -> KillWaiting(p)
             [] prstate[p] = "READY" -> KillReady(p)
             [] OTHER -> KillUnqueued(p)
        /\ cont' = [x \in Pid |-> IF x \in {p, currpid} THEN "user" ELSE cont[x]]
        /\ karg' = [x \in Pid |-> IF x \in {p, currpid} THEN 0 ELSE karg[x]]
        /\ kcount' = [kcount EXCEPT ![p] = 0]
        /\ remain' = [remain EXCEPT ![p] = 0]
        /\ UNCHANGED <<prprio, prsem, prparent, prhasmsg, prcount, nextpid,
                       nextsem, halted>>

(***************************************************************************)
(* The clock interrupt: clkhandler of both platforms, and wakeup.c.        *)
(***************************************************************************)
(* Does this tick's decrement of the first key call wakeup? *)
WakesUp == /\ sleepq # <<>>
           /\ LET key == qkey[Head(sleepq)] - 1
              IN  IF Platform = "arm-qemu" THEN key <= 0 ELSE key = 0

(* Mutant: the first key is not decremented. *)
TickedKeys_Frozen == qkey

TickedKeys == IF sleepq = <<>> THEN qkey
              ELSE [qkey EXCEPT ![Head(sleepq)] = @ - 1]

(* -1 is "overdue". *)
TickedRemain == [p \in Pid |-> IF p \in ToSet(sleepq) /\ remain[p] >= 0
                               THEN remain[p] - 1 ELSE remain[p]]

(* The end of the arm-bbb handler: at the end of the time slice, resched. *)
CountDown(k) ==
    IF preempt - 1 = 0
    THEN ReschedWith(QUANTUM, ndefers, readylist, prstate, k)
    ELSE /\ preempt' = preempt - 1
         /\ qkey' = k
         /\ UNCHANGED <<currpid, prstate, readylist, ndefers, attempt>>

(* A tick that wakes nobody.  On arm-qemu every such tick reschedules. *)
Tick ==
    /\ Interruptible
    /\ ~WakesUp
    /\ remain' = TickedRemain
    /\ IF Platform = "arm-qemu"
       THEN Resched(ndefers, readylist, prstate, TickedKeys)
       ELSE CountDown(TickedKeys)
    /\ UNCHANGED <<semvars, kvars, prprio, prsem, prparent, prhasmsg, prcount,
                   nextpid, sleepq, nextsem, halted>>

(* A tick that calls wakeup. *)
TickWakeup ==
    /\ Interruptible
    /\ WakesUp
    /\ remain' = TickedRemain
    /\ ndefers' = ndefers + 1
    /\ attempt' = (attempt /\ ndefers # 0)
    /\ qkey' = TickedKeys
    /\ Then("wakeup")
    /\ UNCHANGED <<currpid, prstate, readylist, preempt, karg, kcount, semvars,
                   prprio, prsem, prparent, prhasmsg, prcount, nextpid, sleepq,
                   nextsem, halted>>

(* Mutant: one tick too early. *)
Expired_Early == sleepq # <<>> /\ qkey[Head(sleepq)] <= 1

Expired == sleepq # <<>> /\ qkey[Head(sleepq)] <= 0

WakeupLoop ==
    /\ Continuing("wakeup")
    /\ Expired
    /\ sleepq' = Tail(sleepq)
    /\ Ready(Head(sleepq), readylist, prstate, qkey)
    /\ remain' = [remain EXCEPT ![Head(sleepq)] = 0]
    /\ UNCHANGED <<semvars, kvars, prprio, prsem, prparent, prhasmsg, prcount,
                   nextpid, nextsem, halted>>

(* arm-qemu's handler is done; arm-bbb's goes on, on this process, when it *)
(* is dispatched again.                                                    *)
WakeupEnd ==
    /\ Continuing("wakeup")
    /\ ~Expired
    /\ DeferStop
    /\ Then(IF Platform = "arm-qemu" THEN "user" ELSE "clkhandler")
    /\ UNCHANGED <<karg, kcount, semvars, prprio, prsem, prparent, prhasmsg,
                   prcount, nextpid, sleepq, nextsem, halted, remain>>

ClkHandlerEnd ==
    /\ Continuing("clkhandler")
    /\ CountDown(qkey)
    /\ Return
    /\ UNCHANGED <<semvars, prprio, prsem, prparent, prhasmsg, prcount,
                   nextpid, sleepq, nextsem, halted, remain>>

(* halt() loops for ever. *)
Halt == halted /\ UNCHANGED vars

(***************************************************************************)
(* Init is the state in which main() starts: sysinit has initialised the   *)
(* tables, and nulluser has created and resumed the process of main(),     *)
(* which preempts it.                                                      *)
(***************************************************************************)
Init ==
    /\ currpid = MAIN
    /\ prstate = [p \in Pid |-> IF p = NULLPROC THEN "READY"
                                ELSE IF p = MAIN THEN "CURR" ELSE "FREE"]
    /\ prprio \in {[p \in Pid |-> IF p = MAIN THEN prio ELSE 0] :
                        prio \in {x \in Prios : x >= 1}}
    /\ prsem = [p \in Pid |-> -1]
    /\ prparent = [p \in Pid |-> NULLPROC]
    /\ prhasmsg = [p \in Pid |-> FALSE]
    /\ prcount = 2
    /\ nextpid = 2 % NPROC
    /\ readylist = <<NULLPROC>>
    /\ sleepq = <<>>
    /\ qkey = [p \in Pid |-> IF p = MAIN THEN prprio[MAIN] ELSE 0]
    /\ sstate = [s \in Sem |-> "FREE"]
    /\ scount = [s \in Sem |-> 0]
    /\ squeue = [s \in Sem |-> <<>>]
    /\ nextsem = 0
    /\ preempt = QUANTUM
    /\ ndefers = 0
    /\ attempt = FALSE
    /\ cont = [p \in Pid |-> "user"]
    /\ karg = [p \in Pid |-> 0]
    /\ kcount = [p \in Pid |-> 0]
    /\ halted = FALSE
    /\ remain = [p \in Pid |-> 0]

SemStep ==
    \/ \E s \in Sem : Wait(s) \/ Signal(s) \/ SemDelete(s)
    \/ \E s \in Sem, n \in Counts : SignalN(s, n) \/ SemReset(s, n)
    \/ \E n \in Counts : SemCreate(n)

ProcStep ==
    \/ \E p \in Pid : Send(p) \/ Suspend(p) \/ Resume(p) \/ Kill(p)
    \/ \E p \in Pid, prio \in Prios : ChPrio(p, prio)
    \/ \E prio \in Prios : Create(prio)
    \/ Receive \/ RecvClr \/ Yield
    \/ \E w \in Waits : ReceiveTimed(w)
    \/ \E d \in Delays : SleepMs(d)

(* Kernel code that runs to its end before anything else can happen. *)
KernelStep ==
    \/ SignalNLoop \/ SignalNEnd \/ SemDeleteLoop \/ SemDeleteEnd
    \/ SemResetLoop \/ SemResetEnd \/ ReceiveEnd \/ KillEnd
    \/ WakeupLoop \/ WakeupEnd \/ ClkHandlerEnd

ClockStep == Tick \/ TickWakeup

Next == SemStep \/ ProcStep \/ KernelStep \/ ClockStep \/ Halt

Spec == Init /\ [][Next]_vars

(***************************************************************************)
(* The processor runs kernel code to its end (WF), and the timer interrupt *)
(* stays pending until interrupts are enabled (SF): a process that makes   *)
(* one system call after the other cannot keep the clock out.  Nothing is  *)
(* assumed of the applications.                                            *)
(***************************************************************************)
Fairness == WF_vars(KernelStep) /\ SF_vars(ClockStep)

FairSpec == Spec /\ Fairness

-----------------------------------------------------------------------------
(***************************************************************************)
(* Properties.                                                             *)
(***************************************************************************)
(* Every variable has its type; in particular resched() never takes the    *)
(* EMPTY that dequeue returns for an empty ready list as the next process. *)
TypeOK ==
    /\ currpid \in Pid
    /\ prstate \in [Pid -> States]
    /\ prprio \in [Pid -> Int]
    /\ prsem \in [Pid -> Sem \cup {-1}]
    /\ prparent \in [Pid -> Pid]
    /\ prhasmsg \in [Pid -> BOOLEAN]
    /\ prcount \in Int
    /\ nextpid \in Pid
    /\ readylist \in Seq(Pid)
    /\ sleepq \in Seq(Pid)
    /\ qkey \in [Pid -> Int]
    /\ sstate \in [Sem -> {"FREE", "USED"}]
    /\ scount \in [Sem -> Int]
    /\ squeue \in [Sem -> Seq(Pid)]
    /\ nextsem \in Sem
    /\ preempt \in Int
    /\ ndefers \in Nat
    /\ attempt \in BOOLEAN
    /\ cont \in [Pid -> Conts]
    /\ karg \in [Pid -> Int]
    /\ kcount \in [Pid -> Nat]
    /\ halted \in BOOLEAN
    /\ remain \in [Pid -> Int]

(* The state field of a process and the queues agree: exactly the READY    *)
(* processes are on the ready list, the SLEEP and RECTIM ones on the sleep *)
(* queue and the WAIT ones on the queue of semaphore prsem, each once; the *)
(* current process is the one marked CURR.  kill, suspend and unsleep pick *)
(* the queue to unlink from by the state alone.                            *)
ReadyProcs(ps)           == {p \in Pid : ps[p] = "READY"}
SleepProcs(ps)           == {p \in Pid : ps[p] \in {"SLEEP", "RECTIM"}}
WaitProcs(ps, psem, s)   == {p \in Pid : ps[p] = "WAIT" /\ psem[p] = s}

QueuesAgree(ps, rl, sq, sqs, psem) ==
    /\ OnQueue(rl, ReadyProcs(ps))
    /\ OnQueue(sq, SleepProcs(ps))
    /\ \A s \in Sem : OnQueue(sqs[s], WaitProcs(ps, psem, s))
    /\ \A p \in Pid : ps[p] = "WAIT" => psem[p] \in Sem

QueueState ==
    /\ QueuesAgree(prstate, readylist, sleepq, squeue, prsem)
    /\ \A p \in Pid : prstate[p] = "CURR" <=> p = currpid

(* A negative count is the number of waiting processes, as signal assumes  *)
(* when it dequeues without looking; otherwise nobody waits.  semreset     *)
(* breaks this for the length of its loop only.                            *)
InReset(s) == cont[currpid] = "semreset" /\ karg[currpid] = s

SemCount ==
    \A s \in Sem : InReset(s) \/ (Len(squeue[s]) = IF scount[s] < 0 THEN -scount[s] ELSE 0)

(* Nobody waits on a semaphore that has been deleted: semdelete releases   *)
(* all of them before any other process runs.                              *)
InDelete(s) == cont[currpid] = "semdelete" /\ karg[currpid] = s

NoWaiterOnFree ==
    \A s \in Sem : sstate[s] = "FREE" /\ ~InDelete(s) => squeue[s] = <<>>

(* What the invariants above need to be inductive.  The null process can   *)
(* always run, so that resched never dequeues from an empty ready list; a  *)
(* pending kernel call has an argument of the right kind; and rescheduling *)
(* is deferred exactly while the current process is in one of the loops    *)
(* that release processes, so nobody else ever sees such a loop half done. *)
Deferring == {"signaln", "semdelete", "semreset", "wakeup"}

NullEligible == prstate[NULLPROC] \in {"CURR", "READY"}

PendingCalls ==
    /\ \A p \in Pid :
          /\ cont[p] \in {"signaln", "semdelete", "semreset"} => karg[p] \in Sem
          /\ cont[p] = "kill" => karg[p] \in Pid \ {NULLPROC}
          /\ cont[p] \in Deferring => p = currpid
    /\ ndefers = IF cont[currpid] \in Deferring THEN 1 ELSE 0

IInv == /\ TypeOK
        /\ QueueState
        /\ NullEligible
        /\ PendingCalls
        /\ SemCount
        /\ NoWaiterOnFree

(* A process that comes back from blocking in receive() finds a message in *)
(* its slot, whatever was done to it meanwhile (suspended, resumed).       *)
MessagePresent ==
    \A p \in Pid : cont[p] = "receive" /\ prstate[p] # "RECV" => prhasmsg[p]

(* A delay is never cut short: sleepms ends when its time has passed, and  *)
(* recvtime then or because there is a message.                            *)
NoEarlyWake ==
    [][\A p \in Pid :
          /\ prstate[p] \in {"SLEEP", "RECTIM"}
          /\ prstate'[p] \in {"READY", "CURR"}
          => remain[p] <= 0 \/ (prstate[p] = "RECTIM" /\ prhasmsg'[p])]_vars

(* The deltas up to a process's place on the sleep queue add up to what is *)
(* left of the delay it asked for, whoever joined or left the queue.       *)
DelayKept ==
    \A i \in DOMAIN sleepq : DeltaSum(sleepq, qkey)[i] = remain[sleepq[i]]

(* While applications run, no ready process has a higher priority than the *)
(* current one: no release of a process forgets to reschedule.             *)
CurrentIsHighest ==
    Interruptible => \A p \in Pid : prstate[p] = "READY" => prprio[p] <= prprio[currpid]

(* A ready process that no other process outranks gets the processor: the  *)
(* clock interrupt rotates processes of equal priority.                    *)
Outranks(q, p) == \/ q = currpid /\ prprio[q] > qkey[p]
                  \/ prstate[q] = "READY" /\ qkey[q] > qkey[p]

NoStarvation ==
    \A p \in Pid :
        []<>(halted \/ prstate[p] # "READY" \/ \E q \in Pid : Outranks(q, p))

(* A process that asked for a delay is awake again some time.              *)
SleepersWake ==
    \A p \in Pid :
        prstate[p] \in {"SLEEP", "RECTIM"} ~>
            (halted \/ prstate[p] \notin {"SLEEP", "RECTIM"})
=============================================================================
