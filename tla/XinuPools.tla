------------------------------ MODULE XinuPools ------------------------------
(***************************************************************************)
(* Buffer pools (mkbufpool, getbuf, freebuf) and the allocator xmalloc on  *)
(* top of them, on the process manager.                                    *)
(*                                                                         *)
(* getbuf and freebuf run with interrupts disabled and call wait and       *)
(* signal; xmalloc and xfree run with interrupts enabled, so a tick may    *)
(* come between any two of their steps, also between the load and the      *)
(* store of "allocBy[poolid] += size".  xpc[p] says where process p goes   *)
(* on, xlocal[p] holds its local variables.  A call that returns NULL      *)
(* changes nothing and is no step.                                         *)
(***************************************************************************)
EXTENDS XinuKernel

CONSTANTS
    Bufsize,    \* bufsize[], from 1: what fits into a buffer of each pool
    Bufnumb,    \* bufnumb[]
    Sizes,      \* what applications ask for
    Unknown     \* a counter two updates of which overlapped

ASSUME BufsizeAssumption ==
    /\ Bufsize \in Seq(Nat) /\ Bufsize # <<>>
    /\ \A i \in 1 .. Len(Bufsize) - 1 : Bufsize[i] < Bufsize[i + 1]
ASSUME BufnumbAssumption == Bufnumb \in [1 .. Len(Bufsize) -> Nat \ {0}]
ASSUME BufSizesAssumption == Sizes \subseteq Int
ASSUME UnknownAssumption == Unknown \notin Int

VARIABLES
    nbpools,
    bpsem, bpnext,      \* struct bpentry: the semaphore and the list
    buffer,             \* who has each buffer, and the size stored at its end
    allocBy, allocBf,   \* fragmBy is computed from them after each update
    xpc, xlocal,
    xbroken,            \* getbuf has unlinked a buffer from an empty list
    lost                \* history: buffers promised to processes that were killed

xvars == <<nbpools, bpsem, bpnext, buffer, allocBy, allocBf, xpc, xlocal, xbroken, lost>>
xallvars == <<vars, xvars>>

poolnum == Len(Bufsize)
Pool == 1 .. poolnum
NoPool == 0         \* SYSERR
Buffers == UNION {{<<id, k>> : k \in 1 .. Bufnumb[id]} : id \in Pool}
InPool(id) == {b \in Buffers : b[1] = id}

NoOwner == -1       \* in the list of its pool
Nobody == -2        \* its owner was killed
InList == [owner |-> NoOwner, size |-> 0]
NoCall == [id |-> 0, size |-> 0, tmp |-> 0]

XIn(pc) == ~xbroken /\ Interruptible /\ xpc[currpid] = pc
XCaller == XIn("app") /\ currpid # NULLPROC
XGoTo(pc) == xpc' = [xpc EXCEPT ![currpid] = pc]
XLocal(r) == xlocal' = [xlocal EXCEPT ![currpid] = r]
XReturn == XGoTo("app") /\ XLocal(NoCall)
mine == xlocal[currpid]

(* Mutant: the count is taken after the loop variable was decremented. *)
BufferCount_Decremented(id) == Bufnumb[id] - 1

(* What mkbufpool passes to semcreate. *)
BufferCount(id) == Bufnumb[id]

(***************************************************************************)
(* xmalloc_init, which main() calls: one mkbufpool after the other, until  *)
(* one fails for want of memory or of a semaphore.                         *)
(***************************************************************************)
MkBufPool ==
    LET id == nbpools + 1
    IN  /\ XIn("init")
        /\ nbpools < poolnum
        /\ SemsFrom # {}
        /\ nbpools' = id
        /\ bpsem' = [bpsem EXCEPT ![id] = NewSem]
        /\ bpnext' = [bpnext EXCEPT ![id] = [k \in 1 .. Bufnumb[id] |-> <<id, k>>]]
        /\ SemCreate(BufferCount(id))
        /\ UNCHANGED <<buffer, allocBy, allocBf, xpc, xlocal, xbroken, lost>>

(* The end, or a failure.  That there is one pool is taken for granted:    *)
(* without, xmalloc reads bufsize[-1].                                     *)
XmallocInitEnd ==
    /\ XIn("init")
    /\ nbpools > 0
    /\ XReturn
    /\ UNCHANGED <<vars, nbpools, bpsem, bpnext, buffer, allocBy, allocBf, xbroken, lost>>

(***************************************************************************)
(* findClosestIndex: a binary search in the sizes of the first nbpools     *)
(* pools.                                                                  *)
(***************************************************************************)
(* Mutant: the middle is excluded although it may be the answer. *)
Halve_Skip(start, end, mid, size) ==
    IF Bufsize[mid] < size THEN <<mid, end>> ELSE <<start, mid - 1>>

(* One turn of the loop. *)
Halve(start, end, mid, size) ==
    IF Bufsize[mid] < size THEN <<mid, end>> ELSE <<start, mid>>

(* What the loop makes of each pair <<start, end>>, and what is answered   *)
(* when there is nothing left to halve.                                    *)
Chosen(start, end, size) ==
    IF Bufsize[start] >= size THEN start ELSE IF Bufsize[end] >= size THEN end ELSE NoPool

Search(size) ==
    LET search[range \in Pool \X Pool] ==
            LET start == range[1]
                end == range[2]
            IN  IF start + 1 < end
                THEN search[Halve(start, end, start + (end - start) \div 2, size)]
                ELSE Chosen(start, end, size)
    IN  search

findClosestIndex(size) == IF size <= Bufsize[1] THEN 1 ELSE Search(size)[<<1, nbpools>>]

(***************************************************************************)
(* xmalloc: look whether the pool has a buffer, get one, count.            *)
(***************************************************************************)
Xmalloc(size) ==
    LET id == findClosestIndex(size)
    IN  /\ XCaller
        /\ size > 0 /\ size <= Bufsize[nbpools]
        /\ bpnext[id] # <<>>
        /\ XGoTo("getbuf")
        /\ XLocal([id |-> id, size |-> size, tmp |-> 0])
        /\ UNCHANGED <<vars, nbpools, bpsem, bpnext, buffer, allocBy, allocBf, xbroken, lost>>

GetBuf ==
    /\ XIn("getbuf")
    /\ Wait(bpsem[mine.id])
    /\ XGoTo("take")
    /\ UNCHANGED <<nbpools, bpsem, bpnext, buffer, allocBy, allocBf, xlocal, xbroken, lost>>

(* Mutant: the head of the list is not moved. *)
Unlinked_Not(list) == list

(* bpptr->bpnext = bufptr->bpnext *)
Unlinked(list) == Tail(list)

(* The rest of getbuf, and the size at the end of the buffer. *)
GetBufEnd ==
    /\ XIn("take")
    /\ IF bpnext[mine.id] = <<>>
       THEN xbroken' = TRUE /\ UNCHANGED <<bpnext, buffer, xpc>>
       ELSE /\ bpnext' = [bpnext EXCEPT ![mine.id] = Unlinked(@)]
            /\ buffer' = [buffer EXCEPT ![Head(bpnext[mine.id])] =
                             [owner |-> currpid, size |-> mine.size]]
            /\ XGoTo("by")
            /\ UNCHANGED xbroken
    /\ UNCHANGED <<vars, nbpools, bpsem, allocBy, allocBf, xlocal, lost>>

(* Mutant: the size is taken for 0 when the buffer has been given back. *)
Recorded_Late(b) == 0

(* The size xmalloc stored. *)
Recorded(b) == buffer[b].size

(* xfree by the process that has the buffer, up to the end of freebuf. *)
Xfree(b) ==
    /\ XCaller
    /\ buffer[b].owner = currpid
    /\ bpnext' = [bpnext EXCEPT ![b[1]] = <<b>> \o @]
    /\ buffer' = [buffer EXCEPT ![b] = InList]
    /\ XLocal([id |-> b[1], size |-> -Recorded(b), tmp |-> 0])
    /\ XGoTo("by")
    /\ Signal(bpsem[b[1]])
    /\ UNCHANGED <<nbpools, bpsem, allocBy, allocBf, xbroken, lost>>

(* A counter is loaded here and stored there; who stores in between makes  *)
(* the value the other one loaded worthless.                               *)
Plus(n, d) == IF n = Unknown THEN Unknown ELSE n + d
Spoilt(pc) ==
    [p \in Pid |-> IF p # currpid /\ xpc[p] = pc /\ xlocal[p].id = mine.id
                   THEN [xlocal[p] EXCEPT !.tmp = Unknown] ELSE xlocal[p]]

LoadBy ==
    /\ XIn("by")
    /\ XLocal([mine EXCEPT !.tmp = allocBy[mine.id]])
    /\ XGoTo("by2")
    /\ UNCHANGED <<vars, nbpools, bpsem, bpnext, buffer, allocBy, allocBf, xbroken, lost>>

StoreBy ==
    /\ XIn("by2")
    /\ allocBy' = [allocBy EXCEPT ![mine.id] = Plus(mine.tmp, mine.size)]
    /\ xlocal' = Spoilt("by2")
    /\ XGoTo("bf")
    /\ UNCHANGED <<vars, nbpools, bpsem, bpnext, buffer, allocBf, xbroken, lost>>

LoadBf ==
    /\ XIn("bf")
    /\ XLocal([mine EXCEPT !.tmp = allocBf[mine.id]])
    /\ XGoTo("bf2")
    /\ UNCHANGED <<vars, nbpools, bpsem, bpnext, buffer, allocBy, allocBf, xbroken, lost>>

Step(size) == IF size > 0 THEN 1 ELSE -1

StoreBf ==
    /\ XIn("bf2")
    /\ allocBf' = [allocBf EXCEPT ![mine.id] = Plus(mine.tmp, Step(mine.size))]
    /\ xlocal' = [Spoilt("bf2") EXCEPT ![currpid] = NoCall]
    /\ XGoTo("app")
    /\ UNCHANGED <<vars, nbpools, bpsem, bpnext, buffer, allocBy, xbroken, lost>>

UpdatePcs == {"by", "by2", "bf", "bf2"}

(* q has loaded a counter that p has not yet stored. *)
SameUpdate(q, p) ==
    /\ xlocal[q].id = xlocal[p].id
    /\ \/ xpc[q] = "by2" /\ xpc[p] \in {"by", "by2"}
       \/ xpc[q] = "bf2" /\ xpc[p] \in UpdatePcs

(***************************************************************************)
(* The processes around them.  Whoever is killed takes its buffers along,  *)
(* leaves what it had still to count uncounted, and, if a signal had       *)
(* already released it, the buffer it was about to take.                   *)
(***************************************************************************)
XSpawn == \E prio \in Prios : XIn("app") /\ Create(prio) /\ UNCHANGED xvars
XStart == \E p \in Pid : XIn("app") /\ Resume(p) /\ UNCHANGED xvars
XPreempt == ~xbroken /\ xpc[currpid] # "take" /\ Tick /\ UNCHANGED xvars
KillOther == \E p \in Pid : XCaller /\ Kill(p) /\ UNCHANGED xvars

Killed ==
    LET p == karg[currpid]
        id == xlocal[p].id
    IN  /\ KillEnd
        /\ buffer' = [b \in Buffers |-> IF buffer[b].owner = p
                                        THEN [buffer[b] EXCEPT !.owner = Nobody]
                                        ELSE buffer[b]]
        /\ allocBy' = [i \in Pool |-> IF i = id /\ xpc[p] \in {"by", "by2"}
                                      THEN Unknown ELSE allocBy[i]]
        /\ allocBf' = [i \in Pool |-> IF i = id /\ xpc[p] \in UpdatePcs
                                      THEN Unknown ELSE allocBf[i]]
        /\ lost' = [i \in Pool |-> IF i = id /\ xpc[p] = "take" /\ prstate[p] # "WAIT"
                                   THEN lost[i] + 1 ELSE lost[i]]
        /\ xpc' = [xpc EXCEPT ![p] = "app"]
        /\ xlocal' = [q \in Pid |-> IF q = p THEN NoCall
                                    ELSE IF SameUpdate(q, p)
                                    THEN [xlocal[q] EXCEPT !.tmp = Unknown]
                                    ELSE xlocal[q]]
        /\ UNCHANGED <<nbpools, bpsem, bpnext, xbroken>>

Stopped == (xbroken \/ halted) /\ UNCHANGED xallvars

XInit ==
    /\ Init
    /\ nbpools = 0
    /\ bpsem = [id \in Pool |-> 0]
    /\ bpnext = [id \in Pool |-> <<>>]
    /\ buffer = [b \in Buffers |-> InList]
    /\ allocBy = [id \in Pool |-> 0]
    /\ allocBf = [id \in Pool |-> 0]
    /\ xpc = [p \in Pid |-> IF p = MAIN THEN "init" ELSE "app"]
    /\ xlocal = [p \in Pid |-> NoCall]
    /\ xbroken = FALSE
    /\ lost = [id \in Pool |-> 0]

XNext ==
    \/ MkBufPool \/ XmallocInitEnd
    \/ \E size \in Sizes : Xmalloc(size)
    \/ \E b \in Buffers : Xfree(b)
    \/ GetBuf \/ GetBufEnd \/ LoadBy \/ StoreBy \/ LoadBf \/ StoreBf
    \/ XSpawn \/ XStart \/ XPreempt \/ KillOther \/ Killed \/ Stopped

XSpec == XInit /\ [][XNext]_xallvars

-----------------------------------------------------------------------------
(* The calls of getbuf on pool id: still waiting, and released already. *)
Taking(id) == {p \in Pid : xpc[p] = "take" /\ xlocal[p].id = id}
Waiting(id) == {p \in Taking(id) : prstate[p] = "WAIT"}
Promised(id) == Cardinality(Taking(id) \ Waiting(id)) + lost[id]

(* getbuf unlinks a buffer without looking whether there is one, and       *)
(* xmalloc's look at the list is outdated by the time it calls getbuf: the *)
(* semaphore has to have exactly the buffers of the list less those        *)
(* promised to released processes and those for whom somebody waits.  A    *)
(* process that is killed between its release and its return from wait     *)
(* takes a count along for good, but never one too few.                    *)
PoolCount ==
    /\ ~xbroken
    /\ \A id \in 1 .. nbpools :
          scount[bpsem[id]] = Len(bpnext[id]) - Promised(id) - Cardinality(Waiting(id))

(* A buffer is in the list of its pool, once, or somebody's: no two        *)
(* processes are given the same buffer.                                    *)
BuffersPartitioned ==
    \A id \in 1 .. nbpools :
        /\ IsInjective(bpnext[id])
        /\ ToSet(bpnext[id]) = {b \in InPool(id) : buffer[b].owner = NoOwner}

(* xheap_snapshot reports allocBy and allocBf: as long as no two updates   *)
(* overlapped and nobody was killed in one, they are the sizes and the     *)
(* number of the buffers in use, but for the updates still to come.        *)
(* xfree reads the size before it gives the buffer back.                   *)
InUse(id) == {b \in InPool(id) : buffer[b].owner # NoOwner}
Counting(id, pcs) == {p \in Pid : xpc[p] \in pcs /\ xlocal[p].id = id}

AccountsExact ==
    \A id \in Pool :
        /\ allocBy[id] # Unknown /\ (\A p \in Counting(id, {"by2"}) : xlocal[p].tmp # Unknown) =>
              allocBy[id] = SumFunction([b \in InUse(id) |-> buffer[b].size])
                          - SumFunction([p \in Counting(id, {"by", "by2"}) |-> xlocal[p].size])
        /\ allocBf[id] # Unknown /\ (\A p \in Counting(id, {"bf2"}) : xlocal[p].tmp # Unknown) =>
              allocBf[id] = Cardinality(InUse(id))
                          - SumFunction([p \in Counting(id, UpdatePcs) |-> Step(xlocal[p].size)])

(* The binary search finds the smallest pool whose buffers are large       *)
(* enough, however many of the pools could be made.                        *)
ClosestIsSmallest ==
    nbpools > 0 =>
        \A size \in 1 .. Bufsize[nbpools] :
            findClosestIndex(size) = Min({i \in 1 .. nbpools : Bufsize[i] >= size})
=============================================================================
