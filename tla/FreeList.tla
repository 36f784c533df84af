------------------------------- MODULE FreeList -------------------------------
(***************************************************************************)
(* The heap of getmem.c, getstk.c, freemem.c and memory.h: a list of free  *)
(* blocks in the order of their addresses.  getmem takes the first block   *)
(* that is large enough, from its low end; getstk the last one, from its   *)
(* high end; freemem puts a block back and joins it with its neighbours.   *)
(*                                                                         *)
(* Sizes and addresses are counted in words of sizeof(uint32), and are     *)
(* uint32 in the code: sums are taken modulo SPACE.  The list is the       *)
(* sequence of blocks that the walk along mnext meets.  memlist.mlength,   *)
(* which nothing reads, is left out.  Each call runs with interrupts off.  *)
(***************************************************************************)
EXTENDS Integers, Sequences

CONSTANTS
    SPACE,              \* the number of addresses
    MBLK,               \* words in a struct memblk
    minheap, maxheap,   \* the heap is minheap .. maxheap - 1
    Request,            \* the sizes callers ask for
    SYSERR, OK, FREE

(* The linker aligns the heap, and a request is small against the address  *)
(* space: at 2^32 - 7 bytes and more roundmb(nbytes) is 0, and getmem      *)
(* would return a block it leaves in the list.                             *)
ASSUME SpaceAssumption ==
    /\ SPACE \in Nat /\ MBLK \in Nat \ {0}
    /\ minheap \in Nat \ {0} /\ maxheap \in Nat
    /\ minheap < maxheap /\ maxheap < SPACE
    /\ SPACE % MBLK = 0 /\ minheap % MBLK = 0 /\ maxheap % MBLK = 0
ASSUME RequestAssumption ==
    Request \subseteq Nat /\ \A n \in Request : maxheap + n + 2 * MBLK < SPACE
ASSUME ReturnAssumption == SYSERR \notin Nat /\ OK \notin Nat /\ FREE \notin Nat /\ OK # SYSERR

VARIABLES
    memlist,    \* the free blocks
    held,       \* the regions callers hold: first word, words asked for
    ret         \* the last call, and what it has returned

fvars == <<memlist, held, ret>>

U(x) == x % SPACE

(* memory.h: a sum, masked *)
roundmb(n) == U(MBLK - 1 + n) - (U(MBLK - 1 + n) % MBLK)

Block(a, len) == [addr |-> a, len |-> len]
End(b) == U(b.addr + b.len)

Remove(s, i) == [j \in 1 .. Len(s) - 1 |-> IF j < i THEN s[j] ELSE s[j + 1]]
Insert(s, i, b) == [j \in 1 .. Len(s) + 1 |->
                        IF j < i THEN s[j] ELSE IF j = i THEN b ELSE s[j - 1]]

(* Mutant: the search ends at the first block. *)
Fits_FirstOnly(nbytes) == {i \in 1 .. Len(memlist) : i = 1 /\ memlist[i].len >= nbytes}

Fits(nbytes) == {i \in 1 .. Len(memlist) : memlist[i].len >= nbytes}

Refused(n) == ret' = <<n, SYSERR>> /\ UNCHANGED <<memlist, held>>

Init == /\ memlist = <<Block(minheap, maxheap - minheap)>>
        /\ held = {}
        /\ ret = <<FREE, OK>>

(***************************************************************************)
(* getmem                                                                  *)
(***************************************************************************)
(* The list once the low end of block i is taken. *)
Take(i, nbytes) ==
    IF memlist[i].len = nbytes THEN Remove(memlist, i)
    ELSE [memlist EXCEPT ![i] = Block(U(@.addr + nbytes), @.len - nbytes)]

GetmemFits(n) == \E i \in Fits(roundmb(n)) :
    /\ n # 0
    /\ \A j \in Fits(roundmb(n)) : i <= j
    /\ memlist' = Take(i, roundmb(n))
    /\ held' = held \cup {<<memlist[i].addr, n>>}
    /\ ret' = <<n, memlist[i].addr>>

GetmemFails(n) == /\ n = 0 \/ Fits(roundmb(n)) = {}
                  /\ Refused(n)

Getmem(n) == GetmemFits(n) \/ GetmemFails(n)

(***************************************************************************)
(* getstk: the caller gets the highest word of its stack.                  *)
(***************************************************************************)
TakeTop(i, nbytes) ==
    IF memlist[i].len = nbytes THEN Remove(memlist, i)
    ELSE [memlist EXCEPT ![i].len = @ - nbytes]

(* The first word of the section that is taken from the top of block i.    *)
Section(i, nbytes) ==
    IF memlist[i].len = nbytes THEN memlist[i].addr
    ELSE U(memlist[i].addr + memlist[i].len - nbytes)

StackTop(i, nbytes) == U(Section(i, nbytes) + nbytes - 1)

(* freestk(p, len) recovers the first word. *)
(* Mutant: the word the pointer is short of is forgotten. *)
StackBase_Short(p, len) == U(p - roundmb(len) + SPACE)

StackBase(p, len) == U(p - roundmb(len) + 1 + SPACE)

GetstkFits(n) == \E i \in Fits(roundmb(n)) :
    LET p == StackTop(i, roundmb(n)) IN
    /\ n # 0
    /\ \A j \in Fits(roundmb(n)) : j <= i
    /\ memlist' = TakeTop(i, roundmb(n))
    /\ held' = held \cup {<<StackBase(p, n), n>>}
    /\ ret' = <<n, StackBase(p, n)>>

Getstk(n) == GetstkFits(n) \/ GetmemFails(n)

(***************************************************************************)
(* freemem                                                                 *)
(***************************************************************************)
(* The blocks the walk passes: prev is the last of them.  There is one     *)
(* such number.                                                            *)
Passed(block) == {k \in 0 .. Len(memlist) :
    /\ \A i \in 1 .. k : memlist[i].addr < block
    /\ k < Len(memlist) => memlist[k + 1].addr >= block}

Outside(block) == block < minheap \/ block > maxheap

(* Mutant: only the block before is looked at. *)
Overlaps_PrevOnly(block, nbytes, k) == k > 0 /\ block < End(memlist[k])

Overlaps(block, nbytes, k) ==
    \/ k > 0 /\ block < End(memlist[k])
    \/ k < Len(memlist) /\ U(block + nbytes) > memlist[k + 1].addr

(* The block joins the one before it or becomes a node, ...                *)
JoinsPrev(block, k) == k > 0 /\ End(memlist[k]) = block
Node(block, k) == IF JoinsPrev(block, k) THEN k ELSE k + 1
Linked(block, nbytes, k) ==
    IF JoinsPrev(block, k) THEN [memlist EXCEPT ![k].len = @ + nbytes]
    ELSE Insert(memlist, k + 1, Block(block, nbytes))

(* ... and the node, which is in place i, joins the one behind it.         *)
Joined(s, i) ==
    IF i < Len(s) /\ End(s[i]) = s[i + 1].addr
    THEN Remove([s EXCEPT ![i].len = @ + s[i + 1].len], i + 1)
    ELSE s

Free(block, n) == \E k \in Passed(block) :
    IF n = 0 \/ Outside(block) \/ Overlaps(block, roundmb(n), k)
    THEN ret' = <<FREE, SYSERR>> /\ UNCHANGED memlist
    ELSE ret' = <<FREE, OK>> /\ memlist' = Joined(Linked(block, roundmb(n), k), Node(block, k))

(* A caller gives back what it was granted, with the size it asked for,    *)
(* and does not look at the result.                                        *)
Freemem(r) == Free(r[1], r[2]) /\ held' = held \ {r}

(* A region is given back that is nobody's: none of it in the heap, or     *)
(* some of it free already.  (A region that begins at maxheap, the first   *)
(* word behind the heap, is left out: freemem.c:20 accepts it and puts it  *)
(* on the list.)                                                           *)
FreeIn(s, w) == \E i \in 1 .. Len(s) : s[i].addr <= w /\ w < s[i].addr + s[i].len
FreeWord(w) == FreeIn(memlist, w)

FreememStale(block, n) ==
    /\ \/ n = 0
       \/ Outside(block)
       \/ \E w \in block .. block + roundmb(n) - 1 : FreeWord(w)
    /\ Free(block, n)
    /\ UNCHANGED held

Next == \/ \E n \in Request : Getmem(n) \/ Getstk(n)
        \/ \E r \in held : Freemem(r)
        \/ \E block \in 0 .. maxheap, n \in Request : FreememStale(block, n)

Spec == Init /\ [][Next]_fvars
------------------------------------------------------------------------------
Region(r) == r[1] .. r[1] + roundmb(r[2]) - 1

TypeOK ==
    /\ memlist \in Seq([addr : Nat, len : Nat])
    /\ held \subseteq Nat \X Request
    /\ ret \in (Request \cup {FREE}) \X (Nat \cup {OK, SYSERR})

InHeap(s) == \A i \in 1 .. Len(s) :
    s[i].len > 0 /\ minheap <= s[i].addr /\ s[i].addr + s[i].len <= maxheap
Apart(s) == \A i, j \in 1 .. Len(s) : i < j => s[i].addr + s[i].len < s[j].addr

(* Free blocks lie in the heap, in the order of their addresses, and no    *)
(* two of them touch: freemem has joined what can be joined.               *)
Separated == InHeap(memlist) /\ Apart(memlist)

(* A word that is not free is held by one caller, and a word somebody      *)
(* holds is not free: nothing is granted twice by getmem and getstk, and   *)
(* nothing is lost by freemem.                                             *)
Partitioned ==
    /\ \A w \in minheap .. maxheap - 1 : FreeWord(w) \/ \E r \in held : w \in Region(r)
    /\ \A r \in held : /\ Region(r) \subseteq minheap .. maxheap - 1
                       /\ \A w \in Region(r) : ~FreeWord(w)
    /\ \A r, s \in held : r # s => Region(r) \cap Region(s) = {}

(* The list of blocks behaves like a set of free words.  In particular a   *)
(* request fails only if no run of free words is long enough, however the  *)
(* heap was cut up before.                                                 *)
Heap == INSTANCE HeapSpec WITH
    Word <- minheap .. maxheap - 1, Granted <- roundmb,
    free <- {w \in minheap .. maxheap - 1 : FreeWord(w)}

Implements == Heap!Spec
=============================================================================
