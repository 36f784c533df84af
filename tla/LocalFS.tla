------------------------------- MODULE LocalFS -------------------------------
(***************************************************************************)
(* The local file system of device/lfs on a disk that never fails, the RAM *)
(* disk of both configurations.  A directory with two lists of free blocks *)
(* is kept in memory; each open file keeps one index block and one data    *)
(* block in its control block and writes them back when it needs others.   *)
(*                                                                         *)
(* The device switch calls every operation with interrupts disabled, and   *)
(* the RAM disk does not block: an operation is one step and the mutexes   *)
(* are always free.  The index blocks of a sector are an array; names are  *)
(* atoms; lfmode, which nothing reads, is left out.                        *)
(***************************************************************************)
EXTENDS Integers, Sequences, FiniteSets, SequencesExt

CONSTANTS
    Name,               \* names of files
    Data(_, _),         \* the bytes that are written at a position of a file
    DFILL,              \* what a new data block is filled with
    Nlfl,               \* file pseudo-devices
    LF_NUM_DIR_ENT,     \* entries of the directory
    LF_BLKSIZ,          \* bytes in a data block
    LF_IBLEN,           \* data blocks of an index block
    IBlocks, DBlocks,   \* index and data blocks of the disk
    MaxSize,            \* bound: bytes in a file
    Offset, Count,      \* the offsets of seeks, the sizes of reads
    NoFile, EOF, NONE

ASSUME SizesAssumption ==
    {Nlfl, LF_NUM_DIR_ENT, LF_BLKSIZ, LF_IBLEN, IBlocks, DBlocks, MaxSize} \subseteq Nat \ {0}

NULL == -1                          \* LF_INULL, LF_DNULL
LF_IDATA == LF_BLKSIZ * LF_IBLEN    \* bytes indexed by an index block
Device == 0 .. Nlfl - 1
IB == 0 .. IBlocks - 1
DB == 0 .. DBlocks - 1
Filled == [i \in 0 .. LF_BLKSIZ - 1 |-> DFILL]

VARIABLES
    lfdir,      \* lf_dir, the directory in memory
    dirpresent, dirdirty,
    disk,       \* directory, index blocks and data blocks on disk
    lfltab,     \* the control blocks
    panicked,
    written,    \* history: the bytes of each file, as its callers know them
    got         \* what a read has returned, in the step in which it does

lvars == <<lfdir, dirpresent, dirdirty, disk, lfltab, panicked, written, got>>

(* The part of the state the helpers below pass on. *)
now == [dir |-> lfdir, dirty |-> dirdirty, disk |-> disk, panic |-> FALSE]

(* lfibclear *)
Lfibclear(offset) == [next |-> NULL, offset |-> offset, dba |-> [i \in 0 .. LF_IBLEN - 1 |-> NULL]]

(* A data block on the free list holds the number of the next one. *)
FreeBlock(next) == [next |-> next]

Lfibput(s, i, ib) == [s EXCEPT !.disk.ib[i] = ib]
WriteDir(s) == [s EXCEPT !.disk.dir = s.dir]
WriteDirClean(s) == [WriteDir(s) EXCEPT !.dirty = FALSE]

(***************************************************************************)
(* lfiballoc and lfdballoc: the first block of the list.                   *)
(***************************************************************************)
Lfiballoc(s) ==
    LET i == s.dir.ifree IN
    IF i = NULL THEN [s EXCEPT !.panic = TRUE]
    ELSE WriteDirClean([s EXCEPT !.dir.ifree = s.disk.ib[i].next])

Lfdballoc(s) ==
    LET d == s.dir.dfree IN
    IF d = NULL THEN [s EXCEPT !.panic = TRUE]
    ELSE WriteDirClean([s EXCEPT !.dir.dfree = s.disk.db[d].next])

(* Mutant: the block is put back without its link. *)
Lfdbfree_NoLink(s, d) == WriteDir([s EXCEPT !.dir.dfree = d, !.disk.db[d] = FreeBlock(NULL)])

Lfdbfree(s, d) ==
    WriteDir([s EXCEPT !.dir.dfree = d, !.disk.db[d] = FreeBlock(s.dir.dfree)])

(* lfflush *)
Lfflush(c, s) ==
    LET s1 == IF s.dirty THEN WriteDirClean(s) ELSE s
        s2 == IF c.dbdirty THEN [s1 EXCEPT !.disk.db[c.dnum] = c.db] ELSE s1
    IN  IF c.ibdirty THEN Lfibput(s2, c.inum, c.ib) ELSE s2

Clean(c) == [c EXCEPT !.ibdirty = FALSE, !.dbdirty = FALSE]

(***************************************************************************)
(* lfsetup: the blocks of the current position are brought into memory.    *)
(* Each part maps a control block and a state to new ones.                 *)
(***************************************************************************)
Pair(c, s) == [c |-> c, s |-> s]

Flushed(c, s) == IF c.ibdirty \/ c.dbdirty THEN Pair(Clean(c), Lfflush(c, s)) ELSE Pair(c, s)

(* The index block in memory, or the first one of the file. *)
FirstIndex(p) ==
    LET c == p.c
        s == p.s
        first == s.dir.files[c.dirptr].ilist
        a == Lfiballoc(s)
        Load(i) == Pair([c EXCEPT !.inum = i, !.ib = s.disk.ib[i]], s)
    IN  IF c.inum = NULL /\ first = NULL
        THEN IF a.panic THEN Pair(c, a)
             ELSE Pair([c EXCEPT !.inum = s.dir.ifree, !.ib = Lfibclear(0), !.ibdirty = TRUE],
                       [a EXCEPT !.dir.files[c.dirptr].ilist = s.dir.ifree])
        ELSE IF c.inum = NULL \/ c.pos < c.ib.offset THEN Load(first)
        ELSE p

(* The loop along the index blocks, to the one that covers the position.   *)
RECURSIVE Cover(_)
Cover(p) ==
    LET c == p.c
        s == p.s
        next == c.ib.next
        a == Lfiballoc(s)
    IN  IF s.panic \/ c.pos - (c.pos % LF_IDATA) <= c.ib.offset THEN p
        ELSE IF next # NULL
        THEN Cover(Pair([c EXCEPT !.inum = next, !.ib = s.disk.ib[next], !.dnum = NULL], s))
        ELSE IF a.panic THEN Pair(c, a)
        ELSE Cover(Pair([c EXCEPT !.inum = s.dir.ifree, !.dnum = NULL, !.ibdirty = TRUE,
                                  !.ib = Lfibclear(c.ib.offset + LF_IDATA)],
                        Lfibput(a, c.inum, [c.ib EXCEPT !.next = s.dir.ifree])))

(* Mutant: the block in memory is taken for the right one. *)
DataBlock_Stale(p) ==
    LET c == p.c
        s == p.s
        dindex == (c.pos % LF_IDATA) \div LF_BLKSIZ
        dnum == c.ib.dba[dindex]
        byte == c.pos % LF_BLKSIZ
        a == Lfdballoc(s)
    IN  IF s.panic THEN p
        ELSE IF dnum = NULL
        THEN IF a.panic THEN Pair(c, a)
             ELSE Pair([c EXCEPT !.ib.dba[dindex] = s.dir.dfree, !.ibdirty = TRUE,
                                 !.dnum = s.dir.dfree, !.db = Filled, !.byte = byte], a)
        ELSE IF c.dnum = NULL
        THEN Pair([c EXCEPT !.dnum = dnum, !.db = s.disk.db[dnum], !.dbdirty = FALSE,
                            !.byte = byte], s)
        ELSE Pair([c EXCEPT !.dnum = dnum, !.byte = byte], s)

DataBlock(p) ==
    LET c == p.c
        s == p.s
        dindex == (c.pos % LF_IDATA) \div LF_BLKSIZ
        dnum == c.ib.dba[dindex]
        byte == c.pos % LF_BLKSIZ
        a == Lfdballoc(s)
    IN  IF s.panic THEN p
        ELSE IF dnum = NULL
        THEN IF a.panic THEN Pair(c, a)
             ELSE Pair([c EXCEPT !.ib.dba[dindex] = s.dir.dfree, !.ibdirty = TRUE,
                                 !.dnum = s.dir.dfree, !.db = Filled, !.byte = byte], a)
        ELSE IF dnum # c.dnum
        THEN Pair([c EXCEPT !.dnum = dnum, !.db = s.disk.db[dnum], !.dbdirty = FALSE,
                            !.byte = byte], s)
        ELSE Pair([c EXCEPT !.byte = byte], s)

Lfsetup(c, s) == DataBlock(Cover(FirstIndex(Flushed(c, s))))

SetupAt(c, s) == IF c.byte >= LF_BLKSIZ THEN Lfsetup(c, s) ELSE Pair(c, s)

(***************************************************************************)
(* The operations.                                                         *)
(***************************************************************************)
Closed == [used |-> FALSE]

Become(s) == /\ lfdir' = s.dir
             /\ dirdirty' = s.dirty
             /\ disk' = s.disk

Panic == panicked' = TRUE /\ UNCHANGED <<lfdir, dirpresent, dirdirty, disk, lfltab, written>>

(* lfscreate and lfsinit *)
Init ==
    /\ disk = [dir |-> [dfree |-> 0, ifree |-> 0, files |-> <<>>],
               ib |-> [i \in IB |-> [Lfibclear(0) EXCEPT !.next = IF i + 1 \in IB THEN i + 1 ELSE NULL]],
               db |-> [d \in DB |-> FreeBlock(IF d + 1 \in DB THEN d + 1 ELSE NULL)]]
    /\ lfdir = [dfree |-> 0, ifree |-> 0, files |-> <<>>]
    /\ dirpresent = FALSE /\ dirdirty = FALSE
    /\ lfltab = [d \in Device |-> Closed]
    /\ panicked = FALSE
    /\ written = [n \in Name |-> NoFile]
    /\ got = NONE

Used(d) == lfltab[d].used
LfSize(c, dir) == dir.files[c.dirptr].size
FileName(d) == lfdir.files[lfltab[d].dirptr].name

(* lfsopen; mode is "o" (old), "n" (new) or "".  An open that fails is no  *)
(* step: in the code it may load the directory (lfsopen.c:84 to 91), from  *)
(* which the next call would load it otherwise.                            *)
Lfsopen(n, mode) ==
    LET dir == IF dirpresent THEN lfdir ELSE disk.dir
        at == SelectInSeq(dir.files, LAMBDA e : e.name = n)
        new == [name |-> n, size |-> 0, ilist |-> NULL]
        Control(dirptr) == [used |-> TRUE, dirptr |-> dirptr, pos |-> 0, inum |-> NULL,
                            ib |-> Lfibclear(0), dnum |-> NULL, db |-> Filled,
                            byte |-> LF_BLKSIZ, ibdirty |-> FALSE, dbdirty |-> FALSE]
    IN  /\ \A d \in Device : Used(d) => FileName(d) # n
        /\ \E d \in Device :
              /\ ~Used(d) /\ \A e \in Device : e < d => Used(e)
              /\ \/ /\ at = 0 /\ mode # "o" /\ Len(dir.files) < LF_NUM_DIR_ENT
                    /\ lfdir' = [dir EXCEPT !.files = Append(@, new)]
                    /\ lfltab' = [lfltab EXCEPT ![d] = Control(Len(dir.files) + 1)]
                 \/ /\ at # 0 /\ mode # "n"
                    /\ lfdir' = dir
                    /\ lfltab' = [lfltab EXCEPT ![d] = Control(at)]
        /\ written' = [written EXCEPT ![n] = IF at = 0 THEN <<>> ELSE @]
        /\ dirpresent' = TRUE
        /\ UNCHANGED <<dirdirty, disk, panicked>>

(* lflputc *)
Lflputc(d, ch) ==
    LET p == SetupAt(lfltab[d], now)
        c == p.c
        s == p.s
        grows == c.pos >= LfSize(c, s.dir)
    IN  /\ Used(d)
        /\ lfltab[d].pos <= LfSize(lfltab[d], lfdir) /\ lfltab[d].pos < MaxSize
        /\ IF s.panic THEN Panic
           ELSE /\ Become(IF grows THEN [s EXCEPT !.dir.files[c.dirptr].size = @ + 1, !.dirty = TRUE]
                          ELSE s)
                /\ lfltab' = [lfltab EXCEPT ![d] =
                       [c EXCEPT !.db[c.byte] = ch, !.byte = @ + 1, !.pos = @ + 1, !.dbdirty = TRUE]]
                /\ written' = [written EXCEPT ![FileName(d)] =
                       IF grows THEN Append(@, ch) ELSE [@ EXCEPT ![c.pos + 1] = ch]]
                /\ UNCHANGED <<dirpresent, panicked>>

(* lflgetc, and lflread, which calls it until the end of the file; what is *)
(* read is collected in got.                                               *)
AtEnd(p) == p.c.pos >= LfSize(p.c, p.s.dir)
GetByte(p) ==
    LET q == SetupAt(p.c, p.s)
    IN  [c |-> [q.c EXCEPT !.byte = @ + 1, !.pos = @ + 1], s |-> q.s,
         got |-> Append(p.got, q.c.db[q.c.byte])]
GetBytes(d, count) ==
    FoldLeft(LAMBDA p, i : IF AtEnd(p) THEN p ELSE GetByte(p),
             [c |-> lfltab[d], s |-> now, got |-> <<>>], [i \in 1 .. count |-> i])

Lflread(d, count) ==
    LET p == GetBytes(d, count)
    IN  /\ Used(d)
        /\ Become(p.s)
        /\ lfltab' = [lfltab EXCEPT ![d] = p.c]
        /\ got' = IF p.got = <<>> THEN EOF ELSE p.got
        /\ UNCHANGED <<dirpresent, panicked, written>>

(* lflseek *)
Lflseek(d, offset) ==
    /\ Used(d) /\ offset <= LfSize(lfltab[d], lfdir)
    /\ lfltab' = [lfltab EXCEPT ![d].pos = offset, ![d].byte = LF_BLKSIZ]
    /\ UNCHANGED <<lfdir, dirpresent, dirdirty, disk, panicked, written>>

(* Mutant: the directory alone is no reason to write. *)
NeedsFlush_Blocks(c) == c.dbdirty \/ c.ibdirty

NeedsFlush(c) == dirdirty \/ c.dbdirty \/ c.ibdirty

(* lflclose; what is left in the control block is never read. *)
Lflclose(d) ==
    LET c == lfltab[d]
    IN  /\ Used(d)
        /\ Become(IF NeedsFlush(c) THEN Lfflush(c, now) ELSE now)
        /\ lfltab' = [lfltab EXCEPT ![d] = Closed]
        /\ UNCHANGED <<dirpresent, panicked, written>>

(***************************************************************************)
(* lftruncate: the file's index blocks go to the front of the free list.   *)
(***************************************************************************)
DisposeData(s, ib) ==
    FoldLeft(LAMBDA t, i : IF ib.dba[i] # NULL THEN Lfdbfree(t, ib.dba[i]) ELSE t,
             s, [i \in 1 .. LF_IBLEN |-> i - 1])

RECURSIVE Dispose(_, _, _)
Dispose(s, i, ifree) ==
    LET ib == s.disk.ib[i]
        next == IF ib.next = NULL THEN ifree ELSE ib.next
    IN  IF i = ifree THEN s
        ELSE Dispose(Lfibput(DisposeData(s, ib), i, [Lfibclear(0) EXCEPT !.next = next]),
                     next, ifree)

Lftruncate(d) ==
    LET c == lfltab[d]
        s1 == IF c.ibdirty \/ c.dbdirty THEN Lfflush(c, now) ELSE now
        ifree == s1.dir.ifree
        first == s1.dir.files[c.dirptr].ilist
        s2 == [s1 EXCEPT !.dir.files[c.dirptr] = [@ EXCEPT !.ilist = NULL, !.size = 0],
                         !.dirty = TRUE]
        s3 == Dispose(s2, first, ifree)
    IN  /\ Used(d)
        /\ IF LfSize(c, lfdir) = 0 THEN UNCHANGED <<lfdir, dirdirty, disk, lfltab>>
           ELSE /\ Become([s3 EXCEPT !.dir.ifree = first])
                /\ lfltab' = [lfltab EXCEPT ![d] =
                       [Clean(c) EXCEPT !.pos = 0, !.inum = NULL, !.dnum = NULL, !.byte = LF_BLKSIZ]]
        /\ written' = [written EXCEPT ![FileName(d)] = <<>>]
        /\ UNCHANGED <<dirpresent, panicked>>

Running == ~panicked

Next ==
    /\ Running
    /\ \/ \E d \in Device, count \in Count : Lflread(d, count)
       \/ /\ got' = NONE
          /\ \/ \E n \in Name, mode \in {"", "o", "n"} : Lfsopen(n, mode)
             \/ \E d \in Device :
                   \/ Used(d) /\ \E ch \in Data(FileName(d), lfltab[d].pos) : Lflputc(d, ch)
                   \/ \E offset \in Offset : Lflseek(d, offset)
                   \/ Lflclose(d) \/ Lftruncate(d)

Spec == Init /\ [][Next]_lvars
------------------------------------------------------------------------------
(* What the blocks are, memory first. *)
Directory == IF dirpresent THEN lfdir ELSE disk.dir
IBlock(i) == IF \E d \in Device : Used(d) /\ lfltab[d].inum = i
             THEN lfltab[CHOOSE d \in Device : Used(d) /\ lfltab[d].inum = i].ib
             ELSE disk.ib[i]
DBlock(b) == IF \E d \in Device : Used(d) /\ lfltab[d].dnum = b
             THEN lfltab[CHOOSE d \in Device : Used(d) /\ lfltab[d].dnum = b].db
             ELSE disk.db[b]

RECURSIVE FreeI(_, _)
FreeI(i, seen) == IF i \notin IB \/ i \in seen THEN seen ELSE FreeI(disk.ib[i].next, seen \cup {i})
RECURSIVE FreeD(_, _)
FreeD(b, seen) == IF b \notin DB \/ b \in seen \/ "next" \notin DOMAIN disk.db[b] THEN seen
                  ELSE FreeD(disk.db[b].next, seen \cup {b})

RECURSIVE ChainFrom(_, _)
ChainFrom(i, chain) == IF i \notin IB \/ Contains(chain, i) THEN chain
                       ELSE ChainFrom(IBlock(i).next, Append(chain, i))
Chain(e) == ChainFrom(e.ilist, <<>>)

DataOf(chain) == UNION {{IBlock(i).dba[j] : j \in 0 .. LF_IBLEN - 1} \ {NULL} : i \in chain}

Entries == 1 .. Len(Directory.files)
Entry(k) == Directory.files[k]

(* Every index block and every data block is on its free list or belongs   *)
(* to one file, whatever part of the lists is in memory: nothing leaks and *)
(* nothing is shared.                                                      *)
BlocksPartitioned ==
    LET index == [k \in Entries |-> ToSet(Chain(Entry(k)))]
        data  == [k \in Entries |-> DataOf(index[k])]
        freeI == FreeI(Directory.ifree, {})
        freeD == FreeD(Directory.dfree, {})
    IN  /\ IB = freeI \cup UNION {index[k] : k \in Entries}
        /\ DB = freeD \cup UNION {data[k] : k \in Entries}
        /\ \A k \in Entries : index[k] \cap freeI = {} /\ data[k] \cap freeD = {}
        /\ \A k, m \in Entries :
              k # m => index[k] \cap index[m] = {} /\ data[k] \cap data[m] = {}

(* When no file is open the directory on disk is the one in memory, but    *)
(* for files at its end that were created and never written.               *)
DiskCurrent ==
    (dirpresent /\ ~panicked /\ \A d \in Device : ~Used(d)) =>
        /\ disk.dir.ifree = lfdir.ifree /\ disk.dir.dfree = lfdir.dfree
        /\ Len(disk.dir.files) <= Len(lfdir.files)
        /\ \A k \in Entries :
              IF k <= Len(disk.dir.files) THEN disk.dir.files[k] = lfdir.files[k]
              ELSE lfdir.files[k].size = 0 /\ lfdir.files[k].ilist = NULL

(* A byte read is the one written last at its position, whichever blocks   *)
(* were loaded, written back, given up and allocated again in between; and *)
(* the system panics only when the files take all the blocks there are.    *)
Abstract == INSTANCE FileSpec WITH
    MaxFiles <- LF_NUM_DIR_ENT, BlockSize <- LF_BLKSIZ, BlocksPerIndex <- LF_IBLEN,
    IndexBlocks <- IBlocks, DataBlocks <- DBlocks,
    content <- written,
    opened <- [d \in Device |-> IF Used(d) THEN <<FileName(d), lfltab[d].pos>> ELSE <<>>],
    stopped <- panicked

Implements == Abstract!Spec
=============================================================================
