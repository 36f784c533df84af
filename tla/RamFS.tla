-------------------------------- MODULE RamFS --------------------------------
(***************************************************************************)
(* The in-memory file system of system/fs.c on the block store of          *)
(* system/bs.c: a superblock, a bitmap, inode blocks and data blocks; one  *)
(* directory; a table of open files in which fs_open puts a copy of the    *)
(* inode that fs_write alone keeps up to date.                             *)
(*                                                                         *)
(* No call disables interrupts or takes a lock: a process may be preempted *)
(* anywhere in one.  fs_write is therefore a step for every access to what *)
(* the descriptors share, the bitmap and the disk.  The other calls only   *)
(* touch the entry of their descriptor and the blocks it has, and are one  *)
(* step under the assumption this module makes of the applications:        *)
(*   - a descriptor is used by one process at a time (Unused);             *)
(*   - one process at a time opens or creates files (fs_open and fs_create *)
(*     share next_open_fd, inodes_used, the directory and block_cache).    *)
(*                                                                         *)
(* A descriptor that is opened gets the inode as fs_create wrote it, with  *)
(* size 0: the blocks a file has belong to the DESCRIPTOR, closed or not.  *)
(***************************************************************************)
EXTENDS Integers, Sequences, FiniteSets

CONSTANTS
    Proc,
    Nblocks, blocksz,          \* bs_mkdev
    ninodes,                   \* fs_mkfs
    INODES_PER_BLOCK,          \* blocksz / sizeof(struct inode)
    INODEBLOCKS, DIRECTORY_SIZE, NUM_FD,
    Name,                      \* the file names applications use
    Value,                     \* what they fill a buffer with
    Junk,                      \* a byte from behind the caller's buffer
    Count,                     \* the lengths of their buffers
    Offset                     \* the distances they seek, either way

(* The directory has no more entries than there are inodes (16 and 128 in  *)
(* include/fs.h): with more, fs.c:91 lets one inode through too many.      *)
ASSUME SizesAssumption ==
    /\ {Nblocks, blocksz, ninodes, INODES_PER_BLOCK,
        INODEBLOCKS, DIRECTORY_SIZE, NUM_FD} \subseteq Nat \ {0}
    /\ DIRECTORY_SIZE <= ninodes
    /\ Count \subseteq Nat \ {0} /\ Offset \subseteq Nat

VARIABLES
    entries,       \* fsd.root_dir: the entries in use
    inodes_used,   \* fsd.inodes_used
    freemask,      \* fsd.freemask: the blocks whose bit is set
    inodes,        \* the inode blocks: what fs_create put there
    disk,          \* the data blocks, byte by byte
    oft,           \* the table of open files
    next_open_fd,
    pc, local,     \* where each process is in fs_write, and its variables there
    written,       \* history: what fs_write was given, and whether it was
                   \* only called in the ways it supports (Supported)
    doubtful       \* history: the blocks that were found by two searches, or
                   \* whose bit another process's store has taken back

dir == <<entries, inodes_used, inodes, next_open_fd>>
run == <<pc, local>>
rvars == <<dir, freemask, disk, oft, run, written, doubtful>>

Fd == 0 .. NUM_FD - 1
SB_BLK == 0
BM_BLK == 1
FIRST_INODE_BLOCK == 2
NUM_INODE_BLOCKS == IF ninodes % INODES_PER_BLOCK = 0 THEN ninodes \div INODES_PER_BLOCK
                    ELSE ninodes \div INODES_PER_BLOCK + 1
FirstData == FIRST_INODE_BLOCK + NUM_INODE_BLOCKS
DataBlocks == FirstData .. Nblocks - 1
InBlock == 0 .. blocksz - 1
NoBlock == SB_BLK

(* An inode just created: its blocks are not written to. *)
EmptyInode == [size |-> 0, blocks |-> [i \in 0 .. INODEBLOCKS - 1 |-> NoBlock]]

(* An entry of the table of open files. *)
File(state, fileptr, in) == [state |-> state, fileptr |-> fileptr, in |-> in]

(* The variables of fs_write: the arguments, *inodePtr, i, j, and the byte *)
(* of the bitmap that fs_setmaskbit has loaded.                            *)
Local(fd, n, v, in, i, j, byte) ==
    [fd |-> fd, n |-> n, v |-> v, in |-> in, i |-> i, j |-> j, byte |-> byte]
NoLocal == Local(0, 0, Junk, EmptyInode, 0, 0, {})

-----------------------------------------------------------------------------
(* bs_mkdev and fs_mkfs: everything is empty, but block 0 and block 1. *)
Init ==
    /\ entries = <<>>
    /\ inodes_used = 0
    /\ freemask = {SB_BLK, BM_BLK}
    /\ inodes = [n \in 0 .. ninodes |-> EmptyInode]
    /\ disk = [b \in DataBlocks |-> [o \in InBlock |-> Junk]]
    /\ oft = [fd \in Fd |-> File("CLOSED", 0, EmptyInode)]
    /\ next_open_fd = 0
    /\ pc = [p \in Proc |-> "app"] /\ local = [p \in Proc |-> NoLocal]
    /\ written = [fd \in Fd |-> [bytes |-> <<>>, supported |-> TRUE]]
    /\ doubtful = {}

Lookup(name) == {i \in 1 .. Len(entries) : entries[i].name = name}

(* The entry fs_open fills in; O_WRONLY starts at the end. *)
Opened(in, flags) == File("OPEN", IF flags = "O_WRONLY" THEN in.size ELSE 0, in)

(* The end of fs_open, for the inode n: the descriptor is taken from the   *)
(* counter before O_RDONLY on an empty file is refused.                    *)
TakeFd(in, flags) ==
    IF next_open_fd >= NUM_FD
    THEN UNCHANGED <<oft, next_open_fd>>
    ELSE /\ next_open_fd' = next_open_fd + 1
         /\ IF in.size = 0 /\ flags = "O_RDONLY"
            THEN UNCHANGED oft
            ELSE oft' = [oft EXCEPT ![next_open_fd] = Opened(in, flags)]

FsOpen(name, flags) ==
    /\ \E i \in Lookup(name) : TakeFd(inodes[entries[i].inode_num], flags)
    /\ UNCHANGED <<entries, inodes_used, inodes, freemask, disk, run, written, doubtful>>

(* The entry and the inode stay when the open at the end of it fails. *)
FsCreate(name) ==
    /\ Lookup(name) = {}
    /\ Len(entries) < DIRECTORY_SIZE
    /\ inodes' = [inodes EXCEPT ![inodes_used] = EmptyInode]
    /\ entries' = Append(entries, [name |-> name, inode_num |-> inodes_used])
    /\ inodes_used' = inodes_used + 1
    /\ TakeFd(EmptyInode, "O_RDWR")
    /\ UNCHANGED <<freemask, disk, run, written, doubtful>>

IsOpen(fd) == oft[fd].state = "OPEN"

(* The assumption: no process is in fs_write with this descriptor. *)
Unused(fd) == \A p \in Proc : pc[p] # "app" => local[p].fd # fd
Moved(file, fileptr) == File(file.state, fileptr, file.in)

FsClose(fd) ==
    /\ IsOpen(fd) /\ Unused(fd)
    /\ oft' = [oft EXCEPT ![fd] = File("CLOSED", @.fileptr, @.in)]
    /\ UNCHANGED <<dir, freemask, disk, run, written, doubtful>>

(* The offset is relative to the pointer. *)
FsSeek(fd, offset) ==
    /\ IsOpen(fd) /\ Unused(fd)
    /\ oft[fd].fileptr + offset \in 0 .. oft[fd].in.size
    /\ oft' = [oft EXCEPT ![fd] = Moved(@, @.fileptr + offset)]
    /\ UNCHANGED <<dir, freemask, disk, run, written, doubtful>>

-----------------------------------------------------------------------------
(* How fs_read and fs_write cut the bytes ptr .. new - 1 into blocks.      *)

(* start, end and curr: the last block the first x bytes reach. *)
LastBlock(x) == IF x % blocksz = 0 THEN x \div blocksz - 1 ELSE x \div blocksz

(* The blocks the loop visits.  For a pointer inside a block, that block   *)
(* is LastBlock(ptr): the loop starts behind it.                           *)
Visited(ptr, new) == LastBlock(ptr) + 1 .. LastBlock(new)

(* The offset in block i and the number of bytes taken there: the first    *)
(* block is always taken to its end.                                       *)
From(ptr, i) == IF i = LastBlock(ptr) + 1 THEN ptr % blocksz ELSE 0
Taken(ptr, new, i) ==
    IF i = LastBlock(ptr) + 1 THEN blocksz - From(ptr, i)
    ELSE IF i = LastBlock(new) THEN new % blocksz
    ELSE blocksz

(* Mutant of Position: the first block counts as a whole one. *)
Position_Whole(ptr, i) == (i - LastBlock(ptr)) * blocksz

(* bufPtr - buf when block i is reached. *)
Position(ptr, i) ==
    IF i = LastBlock(ptr) + 1 THEN 0
    ELSE blocksz - (ptr % blocksz) + (i - LastBlock(ptr) - 2) * blocksz

(* Byte k at the buffer of n bytes an application passes. *)
Buffer(v, n, k) == IF k < n THEN <<v, k>> ELSE Junk

(* History: the calls for which the arithmetic above is that of a file: on *)
(* a block boundary, not over several blocks up to a boundary, and not     *)
(* ending inside a block that holds more.                                  *)
Bounded(ptr, new) ==
    /\ ptr % blocksz = 0
    /\ new % blocksz = 0 => new - ptr <= blocksz
Supported(ptr, new, size) ==
    Bounded(ptr, new) /\ (new < size => new % blocksz = 0)

Record(fd, ptr, n, v, in) ==
    LET old == written[fd].bytes
        size == IF ptr + n > Len(old) THEN ptr + n ELSE Len(old)
    IN written' = [written EXCEPT ![fd] =
            IF @.supported /\ Supported(ptr, ptr + n, in.size)
            THEN [bytes |-> [p \in 1 .. size |->
                                IF p \in ptr + 1 .. ptr + n THEN <<v, p - ptr - 1>> ELSE old[p]],
                  supported |-> TRUE]
            ELSE [bytes |-> <<>>, supported |-> FALSE]]

-----------------------------------------------------------------------------
(* fs_write. *)
At(p, here) == pc[p] = here
GoTo(p, c) == pc' = [pc EXCEPT ![p] = c]
Keep(p, l) == local' = [local EXCEPT ![p] = l]

(* newSize; the entry of the descriptor is its own until fs_write returns. *)
NewSize(l) == oft[l.fd].fileptr + l.n

FsWrite(p, fd, n, v) ==
    LET in == oft[fd].in
    IN  /\ At(p, "app") /\ IsOpen(fd) /\ Unused(fd)
        /\ oft[fd].fileptr + n < blocksz * INODEBLOCKS
        /\ Keep(p, Local(fd, n, v, in, LastBlock(in.size) + 1, FirstData, {}))
        /\ GoTo(p, "search")
        /\ UNCHANGED <<dir, freemask, disk, oft, written, doubtful>>

(* A block is needed while i has not passed the last one. *)
Needs(l) == l.i <= LastBlock(NewSize(l))

(* fs_getmaskbit(j): one look at the bitmap. *)
Look(p) ==
    LET l == local[p]
    IN  /\ At(p, "search") /\ Needs(l) /\ l.j < Nblocks
        /\ IF l.j \in freemask
           THEN Keep(p, Local(l.fd, l.n, l.v, l.in, l.i, l.j + 1, {})) /\ UNCHANGED pc
           ELSE GoTo(p, "load") /\ UNCHANGED local
        /\ UNCHANGED <<dir, freemask, disk, oft, written, doubtful>>

(* No block is empty: the bits of those found for this write stay set, and *)
(* the inode of the descriptor does not know them.                         *)
Full(p) ==
    LET l == local[p]
    IN  /\ At(p, "search") /\ Needs(l) /\ l.j = Nblocks
        /\ Keep(p, NoLocal) /\ GoTo(p, "app")
        /\ UNCHANGED <<dir, freemask, disk, oft, written, doubtful>>

(* fs_setmaskbit(j) loads a byte of the bitmap, sets a bit and stores it.  *)
ByteOf(j) == {b \in 0 .. Nblocks - 1 : b \div 8 = j \div 8}

Load(p) ==
    LET l == local[p]
    IN  /\ At(p, "load")
        /\ Keep(p, Local(l.fd, l.n, l.v, l.in, l.i, l.j, freemask \cap ByteOf(l.j)))
        /\ GoTo(p, "store")
        /\ UNCHANGED <<dir, freemask, disk, oft, written, doubtful>>

SetMask_Assign(byte, j) == (freemask \ ByteOf(j)) \cup {j}   \* mutant: = in place of |=

SetMask(byte, j) == (freemask \ ByteOf(j)) \cup byte \cup {j}

(* The store, and inodePtr->blocks[i] = j.  In doubt is block j if its bit *)
(* has been set since it was found, and every block whose bit was set      *)
(* after the byte was loaded.                                              *)
Mark(p) ==
    LET l == local[p]
        in == [size |-> l.in.size, blocks |-> [l.in.blocks EXCEPT ![l.i] = l.j]]
    IN  /\ At(p, "store")
        /\ freemask' = SetMask(l.byte, l.j)
        /\ doubtful' = doubtful \cup (freemask \cap ({l.j} \cup (ByteOf(l.j) \ l.byte)))
        /\ Keep(p, Local(l.fd, l.n, l.v, in, l.i + 1, FirstData, {}))
        /\ GoTo(p, "search")
        /\ UNCHANGED <<dir, disk, oft, written>>

(* Enough blocks: the data are next. *)
Found(p) ==
    LET l == local[p]
    IN  /\ At(p, "search") /\ ~Needs(l)
        /\ Keep(p, Local(l.fd, l.n, l.v, l.in, LastBlock(oft[l.fd].fileptr) + 1, 0, {}))
        /\ GoTo(p, "data")
        /\ UNCHANGED <<dir, freemask, disk, oft, written, doubtful>>

(* What bs_bwrite makes of block i: the block that had the bytes old. *)
Stored(l, old) ==
    LET ptr == oft[l.fd].fileptr
        at == From(ptr, l.i)
    IN  [o \in InBlock |-> IF o \in at .. at + Taken(ptr, NewSize(l), l.i) - 1
                           THEN Buffer(l.v, l.n, Position(ptr, l.i) + o - at)
                           ELSE old[o]]

Bwrite(p) ==
    LET l == local[p]
    IN  /\ At(p, "data") /\ Needs(l)
        /\ disk' = [disk EXCEPT ![l.in.blocks[l.i]] = Stored(l, @)]
        /\ Keep(p, Local(l.fd, l.n, l.v, l.in, l.i + 1, 0, {}))
        /\ UNCHANGED <<dir, freemask, oft, pc, written, doubtful>>

(* The inode as the end of fs_write leaves it, in the table only. *)
Saved(in, new) ==
    [size |-> IF new > in.size THEN new ELSE in.size, blocks |-> in.blocks]

Return(p) ==
    LET l == local[p]
        file == oft[l.fd]
    IN  /\ At(p, "data") /\ ~Needs(l)
        /\ oft' = [oft EXCEPT ![l.fd] = File(@.state, NewSize(l), Saved(l.in, NewSize(l)))]
        /\ Record(l.fd, file.fileptr, l.n, l.v, l.in)
        /\ Keep(p, NoLocal) /\ GoTo(p, "app")
        /\ UNCHANGED <<dir, freemask, disk, doubtful>>

-----------------------------------------------------------------------------
(* newSize of fs_read, and what the loop puts at byte k of the buffer: a   *)
(* set with one element, or none when it does not get there.               *)
ReadEnd(fd, n) ==
    IF oft[fd].fileptr + n > oft[fd].in.size THEN oft[fd].in.size ELSE oft[fd].fileptr + n
Fetched(fd, n, k) ==
    LET ptr == oft[fd].fileptr
        from == {i \in Visited(ptr, ReadEnd(fd, n)) :
                    k - Position(ptr, i) \in 0 .. Taken(ptr, ReadEnd(fd, n), i) - 1}
    IN {disk[oft[fd].in.blocks[i]][From(ptr, i) + k - Position(ptr, i)] : i \in from}

FsRead(fd, n) ==
    /\ IsOpen(fd) /\ Unused(fd)
    /\ oft' = [oft EXCEPT ![fd] = Moved(@, ReadEnd(fd, n))]
    /\ UNCHANGED <<dir, freemask, disk, run, written, doubtful>>

Next ==
    \/ \E name \in Name : FsCreate(name)
    \/ \E name \in Name, flags \in {"O_RDONLY", "O_WRONLY", "O_RDWR"} : FsOpen(name, flags)
    \/ \E fd \in Fd : FsClose(fd)
    \/ \E fd \in Fd, d \in Offset : FsSeek(fd, d) \/ FsSeek(fd, -d)
    \/ \E fd \in Fd, n \in Count : FsRead(fd, n)
    \/ \E p \in Proc, fd \in Fd, n \in Count, v \in Value : FsWrite(p, fd, n, v)
    \/ \E p \in Proc : \/ Look(p) \/ Full(p) \/ Load(p) \/ Mark(p)
                       \/ Found(p) \/ Bwrite(p) \/ Return(p)

Spec == Init /\ [][Next]_rvars

-----------------------------------------------------------------------------
(* The blocks of descriptor fd, as far as its inode says it has any. *)
Owned(fd) == {<<fd, i>> : i \in 0 .. LastBlock(oft[fd].in.size)}
BlockOf(own) == oft[own[1]].in.blocks[own[2]]

(* fs_write looks for a block, marks it and enters it in its copy of the   *)
(* inode, with interrupts enabled.  Whatever calls of several processes    *)
(* came before, interrupted wherever, and whatever writes were refused: a  *)
(* descriptor's blocks are data blocks, and no block serves two places or  *)
(* may be given away again - but for the blocks that two searches found at *)
(* the same time and those whose bit a store took back (system/fs.c:578 to *)
(* 591): the damage that overlapping writes do stays with these blocks.    *)
BlocksOwned ==
    \A own, other \in UNION {Owned(fd) : fd \in Fd} :
        /\ BlockOf(own) \in DataBlocks
        /\ BlockOf(own) \notin doubtful =>
              /\ BlockOf(own) \in freemask
              /\ BlockOf(own) = BlockOf(other) => own = other

(* What was written through a descriptor is read through it: if only       *)
(* supported writes were made, no block of it is in doubt and no call of   *)
(* another process is at work on it, a supported fs_read puts into the     *)
(* first bytes of the buffer those that were written, whatever writes      *)
(* through other descriptors overlap it (system/fs.c:501 and 603, the two  *)
(* copies of the arithmetic, agree).  It may put more behind them: the     *)
(* first block is copied to its end, whatever the length of the buffer.    *)
ReadsBack ==
    \A fd \in Fd, n \in 1 .. blocksz * INODEBLOCKS :
        LET ptr == oft[fd].fileptr
            bytes == written[fd].bytes
        IN  /\ IsOpen(fd) /\ Unused(fd) /\ written[fd].supported
            /\ {BlockOf(own) : own \in Owned(fd)} \cap doubtful = {}
            /\ Bounded(ptr, ReadEnd(fd, n))
            => /\ Len(bytes) <= oft[fd].in.size
               /\ \A k \in 0 .. ReadEnd(fd, n) - ptr - 1 :
                     ptr + k < Len(bytes) => Fetched(fd, n, k) = {bytes[ptr + k + 1]}

=============================================================================
