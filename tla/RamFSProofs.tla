------------------------------ MODULE RamFSProofs ------------------------------
(***************************************************************************)
(* The in-memory file system, for disks, blocks, directories and tables of *)
(* every size and any number of processes that write at the same time, one *)
(* to a descriptor: which blocks may come to serve two places, and that    *)
(* what supported writes put into the others is what supported reads find. *)
(***************************************************************************)
EXTENDS RamFS, SequenceTheorems, TLAPS

-----------------------------------------------------------------------------
(***************************************************************************)
(* Blocks and bytes.                                                       *)
(***************************************************************************)
LEMMA Sizes ==
    /\ blocksz \in Nat \ {0} /\ INODEBLOCKS \in Nat \ {0} /\ NUM_FD \in Nat \ {0}
    /\ DIRECTORY_SIZE \in Nat \ {0} /\ ninodes \in Nat \ {0} /\ DIRECTORY_SIZE <= ninodes
    /\ Count \subseteq Nat \ {0} /\ Offset \subseteq Nat
  BY SizesAssumption

LEMMA DataBlocksAreInts == DataBlocks \subseteq Int
<1>1. ninodes \in Nat /\ INODES_PER_BLOCK \in Nat \ {0} /\ Nblocks \in Nat
  BY SizesAssumption
<1>2. NUM_INODE_BLOCKS \in Int
  BY <1>1 DEF NUM_INODE_BLOCKS
<1> QED BY <1>1, <1>2 DEF DataBlocks, FirstData, FIRST_INODE_BLOCK

LEMMA Divided ==
    ASSUME NEW x \in Nat
    PROVE  /\ x = blocksz * (x \div blocksz) + (x % blocksz)
           /\ x \div blocksz \in Nat /\ x % blocksz \in Nat /\ x % blocksz < blocksz
  BY Sizes

(* The place of a byte is its only one. *)
LEMMA PlaceOf ==
    ASSUME NEW q \in Nat, NEW r \in Nat, r < blocksz
    PROVE  /\ q * blocksz + r \in Nat
           /\ (q * blocksz + r) \div blocksz = q /\ (q * blocksz + r) % blocksz = r
<1> DEFINE x == q * blocksz + r
<1>1. blocksz \in Nat \ {0}
  BY Sizes
<1>2. x \in Nat /\ x = q * blocksz + r
  BY <1>1
<1> HIDE DEF x
<1>3. x \div blocksz = q /\ x % blocksz = r
  BY <1>1, <1>2
<1> QED BY <1>2, <1>3

LEMMA TimesGrows ==
    ASSUME NEW p \in Int, NEW q \in Int, p < q
    PROVE  p * blocksz \in Int /\ q * blocksz \in Int /\ (p + 1) * blocksz <= q * blocksz
           /\ (p + 1) * blocksz = p * blocksz + blocksz
  BY Sizes

LEMMA LastBlockBounds ==
    ASSUME NEW x \in Nat
    PROVE  /\ LastBlock(x) \in Int /\ -1 <= LastBlock(x)
           /\ LastBlock(x) * blocksz < x /\ x <= LastBlock(x) * blocksz + blocksz
           /\ LastBlock(x) * blocksz \in Int
<1> DEFINE q == x \div blocksz
           r == x % blocksz
<1>1. blocksz \in Nat \ {0}
  BY Sizes
<1>2. q \in Nat /\ r \in Nat /\ r < blocksz /\ x = q * blocksz + r
  BY <1>1, Divided
<1>3. LastBlock(x) = IF r = 0 THEN q - 1 ELSE q
  BY DEF LastBlock
<1> HIDE DEF q, r
<1>4. (q - 1) * blocksz = q * blocksz - blocksz /\ q * blocksz \in Int /\ (q - 1) * blocksz \in Int
  BY <1>1, <1>2
<1> QED BY <1>1, <1>2, <1>3, <1>4

LEMMA LastBlockGrows ==
    ASSUME NEW x \in Nat, NEW y \in Nat, x <= y
    PROVE  LastBlock(x) <= LastBlock(y)
<1>1. blocksz \in Nat \ {0}
  BY Sizes
<1>2. /\ LastBlock(x) \in Int /\ LastBlock(x) * blocksz < x /\ LastBlock(x) * blocksz \in Int
      /\ LastBlock(y) \in Int /\ y <= LastBlock(y) * blocksz + blocksz
      /\ LastBlock(y) * blocksz \in Int
  BY LastBlockBounds
<1>3. CASE LastBlock(y) < LastBlock(x)
  <2>1. LastBlock(y) * blocksz + blocksz <= LastBlock(x) * blocksz
    BY <1>2, <1>3, TimesGrows
  <2> QED BY <1>1, <1>2, <2>1
<1> QED BY <1>2, <1>3

LEMMA LastBlockFits ==
    ASSUME NEW x \in Nat, x < blocksz * INODEBLOCKS
    PROVE  LastBlock(x) <= INODEBLOCKS - 1
<1>1. blocksz \in Nat \ {0} /\ INODEBLOCKS \in Nat \ {0}
  BY Sizes
<1>2. LastBlock(x) \in Int /\ LastBlock(x) * blocksz < x /\ LastBlock(x) * blocksz \in Int
  BY LastBlockBounds
<1>3. CASE INODEBLOCKS - 1 < LastBlock(x)
  <2>1. (INODEBLOCKS - 1 + 1) * blocksz <= LastBlock(x) * blocksz
    BY <1>1, <1>2, <1>3, TimesGrows
  <2>2. (INODEBLOCKS - 1 + 1) * blocksz = blocksz * INODEBLOCKS
        /\ blocksz * INODEBLOCKS \in Int
    BY <1>1
  <2> QED BY <1>2, <2>1, <2>2
<1> QED BY <1>1, <1>2, <1>3

LEMMA EmptyFile == LastBlock(0) = -1 /\ 0 .. LastBlock(0) = {} /\ EmptyInode.size = 0
<1>1. LastBlock(0) \in Int /\ -1 <= LastBlock(0) /\ LastBlock(0) * blocksz < 0
      /\ LastBlock(0) * blocksz \in Int
  BY LastBlockBounds
<1>2. blocksz \in Nat \ {0}
  BY Sizes
<1>3. LastBlock(0) < 0
  BY <1>1, <1>2
<1>4. LastBlock(0) = -1
  BY <1>1, <1>3
<1> QED BY <1>4 DEF EmptyInode

-----------------------------------------------------------------------------
(***************************************************************************)
(* The bytes of a transfer from a block boundary.                          *)
(***************************************************************************)
(* The r-th byte of the q-th block. *)
Byte(q, r) == q * blocksz + r

LEMMA ByteType ==
    ASSUME NEW q \in Int, NEW r \in InBlock
    PROVE  /\ Byte(q, r) \in Int /\ q * blocksz \in Int /\ r \in Nat /\ r < blocksz
           /\ q * blocksz <= Byte(q, r) /\ Byte(q, r) < q * blocksz + blocksz
           /\ q \in Nat => Byte(q, r) \in Nat
  BY Sizes DEF Byte, InBlock

(* Which blocks the first x bytes reach. *)
LEMMA BlockReached ==
    ASSUME NEW q \in Int, NEW r \in InBlock, NEW x \in Nat, Byte(q, r) < x
    PROVE  q <= LastBlock(x)
<1>1. Byte(q, r) \in Int /\ q * blocksz \in Int /\ q * blocksz <= Byte(q, r)
  BY ByteType
<1>2. LastBlock(x) \in Int /\ x <= LastBlock(x) * blocksz + blocksz /\ LastBlock(x) * blocksz \in Int
  BY LastBlockBounds
<1>3. CASE LastBlock(x) < q
  <2>1. LastBlock(x) * blocksz + blocksz <= q * blocksz
    BY <1>2, <1>3, TimesGrows
  <2>2. blocksz \in Nat
    BY Sizes
  <2> QED BY <1>1, <1>2, <2>1, <2>2
<1> QED BY <1>2, <1>3

LEMMA BlockBeyond ==
    ASSUME NEW q \in Int, NEW r \in InBlock, NEW x \in Nat, LastBlock(x) < q
    PROVE  x <= Byte(q, r)
<1>1. Byte(q, r) \in Int
  BY ByteType
<1> QED BY <1>1, BlockReached, LastBlockBounds

LEMMA Aligned ==
    ASSUME NEW ptr \in Nat, ptr % blocksz = 0, NEW new \in Nat, ptr < new
    PROVE  LET a == ptr \div blocksz
           IN  /\ a \in Nat /\ ptr = a * blocksz /\ LastBlock(ptr) + 1 = a
               /\ Visited(ptr, new) = a .. LastBlock(new)
               /\ \A i \in Visited(ptr, new) :
                     /\ From(ptr, i) = 0 /\ Position(ptr, i) = (i - a) * blocksz
                     /\ Taken(ptr, new, i) = IF i = a THEN blocksz
                                             ELSE IF i = LastBlock(new) THEN new % blocksz
                                             ELSE blocksz
<1> DEFINE a == ptr \div blocksz
<1>1. blocksz \in Nat \ {0}
  BY Sizes
<1>2. a \in Nat /\ ptr = a * blocksz
  BY <1>1, Divided
<1>3. LastBlock(ptr) = a - 1
  BY DEF LastBlock
<1> HIDE DEF a
<1>4. LastBlock(ptr) + 1 = a /\ LastBlock(new) \in Int
  BY <1>2, <1>3, LastBlockBounds
<1>5. Visited(ptr, new) = a .. LastBlock(new)
  BY <1>4 DEF Visited
<1>6. ASSUME NEW i \in Visited(ptr, new)
      PROVE  /\ From(ptr, i) = 0 /\ Position(ptr, i) = (i - a) * blocksz
             /\ Taken(ptr, new, i) = IF i = a THEN blocksz
                                     ELSE IF i = LastBlock(new) THEN new % blocksz
                                     ELSE blocksz
  <2>1. From(ptr, i) = 0
    BY DEF From
  <2>2. i \in Int /\ i - LastBlock(ptr) - 2 = i - a - 1
    BY <1>2, <1>3, <1>4, <1>5
  <2>3. (i - a - 1) * blocksz = (i - a) * blocksz - blocksz /\ (i - a) * blocksz \in Int
        /\ (a - a) * blocksz = 0
    BY <1>1, <1>2, <2>2
  <2>4. Position(ptr, i) = (i - a) * blocksz
    BY <1>1, <1>4, <2>2, <2>3 DEF Position
  <2>5. blocksz - 0 = blocksz
    BY <1>1
  <2> QED BY <1>4, <2>1, <2>4, <2>5 DEF Taken
<1> QED BY <1>2, <1>4, <1>5, <1>6 DEF a

(* A byte of the transfer is taken in the block that has it, and the block *)
(* is one that is visited.                                                 *)
LEMMA ByteTaken ==
    ASSUME NEW ptr \in Nat, NEW new \in Nat, ptr < new, Bounded(ptr, new),
           NEW q \in Nat, NEW r \in InBlock, ptr <= Byte(q, r), Byte(q, r) < new
    PROVE  q \in Visited(ptr, new) /\ r < Taken(ptr, new, q)
<1> DEFINE a == ptr \div blocksz
           L == LastBlock(new)
<1>1. blocksz \in Nat \ {0}
  BY Sizes
<1>2. /\ a \in Nat /\ ptr = a * blocksz
      /\ Visited(ptr, new) = a .. L
      /\ \A i \in Visited(ptr, new) :
            Taken(ptr, new, i) = IF i = a THEN blocksz
                                 ELSE IF i = L THEN new % blocksz ELSE blocksz
  BY Aligned DEF Bounded
<1> HIDE DEF a
<1>3. Byte(q, r) \in Nat /\ r \in Nat /\ r < blocksz /\ q * blocksz \in Int
      /\ Byte(q, r) < q * blocksz + blocksz /\ q * blocksz <= Byte(q, r)
  BY ByteType
<1>4. L \in Int /\ L * blocksz < new /\ new <= L * blocksz + blocksz /\ L * blocksz \in Int
  BY LastBlockBounds
<1>5. q <= L
  BY BlockReached
<1>6. a <= q
  <2>1. CASE q < a
    <3>1. q * blocksz + blocksz <= a * blocksz
      BY <1>2, <2>1, TimesGrows
    <3>2. a * blocksz \in Int
      BY <1>1, <1>2
    <3> QED BY <1>1, <1>2, <1>3, <3>1, <3>2
  <2> QED BY <1>2, <2>1
<1>7. q \in Visited(ptr, new)
  BY <1>2, <1>4, <1>5, <1>6
<1>8. CASE q = L /\ q # a
  <2>1. a * blocksz + blocksz <= L * blocksz /\ a * blocksz \in Int
    BY <1>2, <1>4, <1>6, <1>8, TimesGrows
  <2>2. blocksz < new - ptr
    BY <1>1, <1>2, <1>4, <2>1
  <2>3. new % blocksz # 0
    BY <1>1, <2>2 DEF Bounded
  <2>4. L = new \div blocksz
    BY <2>3 DEF LastBlock
  <2>5. new = L * blocksz + (new % blocksz) /\ new % blocksz \in Nat
    BY <1>1, <2>4, Divided
  <2>6. r < new % blocksz
    BY <1>3, <1>4, <1>8, <2>5 DEF Byte
  <2> QED BY <1>2, <1>7, <1>8, <2>6
<1>9. CASE q # L \/ q = a
  BY <1>2, <1>3, <1>7, <1>9
<1> QED BY <1>7, <1>8, <1>9

(* No more is taken than the block has, and nothing is left behind that    *)
(* the file still has in the blocks that are visited.                      *)
LEMMA NothingBehind ==
    ASSUME NEW ptr \in Nat, NEW new \in Nat, ptr < new, NEW size \in Nat,
           Supported(ptr, new, size),
           NEW q \in Visited(ptr, new), NEW r \in InBlock, Byte(q, r) < size
    PROVE  Byte(q, r) < new
<1>1. blocksz \in Nat \ {0}
  BY Sizes
<1>2. q \in Int /\ q <= LastBlock(new) /\ LastBlock(ptr) \in Int /\ LastBlock(new) \in Int
  BY LastBlockBounds DEF Visited
<1>3. Byte(q, r) \in Int /\ Byte(q, r) < q * blocksz + blocksz /\ q * blocksz \in Int
  BY <1>2, ByteType
<1>4. CASE new < size
  <2>1. new % blocksz = 0
    BY <1>4 DEF Supported
  <2>2. LastBlock(new) = new \div blocksz - 1
    BY <2>1 DEF LastBlock
  <2>3. new = (LastBlock(new) + 1) * blocksz
    BY <1>1, <1>2, <2>1, <2>2, Divided
  <2>4. (LastBlock(new) + 1) * blocksz = LastBlock(new) * blocksz + blocksz
        /\ LastBlock(new) * blocksz \in Int
    BY <1>1, <1>2
  <2>5. q * blocksz <= LastBlock(new) * blocksz
    <3>1. CASE q = LastBlock(new)
      BY <1>3, <3>1
    <3>2. CASE q < LastBlock(new)
      <4>1. q * blocksz + blocksz <= LastBlock(new) * blocksz
        BY <1>2, <3>2, TimesGrows
      <4> QED BY <1>1, <1>3, <2>4, <4>1
    <3> QED BY <1>2, <3>1, <3>2
  <2> QED BY <1>1, <1>3, <2>3, <2>4, <2>5
<1>5. CASE ~(new < size)
  BY <1>3, <1>5
<1> QED BY <1>4, <1>5

-----------------------------------------------------------------------------
(***************************************************************************)
(* The invariant.                                                          *)
(***************************************************************************)
InodeSet == [size : Nat, blocks : [0 .. INODEBLOCKS - 1 -> Int]]
FileSet == [state : {"OPEN", "CLOSED"}, fileptr : Nat, in : InodeSet]
MaxBytes == blocksz * INODEBLOCKS
Bytes == Seq(Value \X Int)

RType ==
    /\ entries \in Seq([name : Name, inode_num : 0 .. ninodes])
    /\ inodes_used = Len(entries) /\ Len(entries) <= DIRECTORY_SIZE
    /\ inodes = [n \in 0 .. ninodes |-> EmptyInode]
    /\ next_open_fd \in Nat

(* A table of open files: the pointer is inside the file, the file has     *)
(* the blocks it needs.                                                    *)
TableType(f) ==
    /\ f \in [Fd -> FileSet]
    /\ \A fd \in Fd : f[fd].in.size < MaxBytes /\ f[fd].fileptr <= f[fd].in.size

HistoryType ==
    /\ written = [fd \in Fd |-> written[fd]]
    /\ \A fd \in Fd : written[fd].bytes \in Bytes
    /\ \A fd \in Fd : fd >= next_open_fd => ~IsOpen(fd) /\ written[fd].bytes = <<>>
    /\ \A fd \in Fd : written[fd].supported => oft[fd].in.size = Len(written[fd].bytes)

(* A process in fs_write at c with the variables l, when the descriptor's  *)
(* entry is e: its copy of the inode differs in blocks the entry does not  *)
(* have yet.                                                               *)
NewEnd(l, e) == e.fileptr + l.n
RunOK(c, l, e, next) ==
    /\ l.fd \in Fd /\ l.fd < next /\ l.n \in Count /\ l.v \in Value /\ l.in \in InodeSet
    /\ l.in.size = e.in.size
    /\ \A i \in 0 .. LastBlock(e.in.size) : l.in.blocks[i] = e.in.blocks[i]
    /\ NewEnd(l, e) < MaxBytes
    /\ l.i \in Nat /\ l.j \in Int
    /\ c \in {"search", "load", "store"} => LastBlock(e.in.size) < l.i /\ FirstData <= l.j
    /\ c \in {"load", "store"} => l.i <= LastBlock(NewEnd(l, e)) /\ l.j \in DataBlocks
    /\ c = "data" => LastBlock(e.fileptr) < l.i /\ l.i <= LastBlock(NewEnd(l, e)) + 1

ProcInv ==
    /\ pc \in [Proc -> {"app", "search", "load", "store", "data"}]
    /\ local = [p \in Proc |-> local[p]]
    /\ disk = [b \in DataBlocks |-> disk[b]]
    /\ \A p, q \in Proc : pc[p] # "app" /\ pc[q] # "app" /\ local[p].fd = local[q].fd => p = q
    /\ \A p \in Proc : pc[p] # "app" => RunOK(pc[p], local[p], oft[local[p].fd], next_open_fd)

(* The blocks bs[0] to bs[top] serve fd: a block that is not in doubt is   *)
(* marked, and its place is the only one.                                  *)
Fits(b, fd, i, mask, doubt, place) ==
    b \in DataBlocks /\ (b \notin doubt => b \in mask /\ place[b] = <<fd, i>>)
BlocksFit(bs, top, fd, mask, doubt, place) ==
    \A i \in 0 .. top : Fits(bs[i], fd, i, mask, doubt, place)

(* The last block the copy of a process knows. *)
Larger(x, y) == IF x > y THEN x ELSE y
Top(c, l, e) == IF c = "data" THEN LastBlock(Larger(NewEnd(l, e), e.in.size)) ELSE l.i - 1

Places == [DataBlocks -> Fd \X Int]
EntryFits(fd, e, mask, doubt, place) ==
    BlocksFit(e.in.blocks, LastBlock(e.in.size), fd, mask, doubt, place)
CopyFits(c, l, e, mask, doubt, place) ==
    BlocksFit(l.in.blocks, Top(c, l, e), l.fd, mask, doubt, place)
PlaceInv(place) ==
    /\ \A fd \in Fd : EntryFits(fd, oft[fd], freemask, doubtful, place)
    /\ \A p \in Proc : pc[p] # "app" =>
          CopyFits(pc[p], local[p], oft[local[p].fd], freemask, doubtful, place)
BlockInv == \E place \in Places : PlaceInv(place)

(* The blocks of entry e of the table hold the bytes bytes. *)
Holds(e, d, bytes) ==
    \A q \in Nat, r \in InBlock :
        Byte(q, r) < Len(bytes) => d[e.in.blocks[q]][r] = bytes[Byte(q, r) + 1]
NoneIn(bs, top, doubt) == \A i \in 0 .. top : bs[i] \notin doubt
Content(e, w, d, doubt) ==
    w.supported /\ NoneIn(e.in.blocks, LastBlock(e.in.size), doubt) => Holds(e, d, w.bytes)
ContentInv ==
    \A fd \in Fd : (\A p \in Proc : pc[p] = "data" => local[p].fd # fd) =>
        Content(oft[fd], written[fd], disk, doubtful)

(* While fs_write stores the data, the blocks it has been to hold what it  *)
(* was given, and the others what they held.                               *)
Done(l, e, q) == LastBlock(e.fileptr) < q /\ q < l.i
HoldsPart(l, e, d, bytes) ==
    \A q \in Nat, r \in InBlock :
        /\ Done(l, e, q) /\ Byte(q, r) < NewEnd(l, e) =>
              d[l.in.blocks[q]][r] = <<l.v, Byte(q, r) - e.fileptr>>
        /\ ~Done(l, e, q) /\ Byte(q, r) < Len(bytes) =>
              d[l.in.blocks[q]][r] = bytes[Byte(q, r) + 1]
Partial(l, e, w, d, doubt) ==
    /\ w.supported
    /\ Supported(e.fileptr, NewEnd(l, e), e.in.size)
    /\ NoneIn(l.in.blocks, Top("data", l, e), doubt)
    => HoldsPart(l, e, d, w.bytes)
PartialInv ==
    \A p \in Proc : pc[p] = "data" =>
        Partial(local[p], oft[local[p].fd], written[local[p].fd], disk, doubtful)

RInv ==
    /\ RType /\ TableType(oft) /\ HistoryType /\ ProcInv
    /\ BlockInv /\ ContentInv /\ PartialInv

(* The fields of an entry, and of the variables of fs_write. *)
LEMMA FileFields ==
    ASSUME NEW st, NEW p, NEW in
    PROVE  File(st, p, in).state = st /\ File(st, p, in).fileptr = p /\ File(st, p, in).in = in
  BY DEF File

LEMMA LocalFields ==
    ASSUME NEW fd, NEW n, NEW v, NEW in, NEW i, NEW j, NEW byte
    PROVE  LET l == Local(fd, n, v, in, i, j, byte)
           IN  /\ l.fd = fd /\ l.n = n /\ l.v = v /\ l.in = in /\ l.i = i /\ l.j = j
               /\ l.byte = byte
  BY DEF Local

LEMMA EmptyInodeType == EmptyInode \in InodeSet
  BY DEF EmptyInode, InodeSet, NoBlock, SB_BLK

LEMMA FirstDataType == FirstData \in Int /\ Nblocks \in Int
<1>1. ninodes \in Nat /\ INODES_PER_BLOCK \in Nat \ {0} /\ Nblocks \in Nat
  BY SizesAssumption
<1>2. NUM_INODE_BLOCKS \in Int
  BY <1>1 DEF NUM_INODE_BLOCKS
<1> QED BY <1>1, <1>2 DEF FirstData, FIRST_INODE_BLOCK

(* The fields of an entry of the table. *)
LEMMA EntryTypes ==
    ASSUME TableType(oft), NEW fd \in Fd
    PROVE  /\ oft[fd].state \in {"OPEN", "CLOSED"} /\ oft[fd].fileptr \in Nat
           /\ oft[fd].in \in InodeSet /\ oft[fd].in.size \in Nat
           /\ oft[fd].fileptr <= oft[fd].in.size /\ oft[fd].in.size < MaxBytes
           /\ oft[fd].in.blocks \in [0 .. INODEBLOCKS - 1 -> Int]
           /\ LastBlock(oft[fd].in.size) \in Int /\ -1 <= LastBlock(oft[fd].in.size)
           /\ LastBlock(oft[fd].in.size) <= INODEBLOCKS - 1
<1>1. /\ oft[fd].state \in {"OPEN", "CLOSED"} /\ oft[fd].fileptr \in Nat
      /\ oft[fd].in \in InodeSet /\ oft[fd].in.size \in Nat
      /\ oft[fd].fileptr <= oft[fd].in.size /\ oft[fd].in.size < MaxBytes
      /\ oft[fd].in.blocks \in [0 .. INODEBLOCKS - 1 -> Int]
  BY DEF TableType, FileSet, InodeSet
<1> QED BY <1>1, LastBlockBounds, LastBlockFits DEF MaxBytes

-----------------------------------------------------------------------------
(***************************************************************************)
(* The steps outside fs_write.                                             *)
(***************************************************************************)
LEMMA RamInit == Init => RInv
<1> SUFFICES ASSUME Init PROVE RInv
  OBVIOUS
<1>1. oft = [fd \in Fd |-> File("CLOSED", 0, EmptyInode)]
  BY DEF Init
<1>2. \A fd \in Fd : oft[fd] = File("CLOSED", 0, EmptyInode)
  BY <1>1
<1>3. \A fd \in Fd : oft[fd].state = "CLOSED" /\ oft[fd].fileptr = 0 /\ oft[fd].in = EmptyInode
                     /\ oft[fd].in.size = 0
  BY <1>2, FileFields, EmptyFile
<1>4. File("CLOSED", 0, EmptyInode) \in FileSet
  BY EmptyInodeType DEF File, FileSet
<1>5. TableType(oft)
  <2>1. 0 < MaxBytes
    BY Sizes DEF MaxBytes
  <2> QED BY <1>1, <1>3, <1>4, <2>1 DEF TableType
<1>6. \A p \in Proc : pc[p] = "app"
  BY DEF Init
<1>7. RType
  BY Sizes DEF Init, RType
<1>8. \A fd \in Fd : written[fd].bytes = <<>>
  BY DEF Init
<1>9. HistoryType
  <2>1. \A fd \in Fd : ~IsOpen(fd)
    BY <1>3 DEF IsOpen
  <2>2. <<>> \in Bytes /\ Len(<<>>) = 0
    BY DEF Bytes
  <2>3. written = [fd \in Fd |-> written[fd]]
    BY DEF Init
  <2> QED BY <1>3, <1>8, <2>1, <2>2, <2>3 DEF HistoryType
<1>10. BlockInv
  <2> DEFINE place == [b \in DataBlocks |-> <<0, 0>>]
  <2>1. place \in Places
    BY Sizes DEF Places, Fd
  <2>2. \A fd \in Fd : EntryFits(fd, oft[fd], freemask, doubtful, place)
    BY <1>3, EmptyFile DEF EntryFits, BlocksFit
  <2> QED BY <1>6, <2>1, <2>2 DEF BlockInv, PlaceInv
<1>11. ContentInv
  <2>1. ASSUME NEW fd \in Fd PROVE Holds(oft[fd], disk, <<>>)
    BY ByteType DEF Holds
  <2> QED BY <1>8, <2>1 DEF ContentInv, Content
<1>12. PartialInv
  BY <1>6 DEF PartialInv
<1>13. ProcInv
  BY <1>6 DEF Init, ProcInv
<1> QED BY <1>5, <1>7, <1>9, <1>10, <1>11, <1>12, <1>13 DEF RInv

(* Another state or another pointer, or a fresh inode. *)
LEMMA TableKept ==
    ASSUME NEW f, TableType(f), NEW fd \in Fd,
           NEW st \in {"OPEN", "CLOSED"}, NEW p \in Nat, NEW in,
           p <= in.size, in = f[fd].in \/ in = EmptyInode
    PROVE  TableType([f EXCEPT ![fd] = File(st, p, in)])
<1> DEFINE g == [f EXCEPT ![fd] = File(st, p, in)]
<1>1. f \in [Fd -> FileSet]
  BY DEF TableType
<1>2. in \in InodeSet /\ in.size < MaxBytes
  <2>1. CASE in = f[fd].in
    BY <1>1, <2>1 DEF TableType, FileSet
  <2>2. CASE in = EmptyInode
    <3>1. 0 < MaxBytes
      BY Sizes DEF MaxBytes
    <3> QED BY <2>2, <3>1, EmptyInodeType, EmptyFile
  <2> QED BY <2>1, <2>2
<1>3. File(st, p, in) \in FileSet
  BY <1>2 DEF File, FileSet
<1>4. g \in [Fd -> FileSet] /\ g[fd] = File(st, p, in) /\ \A x \in Fd : x # fd => g[x] = f[x]
  BY <1>1, <1>3
<1>5. g[fd].state = st /\ g[fd].fileptr = p /\ g[fd].in = in
  BY <1>4, FileFields
<1> HIDE DEF g
<1>6. TableType(g)
  BY <1>2, <1>4, <1>5 DEF TableType
<1> QED BY <1>6 DEF g

(* Nothing that concerns a process in fs_write changes when the entry of   *)
(* another descriptor does.                                                *)
LEMMA EntryChanged ==
    ASSUME RInv, RType', TableType(oft)', HistoryType', NEW fd \in Fd, Unused(fd),
           \A x \in Fd : x # fd => oft'[x] = oft[x],
           \A place \in Places : PlaceInv(place) =>
              EntryFits(fd, oft'[fd], freemask, doubtful, place),
           Content(oft[fd], written[fd], disk, doubtful) =>
              Content(oft'[fd], written[fd], disk, doubtful),
           next_open_fd <= next_open_fd', next_open_fd' \in Nat,
           UNCHANGED <<freemask, disk, run, written, doubtful>>
    PROVE  RInv'
<1>1. RType /\ TableType(oft) /\ ProcInv /\ BlockInv /\ ContentInv /\ PartialInv
  BY DEF RInv
<1>2. pc' = pc /\ local' = local /\ next_open_fd \in Nat
  BY <1>1 DEF run, RType
<1>3. ASSUME NEW p \in Proc, pc[p] # "app"
      PROVE  /\ local[p].fd \in Fd /\ local[p].fd < next_open_fd
             /\ oft'[local[p].fd] = oft[local[p].fd]
             /\ RunOK(pc[p], local[p], oft[local[p].fd], next_open_fd)
  <2>1. RunOK(pc[p], local[p], oft[local[p].fd], next_open_fd)
    BY <1>1, <1>3 DEF ProcInv
  <2>2. local[p].fd # fd
    BY <1>3 DEF Unused
  <2> QED BY <2>1, <2>2 DEF RunOK
<1>4. ProcInv'
  <2>1. ASSUME NEW p \in Proc, pc[p] # "app"
        PROVE  RunOK(pc[p], local[p], oft'[local[p].fd], next_open_fd')
    <3>1. local[p].fd < next_open_fd' /\ local[p].fd \in Fd
      BY <1>2, <1>3, <2>1, Sizes DEF Fd
    <3> QED BY <1>3, <2>1, <3>1 DEF RunOK
  <2> QED BY <1>1, <1>2, <2>1 DEF ProcInv
<1>5. BlockInv'
  <2>1. PICK place \in Places : PlaceInv(place)
    BY <1>1 DEF BlockInv
  <2>2. \A x \in Fd : EntryFits(x, oft'[x], freemask, doubtful, place)
    BY <2>1 DEF PlaceInv
  <2>3. \A p \in Proc : pc[p] # "app" =>
           CopyFits(pc[p], local[p], oft'[local[p].fd], freemask, doubtful, place)
    BY <1>3, <2>1 DEF PlaceInv
  <2>4. PlaceInv(place)'
    BY <1>2, <2>2, <2>3 DEF PlaceInv
  <2> QED BY <2>1, <2>4 DEF BlockInv
<1>6. ContentInv'
  <2>1. \A x \in Fd : (\A p \in Proc : pc[p] = "data" => local[p].fd # x) =>
           Content(oft'[x], written[x], disk, doubtful)
    BY <1>1 DEF ContentInv
  <2> QED BY <1>2, <2>1 DEF ContentInv
<1>7. PartialInv'
  BY <1>1, <1>2, <1>3 DEF PartialInv
<1> QED BY <1>4, <1>5, <1>6, <1>7 DEF RInv

(* The bytes of a file after a write to it. *)
After(old, ptr, n, v) ==
    LET size == IF ptr + n > Len(old) THEN ptr + n ELSE Len(old)
    IN  [p \in 1 .. size |-> IF p \in ptr + 1 .. ptr + n THEN <<v, p - ptr - 1>> ELSE old[p]]

(* What After makes of the old bytes. *)
IsAfter(bytes, old, ptr, n, v) ==
    LET size == IF ptr + n > Len(old) THEN ptr + n ELSE Len(old)
    IN  /\ Len(bytes) = size
        /\ \A p \in 1 .. size : bytes[p] = IF p \in ptr + 1 .. ptr + n THEN <<v, p - ptr - 1>> ELSE old[p]

LEMMA AfterIs ==
    ASSUME NEW old \in Bytes, NEW ptr \in Nat, ptr <= Len(old), NEW n \in Nat \ {0}, NEW v \in Value
    PROVE  After(old, ptr, n, v) \in Bytes /\ IsAfter(After(old, ptr, n, v), old, ptr, n, v)
<1> DEFINE size == IF ptr + n > Len(old) THEN ptr + n ELSE Len(old)
           new == After(old, ptr, n, v)
<1>1. Len(old) \in Nat /\ size \in Nat /\ old \in [1 .. Len(old) -> Value \X Int]
  BY DEF Bytes
<1>2. new = [p \in 1 .. size |-> IF p \in ptr + 1 .. ptr + n THEN <<v, p - ptr - 1>> ELSE old[p]]
  BY DEF After
<1>3. ASSUME NEW p \in 1 .. size
      PROVE  (IF p \in ptr + 1 .. ptr + n THEN <<v, p - ptr - 1>> ELSE old[p]) \in Value \X Int
  <2>1. CASE p \in ptr + 1 .. ptr + n
    BY <2>1
  <2>2. CASE p \notin ptr + 1 .. ptr + n
    <3>1. p \in 1 .. Len(old)
      BY <1>1, <2>2
    <3> QED BY <1>1, <2>2, <3>1
  <2> QED BY <2>1, <2>2
<1> HIDE DEF size, new
<1>4. new \in [1 .. size -> Value \X Int]
  BY <1>2, <1>3
<1>5. new \in Bytes /\ Len(new) = size
  BY <1>1, <1>4, SeqDef, LenProperties DEF Bytes
<1>6. \A p \in 1 .. size : new[p] = IF p \in ptr + 1 .. ptr + n THEN <<v, p - ptr - 1>> ELSE old[p]
  BY ONLY <1>2
<1>7. IsAfter(new, old, ptr, n, v)
  BY ONLY <1>5, <1>6, Zenon DEF IsAfter, size
<1> QED BY ONLY <1>5, <1>7 DEF new

(* fs_close, fs_seek and fs_read: another state or another pointer. *)
LEMMA EntryMoved ==
    ASSUME RInv, NEW fd \in Fd, IsOpen(fd), Unused(fd), NEW st \in {"OPEN", "CLOSED"},
           NEW p \in Nat, p <= oft[fd].in.size,
           oft' = [oft EXCEPT ![fd] = File(st, p, oft[fd].in)],
           UNCHANGED <<dir, freemask, disk, run, written, doubtful>>
    PROVE  RInv'
<1> DEFINE g == [oft EXCEPT ![fd] = File(st, p, oft[fd].in)]
<1>1. TableType(oft) /\ RType /\ HistoryType
  BY DEF RInv
<1>2. oft \in [Fd -> FileSet] /\ next_open_fd \in Nat
  BY <1>1 DEF TableType, RType
<1>3. TableType(g)
  BY <1>1, TableKept
<1>4. g[fd] = File(st, p, oft[fd].in) /\ \A x \in Fd : x # fd => g[x] = oft[x]
  BY <1>2
<1>5. oft' = g
  OBVIOUS
<1> HIDE DEF g
<1>6. g[fd].in = oft[fd].in
  BY <1>4, FileFields
<1>7. TableType(oft)'
  BY <1>3, <1>5
<1>8. RType' /\ next_open_fd' = next_open_fd
  BY <1>1 DEF RType, dir
<1>9. HistoryType'
  <2>1. ~(fd >= next_open_fd)
    BY <1>1 DEF HistoryType
  <2>2. \A x \in Fd : x >= next_open_fd => g[x] = oft[x]
    BY <1>4, <2>1
  <2>3. \A x \in Fd : g[x].in = oft[x].in
    BY <1>4, <1>6
  <2> QED BY <1>1, <1>5, <1>8, <2>2, <2>3 DEF HistoryType, IsOpen
<1>10. \A place \in Places : PlaceInv(place) =>
          EntryFits(fd, oft'[fd], freemask, doubtful, place)
  BY <1>5, <1>6 DEF PlaceInv, EntryFits
<1>11. Content(oft[fd], written[fd], disk, doubtful) =>
          Content(oft'[fd], written[fd], disk, doubtful)
  BY <1>5, <1>6 DEF Content, Holds
<1>12. next_open_fd <= next_open_fd' /\ next_open_fd' \in Nat
  BY <1>2, <1>8
<1>13. \A x \in Fd : x # fd => oft'[x] = oft[x]
  BY <1>4, <1>5
<1> QED BY <1>7, <1>8, <1>9, <1>10, <1>11, <1>12, <1>13, EntryChanged

LEMMA CloseStep ==
    ASSUME RInv, NEW fd \in Fd, FsClose(fd)
    PROVE  RInv'
<1>1. oft' = [oft EXCEPT ![fd] = File("CLOSED", oft[fd].fileptr, oft[fd].in)]
  BY DEF FsClose
<1>2. oft[fd].fileptr \in Nat /\ oft[fd].fileptr <= oft[fd].in.size
  BY EntryTypes DEF RInv
<1> QED BY <1>1, <1>2, EntryMoved DEF FsClose

LEMMA SeekStep ==
    ASSUME RInv, NEW fd \in Fd, NEW offset \in Int, FsSeek(fd, offset)
    PROVE  RInv'
<1> DEFINE p == oft[fd].fileptr + offset
<1>1. oft[fd].fileptr \in Nat /\ oft[fd].in.size \in Nat /\ oft[fd].state \in {"OPEN", "CLOSED"}
  BY EntryTypes DEF RInv
<1>2. oft' = [oft EXCEPT ![fd] = File(oft[fd].state, p, oft[fd].in)]
  BY DEF FsSeek, Moved
<1>3. p \in Nat /\ p <= oft[fd].in.size
  BY <1>1 DEF FsSeek
<1> HIDE DEF p
<1> QED BY <1>1, <1>2, <1>3, EntryMoved DEF FsSeek

LEMMA ReadStep ==
    ASSUME RInv, NEW fd \in Fd, NEW n \in Count, FsRead(fd, n)
    PROVE  RInv'
<1> DEFINE p == ReadEnd(fd, n)
<1>1. oft[fd].fileptr \in Nat /\ oft[fd].in.size \in Nat /\ oft[fd].state \in {"OPEN", "CLOSED"}
  BY EntryTypes DEF RInv
<1>2. oft' = [oft EXCEPT ![fd] = File(oft[fd].state, p, oft[fd].in)]
  BY DEF FsRead, Moved
<1>3. p \in Nat /\ p <= oft[fd].in.size
  BY <1>1, Sizes DEF ReadEnd
<1> HIDE DEF p
<1> QED BY <1>1, <1>2, <1>3, EntryMoved DEF FsRead

(* The end of fs_open: the next descriptor gets an empty file. *)
LEMMA TakeFdStep ==
    ASSUME RInv, RType', NEW flags \in {"O_RDONLY", "O_WRONLY", "O_RDWR"},
           TakeFd(EmptyInode, flags), UNCHANGED <<freemask, disk, run, written, doubtful>>
    PROVE  RInv'
<1>1. TableType(oft) /\ RType /\ HistoryType /\ ProcInv
  BY DEF RInv
<1>2. oft \in [Fd -> FileSet]
  BY <1>1 DEF TableType
<1>3. next_open_fd \in Nat /\ EmptyInode.size = 0
  BY <1>1, EmptyFile DEF RType
<1>4. ASSUME NEW fd \in Fd, fd >= next_open_fd PROVE Unused(fd)
  <2>1. \A p \in Proc : pc[p] # "app" => local[p].fd \in Fd /\ local[p].fd < next_open_fd
    BY <1>1 DEF ProcInv, RunOK
  <2>2. \A x \in Fd : x \in Int
    BY Sizes DEF Fd
  <2> QED BY <1>3, <1>4, <2>1, <2>2 DEF Unused
<1>5. CASE oft' = oft
  <2>1. next_open_fd' \in Nat /\ next_open_fd <= next_open_fd'
    BY <1>3 DEF TakeFd
  <2>2. \A x \in Fd : x >= next_open_fd' => x >= next_open_fd
    BY <1>3, <2>1, Sizes DEF Fd
  <2>3. HistoryType'
    BY <1>1, <1>5, <2>2 DEF HistoryType, IsOpen
  <2>4. TableType(oft)'
    BY <1>1, <1>5 DEF TableType
  <2>5. ProcInv'
    <3>1. ASSUME NEW p \in Proc, pc[p] # "app"
          PROVE  RunOK(pc[p], local[p], oft[local[p].fd], next_open_fd')
      <4>1. RunOK(pc[p], local[p], oft[local[p].fd], next_open_fd)
        BY <1>1, <3>1 DEF ProcInv
      <4>2. local[p].fd < next_open_fd'
        BY <1>3, <2>1, <4>1, Sizes DEF RunOK, Fd
      <4> QED BY <4>1, <4>2 DEF RunOK
    <3> QED BY <1>1, <1>5, <3>1 DEF ProcInv, run
  <2>6. BlockInv' /\ ContentInv' /\ PartialInv'
    BY <1>5 DEF RInv, BlockInv, PlaceInv, ContentInv, PartialInv, run
  <2> QED BY <2>3, <2>4, <2>5, <2>6 DEF RInv
<1>6. CASE /\ next_open_fd < NUM_FD /\ next_open_fd' = next_open_fd + 1
           /\ oft' = [oft EXCEPT ![next_open_fd] = File("OPEN", 0, EmptyInode)]
  <2> DEFINE fd == next_open_fd
             g == [oft EXCEPT ![fd] = File("OPEN", 0, EmptyInode)]
  <2>1. fd \in Fd
    BY <1>3, <1>6, Sizes DEF Fd
  <2>2. Unused(fd) /\ fd >= next_open_fd
    BY <1>3, <1>4, <2>1
  <2> HIDE DEF fd
  <2>3. TableType(g)
    BY <1>1, <1>3, <2>1, TableKept
  <2>4. oft' = g
    BY <1>6 DEF fd
  <2>5. g[fd] = File("OPEN", 0, EmptyInode) /\ \A x \in Fd : x # fd => g[x] = oft[x]
    BY <1>2, <2>1
  <2> HIDE DEF g
  <2>6. TableType(oft)'
    BY <2>3, <2>4 DEF TableType
  <2>7. g[fd].in.size = 0 /\ written[fd].bytes = <<>>
    BY <1>1, <1>3, <2>1, <2>2, <2>5, FileFields DEF HistoryType
  <2>8. HistoryType'
    <3>1. \A x \in Fd : x >= next_open_fd' => x >= next_open_fd /\ x # fd
      BY <1>3, <1>6, Sizes DEF Fd, fd
    <3>2. \A x \in Fd : written[x].supported => g[x].in.size = Len(written[x].bytes)
      BY <1>1, <2>5, <2>7 DEF HistoryType
    <3> QED BY <1>1, <2>4, <2>5, <3>1, <3>2 DEF HistoryType, IsOpen
  <2>9. \A place \in Places : PlaceInv(place) =>
           EntryFits(fd, oft'[fd], freemask, doubtful, place)
    BY <2>4, <2>7, EmptyFile DEF EntryFits, BlocksFit
  <2>10. Content(oft'[fd], written[fd], disk, doubtful)
    <3>1. Holds(g[fd], disk, <<>>)
      BY ByteType DEF Holds
    <3> QED BY <2>4, <2>7, <3>1 DEF Content
  <2>11. \A x \in Fd : x # fd => oft'[x] = oft[x]
    BY <2>4, <2>5
  <2>12. next_open_fd <= next_open_fd' /\ next_open_fd' \in Nat
    BY <1>3, <1>6
  <2> QED BY <2>1, <2>2, <2>6, <2>8, <2>9, <2>10, <2>11, <2>12, EntryChanged
<1>7. Opened(EmptyInode, flags) = File("OPEN", 0, EmptyInode)
  BY <1>3 DEF Opened
<1>8. ~(next_open_fd >= NUM_FD) => next_open_fd < NUM_FD
  BY <1>3, Sizes
<1> QED BY <1>5, <1>6, <1>7, <1>8 DEF TakeFd

LEMMA CreateStep ==
    ASSUME RInv, NEW name \in Name, FsCreate(name)
    PROVE  RInv'
<1>1. RType
  BY DEF RInv
<1>2. /\ entries \in Seq([name : Name, inode_num : 0 .. ninodes])
      /\ Len(entries) \in Nat /\ inodes_used = Len(entries)
      /\ Len(entries) < DIRECTORY_SIZE
      /\ inodes = [k \in 0 .. ninodes |-> EmptyInode] /\ next_open_fd \in Nat
  BY <1>1 DEF RType, FsCreate
<1>3. inodes_used \in 0 .. ninodes
  BY <1>2, Sizes
<1>4. [name |-> name, inode_num |-> inodes_used] \in [name : Name, inode_num : 0 .. ninodes]
  BY <1>3
<1> DEFINE rec == [name |-> name, inode_num |-> inodes_used]
           E == [name : Name, inode_num : 0 .. ninodes]
<1>5. entries' = Append(entries, rec) /\ inodes_used' = inodes_used + 1
  BY DEF FsCreate
<1>6. rec \in E /\ entries \in Seq(E)
  BY <1>2, <1>4
<1> HIDE DEF rec, E
<1>7. entries' \in Seq(E) /\ Len(entries') = Len(entries) + 1
  BY <1>5, <1>6
<1>8. inodes' = [k \in 0 .. ninodes |-> EmptyInode]
  BY <1>2 DEF FsCreate
<1>9. next_open_fd' \in Nat
  BY <1>2 DEF FsCreate, TakeFd
<1>10. inodes_used' = Len(entries') /\ Len(entries') <= DIRECTORY_SIZE
  BY <1>2, <1>5, <1>7, Sizes
<1>11. RType'
  BY <1>7, <1>8, <1>9, <1>10 DEF RType, E
<1> QED BY <1>11, TakeFdStep DEF FsCreate

LEMMA OpenStep ==
    ASSUME RInv, NEW name \in Name, NEW flags \in {"O_RDONLY", "O_WRONLY", "O_RDWR"},
           FsOpen(name, flags)
    PROVE  RInv'
<1>1. RType
  BY DEF RInv
<1>2. PICK i \in Lookup(name) : TakeFd(inodes[entries[i].inode_num], flags)
  BY DEF FsOpen
<1>3. entries[i].inode_num \in 0 .. ninodes
  <2>1. i \in 1 .. Len(entries)
    BY DEF Lookup
  <2> DEFINE E == [name : Name, inode_num : 0 .. ninodes]
  <2>2. entries \in Seq(E)
    BY <1>1 DEF RType
  <2>3. \A e \in E : e.inode_num \in 0 .. ninodes
    OBVIOUS
  <2> HIDE DEF E
  <2>4. entries[i] \in E
    BY <2>1, <2>2
  <2> QED BY <2>3, <2>4
<1>4. inodes[entries[i].inode_num] = EmptyInode
  BY <1>1, <1>3 DEF RType
<1>5. TakeFd(EmptyInode, flags)
  BY <1>2, <1>4
<1>6. next_open_fd' \in Nat
  BY <1>1, <1>5 DEF RType, TakeFd
<1>7. RType'
  BY <1>1, <1>6 DEF RType, FsOpen
<1> QED BY <1>5, <1>7, TakeFdStep DEF FsOpen

-----------------------------------------------------------------------------
(***************************************************************************)
(* The steps of fs_write.                                                  *)
(***************************************************************************)
(* A step that changes the variables of one process only. *)
LEMMA OneMoves ==
    ASSUME RInv, NEW p \in Proc, pc[p] # "data",
           NEW c \in {"app", "search", "load", "store", "data"}, NEW l,
           pc' = [pc EXCEPT ![p] = c], local' = [local EXCEPT ![p] = l],
           UNCHANGED <<dir, freemask, disk, oft, written, doubtful>>,
           c # "app" =>
              /\ RunOK(c, l, oft[l.fd], next_open_fd)
              /\ (pc[p] # "app" /\ l.fd = local[p].fd) \/ Unused(l.fd)
              /\ \A place \in Places : PlaceInv(place) =>
                    CopyFits(c, l, oft[l.fd], freemask, doubtful, place),
           c = "data" => Partial(l, oft[l.fd], written[l.fd], disk, doubtful)
    PROVE  RInv'
<1>1. RType /\ TableType(oft) /\ HistoryType /\ ProcInv /\ BlockInv /\ ContentInv /\ PartialInv
  BY DEF RInv
<1>2. /\ pc'[p] = c /\ local'[p] = l
      /\ \A x \in Proc : x # p => pc'[x] = pc[x] /\ local'[x] = local[x]
      /\ pc' \in [Proc -> {"app", "search", "load", "store", "data"}]
      /\ local' = [x \in Proc |-> local'[x]]
  BY <1>1 DEF ProcInv
<1>3. RType' /\ TableType(oft)' /\ HistoryType' /\ next_open_fd' = next_open_fd
  BY <1>1 DEF RType, TableType, HistoryType, IsOpen, dir
<1>4. ProcInv'
  <2>1. \A x \in Proc : x # p /\ c # "app" /\ pc[x] # "app" => local[x].fd # l.fd
    BY <1>1 DEF ProcInv, Unused
  <2>2. \A x, y \in Proc : pc'[x] # "app" /\ pc'[y] # "app" /\ local'[x].fd = local'[y].fd => x = y
    BY <1>1, <1>2, <2>1 DEF ProcInv
  <2>3. \A x \in Proc : pc'[x] # "app" =>
           RunOK(pc'[x], local'[x], oft[local'[x].fd], next_open_fd)
    BY <1>1, <1>2 DEF ProcInv
  <2> QED BY <1>1, <1>2, <1>3, <2>2, <2>3 DEF ProcInv
<1>5. BlockInv'
  <2>1. PICK place \in Places : PlaceInv(place)
    BY <1>1 DEF BlockInv
  <2>2. \A x \in Proc : pc'[x] # "app" =>
           CopyFits(pc'[x], local'[x], oft[local'[x].fd], freemask, doubtful, place)
    BY <1>2, <2>1 DEF PlaceInv
  <2>3. PlaceInv(place)'
    BY <2>1, <2>2 DEF PlaceInv
  <2> QED BY <2>1, <2>3 DEF BlockInv
<1>6. ContentInv'
  <2> SUFFICES ASSUME NEW fd \in Fd, \A x \in Proc : pc'[x] = "data" => local'[x].fd # fd
               PROVE  Content(oft[fd], written[fd], disk, doubtful)
    BY DEF ContentInv
  <2>1. \A x \in Proc : pc[x] = "data" => local[x].fd # fd
    BY <1>2
  <2> QED BY <1>1, <2>1 DEF ContentInv
<1>7. PartialInv'
  <2>1. \A x \in Proc : pc'[x] = "data" =>
           Partial(local'[x], oft[local'[x].fd], written[local'[x].fd], disk, doubtful)
    BY <1>1, <1>2 DEF PartialInv
  <2> QED BY <2>1 DEF PartialInv
<1> QED BY <1>3, <1>4, <1>5, <1>6, <1>7 DEF RInv

(* What is known of a process in fs_write. *)
LEMMA Running ==
    ASSUME RInv, NEW p \in Proc, pc[p] # "app"
    PROVE  LET l == local[p]
               e == oft[l.fd]
           IN  /\ RunOK(pc[p], l, e, next_open_fd) /\ l.fd \in Fd
               /\ e.fileptr \in Nat /\ e.in.size \in Nat /\ e.fileptr <= e.in.size
               /\ e.in.size < MaxBytes /\ NewEnd(l, e) \in Nat /\ NewEnd(l, e) < MaxBytes
               /\ l.n \in Nat \ {0} /\ NewEnd(l, e) = NewSize(l)
               /\ LastBlock(e.in.size) \in Int /\ -1 <= LastBlock(e.in.size)
               /\ LastBlock(e.fileptr) \in Int /\ -1 <= LastBlock(e.fileptr)
               /\ LastBlock(NewEnd(l, e)) \in Int /\ -1 <= LastBlock(NewEnd(l, e))
               /\ LastBlock(NewEnd(l, e)) <= INODEBLOCKS - 1
               /\ LastBlock(e.fileptr) <= LastBlock(NewEnd(l, e))
<1> DEFINE l == local[p]
           e == oft[l.fd]
<1>1. RunOK(pc[p], l, e, next_open_fd) /\ l.fd \in Fd
  BY DEF RInv, ProcInv, RunOK
<1>2. e.fileptr \in Nat /\ e.in.size \in Nat /\ e.fileptr <= e.in.size /\ e.in.size < MaxBytes
  BY <1>1, EntryTypes DEF RInv
<1>3. l.n \in Nat \ {0} /\ NewEnd(l, e) < MaxBytes /\ NewEnd(l, e) = NewSize(l)
      /\ NewEnd(l, e) = e.fileptr + l.n
  BY <1>1, Sizes DEF RunOK, NewEnd, NewSize
<1> HIDE DEF l, e
<1>4. NewEnd(l, e) \in Nat /\ e.fileptr <= NewEnd(l, e)
  BY <1>2, <1>3
<1>5. /\ LastBlock(e.in.size) \in Int /\ -1 <= LastBlock(e.in.size)
      /\ LastBlock(e.fileptr) \in Int /\ -1 <= LastBlock(e.fileptr)
      /\ LastBlock(NewEnd(l, e)) \in Int /\ -1 <= LastBlock(NewEnd(l, e))
      /\ LastBlock(NewEnd(l, e)) <= INODEBLOCKS - 1
      /\ LastBlock(e.fileptr) <= LastBlock(NewEnd(l, e))
  BY <1>2, <1>3, <1>4, LastBlockBounds, LastBlockFits, LastBlockGrows DEF MaxBytes
<1> QED BY <1>1, <1>2, <1>3, <1>4, <1>5 DEF l, e

LEMMA FsWriteStep ==
    ASSUME RInv, NEW p \in Proc, NEW fd \in Fd, NEW n \in Count, NEW v \in Value,
           FsWrite(p, fd, n, v)
    PROVE  RInv'
<1> DEFINE e == oft[fd]
           in == oft[fd].in
           l == Local(fd, n, v, in, LastBlock(in.size) + 1, FirstData, {})
<1>1. /\ e.fileptr \in Nat /\ in \in InodeSet /\ in.size \in Nat
      /\ LastBlock(in.size) \in Int /\ -1 <= LastBlock(in.size)
  BY EntryTypes DEF RInv
<1>2. l.fd = fd /\ l.n = n /\ l.v = v /\ l.in = in /\ l.i = LastBlock(in.size) + 1 /\ l.j = FirstData
  BY LocalFields
<1>3. /\ pc[p] = "app" /\ IsOpen(fd) /\ Unused(fd) /\ e.fileptr + n < MaxBytes
      /\ pc' = [pc EXCEPT ![p] = "search"] /\ local' = [local EXCEPT ![p] = l]
      /\ UNCHANGED <<dir, freemask, disk, oft, written, doubtful>>
  BY DEF FsWrite, At, Keep, GoTo, MaxBytes
<1> HIDE DEF l
<1>4. fd < next_open_fd
  <2>1. ~(fd >= next_open_fd)
    BY <1>3 DEF RInv, HistoryType
  <2> QED BY <2>1, Sizes DEF RInv, RType, Fd
<1>5. l.i \in Nat /\ LastBlock(in.size) < l.i /\ l.j \in Int /\ FirstData <= l.j
  BY <1>1, <1>2, FirstDataType
<1>6. RunOK("search", l, e, next_open_fd)
  BY <1>1, <1>2, <1>3, <1>4, <1>5 DEF RunOK, NewEnd
<1>7. Top("search", l, e) = LastBlock(in.size)
  BY <1>1, <1>2 DEF Top
<1>8. \A place \in Places : PlaceInv(place) =>
         CopyFits("search", l, e, freemask, doubtful, place)
  BY <1>2, <1>7 DEF PlaceInv, CopyFits, EntryFits
<1> QED BY <1>2, <1>3, <1>6, <1>8, OneMoves

LEMMA LookStep ==
    ASSUME RInv, NEW p \in Proc, Look(p)
    PROVE  RInv'
<1> DEFINE l == local[p]
           e == oft[l.fd]
           m == Local(l.fd, l.n, l.v, l.in, l.i, l.j + 1, {})
<1>1. pc[p] = "search" /\ Needs(l) /\ l.j < Nblocks
      /\ UNCHANGED <<dir, freemask, disk, oft, written, doubtful>>
  BY DEF Look, At
<1>2. RunOK("search", l, e, next_open_fd) /\ NewEnd(l, e) = NewSize(l)
  BY <1>1, Running
<1>3. pc = [pc EXCEPT ![p] = pc[p]] /\ local = [local EXCEPT ![p] = local[p]]
  BY DEF RInv, ProcInv
<1>4. l.j \in Int /\ FirstData <= l.j /\ l.i <= LastBlock(NewEnd(l, e))
  BY <1>1, <1>2 DEF RunOK, Needs
<1>5. CASE l.j \in freemask
  <2>1. local' = [local EXCEPT ![p] = m] /\ pc' = [pc EXCEPT ![p] = "search"]
    BY <1>1, <1>3, <1>5 DEF Look, Keep
  <2>2. m.fd = l.fd /\ m.n = l.n /\ m.v = l.v /\ m.in = l.in /\ m.i = l.i /\ m.j = l.j + 1
    BY LocalFields
  <2>3. m.j \in Int /\ FirstData <= m.j
    BY <1>4, <2>2, FirstDataType
  <2> HIDE DEF m
  <2>4. RunOK("search", m, e, next_open_fd)
    BY <1>2, <2>2, <2>3 DEF RunOK, NewEnd
  <2>5. \A place \in Places : PlaceInv(place) =>
           CopyFits("search", m, e, freemask, doubtful, place)
    BY <1>1, <2>2 DEF PlaceInv, CopyFits, Top
  <2> QED BY <1>1, <2>1, <2>2, <2>4, <2>5, OneMoves
<1>6. CASE l.j \notin freemask
  <2>1. local' = [local EXCEPT ![p] = l] /\ pc' = [pc EXCEPT ![p] = "load"]
    BY <1>3, <1>6 DEF Look, GoTo
  <2>2. l.j \in DataBlocks
    BY <1>1, <1>4, FirstDataType DEF DataBlocks
  <2>3. RunOK("load", l, e, next_open_fd)
    BY <1>2, <1>4, <2>2 DEF RunOK
  <2>4. \A place \in Places : PlaceInv(place) =>
           CopyFits("load", l, e, freemask, doubtful, place)
    BY <1>1 DEF PlaceInv, CopyFits, Top
  <2> QED BY <1>1, <2>1, <2>3, <2>4, OneMoves
<1> QED BY <1>5, <1>6

LEMMA FullStep ==
    ASSUME RInv, NEW p \in Proc, Full(p)
    PROVE  RInv'
<1>1. /\ pc[p] = "search"
      /\ pc' = [pc EXCEPT ![p] = "app"] /\ local' = [local EXCEPT ![p] = NoLocal]
      /\ UNCHANGED <<dir, freemask, disk, oft, written, doubtful>>
  BY DEF Full, At, Keep, GoTo
<1> QED BY <1>1, OneMoves

LEMMA LoadStep ==
    ASSUME RInv, NEW p \in Proc, Load(p)
    PROVE  RInv'
<1> DEFINE l == local[p]
           e == oft[l.fd]
           m == Local(l.fd, l.n, l.v, l.in, l.i, l.j, freemask \cap ByteOf(l.j))
<1>1. /\ pc[p] = "load"
      /\ pc' = [pc EXCEPT ![p] = "store"] /\ local' = [local EXCEPT ![p] = m]
      /\ UNCHANGED <<dir, freemask, disk, oft, written, doubtful>>
  BY DEF Load, At, Keep, GoTo
<1>2. RunOK("load", l, e, next_open_fd)
  BY <1>1, Running
<1>3. m.fd = l.fd /\ m.n = l.n /\ m.v = l.v /\ m.in = l.in /\ m.i = l.i /\ m.j = l.j
  BY LocalFields
<1> HIDE DEF m
<1>4. RunOK("store", m, e, next_open_fd)
  BY <1>2, <1>3 DEF RunOK, NewEnd
<1>5. \A place \in Places : PlaceInv(place) =>
         CopyFits("store", m, e, freemask, doubtful, place)
  BY <1>1, <1>3 DEF PlaceInv, CopyFits, Top
<1> QED BY <1>1, <1>3, <1>4, <1>5, OneMoves

(* The data come next: the copy has the blocks of the file as it will be,  *)
(* and none has been written to.                                           *)
LEMMA FoundStep ==
    ASSUME RInv, NEW p \in Proc, Found(p)
    PROVE  RInv'
<1> DEFINE l == local[p]
           e == oft[l.fd]
           w == written[l.fd]
           m == Local(l.fd, l.n, l.v, l.in, LastBlock(e.fileptr) + 1, 0, {})
           size == Larger(NewEnd(l, e), e.in.size)
<1>1. /\ pc[p] = "search" /\ ~Needs(l)
      /\ pc' = [pc EXCEPT ![p] = "data"] /\ local' = [local EXCEPT ![p] = m]
      /\ UNCHANGED <<dir, freemask, disk, oft, written, doubtful>>
  BY DEF Found, At, Keep, GoTo
<1>2. /\ RunOK("search", l, e, next_open_fd) /\ NewEnd(l, e) = NewSize(l) /\ l.fd \in Fd
      /\ e.fileptr \in Nat /\ e.in.size \in Nat /\ NewEnd(l, e) \in Nat
      /\ LastBlock(e.fileptr) \in Int /\ -1 <= LastBlock(e.fileptr)
      /\ LastBlock(NewEnd(l, e)) \in Int
      /\ LastBlock(e.fileptr) <= LastBlock(NewEnd(l, e)) /\ LastBlock(e.in.size) \in Int
  BY <1>1, Running
<1>3. /\ m.fd = l.fd /\ m.n = l.n /\ m.v = l.v /\ m.in = l.in
      /\ m.i = LastBlock(e.fileptr) + 1 /\ m.j = 0
  BY LocalFields
<1> HIDE DEF m
<1>4. RunOK("data", m, e, next_open_fd)
  <2>1. m.i \in Nat /\ m.j \in Int /\ LastBlock(e.fileptr) < m.i /\ m.i <= LastBlock(NewEnd(l, e)) + 1
    BY <1>2, <1>3
  <2>2. NewEnd(m, e) = NewEnd(l, e)
    BY <1>3 DEF NewEnd
  <2> QED BY <1>2, <1>3, <2>1, <2>2 DEF RunOK
<1>5. Top("data", m, e) = LastBlock(size)
  BY <1>3 DEF Top, NewEnd
<1>6. LastBlock(size) \in Int /\ LastBlock(size) <= l.i - 1 /\ l.i \in Nat
      /\ LastBlock(e.in.size) <= LastBlock(size)
  <2>1. l.i \in Nat /\ LastBlock(e.in.size) < l.i /\ LastBlock(NewEnd(l, e)) < l.i
    BY <1>1, <1>2 DEF RunOK, Needs
  <2>2. LastBlock(size) \in Int /\ LastBlock(size) <= l.i - 1
    BY <1>2, <2>1 DEF Larger
  <2>3. size \in Nat /\ e.in.size <= size
    BY <1>2 DEF Larger
  <2>4. LastBlock(e.in.size) <= LastBlock(size)
    BY <1>2, <2>3, LastBlockGrows
  <2> QED BY <2>1, <2>2, <2>4
<1> HIDE DEF size
<1>7. ASSUME NEW place \in Places, PlaceInv(place)
      PROVE  CopyFits("data", m, e, freemask, doubtful, place)
  <2>1. BlocksFit(l.in.blocks, l.i - 1, l.fd, freemask, doubtful, place)
    BY <1>1, <1>7 DEF PlaceInv, CopyFits, Top
  <2>2. \A i \in 0 .. LastBlock(size) : i \in 0 .. l.i - 1
    BY <1>6
  <2>3. BlocksFit(l.in.blocks, LastBlock(size), l.fd, freemask, doubtful, place)
    BY <2>1, <2>2 DEF BlocksFit
  <2> QED BY <1>3, <1>5, <2>3 DEF CopyFits
<1>8. Partial(m, e, w, disk, doubtful)
  <2> SUFFICES ASSUME w.supported, NoneIn(m.in.blocks, Top("data", m, e), doubtful)
               PROVE  HoldsPart(m, e, disk, w.bytes)
    BY DEF Partial
  <2>1. \A x \in Proc : pc[x] = "data" => local[x].fd # l.fd
    BY <1>1 DEF RInv, ProcInv
  <2>2. Content(e, w, disk, doubtful)
    BY <1>2, <2>1 DEF RInv, ContentInv
  <2>3. \A i \in 0 .. LastBlock(e.in.size) : i \in 0 .. LastBlock(size)
                                             /\ l.in.blocks[i] = e.in.blocks[i]
    BY <1>2, <1>6 DEF RunOK
  <2>4. NoneIn(e.in.blocks, LastBlock(e.in.size), doubtful)
    BY <1>3, <1>5, <2>3 DEF NoneIn
  <2>5. Holds(e, disk, w.bytes)
    BY <2>2, <2>4 DEF Content
  <2>6. e.in.size = Len(w.bytes)
    BY <1>2 DEF RInv, HistoryType
  <2>7. \A q \in Nat : ~Done(m, e, q)
    BY <1>2, <1>3 DEF Done
  <2>8. ASSUME NEW q \in Nat, NEW r \in InBlock, Byte(q, r) < Len(w.bytes)
        PROVE  disk[m.in.blocks[q]][r] = w.bytes[Byte(q, r) + 1]
    <3>1. q \in 0 .. LastBlock(e.in.size)
      BY <1>2, <2>6, <2>8, BlockReached
    <3> QED BY <1>3, <2>3, <2>5, <2>8, <3>1 DEF Holds
  <2> QED BY <2>7, <2>8 DEF HoldsPart
<1> QED BY <1>1, <1>3, <1>4, <1>7, <1>8, OneMoves

(* A doubt more leaves less to be shown. *)
LEMMA MoreDoubt ==
    ASSUME NEW doubt, NEW more, doubt \subseteq more
    PROVE  /\ \A e, w, d : Content(e, w, d, doubt) => Content(e, w, d, more)
           /\ \A l, e, w, d : Partial(l, e, w, d, doubt) => Partial(l, e, w, d, more)
<1>1. \A bs, top : NoneIn(bs, top, more) => NoneIn(bs, top, doubt)
  BY DEF NoneIn
<1> QED BY <1>1, Zenon DEF Content, Partial

(* A store into the bitmap puts those blocks in doubt whose bits it takes  *)
(* back, and the block it marks if it was marked already.                  *)
MaskStored(mask, doubt, place, byte, j, fd, i, mask2, doubt2, place2) ==
    /\ j \in DataBlocks /\ place \in Places /\ fd \in Fd /\ i \in Int
    /\ mask2 = (mask \ ByteOf(j)) \cup byte \cup {j}
    /\ doubt2 = doubt \cup (mask \cap ({j} \cup (ByteOf(j) \ byte)))
    /\ place2 = [place EXCEPT ![j] = <<fd, i>>]
AllStillFit(mask, doubt, place, mask2, doubt2, place2) ==
    \A b, x, k : Fits(b, x, k, mask, doubt, place) => Fits(b, x, k, mask2, doubt2, place2)

LEMMA FitsKept ==
    ASSUME NEW mask, NEW doubt, NEW place, NEW byte, NEW j, NEW fd, NEW i,
           NEW mask2, NEW doubt2, NEW place2,
           MaskStored(mask, doubt, place, byte, j, fd, i, mask2, doubt2, place2)
    PROVE  /\ place2 \in Places
           /\ Fits(j, fd, i, mask2, doubt2, place2)
           /\ AllStillFit(mask, doubt, place, mask2, doubt2, place2)
<1>1. place2 \in Places
  BY DEF Places, MaskStored
<1>2. Fits(j, fd, i, mask2, doubt2, place2)
  BY DEF Fits, Places, MaskStored
<1>3. ASSUME NEW b, NEW x, NEW k, Fits(b, x, k, mask, doubt, place)
      PROVE  Fits(b, x, k, mask2, doubt2, place2)
  <2> SUFFICES ASSUME b \notin doubt2 PROVE b \in mask2 /\ place2[b] = <<x, k>>
    BY <1>3 DEF Fits
  <2>1. b \notin doubt /\ (b \in mask => b # j /\ b \notin ByteOf(j) \ byte)
    BY DEF MaskStored
  <2>2. b \in DataBlocks /\ b \in mask /\ place[b] = <<x, k>>
    BY <1>3, <2>1 DEF Fits
  <2>3. b \in mask2
    BY <2>1, <2>2 DEF MaskStored
  <2>4. place2[b] = place[b]
    BY <2>1, <2>2 DEF MaskStored, Places
  <2> QED BY <2>2, <2>3, <2>4
<1> QED BY <1>1, <1>2, <1>3 DEF AllStillFit

LEMMA MarkStep ==
    ASSUME RInv, NEW p \in Proc, Mark(p)
    PROVE  RInv'
<1> DEFINE l == local[p]
           e == oft[l.fd]
           bs == [l.in.blocks EXCEPT ![l.i] = l.j]
           in == [size |-> l.in.size, blocks |-> bs]
           m == Local(l.fd, l.n, l.v, in, l.i + 1, FirstData, {})
<1>1. /\ pc[p] = "store"
      /\ freemask' = (freemask \ ByteOf(l.j)) \cup l.byte \cup {l.j}
      /\ doubtful' = doubtful \cup (freemask \cap ({l.j} \cup (ByteOf(l.j) \ l.byte)))
      /\ pc' = [pc EXCEPT ![p] = "search"] /\ local' = [local EXCEPT ![p] = m]
      /\ UNCHANGED <<dir, disk, oft, written>>
  BY DEF Mark, At, Keep, GoTo, SetMask
<1>2. RType /\ TableType(oft) /\ HistoryType /\ ProcInv /\ BlockInv /\ ContentInv /\ PartialInv
  BY DEF RInv
<1>3. /\ RunOK("store", l, e, next_open_fd) /\ l.fd \in Fd
      /\ LastBlock(e.in.size) \in Int /\ -1 <= LastBlock(e.in.size)
      /\ LastBlock(NewEnd(l, e)) \in Int /\ LastBlock(NewEnd(l, e)) <= INODEBLOCKS - 1
  BY <1>1, Running
<1>4. /\ l.i \in Nat /\ LastBlock(e.in.size) < l.i /\ l.i <= LastBlock(NewEnd(l, e))
      /\ l.j \in DataBlocks /\ l.j \in Int
      /\ l.in.blocks \in [0 .. INODEBLOCKS - 1 -> Int] /\ l.in.size \in Nat
  BY <1>3 DEF RunOK, InodeSet
<1>5. l.i \in 0 .. INODEBLOCKS - 1
  BY <1>3, <1>4, Sizes
<1>6. /\ bs \in [0 .. INODEBLOCKS - 1 -> Int] /\ bs[l.i] = l.j
      /\ \A i \in 0 .. INODEBLOCKS - 1 : i # l.i => bs[i] = l.in.blocks[i]
  BY <1>4, <1>5
<1> HIDE DEF bs
<1>7. in \in InodeSet /\ in.size = l.in.size /\ in.blocks = bs
  BY <1>4, <1>6 DEF InodeSet
<1>8. m.fd = l.fd /\ m.n = l.n /\ m.v = l.v /\ m.in = in /\ m.i = l.i + 1 /\ m.j = FirstData
  BY LocalFields
<1> HIDE DEF m, in
<1>9. /\ pc'[p] = "search" /\ local'[p] = m
      /\ \A x \in Proc : x # p => pc'[x] = pc[x] /\ local'[x] = local[x]
      /\ pc' \in [Proc -> {"app", "search", "load", "store", "data"}]
      /\ local' = [x \in Proc |-> local'[x]]
  BY <1>1, <1>2 DEF ProcInv
<1>10. RType' /\ TableType(oft)' /\ HistoryType' /\ next_open_fd' = next_open_fd /\ oft' = oft
       /\ disk' = disk /\ written' = written
  BY <1>1, <1>2 DEF RType, TableType, HistoryType, IsOpen, dir
<1>11. RunOK("search", m, e, next_open_fd)
  <2>1. m.i \in Nat /\ LastBlock(e.in.size) < m.i /\ m.j \in Int /\ FirstData <= m.j
    BY <1>3, <1>4, <1>8, FirstDataType
  <2>2. \A i \in 0 .. LastBlock(e.in.size) : i \in 0 .. INODEBLOCKS - 1 /\ i # l.i
    BY <1>3, <1>4, Sizes
  <2>3. \A i \in 0 .. LastBlock(e.in.size) : m.in.blocks[i] = e.in.blocks[i]
    BY <1>3, <1>6, <1>7, <1>8, <2>2 DEF RunOK
  <2>4. NewEnd(m, e) = NewEnd(l, e)
    BY <1>8 DEF NewEnd
  <2> QED BY <1>3, <1>7, <1>8, <2>1, <2>3, <2>4 DEF RunOK
<1>12. ProcInv'
  <2>1. \A x, y \in Proc : pc'[x] # "app" /\ pc'[y] # "app" /\ local'[x].fd = local'[y].fd => x = y
    BY <1>1, <1>2, <1>8, <1>9 DEF ProcInv
  <2>2. \A x \in Proc : pc'[x] # "app" =>
           RunOK(pc'[x], local'[x], oft[local'[x].fd], next_open_fd)
    BY <1>2, <1>8, <1>9, <1>11 DEF ProcInv
  <2> QED BY <1>2, <1>9, <1>10, <2>1, <2>2 DEF ProcInv
<1>13. BlockInv'
  <2>1. PICK place \in Places : PlaceInv(place)
    BY <1>2 DEF BlockInv
  <2> DEFINE place2 == [place EXCEPT ![l.j] = <<l.fd, l.i>>]
             mask2 == freemask'
             doubt2 == doubtful'
  <2>2. MaskStored(freemask, doubtful, place, l.byte, l.j, l.fd, l.i, mask2, doubt2, place2)
    BY <1>1, <1>3, <1>4, <2>1 DEF MaskStored
  <2> HIDE DEF place2, mask2, doubt2
  <2>3. /\ place2 \in Places
        /\ Fits(l.j, l.fd, l.i, mask2, doubt2, place2)
        /\ AllStillFit(freemask, doubtful, place, mask2, doubt2, place2)
    BY ONLY <2>2, FitsKept
  <2>4. \A b, top, x : BlocksFit(b, top, x, freemask, doubtful, place) =>
                       BlocksFit(b, top, x, mask2, doubt2, place2)
    BY <2>3 DEF BlocksFit, AllStillFit
  <2>5. \A x \in Fd : EntryFits(x, oft[x], mask2, doubt2, place2)
    BY <2>1, <2>4 DEF PlaceInv, EntryFits
  <2>6. CopyFits("search", m, e, mask2, doubt2, place2)
    <3>1. BlocksFit(l.in.blocks, l.i - 1, l.fd, freemask, doubtful, place)
      BY <1>1, <2>1 DEF PlaceInv, CopyFits, Top
    <3>2. BlocksFit(l.in.blocks, l.i - 1, l.fd, mask2, doubt2, place2)
      BY <2>4, <3>1
    <3>3. Top("search", m, e) = l.i
      BY <1>4, <1>8 DEF Top
    <3>4. ASSUME NEW i \in 0 .. l.i PROVE Fits(bs[i], l.fd, i, mask2, doubt2, place2)
      <4>1. CASE i = l.i
        BY <1>6, <2>3, <4>1
      <4>2. CASE i # l.i
        <5>1. i \in 0 .. l.i - 1 /\ i \in 0 .. INODEBLOCKS - 1
          BY <1>4, <1>5, <4>2, Sizes
        <5>2. bs[i] = l.in.blocks[i]
          BY <1>6, <4>2, <5>1
        <5> QED BY <3>2, <5>1, <5>2 DEF BlocksFit
      <4> QED BY <4>1, <4>2
    <3> QED BY <1>7, <1>8, <3>3, <3>4 DEF CopyFits, BlocksFit
  <2>7. \A x \in Proc : pc'[x] # "app" =>
           CopyFits(pc'[x], local'[x], oft[local'[x].fd], mask2, doubt2, place2)
    BY <1>8, <1>9, <2>1, <2>4, <2>6 DEF PlaceInv, CopyFits
  <2>8. /\ \A x \in Fd : EntryFits(x, oft'[x], freemask', doubtful', place2)
        /\ \A x \in Proc : pc'[x] # "app" =>
              CopyFits(pc'[x], local'[x], oft'[local'[x].fd], freemask', doubtful', place2)
    BY <1>10, <2>5, <2>7 DEF mask2, doubt2
  <2>9. \E other \in Places :
           /\ \A x \in Fd : EntryFits(x, oft'[x], freemask', doubtful', other)
           /\ \A x \in Proc : pc'[x] # "app" =>
                 CopyFits(pc'[x], local'[x], oft'[local'[x].fd], freemask', doubtful', other)
    BY <2>8, <2>3
  <2> QED BY <2>9 DEF BlockInv, PlaceInv
<1> DEFINE more == doubtful'
<1>14. doubtful \subseteq more
  BY <1>1
<1> HIDE DEF more
<1>15. ContentInv'
  <2>1. ASSUME NEW fd \in Fd, \A x \in Proc : pc'[x] = "data" => local'[x].fd # fd
        PROVE  Content(oft[fd], written[fd], disk, more)
    <3>1. \A x \in Proc : pc[x] = "data" => local[x].fd # fd
      BY <1>1, <1>9, <2>1
    <3>2. Content(oft[fd], written[fd], disk, doubtful)
      BY <1>2, <3>1 DEF ContentInv
    <3> QED BY <1>14, <3>2, MoreDoubt
  <2> QED BY <1>10, <2>1 DEF ContentInv, more
<1>16. PartialInv'
  <2>1. ASSUME NEW x \in Proc, pc'[x] = "data"
        PROVE  Partial(local'[x], oft[local'[x].fd], written[local'[x].fd], disk, more)
    <3>1. pc[x] = "data" /\ local'[x] = local[x]
      BY <1>9, <2>1
    <3>2. Partial(local[x], oft[local[x].fd], written[local[x].fd], disk, doubtful)
      BY <1>2, <3>1 DEF PartialInv
    <3> QED BY <1>14, <3>1, <3>2, MoreDoubt
  <2> QED BY <1>10, <2>1 DEF PartialInv, more
<1> QED BY <1>10, <1>12, <1>13, <1>15, <1>16 DEF RInv

(* A block that is not in doubt serves one place. *)
LEMMA OtherPlace ==
    ASSUME NEW mask, NEW doubt, NEW place, NEW b, NEW fd, NEW i,
           Fits(b, fd, i, mask, doubt, place),
           NEW bs, NEW top, NEW x, BlocksFit(bs, top, x, mask, doubt, place),
           NoneIn(bs, top, doubt), NEW k \in 0 .. top, x # fd \/ k # i
    PROVE  bs[k] \in DataBlocks /\ bs[k] # b
<1>1. Fits(bs[k], x, k, mask, doubt, place) /\ bs[k] \notin doubt
  BY DEF BlocksFit, NoneIn
<1>2. bs[k] \in DataBlocks /\ place[bs[k]] = <<x, k>>
  BY <1>1 DEF Fits
<1>3. CASE bs[k] = b
  <2>1. place[b] = <<fd, i>>
    BY <1>1, <1>3 DEF Fits
  <2> QED BY <1>2, <1>3, <2>1
<1> QED BY <1>2, <1>3

(* One block of the disk changes. *)
OneBlock(d, d2, b) == \A x \in DataBlocks : x # b => d2[x] = d[x]

LEMMA HoldsElsewhere ==
    ASSUME NEW e, NEW d, NEW d2, NEW b, NEW bytes, OneBlock(d, d2, b), Holds(e, d, bytes),
           e.in.size \in Nat, Len(bytes) = e.in.size,
           \A k \in 0 .. LastBlock(e.in.size) : e.in.blocks[k] \in DataBlocks /\ e.in.blocks[k] # b
    PROVE  Holds(e, d2, bytes)
<1> SUFFICES ASSUME NEW q \in Nat, NEW r \in InBlock, Byte(q, r) < Len(bytes)
             PROVE  d2[e.in.blocks[q]][r] = bytes[Byte(q, r) + 1]
  BY DEF Holds
<1> DEFINE size == e.in.size
<1>a. size \in Nat /\ Byte(q, r) < size
  OBVIOUS
<1> HIDE DEF size
<1>b. q <= LastBlock(size)
  BY ONLY <1>a, q \in Nat, r \in InBlock, BlockReached
<1>c. LastBlock(size) \in Int
  BY ONLY <1>a, LastBlockBounds
<1>2. q \in 0 .. LastBlock(e.in.size)
  BY ONLY q \in Nat, <1>b, <1>c DEF size
<1>3. d2[e.in.blocks[q]] = d[e.in.blocks[q]]
  BY <1>2 DEF OneBlock
<1> QED BY <1>3 DEF Holds

(* The bytes that count are in the blocks the copy knows. *)
LEMMA InTop ==
    ASSUME NEW l, NEW e, e.in.size \in Nat, NewEnd(l, e) \in Nat,
           NEW q \in Nat, NEW r \in InBlock,
           Byte(q, r) < NewEnd(l, e) \/ Byte(q, r) < e.in.size
    PROVE  q \in 0 .. Top("data", l, e)
<1> DEFINE size == Larger(NewEnd(l, e), e.in.size)
<1>1. size \in Nat /\ NewEnd(l, e) <= size /\ e.in.size <= size
  BY DEF Larger
<1>2. Byte(q, r) \in Int
  BY ByteType
<1>3. Byte(q, r) < size
  BY <1>1, <1>2
<1> HIDE DEF size
<1>4. q <= LastBlock(size) /\ LastBlock(size) \in Int
  BY <1>1, <1>3, BlockReached, LastBlockBounds
<1>5. Top("data", l, e) = LastBlock(size)
  BY DEF Top, size
<1> QED BY <1>4, <1>5

LEMMA PartElsewhere ==
    ASSUME NEW l, NEW e, NEW d, NEW d2, NEW b, NEW bytes, OneBlock(d, d2, b),
           HoldsPart(l, e, d, bytes),
           e.in.size \in Nat, NewEnd(l, e) \in Nat, Len(bytes) = e.in.size,
           \A k \in 0 .. Top("data", l, e) : l.in.blocks[k] \in DataBlocks /\ l.in.blocks[k] # b
    PROVE  HoldsPart(l, e, d2, bytes)
<1>1. ASSUME NEW q \in Nat, NEW r \in InBlock,
             Byte(q, r) < NewEnd(l, e) \/ Byte(q, r) < e.in.size
      PROVE  d2[l.in.blocks[q]][r] = d[l.in.blocks[q]][r]
  <2>1. q \in 0 .. Top("data", l, e)
    BY <1>1, InTop
  <2> QED BY <2>1 DEF OneBlock
<1>2. ASSUME NEW q \in Nat, NEW r \in InBlock, Done(l, e, q), Byte(q, r) < NewEnd(l, e)
      PROVE  d2[l.in.blocks[q]][r] = <<l.v, Byte(q, r) - e.fileptr>>
  <2>1. d2[l.in.blocks[q]][r] = d[l.in.blocks[q]][r]
    BY <1>1, <1>2
  <2>2. d[l.in.blocks[q]][r] = <<l.v, Byte(q, r) - e.fileptr>>
    BY ONLY q \in Nat, r \in InBlock, <1>2, HoldsPart(l, e, d, bytes) DEF HoldsPart
  <2> QED BY ONLY <2>1, <2>2
<1>3. ASSUME NEW q \in Nat, NEW r \in InBlock, ~Done(l, e, q), Byte(q, r) < Len(bytes)
      PROVE  d2[l.in.blocks[q]][r] = bytes[Byte(q, r) + 1]
  <2>1. Byte(q, r) < e.in.size
    BY ONLY <1>3, Len(bytes) = e.in.size
  <2>2. d2[l.in.blocks[q]][r] = d[l.in.blocks[q]][r]
    BY <1>1, <2>1
  <2>3. d[l.in.blocks[q]][r] = bytes[Byte(q, r) + 1]
    BY ONLY q \in Nat, r \in InBlock, <1>3, HoldsPart(l, e, d, bytes) DEF HoldsPart
  <2> QED BY ONLY <2>2, <2>3
<1> QED BY ONLY <1>2, <1>3 DEF HoldsPart

(* Block l.i of the file after bs_bwrite. *)
LEMMA StoredByte ==
    ASSUME NEW l, NEW old, NEW r \in InBlock, oft[l.fd].fileptr \in Nat,
           l.n \in Nat \ {0}, l.i \in Nat,
           Bounded(oft[l.fd].fileptr, NewSize(l)), LastBlock(oft[l.fd].fileptr) < l.i,
           Byte(l.i, r) < NewSize(l)
    PROVE  Stored(l, old)[r] = <<l.v, Byte(l.i, r) - oft[l.fd].fileptr>>
<1> DEFINE ptr == oft[l.fd].fileptr
           new == NewSize(l)
           q == l.i
           a == ptr \div blocksz
<1>1. blocksz \in Nat \ {0} /\ ptr \in Nat /\ q \in Nat /\ new = ptr + l.n /\ new \in Nat /\ ptr < new
  BY Sizes DEF NewSize
<1>2. LastBlock(ptr) < q /\ Byte(q, r) < new /\ Bounded(ptr, new)
  OBVIOUS
<1>3. Stored(l, old)[r] =
         IF r \in From(ptr, q) .. From(ptr, q) + Taken(ptr, new, q) - 1
         THEN Buffer(l.v, l.n, Position(ptr, q) + r - From(ptr, q)) ELSE old[r]
  BY DEF Stored
<1> HIDE DEF ptr, new, q
<1>4. ptr <= Byte(q, r) /\ Byte(q, r) \in Nat
  BY <1>1, <1>2, BlockBeyond, ByteType
<1>5. q \in Visited(ptr, new) /\ r < Taken(ptr, new, q)
  BY <1>1, <1>2, <1>4, ByteTaken
<1>6. /\ a \in Nat /\ ptr = a * blocksz
      /\ From(ptr, q) = 0 /\ Position(ptr, q) = (q - a) * blocksz
      /\ Taken(ptr, new, q) = IF q = a THEN blocksz
                              ELSE IF q = LastBlock(new) THEN new % blocksz ELSE blocksz
  <2>1. ptr % blocksz = 0
    BY <1>2 DEF Bounded
  <2>2. /\ a \in Nat /\ ptr = a * blocksz
        /\ \A i \in Visited(ptr, new) :
              /\ From(ptr, i) = 0 /\ Position(ptr, i) = (i - a) * blocksz
              /\ Taken(ptr, new, i) = IF i = a THEN blocksz
                                      ELSE IF i = LastBlock(new) THEN new % blocksz ELSE blocksz
    BY <1>1, <2>1, Aligned
  <2> HIDE DEF a
  <2> QED BY <1>5, <2>2
<1>7. Taken(ptr, new, q) \in Int
  BY <1>1, <1>6
<1> HIDE DEF a
<1>8. r \in Nat /\ q * blocksz \in Int
  BY <1>1, ByteType
<1>9. r \in From(ptr, q) .. From(ptr, q) + Taken(ptr, new, q) - 1
  BY <1>5, <1>6, <1>7, <1>8
<1>10. Position(ptr, q) + r - From(ptr, q) = Byte(q, r) - ptr
  <2>1. (q - a) * blocksz = q * blocksz - a * blocksz /\ a * blocksz \in Int
    BY <1>1, <1>6
  <2> QED BY <1>6, <1>8, <2>1 DEF Byte
<1>11. Byte(q, r) - ptr < l.n
  BY <1>1, <1>2, <1>4
<1>12. Stored(l, old)[r] = <<l.v, Byte(q, r) - ptr>>
  BY <1>3, <1>9, <1>10, <1>11 DEF Buffer
<1> QED BY <1>12 DEF ptr, q

LEMMA BwriteStep ==
    ASSUME RInv, NEW p \in Proc, Bwrite(p)
    PROVE  RInv'
<1> DEFINE l == local[p]
           e == oft[l.fd]
           w == written[l.fd]
           b == l.in.blocks[l.i]
           m == Local(l.fd, l.n, l.v, l.in, l.i + 1, 0, {})
           d2 == disk'
<1>1. /\ pc[p] = "data" /\ Needs(l)
      /\ disk' = [disk EXCEPT ![b] = Stored(l, disk[b])]
      /\ local' = [local EXCEPT ![p] = m]
      /\ UNCHANGED <<dir, freemask, oft, pc, written, doubtful>>
  BY DEF Bwrite, At, Keep
<1>2. RType /\ TableType(oft) /\ HistoryType /\ ProcInv /\ BlockInv /\ ContentInv /\ PartialInv
  BY DEF RInv
<1>3. /\ RunOK("data", l, e, next_open_fd) /\ l.fd \in Fd /\ NewEnd(l, e) = NewSize(l)
      /\ e.fileptr \in Nat /\ e.in.size \in Nat /\ NewEnd(l, e) \in Nat /\ l.n \in Nat \ {0}
      /\ LastBlock(NewEnd(l, e)) \in Int /\ LastBlock(e.fileptr) \in Int
  BY <1>1, Running
<1>4. /\ l.i \in Nat /\ LastBlock(e.fileptr) < l.i /\ l.i <= LastBlock(NewEnd(l, e))
  BY <1>1, <1>3 DEF RunOK, Needs
<1>5. m.fd = l.fd /\ m.n = l.n /\ m.v = l.v /\ m.in = l.in /\ m.i = l.i + 1 /\ m.j = 0
  BY LocalFields
<1> HIDE DEF m
<1>6. Top("data", m, e) = Top("data", l, e) /\ l.i \in 0 .. Top("data", l, e)
  <2> DEFINE size == Larger(NewEnd(l, e), e.in.size)
  <2>1. Top("data", m, e) = LastBlock(size) /\ Top("data", l, e) = LastBlock(size)
    BY <1>5 DEF Top, NewEnd
  <2>2. size \in Nat /\ NewEnd(l, e) <= size
    BY <1>3 DEF Larger
  <2> HIDE DEF size
  <2>3. LastBlock(NewEnd(l, e)) <= LastBlock(size) /\ LastBlock(size) \in Int
    BY <1>3, <2>2, LastBlockGrows, LastBlockBounds
  <2> QED BY <1>3, <1>4, <2>1, <2>3
<1>7. PICK place \in Places : PlaceInv(place)
  BY <1>2 DEF BlockInv
<1>8. BlocksFit(l.in.blocks, Top("data", l, e), l.fd, freemask, doubtful, place)
  BY <1>1, <1>7 DEF PlaceInv, CopyFits
<1>9. Fits(b, l.fd, l.i, freemask, doubtful, place) /\ b \in DataBlocks
  BY <1>6, <1>8 DEF BlocksFit, Fits
<1>10. disk = [x \in DataBlocks |-> disk[x]]
  BY <1>2 DEF ProcInv
<1>11. d2 = [x \in DataBlocks |-> d2[x]] /\ d2[b] = Stored(l, disk[b]) /\ OneBlock(disk, d2, b)
  BY <1>1, <1>9, <1>10 DEF OneBlock
<1>12. /\ local'[p] = m /\ \A x \in Proc : x # p => local'[x] = local[x]
       /\ local' = [x \in Proc |-> local'[x]] /\ pc' = pc
  BY <1>1, <1>2 DEF ProcInv
<1>13. /\ RType' /\ TableType(oft)' /\ HistoryType' /\ next_open_fd' = next_open_fd /\ oft' = oft
       /\ written' = written /\ freemask' = freemask /\ doubtful' = doubtful
  BY <1>1, <1>2 DEF RType, TableType, HistoryType, IsOpen, dir
<1>14. \A x \in Proc : x # p /\ pc[x] # "app" => local[x].fd # l.fd
  BY <1>1, <1>2 DEF ProcInv
<1>15. RunOK("data", m, e, next_open_fd)
  <2>1. m.i \in Nat /\ LastBlock(e.fileptr) < m.i /\ m.i <= LastBlock(NewEnd(l, e)) + 1 /\ m.j \in Int
    BY <1>3, <1>4, <1>5
  <2>2. NewEnd(m, e) = NewEnd(l, e)
    BY <1>5 DEF NewEnd
  <2> QED BY <1>3, <1>5, <2>1, <2>2 DEF RunOK
<1>16. ProcInv'
  <2>1. \A x, y \in Proc : pc[x] # "app" /\ pc[y] # "app" /\ local'[x].fd = local'[y].fd => x = y
    BY <1>2, <1>5, <1>12, <1>14 DEF ProcInv
  <2>2. \A x \in Proc : pc[x] # "app" =>
           RunOK(pc[x], local'[x], oft[local'[x].fd], next_open_fd)
    BY <1>1, <1>2, <1>5, <1>12, <1>15 DEF ProcInv
  <2> QED BY <1>2, <1>11, <1>12, <1>13, <2>1, <2>2 DEF ProcInv
<1>17. BlockInv'
  <2>1. CopyFits("data", m, e, freemask, doubtful, place)
    BY <1>5, <1>6, <1>8 DEF CopyFits
  <2>2. \A x \in Proc : pc[x] # "app" =>
           CopyFits(pc[x], local'[x], oft[local'[x].fd], freemask, doubtful, place)
    BY <1>1, <1>5, <1>7, <1>12, <2>1 DEF PlaceInv
  <2>3. PlaceInv(place)'
    BY <1>7, <1>12, <1>13, <2>2 DEF PlaceInv
  <2> QED BY <1>7, <2>3 DEF BlockInv
<1> HIDE DEF d2, b
<1>18. ContentInv'
  <2>1. ASSUME NEW x \in Fd, \A y \in Proc : pc[y] = "data" => local'[y].fd # x,
               written[x].supported, NoneIn(oft[x].in.blocks, LastBlock(oft[x].in.size), doubtful)
        PROVE  Holds(oft[x], d2, written[x].bytes)
    <3>1. \A y \in Proc : pc[y] = "data" => local[y].fd # x
      BY <1>1, <1>5, <1>12, <2>1
    <3>2. Holds(oft[x], disk, written[x].bytes)
      BY <1>2, <2>1, <3>1 DEF ContentInv, Content
    <3>3. x # l.fd
      BY <1>1, <3>1
    <3>4. EntryFits(x, oft[x], freemask, doubtful, place)
      BY <1>7 DEF PlaceInv
    <3>5. \A k \in 0 .. LastBlock(oft[x].in.size) :
             oft[x].in.blocks[k] \in DataBlocks /\ oft[x].in.blocks[k] # b
      BY <1>9, <2>1, <3>3, <3>4, OtherPlace DEF EntryFits
    <3>6. oft[x].in.size \in Nat /\ Len(written[x].bytes) = oft[x].in.size
      BY <1>2, <2>1, EntryTypes DEF HistoryType
    <3> QED BY <1>11, <3>2, <3>5, <3>6, HoldsElsewhere
  <2>2. \A x \in Fd : (\A y \in Proc : pc[y] = "data" => local'[y].fd # x) =>
           Content(oft[x], written[x], d2, doubtful)
    BY <2>1 DEF Content
  <2> QED BY <1>12, <1>13, <2>2 DEF ContentInv, d2
<1>19. ASSUME NEW x \in Proc, x # p, pc[x] = "data"
       PROVE  Partial(local[x], oft[local[x].fd], written[local[x].fd], d2, doubtful)
  <2> DEFINE lx == local[x]
             ex == oft[lx.fd]
             wx == written[lx.fd]
  <2>1. Partial(lx, ex, wx, disk, doubtful)
    BY <1>2, <1>19 DEF PartialInv
  <2>2. lx.fd \in Fd /\ ex.in.size \in Nat /\ NewEnd(lx, ex) \in Nat
    BY <1>19, Running
  <2>3. lx.fd # l.fd
    BY <1>14, <1>19
  <2>4. BlocksFit(lx.in.blocks, Top("data", lx, ex), lx.fd, freemask, doubtful, place)
    BY <1>7, <1>19 DEF PlaceInv, CopyFits
  <2>5. wx.supported => Len(wx.bytes) = ex.in.size
    BY <1>2, <2>2 DEF HistoryType
  <2> HIDE DEF lx, ex, wx
  <2>6. ASSUME wx.supported, Supported(ex.fileptr, NewEnd(lx, ex), ex.in.size),
               NoneIn(lx.in.blocks, Top("data", lx, ex), doubtful)
        PROVE  HoldsPart(lx, ex, d2, wx.bytes)
    <3>1. HoldsPart(lx, ex, disk, wx.bytes)
      BY <2>1, <2>6 DEF Partial
    <3>2. \A k \in 0 .. Top("data", lx, ex) : lx.in.blocks[k] \in DataBlocks /\ lx.in.blocks[k] # b
      BY <1>9, <2>3, <2>4, <2>6, OtherPlace
    <3> QED BY <1>11, <2>2, <2>5, <2>6, <3>1, <3>2, PartElsewhere
  <2>7. Partial(lx, ex, wx, d2, doubtful)
    BY <2>6 DEF Partial
  <2> QED BY <2>7 DEF lx, ex, wx
<1>20. Partial(m, e, w, d2, doubtful)
  <2> SUFFICES ASSUME w.supported, Supported(e.fileptr, NewEnd(m, e), e.in.size),
                      NoneIn(m.in.blocks, Top("data", m, e), doubtful)
               PROVE  HoldsPart(m, e, d2, w.bytes)
    BY DEF Partial
  <2>1. NewEnd(m, e) = NewEnd(l, e)
    BY <1>5 DEF NewEnd
  <2>2. NoneIn(l.in.blocks, Top("data", l, e), doubtful)
    BY <1>5, <1>6
  <2>3. HoldsPart(l, e, disk, w.bytes)
    BY <1>1, <1>2, <2>1, <2>2 DEF PartialInv, Partial
  <2>4. Len(w.bytes) = e.in.size
    BY <1>2, <1>3 DEF HistoryType
  <2>5. ASSUME NEW q \in Nat, NEW r \in InBlock, q # l.i,
               Byte(q, r) < NewEnd(l, e) \/ Byte(q, r) < e.in.size
        PROVE  d2[l.in.blocks[q]][r] = disk[l.in.blocks[q]][r]
    <3>1. q \in 0 .. Top("data", l, e)
      BY <1>3, <2>5, InTop
    <3>2. l.in.blocks[q] \in DataBlocks /\ l.in.blocks[q] # b
      BY <1>8, <1>9, <2>2, <2>5, <3>1, OtherPlace
    <3> QED BY <1>11, <3>2 DEF OneBlock
  <2>6. ASSUME NEW r \in InBlock, Byte(l.i, r) < NewEnd(l, e)
        PROVE  d2[l.in.blocks[l.i]][r] = <<l.v, Byte(l.i, r) - e.fileptr>>
    <3>1. Bounded(e.fileptr, NewSize(l))
      BY <1>3, <2>1 DEF Supported
    <3>2. Byte(l.i, r) < NewSize(l)
      BY <1>3, <2>6
    <3>3. Stored(l, disk[b])[r] = <<l.v, Byte(l.i, r) - e.fileptr>>
      BY <1>3, <1>4, <3>1, <3>2, StoredByte
    <3> QED BY <1>11, <3>3 DEF b
  <2>7. \A q \in Nat : /\ Done(m, e, q) => Done(l, e, q) \/ q = l.i
                       /\ ~Done(m, e, q) => ~Done(l, e, q) /\ q # l.i
    BY <1>3, <1>4, <1>5 DEF Done
  <2>8. ASSUME NEW q \in Nat, NEW r \in InBlock, Done(m, e, q), Byte(q, r) < NewEnd(l, e)
        PROVE  d2[l.in.blocks[q]][r] = <<l.v, Byte(q, r) - e.fileptr>>
    <3>1. CASE q = l.i
      BY <2>6, <2>8, <3>1
    <3>2. CASE q # l.i
      BY <2>3, <2>5, <2>7, <2>8, <3>2 DEF HoldsPart
    <3> QED BY <3>1, <3>2
  <2>9. ASSUME NEW q \in Nat, NEW r \in InBlock, ~Done(m, e, q), Byte(q, r) < Len(w.bytes)
        PROVE  d2[l.in.blocks[q]][r] = w.bytes[Byte(q, r) + 1]
    BY <2>3, <2>4, <2>5, <2>7, <2>9 DEF HoldsPart
  <2>10. \A q \in Nat, r \in InBlock : Done(m, e, q) /\ Byte(q, r) < NewEnd(m, e) =>
            d2[m.in.blocks[q]][r] = <<m.v, Byte(q, r) - e.fileptr>>
    BY ONLY <1>5, <2>1, <2>8
  <2>11. \A q \in Nat, r \in InBlock : ~Done(m, e, q) /\ Byte(q, r) < Len(w.bytes) =>
            d2[m.in.blocks[q]][r] = w.bytes[Byte(q, r) + 1]
    BY ONLY <1>5, <2>9
  <2> QED BY ONLY <2>10, <2>11 DEF HoldsPart
<1>21. PartialInv'
  <2>1. \A x \in Proc : pc[x] = "data" =>
           Partial(local'[x], oft[local'[x].fd], written[local'[x].fd], d2, doubtful)
    BY <1>5, <1>12, <1>19, <1>20
  <2> QED BY <1>12, <1>13, <2>1 DEF PartialInv, d2
<1> QED BY <1>13, <1>16, <1>17, <1>18, <1>21 DEF RInv

(* When all blocks have been visited the copy's blocks hold the file. *)
LEMMA Complete ==
    ASSUME NEW l, NEW e, NEW d, NEW old \in Bytes, HoldsPart(l, e, d, old),
           NEW ptr \in Nat, ptr = e.fileptr, NEW n \in Nat \ {0}, n = l.n, NEW v \in Value, v = l.v,
           ptr <= Len(old), Supported(ptr, ptr + n, Len(old)),
           l.i \in Nat, l.i = LastBlock(ptr + n) + 1,
           NEW q \in Nat, NEW r \in InBlock, Byte(q, r) < Len(After(old, ptr, n, v))
    PROVE  d[l.in.blocks[q]][r] = After(old, ptr, n, v)[Byte(q, r) + 1]
<1> DEFINE new == ptr + n
           bytes == After(old, ptr, n, v)
           size == IF new > Len(old) THEN new ELSE Len(old)
           k == Byte(q, r)
<1>a. Len(old) \in Nat
  BY ONLY old \in Bytes DEF Bytes
<1>b. new \in Nat /\ ptr < new
  BY ONLY ptr \in Nat, n \in Nat \ {0}
<1>1. Len(old) \in Nat /\ new \in Nat /\ ptr < new /\ size \in Nat /\ new <= size /\ Len(old) <= size
  <2> HIDE DEF new
  <2> QED BY ONLY <1>a, <1>b
<1>2. /\ Len(bytes) = size
      /\ \A p \in 1 .. size : bytes[p] = IF p \in ptr + 1 .. new THEN <<v, p - ptr - 1>> ELSE old[p]
  <2>1. IsAfter(bytes, old, ptr, n, v)
    BY ONLY old \in Bytes, ptr \in Nat, ptr <= Len(old), n \in Nat \ {0}, v \in Value, AfterIs
  <2> HIDE DEF bytes
  <2> QED BY ONLY <2>1, Zenon DEF IsAfter
<1>3. Supported(ptr, new, Len(old)) /\ Bounded(ptr, new)
  BY DEF Supported
<1>4. k \in Nat /\ k < size
  BY <1>2, ByteType
<1>5. LastBlock(new) \in Int /\ LastBlock(ptr) \in Int /\ l.i = LastBlock(new) + 1
  BY <1>1, LastBlockBounds
<1>6. NewEnd(l, e) = new
  BY DEF NewEnd
<1> HIDE DEF bytes, size, new
<1>7. Visited(ptr, new) = LastBlock(ptr) + 1 .. LastBlock(new)
  BY DEF Visited
<1>8. Done(l, e, q) <=> q \in Visited(ptr, new)
  BY <1>5, <1>7 DEF Done
<1>9. k + 1 \in 1 .. size
  BY <1>1, <1>4
<1>10. CASE ptr <= k /\ k < new
  <2>1. q \in Visited(ptr, new)
    BY <1>1, <1>3, <1>10, ByteTaken
  <2>2. d[l.in.blocks[q]][r] = <<v, k - ptr>>
    BY <1>6, <1>8, <1>10, <2>1 DEF HoldsPart
  <2>3. bytes[k + 1] = <<v, k - ptr>>
    <3> DEFINE p == k + 1
    <3>1. p \in 1 .. size /\ p \in ptr + 1 .. new /\ p - ptr - 1 = k - ptr
      <4> HIDE DEF k
      <4>1. ptr \in Int /\ new \in Int /\ k \in Int
        BY ONLY ptr \in Nat, <1>1, <1>4
      <4> QED BY ONLY <4>1, <1>9, <1>10
    <3> HIDE DEF p
    <3>2. bytes[p] = <<v, p - ptr - 1>>
      BY <1>2, <3>1, Zenon
    <3> QED BY <3>1, <3>2 DEF p
  <2> QED BY <2>2, <2>3 DEF bytes
<1>11. CASE ~(ptr <= k /\ k < new)
  <2>1. k < Len(old)
    BY <1>1, <1>4, <1>11 DEF size
  <2>2. q \notin Visited(ptr, new)
    <3>1. CASE k < ptr
      <4>1. CASE LastBlock(ptr) < q
        <5>1. ptr <= k
          BY <4>1, BlockBeyond
        <5> QED BY <1>4, <3>1, <5>1
      <4> QED BY <1>5, <1>7, <4>1
    <3>2. CASE new <= k
      <4>1. CASE q \in Visited(ptr, new)
        <5>1. k < new
          BY <1>1, <1>3, <2>1, <4>1, NothingBehind
        <5> QED BY <1>1, <1>4, <3>2, <5>1
      <4> QED BY <4>1
    <3> QED BY <1>1, <1>4, <1>11, <3>1, <3>2
  <2>3. d[l.in.blocks[q]][r] = old[k + 1]
    BY <1>8, <2>1, <2>2 DEF HoldsPart
  <2>4. k + 1 \notin ptr + 1 .. new
    BY <1>1, <1>4, <1>11
  <2>5. bytes[k + 1] = old[k + 1]
    BY <1>2, <1>9, <2>4
  <2> QED BY <2>3, <2>5 DEF bytes
<1> QED BY <1>10, <1>11

LEMMA ReturnStep ==
    ASSUME RInv, NEW p \in Proc, Return(p)
    PROVE  RInv'
<1> DEFINE l == local[p]
           fd == l.fd
           e == oft[fd]
           w == written[fd]
           ptr == e.fileptr
           new == NewSize(l)
           size == Larger(new, e.in.size)
           ok == w.supported /\ Supported(ptr, ptr + l.n, e.in.size)
           rec == IF ok THEN [bytes |-> After(w.bytes, ptr, l.n, l.v), supported |-> TRUE]
                  ELSE [bytes |-> <<>>, supported |-> FALSE]
           e2 == File(e.state, new, Saved(l.in, new))
<1>1. /\ pc[p] = "data" /\ ~Needs(l)
      /\ oft' = [oft EXCEPT ![fd] = e2]
      /\ Record(fd, ptr, l.n, l.v, l.in)
      /\ pc' = [pc EXCEPT ![p] = "app"] /\ local' = [local EXCEPT ![p] = NoLocal]
      /\ UNCHANGED <<dir, freemask, disk, doubtful>>
  BY DEF Return, At, Keep, GoTo
<1>2. RType /\ TableType(oft) /\ HistoryType /\ ProcInv /\ BlockInv /\ ContentInv /\ PartialInv
  BY DEF RInv
<1>3. /\ RunOK("data", l, e, next_open_fd) /\ fd \in Fd /\ NewEnd(l, e) = new
      /\ ptr \in Nat /\ e.in.size \in Nat /\ ptr <= e.in.size /\ e.in.size < MaxBytes
      /\ new \in Nat /\ new < MaxBytes /\ l.n \in Nat \ {0} /\ LastBlock(new) \in Int
  BY <1>1, Running
<1>4. /\ l.in \in InodeSet /\ l.in.size = e.in.size /\ l.i \in Nat /\ l.v \in Value /\ l.n \in Count
      /\ l.i <= LastBlock(new) + 1 /\ ~(l.i <= LastBlock(new)) /\ fd < next_open_fd
  BY <1>1, <1>3 DEF RunOK, Needs
<1>5. l.i = LastBlock(new) + 1 /\ new = ptr + l.n
  BY <1>3, <1>4 DEF NewSize
<1>6. written' = [written EXCEPT ![fd] = rec]
  BY <1>1, <1>4 DEF Record, After
<1>7. Saved(l.in, new) \in InodeSet /\ Saved(l.in, new).size = size
      /\ Saved(l.in, new).blocks = l.in.blocks /\ size \in Nat /\ size < MaxBytes /\ new <= size
  BY <1>3, <1>4 DEF Saved, InodeSet, Larger
<1>8. e2.state = e.state /\ e2.fileptr = new /\ e2.in.size = size /\ e2.in.blocks = l.in.blocks
  BY <1>7, FileFields
<1>9. e2 \in FileSet
  BY <1>2, <1>3, <1>7 DEF TableType, File, FileSet
<1> HIDE DEF e2, size, rec
<1>10. oft' \in [Fd -> FileSet] /\ oft'[fd] = e2 /\ \A x \in Fd : x # fd => oft'[x] = oft[x]
  BY <1>1, <1>2, <1>3, <1>9 DEF TableType
<1>11. written' = [x \in Fd |-> written'[x]] /\ written'[fd] = rec
       /\ \A x \in Fd : x # fd => written'[x] = written[x]
  <2>1. written = [x \in Fd |-> written[x]]
    BY <1>2 DEF HistoryType
  <2> QED BY <1>3, <1>6, <2>1
<1>12. /\ pc'[p] = "app" /\ pc' \in [Proc -> {"app", "search", "load", "store", "data"}]
       /\ local' = [x \in Proc |-> local'[x]]
       /\ \A x \in Proc : x # p => pc'[x] = pc[x] /\ local'[x] = local[x]
  BY <1>1, <1>2 DEF ProcInv
<1>13. ASSUME NEW x \in Proc, pc'[x] # "app"
       PROVE  /\ x # p /\ pc'[x] = pc[x] /\ local'[x] = local[x] /\ pc[x] # "app"
              /\ local[x].fd # fd /\ local[x].fd \in Fd
              /\ oft'[local[x].fd] = oft[local[x].fd]
              /\ written'[local[x].fd] = written[local[x].fd]
  <2>1. x # p /\ pc'[x] = pc[x] /\ local'[x] = local[x] /\ pc[x] # "app"
    BY <1>12, <1>13
  <2>2. local[x].fd # fd /\ local[x].fd \in Fd
    BY <1>1, <1>2, <2>1 DEF ProcInv, RunOK
  <2> QED BY <1>10, <1>11, <2>1, <2>2
<1>14. w.bytes \in Bytes /\ (w.supported => Len(w.bytes) = e.in.size)
  BY <1>2, <1>3 DEF HistoryType
<1>15. ASSUME ok
       PROVE  /\ rec.supported /\ rec.bytes = After(w.bytes, ptr, l.n, l.v) /\ rec.bytes \in Bytes
              /\ Len(rec.bytes) = size /\ Supported(ptr, ptr + l.n, Len(w.bytes))
              /\ ptr <= Len(w.bytes)
  <2>1. rec.supported /\ rec.bytes = After(w.bytes, ptr, l.n, l.v)
    BY <1>15 DEF rec
  <2>2. Len(w.bytes) = e.in.size /\ Supported(ptr, ptr + l.n, e.in.size)
    BY <1>14, <1>15
  <2>3. size = IF ptr + l.n > Len(w.bytes) THEN ptr + l.n ELSE Len(w.bytes)
    BY <1>5, <2>2 DEF size, Larger
  <2>4. ptr <= Len(w.bytes)
    BY <1>3, <2>2
  <2>5. After(w.bytes, ptr, l.n, l.v) \in Bytes /\ Len(After(w.bytes, ptr, l.n, l.v)) = size
    <3> DEFINE old == w.bytes
               at == ptr
    <3>1. old \in Bytes /\ at \in Nat /\ at <= Len(old) /\ l.n \in Nat \ {0} /\ l.v \in Value
          /\ size = IF at + l.n > Len(old) THEN at + l.n ELSE Len(old)
      BY <1>3, <1>4, <1>14, <2>3, <2>4
    <3> HIDE DEF old, at
    <3>2. After(old, at, l.n, l.v) \in Bytes /\ Len(After(old, at, l.n, l.v)) = size
      <4>1. After(old, at, l.n, l.v) \in Bytes /\ IsAfter(After(old, at, l.n, l.v), old, at, l.n, l.v)
        BY ONLY <3>1, AfterIs
      <4>2. Len(After(old, at, l.n, l.v)) = IF at + l.n > Len(old) THEN at + l.n ELSE Len(old)
        BY ONLY <4>1, Zenon DEF IsAfter
      <4> QED BY ONLY <3>1, <4>1, <4>2
    <3> QED BY <3>2 DEF old, at
  <2> QED BY <2>1, <2>2, <2>4, <2>5
<1>16. ASSUME ~ok PROVE rec.bytes \in Bytes /\ ~rec.supported
  <2>1. rec = [bytes |-> <<>>, supported |-> FALSE]
    BY <1>16 DEF rec
  <2>2. <<>> \in Bytes
    BY DEF Bytes
  <2> QED BY <2>1, <2>2
<1> HIDE DEF ok
<1>17. TableType(oft)'
  BY <1>2, <1>7, <1>8, <1>10 DEF TableType
<1>18. RType' /\ next_open_fd' = next_open_fd /\ disk' = disk /\ freemask' = freemask
       /\ doubtful' = doubtful
  BY <1>1, <1>2 DEF RType, dir
<1>19. HistoryType'
  <2>1. \A x \in Fd : written'[x].bytes \in Bytes
    BY <1>2, <1>11, <1>15, <1>16 DEF HistoryType
  <2>2. \A x \in Fd : x >= next_open_fd => x # fd
    BY <1>2, <1>4, Sizes DEF RType, Fd
  <2>3. \A x \in Fd : x >= next_open_fd => ~(oft'[x].state = "OPEN") /\ written'[x].bytes = <<>>
    BY <1>2, <1>10, <1>11, <2>2 DEF HistoryType, IsOpen
  <2>4. ASSUME NEW x \in Fd, written'[x].supported PROVE oft'[x].in.size = Len(written'[x].bytes)
    <3>1. CASE x = fd
      BY <1>8, <1>10, <1>11, <1>15, <1>16, <2>4, <3>1
    <3>2. CASE x # fd
      BY <1>2, <1>10, <1>11, <2>4, <3>2 DEF HistoryType
    <3> QED BY <3>1, <3>2
  <2> QED BY <1>11, <1>18, <2>1, <2>3, <2>4 DEF HistoryType, IsOpen
<1>20. ProcInv'
  <2>1. \A x, y \in Proc : pc'[x] # "app" /\ pc'[y] # "app" /\ local'[x].fd = local'[y].fd => x = y
    BY <1>2, <1>13 DEF ProcInv
  <2>2. \A x \in Proc : pc'[x] # "app" =>
           RunOK(pc'[x], local'[x], oft'[local'[x].fd], next_open_fd)
    BY <1>2, <1>13 DEF ProcInv
  <2> QED BY <1>2, <1>12, <1>18, <2>1, <2>2 DEF ProcInv
<1>21. BlockInv'
  <2>1. PICK place \in Places : PlaceInv(place)
    BY <1>2 DEF BlockInv
  <2>2. BlocksFit(l.in.blocks, Top("data", l, e), l.fd, freemask, doubtful, place)
    BY <1>1, <2>1 DEF PlaceInv, CopyFits
  <2>3. Top("data", l, e) = LastBlock(size)
    BY <1>3 DEF Top, size
  <2>4. EntryFits(fd, e2, freemask, doubtful, place)
    BY <1>8, <2>2, <2>3 DEF EntryFits
  <2>5. \A x \in Fd : EntryFits(x, oft'[x], freemask, doubtful, place)
    BY <1>10, <2>1, <2>4 DEF PlaceInv
  <2>6. \A x \in Proc : pc'[x] # "app" =>
           CopyFits(pc'[x], local'[x], oft'[local'[x].fd], freemask, doubtful, place)
    BY <1>13, <2>1 DEF PlaceInv
  <2>7. PlaceInv(place)'
    BY <1>18, <2>5, <2>6 DEF PlaceInv
  <2> QED BY <2>1, <2>7 DEF BlockInv
<1>22. Content(e2, rec, disk, doubtful)
  <2> SUFFICES ASSUME rec.supported, NoneIn(e2.in.blocks, LastBlock(e2.in.size), doubtful)
               PROVE  Holds(e2, disk, rec.bytes)
    BY DEF Content
  <2>1. ok
    BY <1>16
  <2>2. Top("data", l, e) = LastBlock(size)
    BY <1>3 DEF Top, size
  <2>3. NoneIn(l.in.blocks, Top("data", l, e), doubtful)
    BY <1>8, <2>2
  <2>4. w.supported /\ Supported(ptr, NewEnd(l, e), e.in.size)
    BY <1>3, <1>5, <2>1 DEF ok
  <2>5. HoldsPart(l, e, disk, w.bytes)
    BY <1>1, <1>2, <2>3, <2>4 DEF PartialInv, Partial
  <2>6. /\ rec.bytes = After(w.bytes, ptr, l.n, l.v)
        /\ Supported(ptr, ptr + l.n, Len(w.bytes)) /\ ptr <= Len(w.bytes)
    BY <1>15, <2>1
  <2>7. l.i = LastBlock(ptr + l.n) + 1
    BY <1>5
  <2>8. ASSUME NEW q \in Nat, NEW r \in InBlock, Byte(q, r) < Len(rec.bytes)
        PROVE  disk[l.in.blocks[q]][r] = rec.bytes[Byte(q, r) + 1]
    <3> DEFINE old == w.bytes
               at == ptr
               n == l.n
               v == l.v
    <3>1. /\ old \in Bytes /\ HoldsPart(l, e, disk, old) /\ at \in Nat /\ at = e.fileptr
          /\ n \in Nat \ {0} /\ n = l.n /\ v \in Value /\ v = l.v /\ at <= Len(old)
          /\ Supported(at, at + n, Len(old)) /\ l.i \in Nat /\ l.i = LastBlock(at + n) + 1
          /\ Byte(q, r) < Len(After(old, at, n, v)) /\ rec.bytes = After(old, at, n, v)
      BY <1>3, <1>4, <1>14, <2>5, <2>6, <2>7, <2>8
    <3> HIDE DEF old, at, n, v, l, e
    <3>2. disk[l.in.blocks[q]][r] = After(old, at, n, v)[Byte(q, r) + 1]
      BY ONLY q \in Nat, r \in InBlock, <3>1, Complete
    <3> QED BY <3>1, <3>2
  <2> QED BY <1>8, <2>8 DEF Holds
<1>23. ContentInv'
  <2>1. ASSUME NEW x \in Fd, \A y \in Proc : pc'[y] = "data" => local'[y].fd # x
        PROVE  Content(oft'[x], written'[x], disk, doubtful)
    <3>1. CASE x = fd
      BY <1>10, <1>11, <1>22, <3>1
    <3>2. CASE x # fd
      <4>1. \A y \in Proc : pc[y] = "data" => local[y].fd # x
        BY <1>12, <2>1, <3>2
      <4> QED BY <1>2, <1>10, <1>11, <3>2, <4>1 DEF ContentInv
    <3> QED BY <3>1, <3>2
  <2> QED BY <1>18, <2>1 DEF ContentInv
<1>24. PartialInv'
  <2>1. \A x \in Proc : pc'[x] = "data" =>
           Partial(local'[x], oft'[local'[x].fd], written'[local'[x].fd], disk, doubtful)
    BY <1>2, <1>13 DEF PartialInv
  <2> QED BY <1>18, <2>1 DEF PartialInv
<1> QED BY <1>17, <1>18, <1>19, <1>20, <1>21, <1>23, <1>24 DEF RInv

LEMMA RamStep == RInv /\ [Next]_rvars => RInv'
<1> SUFFICES ASSUME RInv, [Next]_rvars PROVE RInv'
  OBVIOUS
<1>1. ASSUME NEW name \in Name, FsCreate(name) PROVE RInv'
  BY <1>1, CreateStep
<1>2. ASSUME NEW name \in Name, NEW flags \in {"O_RDONLY", "O_WRONLY", "O_RDWR"},
             FsOpen(name, flags)
      PROVE  RInv'
  BY <1>2, OpenStep
<1>3. ASSUME NEW fd \in Fd, FsClose(fd) PROVE RInv'
  BY <1>3, CloseStep
<1>4. ASSUME NEW fd \in Fd, NEW d \in Offset, FsSeek(fd, d) \/ FsSeek(fd, -d) PROVE RInv'
  <2>1. d \in Int /\ -d \in Int
    BY Sizes
  <2> QED BY <1>4, <2>1, SeekStep
<1>5. ASSUME NEW fd \in Fd, NEW n \in Count, FsRead(fd, n) PROVE RInv'
  BY <1>5, ReadStep
<1>6. ASSUME NEW p \in Proc, NEW fd \in Fd, NEW n \in Count, NEW v \in Value, FsWrite(p, fd, n, v)
      PROVE  RInv'
  BY <1>6, FsWriteStep
<1>7. ASSUME NEW p \in Proc, \/ Look(p) \/ Full(p) \/ Load(p) \/ Mark(p)
                             \/ Found(p) \/ Bwrite(p) \/ Return(p)
      PROVE  RInv'
  BY <1>7, LookStep, FullStep, LoadStep, MarkStep, FoundStep, BwriteStep, ReturnStep
<1>8. CASE UNCHANGED rvars
  <2>1. RType' /\ TableType(oft)' /\ HistoryType'
    BY <1>8 DEF RInv, RType, TableType, HistoryType, IsOpen, rvars, dir
  <2>2. ProcInv' /\ ContentInv' /\ PartialInv'
    BY <1>8 DEF RInv, ProcInv, ContentInv, PartialInv, rvars, run, dir
  <2>3. BlockInv'
    BY <1>8 DEF RInv, BlockInv, PlaceInv, rvars, run
  <2> QED BY <2>1, <2>2, <2>3 DEF RInv
<1> QED BY <1>1, <1>2, <1>3, <1>4, <1>5, <1>6, <1>7, <1>8 DEF Next

LEMMA InvOwned == RInv => BlocksOwned
<1> DEFINE All == UNION {Owned(x) : x \in Fd}
<1> SUFFICES ASSUME RInv, NEW own \in All, NEW other \in All
             PROVE  /\ BlockOf(own) \in DataBlocks
                    /\ BlockOf(own) \notin doubtful =>
                          /\ BlockOf(own) \in freemask
                          /\ BlockOf(own) = BlockOf(other) => own = other
  BY DEF BlocksOwned
<1>1. PICK fd \in Fd, i \in Int : i \in 0 .. LastBlock(oft[fd].in.size) /\ own = <<fd, i>>
  BY DEF Owned
<1>2. PICK gd \in Fd, j \in Int : j \in 0 .. LastBlock(oft[gd].in.size) /\ other = <<gd, j>>
  BY DEF Owned
<1>3. BlockOf(own) = oft[fd].in.blocks[i] /\ BlockOf(other) = oft[gd].in.blocks[j]
  BY <1>1, <1>2 DEF BlockOf
<1>4. PICK place \in Places : PlaceInv(place)
  BY DEF RInv, BlockInv
<1>5. /\ Fits(oft[fd].in.blocks[i], fd, i, freemask, doubtful, place)
      /\ Fits(oft[gd].in.blocks[j], gd, j, freemask, doubtful, place)
  BY <1>1, <1>2, <1>4 DEF PlaceInv, EntryFits, BlocksFit
<1> QED BY <1>1, <1>2, <1>3, <1>5 DEF Fits

(* The block that byte k of a read comes from is the one that has it. *)
LEMMA FetchedOnce ==
    ASSUME RInv, NEW fd \in Fd, NEW n \in Nat, Bounded(oft[fd].fileptr, ReadEnd(fd, n)),
           ReadEnd(fd, n) \in Nat, NEW k \in Nat, oft[fd].fileptr + k < ReadEnd(fd, n)
    PROVE  \E q \in Nat, r \in InBlock :
              /\ Byte(q, r) = oft[fd].fileptr + k
              /\ Fetched(fd, n, k) = {disk[oft[fd].in.blocks[q]][r]}
<1> DEFINE ptr == oft[fd].fileptr
           end == ReadEnd(fd, n)
           a == ptr \div blocksz
           x == ptr + k
           q == x \div blocksz
           r == x % blocksz
           from == {i \in Visited(ptr, end) : k - Position(ptr, i) \in 0 .. Taken(ptr, end, i) - 1}
<1>1. blocksz \in Nat \ {0} /\ ptr \in Nat /\ end \in Nat /\ ptr < end /\ x \in Nat
  BY Sizes, EntryTypes DEF RInv
<1>2. /\ a \in Nat /\ ptr = a * blocksz /\ Visited(ptr, end) = a .. LastBlock(end)
      /\ \A i \in Visited(ptr, end) :
            /\ From(ptr, i) = 0 /\ Position(ptr, i) = (i - a) * blocksz
            /\ Taken(ptr, end, i) = IF i = a THEN blocksz
                                    ELSE IF i = LastBlock(end) THEN end % blocksz ELSE blocksz
  BY <1>1, Aligned DEF Bounded
<1>3. q \in Nat /\ r \in InBlock /\ x = q * blocksz + r
  <2> HIDE DEF x
  <2>1. q \in Nat /\ r \in Nat /\ r < blocksz /\ x = blocksz * q + r
    BY <1>1, Divided
  <2> HIDE DEF q, r
  <2>2. r \in InBlock
    BY <1>1, <2>1 DEF InBlock
  <2>3. blocksz * q = q * blocksz
    BY <1>1, <2>1
  <2> QED BY <2>1, <2>2, <2>3
<1>4. LastBlock(end) \in Int
  BY <1>1, LastBlockBounds
<1>5. end % blocksz \in Nat /\ end % blocksz < blocksz
  BY <1>1, Divided
<1>6. Fetched(fd, n, k) = {disk[oft[fd].in.blocks[i]][From(ptr, i) + (k - Position(ptr, i))] : i \in from}
  BY DEF Fetched
<1>7. Bounded(ptr, end) /\ x < end /\ x = ptr + k
  OBVIOUS
<1> HIDE DEF ptr, end, a, q, r, x
<1>8. Byte(q, r) = x
  BY <1>3 DEF Byte
<1>9. q \in Visited(ptr, end) /\ r < Taken(ptr, end, q)
  <2>1. ptr <= Byte(q, r) /\ Byte(q, r) < end
    BY <1>1, <1>7, <1>8
  <2> QED BY <1>1, <1>3, <1>7, <2>1, ByteTaken
<1>10. \A i \in Visited(ptr, end) :
          /\ i \in Nat /\ Taken(ptr, end, i) \in Int /\ Taken(ptr, end, i) <= blocksz
          /\ Position(ptr, i) = i * blocksz - ptr /\ i * blocksz \in Int
  <2> SUFFICES ASSUME NEW i \in Visited(ptr, end)
               PROVE  /\ i \in Nat /\ Taken(ptr, end, i) \in Int /\ Taken(ptr, end, i) <= blocksz
                      /\ Position(ptr, i) = i * blocksz - ptr /\ i * blocksz \in Int
    OBVIOUS
  <2>1. i \in Nat
    BY <1>2, <1>4
  <2>2. (i - a) * blocksz = i * blocksz - a * blocksz /\ i * blocksz \in Int
    BY <1>1, <1>2, <2>1
  <2>3. Taken(ptr, end, i) \in Int /\ Taken(ptr, end, i) <= blocksz
    BY <1>1, <1>2, <1>5
  <2> QED BY <1>2, <2>1, <2>2, <2>3
<1>11. r \in Nat /\ q * blocksz \in Int
  BY <1>1, <1>3 DEF InBlock
<1>12. k - Position(ptr, q) = r
  <2> DEFINE b == q * blocksz
  <2>1. Position(ptr, q) = b - ptr /\ b \in Int /\ r \in Int /\ ptr \in Int /\ k \in Int
    BY <1>1, <1>9, <1>10, <1>11
  <2>2. ptr + k = b + r
    BY <1>3, <1>7
  <2> HIDE DEF b
  <2>3. k - (b - ptr) = r
    BY <2>1, <2>2
  <2> QED BY <2>1, <2>3
<1>13. q \in from
  BY <1>9, <1>10, <1>11, <1>12
<1>14. ASSUME NEW i \in from PROVE i = q
  <2> DEFINE s == k - Position(ptr, i)
  <2>1. i \in Visited(ptr, end) /\ s \in 0 .. Taken(ptr, end, i) - 1
    OBVIOUS
  <2>2. i \in Nat /\ s \in Nat /\ s < blocksz
    BY <1>1, <1>10, <2>1
  <2>3. x = i * blocksz + s
    BY <1>1, <1>7, <1>10, <2>1
  <2> HIDE DEF s
  <2>4. (i * blocksz + s) \div blocksz = i
    BY <2>2, PlaceOf
  <2> QED BY <2>3, <2>4 DEF q
<1>15. from = {q}
  BY <1>13, <1>14
<1> HIDE DEF from
<1>16. Fetched(fd, n, k) = {disk[oft[fd].in.blocks[q]][From(ptr, q) + (k - Position(ptr, q))]}
  BY <1>6, <1>15
<1>17. From(ptr, q) + (k - Position(ptr, q)) = r
  BY <1>2, <1>9, <1>11, <1>12
<1>18. Fetched(fd, n, k) = {disk[oft[fd].in.blocks[q]][r]}
  BY <1>16, <1>17
<1> QED BY <1>3, <1>7, <1>8, <1>18 DEF ptr

LEMMA InvReadsBack == RInv => ReadsBack
<1> SUFFICES ASSUME RInv, NEW fd \in Fd, NEW n \in 1 .. blocksz * INODEBLOCKS,
                    IsOpen(fd), Unused(fd), written[fd].supported,
                    {BlockOf(own) : own \in Owned(fd)} \cap doubtful = {},
                    Bounded(oft[fd].fileptr, ReadEnd(fd, n))
             PROVE  /\ Len(written[fd].bytes) <= oft[fd].in.size
                    /\ \A k \in 0 .. ReadEnd(fd, n) - oft[fd].fileptr - 1 :
                          oft[fd].fileptr + k < Len(written[fd].bytes) =>
                              Fetched(fd, n, k) = {written[fd].bytes[oft[fd].fileptr + k + 1]}
  BY Zenon DEF ReadsBack
<1> DEFINE ptr == oft[fd].fileptr
           end == ReadEnd(fd, n)
           bytes == written[fd].bytes
<1>1. Holds(oft[fd], disk, bytes)
  <2>1. \A p \in Proc : pc[p] = "data" => local[p].fd # fd
    BY DEF Unused
  <2>2. Content(oft[fd], written[fd], disk, doubtful)
    BY <2>1 DEF RInv, ContentInv
  <2>3. \A i \in 0 .. LastBlock(oft[fd].in.size) :
           <<fd, i>> \in Owned(fd) /\ BlockOf(<<fd, i>>) = oft[fd].in.blocks[i]
    BY DEF Owned, BlockOf
  <2>4. NoneIn(oft[fd].in.blocks, LastBlock(oft[fd].in.size), doubtful)
    BY <2>3 DEF NoneIn
  <2> QED BY <2>2, <2>4 DEF Content
<1>2. ptr \in Nat /\ oft[fd].in.size \in Nat /\ n \in Nat
  BY EntryTypes DEF RInv
<1>3. end \in Nat /\ end <= oft[fd].in.size
  BY <1>2 DEF ReadEnd
<1>4. oft[fd].in.size = Len(bytes)
  BY DEF RInv, HistoryType
<1>5. ASSUME NEW k \in 0 .. end - ptr - 1
      PROVE  Fetched(fd, n, k) = {bytes[ptr + k + 1]}
  <2>1. k \in Nat /\ ptr + k < end
    BY <1>2, <1>3
  <2>2. PICK q \in Nat, r \in InBlock : Byte(q, r) = ptr + k
                                        /\ Fetched(fd, n, k) = {disk[oft[fd].in.blocks[q]][r]}
    BY <1>2, <1>3, <2>1, FetchedOnce
  <2>3. Byte(q, r) < Len(bytes)
    BY <1>2, <1>3, <1>4, <2>1, <2>2
  <2> QED BY <1>1, <2>2, <2>3 DEF Holds
<1> QED BY <1>2, <1>4, <1>5

-----------------------------------------------------------------------------
(* The inductive invariant of system/fs.c, for any number of processes in  *)
(* fs_write at once, interrupted anywhere, each with a descriptor of its   *)
(* own (and one at a time in fs_open or fs_create): but for the blocks in  *)
(* doubt, the table of open files, the copies of inodes the writers work   *)
(* on and the bitmap agree on who has which block; a descriptor that was   *)
(* only written to in the ways fs_write supports has, byte by byte, what   *)
(* was written, and one that is being written to has it as far as the      *)
(* write has got.                                                          *)
THEOREM RamInvariant == Spec => []RInv
<1>1. Init => RInv
  BY RamInit
<1>2. RInv /\ [Next]_rvars => RInv'
  BY RamStep
<1> QED BY <1>1, <1>2, PTL DEF Spec

(* Writes of several processes, each through a descriptor of its own,      *)
(* overlap in the search for blocks and in the bitmap (system/fs.c:578 to  *)
(* 591): the blocks two of them may have come to share, or that may be     *)
(* given away again, are those found by two searches at the same time and  *)
(* those whose bit a store took back - no others.                          *)
THEOREM BlocksOwnedOnce == Spec => []BlocksOwned
<1>1. RInv => BlocksOwned
  BY InvOwned
<1> QED BY <1>1, RamInvariant, PTL

(* fs_read finds what fs_write stored through the same descriptor, for     *)
(* every block size, while other processes write through theirs: the two   *)
(* copies of the arithmetic, system/fs.c:501 and 603, agree.  It is about  *)
(* the supported calls, and descriptors none of whose blocks is in doubt.  *)
THEOREM WrittenReadsBack == Spec => []ReadsBack
<1>1. RInv => ReadsBack
  BY InvReadsBack
<1> QED BY <1>1, RamInvariant, PTL
==============================================================================
