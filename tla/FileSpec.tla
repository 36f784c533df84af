------------------------------- MODULE FileSpec -------------------------------
(***************************************************************************)
(* What a file system promises: a file is a sequence of bytes, a device    *)
(* stands for one open file and a position in it, and the disk is full     *)
(* only when the files on it take all of it.                               *)
(***************************************************************************)
EXTENDS Integers, Sequences, FiniteSets, FiniteSetsExt

CONSTANTS
    Name, Device,
    Data(_, _),     \* the bytes written at a position of a file
    Offset, Count,  \* the offsets of seeks, the sizes of reads
    MaxFiles,       \* entries of the directory
    BlockSize, BlocksPerIndex, IndexBlocks, DataBlocks,
    NoFile, EOF, NONE

VARIABLES
    content,    \* the bytes of each file, or NoFile
    opened,     \* for each device: nothing, or a file and a position in it
    stopped,    \* the system has panicked, the disk being full
    got         \* what a read has returned, in the step in which it does

fsvars == <<content, opened, stopped, got>>

Files == {n \in Name : content[n] # NoFile}
IsOpen(d) == opened[d] # <<>>
NameOf(d) == opened[d][1]
Pos(d) == opened[d][2]
OpenAnywhere(n) == \E d \in Device : IsOpen(d) /\ NameOf(d) = n

CeilDiv(a, b) == (a + b - 1) \div b
DataUsed == MapThenSumSet(LAMBDA n : CeilDiv(Len(content[n]), BlockSize), Files)
IndexUsed == MapThenSumSet(
    LAMBDA n : CeilDiv(Len(content[n]), BlockSize * BlocksPerIndex), Files)

(* Is there room for a byte at the end of a file of this length? *)
RoomFor(len) ==
    /\ len % BlockSize = 0 => DataUsed < DataBlocks
    /\ len % (BlockSize * BlocksPerIndex) = 0 => IndexUsed < IndexBlocks

Put(s, pos, b) == IF pos < Len(s) THEN [s EXCEPT ![pos + 1] = b] ELSE Append(s, b)
Bytes(s, pos, count) == SubSeq(s, pos + 1, Min({pos + count, Len(s)}))

Init == /\ content = [n \in Name |-> NoFile]
        /\ opened = [d \in Device |-> <<>>]
        /\ stopped = FALSE
        /\ got = NONE

Open(n, d) ==
    /\ ~IsOpen(d) /\ ~OpenAnywhere(n)
    /\ n \notin Files => Cardinality(Files) < MaxFiles
    /\ opened' = [opened EXCEPT ![d] = <<n, 0>>]
    /\ content' = [content EXCEPT ![n] = IF n \in Files THEN @ ELSE <<>>]
    /\ UNCHANGED stopped

PutByte(d, b) ==
    /\ IsOpen(d)
    /\ opened' = [opened EXCEPT ![d][2] = @ + 1]
    /\ content' = [content EXCEPT ![NameOf(d)] = Put(@, Pos(d), b)]
    /\ Pos(d) = Len(content[NameOf(d)]) => RoomFor(Pos(d))
    /\ UNCHANGED stopped

DiskFull(d) ==
    /\ stopped' = TRUE
    /\ IsOpen(d)
    /\ Pos(d) = Len(content[NameOf(d)]) /\ ~RoomFor(Pos(d))
    /\ UNCHANGED <<content, opened>>

Read(d, count) ==
    LET bytes == Bytes(content[NameOf(d)], Pos(d), count) IN
    /\ IsOpen(d)
    /\ got' = IF bytes = <<>> THEN EOF ELSE bytes
    /\ opened' = [opened EXCEPT ![d][2] = @ + Len(bytes)]
    /\ UNCHANGED <<content, stopped>>

Seek(d, pos) ==
    /\ IsOpen(d) /\ pos <= Len(content[NameOf(d)])
    /\ opened' = [opened EXCEPT ![d][2] = pos]
    /\ UNCHANGED <<content, stopped>>

Truncate(d) ==
    /\ IsOpen(d)
    /\ opened' = [opened EXCEPT ![d][2] = 0]
    /\ content' = [content EXCEPT ![NameOf(d)] = <<>>]
    /\ UNCHANGED stopped

Close(d) == /\ IsOpen(d)
            /\ opened' = [opened EXCEPT ![d] = <<>>]
            /\ UNCHANGED <<content, stopped>>

Next == \/ \E d \in Device, count \in Count : Read(d, count)
        \/ /\ got' = NONE
           /\ \E d \in Device : \/ \E n \in Name : Open(n, d)
                                \/ IsOpen(d) /\ \E b \in Data(NameOf(d), Pos(d)) : PutByte(d, b)
                                \/ IsOpen(d) /\ \E pos \in Offset : Seek(d, pos)
                                \/ DiskFull(d) \/ Truncate(d) \/ Close(d)

Spec == Init /\ [][Next]_fsvars
=============================================================================
