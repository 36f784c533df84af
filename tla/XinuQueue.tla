------------------------------ MODULE XinuQueue ------------------------------
(***************************************************************************)
(* The queue operations of system/queue.c, getitem.c, insert.c, insertd.c  *)
(* and unsleep.c, on queues seen as sequences of process ids.              *)
(*                                                                         *)
(* queuetab gives every process one node with one key, so the keys are a   *)
(* function k from process ids kept apart from the sequences: a process is *)
(* on at most one queue, and moving it to another overwrites its key.      *)
(***************************************************************************)
EXTENDS Integers, SequencesExt

(* Queue q holds exactly the processes of S, each once. *)
OnQueue(q, S) == IsInjective(q) /\ ToSet(q) = S

(* Index of p in queue q. *)
PosOf(q, p) == CHOOSE i \in DOMAIN q : q[i] = p

(* enqueue: link p in just before the tail node. *)
Enqueue(q, p) == Append(q, p)

(* getitem: unlink p from wherever it is. *)
GetItem(q, p) == RemoveAt(q, PosOf(q, p))

(* insert: walk past every node whose key is >= key; the tail's MINKEY     *)
(* stops the walk at the end.                                              *)
InsertPos_Tail(q, k, key) == Len(q) + 1     \* mutant: first come, first served

InsertPos(q, k, key) ==
    Min({i \in 1 .. Len(q) + 1 : i = Len(q) + 1 \/ k[q[i]] < key})

Insert(q, k, p, key) == InsertAt(q, InsertPos(q, k, key), p)

(* Sum of the first n deltas of a delta list. *)
DeltaSum(q, k) ==
    LET sum[n \in 0 .. Len(q)] == IF n = 0 THEN 0 ELSE sum[n-1] + k[q[n]]
    IN  sum

(* insertd: walk on while the next delta is <= what is left of the delay,  *)
(* subtracting it; the walk has then used up the sum of the deltas passed. *)
InsertdPos(q, k, delay) ==
    Min({i \in 1 .. Len(q) + 1 :
            i = Len(q) + 1 \/ k[q[i]] > delay - DeltaSum(q, k)[i-1]})

Insertd(q, k, p, delay) == InsertAt(q, InsertdPos(q, k, delay), p)

(* The keys after insertd: p gets what is left of its delay, which its new *)
(* successor loses.                                                        *)
InsertdKeys(q, k, p, delay) ==
    LET pos  == InsertdPos(q, k, delay)
        left == delay - DeltaSum(q, k)[pos - 1]
    IN  [x \in DOMAIN k |->
            IF x = p THEN left
            ELSE IF pos <= Len(q) /\ x = q[pos] THEN k[x] - left
            ELSE k[x]]

(* The keys after unsleep: the successor of p takes over its delta. *)
UnsleepKeys_Drop(q, k, p) == k              \* mutant: the delta is lost

UnsleepKeys(q, k, p) ==
    LET i == PosOf(q, p)
    IN  IF i = Len(q) THEN k ELSE [k EXCEPT ![q[i+1]] = @ + k[p]]
==============================================================================
