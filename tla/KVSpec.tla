-------------------------------- MODULE KVSpec --------------------------------
(***************************************************************************)
(* What the key-value store promises: a map, in front of which is a cache  *)
(* of at most Size keys that gives up the least recently used one.  When   *)
(* it does so is left open.                                                *)
(***************************************************************************)
EXTENDS Naturals, SequencesExt

CONSTANTS Key, Val, Size,
          None,     \* the value of a key that is not stored
          Lost      \* the value of a key after a set that ran out of memory

VARIABLES store,    \* the value of each key
          recency,  \* the cached keys, the least recently used one first
          got       \* what a get has returned

Without(k) == RemoveFirst(recency, k)       \* it is there once at most
Cached(k) == k \in ToSet(recency)

KVInit == /\ store = [k \in Key |-> None]
          /\ recency = <<>>
          /\ got = None

(* A key that is used becomes the most recently used one. *)
Touch(k) == recency' = IF Cached(k) THEN Append(Without(k), k) ELSE recency

Enter(k) == \/ Len(recency) < Size /\ recency' = Append(recency, k)
            \/ recency # <<>> /\ recency' = Append(Tail(recency), k)

Put(k, v) ==
    /\ v = Lost => store[k] # None
    /\ store' = [store EXCEPT ![k] = v]
    /\ IF Cached(k) THEN Touch(k) ELSE Enter(k)
    /\ got' = None

Fetch(k) == got' = store[k] /\ Touch(k) /\ UNCHANGED store

Discard(k) ==
    /\ store' = [store EXCEPT ![k] = None]
    /\ recency' = Without(k)
    /\ got' = None

(* An intermediate step of a clear, and of an operation that fails. *)
Idle == got' = None /\ UNCHANGED <<store, recency>>

Clear == store' = [k \in Key |-> None] /\ recency' = <<>> /\ got' = None

KVNext == \/ \E k \in Key : Fetch(k) \/ Discard(k) \/ \E v \in Val \cup {Lost} : Put(k, v)
          \/ Clear \/ Idle

LRUMap == KVInit /\ [][KVNext]_<<store, recency, got>>
=============================================================================
