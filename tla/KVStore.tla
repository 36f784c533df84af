------------------------------- MODULE KVStore -------------------------------
(***************************************************************************)
(* The key-value store of system/kv_store.c: a hash table of values, and a *)
(* cache of the LRU_CACHE_SIZE keys used last.  The cache is a singly      *)
(* linked list from a dummy head to the most recently used entry; a second *)
(* hash table finds the predecessor of a key's entry.                      *)
(*                                                                         *)
(* Each hash table is a function of the key: collisions only lengthen the  *)
(* chains that are searched.  Keys are not empty.  The list is modelled    *)
(* pointer by pointer, because a pointer that is not updated is what can   *)
(* go wrong.  The totals of get_cache_info, which nothing reads, are left  *)
(* out.  The store is used by one process at a time.                       *)
(***************************************************************************)
EXTENDS Integers, SequencesExt

CONSTANTS
    Key, Val,       \* keys and values
    NULL,           \* no key, no value
    Freed,          \* a pointer to a value that has been freed
    LRU_CACHE_SIZE  \* entries the cache can have

ASSUME SizeAssumption == LRU_CACHE_SIZE \in Nat \ {0}
ASSUME ValueAssumption == NULL \notin Key \cup Val /\ Freed \notin Val /\ NULL # Freed

(* createLRUEntry is called LRU_CACHE_SIZE times at most. *)
HEAD == 0
Entry == 1 .. LRU_CACHE_SIZE
NIL == -1       \* the NULL pointer
WILD == -2      \* what getmem leaves in memory that nobody has written

VARIABLES
    kv,         \* kvHashTab: the value of each key
    prev,       \* lruHashTab: the predecessor of the key's entry
    next, ekey, eval,   \* LRUEntry_t
    tailLRU,
    counterLRU,
    phase,      \* "open", "resetting" or "closed"
    walk,       \* headLRU in the loop of kv_reset
    fault,      \* a bad pointer was followed, or a value freed twice
    got         \* what kv_get has returned, in the step in which it does

kvars == <<kv, prev, next, ekey, eval, tailLRU, counterLRU, phase, walk, fault, got>>

(* The list and its index, as the operations below pass it on. *)
List(nx, index, key, tail) ==
    [next |-> nx, prev |-> index, key |-> key, tail |-> tail, ok |-> TRUE]
list == List(next, prev, ekey, tailLRU)

Valid(e) == e \in Entry
Indexed(l, e) == Valid(e) /\ l.prev[l.key[e]] # NIL

(* setLRUHashTab and delLRUHashTab *)
SetLRUHashTab(index, k, p) == [index EXCEPT ![k] = p]
DelLRUHashTab(index, k) == [index EXCEPT ![k] = NIL]

(* setKVHashTab and delKVHashTab *)
SetKVHashTab(k, v) == [kv EXCEPT ![k] = v]
DelKVHashTab(k) == [kv EXCEPT ![k] = NULL]

(***************************************************************************)
(* movLRUCache(p): the entry behind p becomes the tail.                    *)
(***************************************************************************)
(* Mutant: the moved entry's successor keeps its old predecessor. *)
MovLRUCache_StaleSucc(l, p) ==
    LET curr == l.next[p]
        next1 == [l.next EXCEPT ![p] = l.next[curr]]
        next2 == [next1 EXCEPT ![l.tail] = curr]
    IN  IF curr = l.tail THEN l
        ELSE IF Indexed(l, curr) /\ Indexed(l, next2[p])
        THEN [l EXCEPT !.next = next2, !.prev[l.key[curr]] = l.tail, !.tail = curr]
        ELSE [l EXCEPT !.ok = FALSE]

MovLRUCache(l, p) ==
    LET curr == l.next[p]
        next1 == [l.next EXCEPT ![p] = l.next[curr]]
        next2 == [next1 EXCEPT ![l.tail] = curr]
        succ == next2[p]
        prev1 == [l.prev EXCEPT ![l.key[succ]] = p]
        prev2 == [prev1 EXCEPT ![l.key[curr]] = l.tail]
    IN  IF curr = l.tail THEN l
        ELSE IF Indexed(l, curr) /\ Indexed(l, succ)
        THEN List(next2, prev2, l.key, curr)
        ELSE [l EXCEPT !.ok = FALSE]

(* getLRUCache: a hit moves the entry to the tail. *)
Hit(k) == prev[k] # NIL
GetLRUCache(k) == IF Hit(k) THEN MovLRUCache(list, prev[k]) ELSE list

(* setLRUCache of a key that is not cached: a new entry at the tail, or,   *)
(* with counterLRU at its limit, the first entry with another key.         *)
NewLRUEntry(k) ==
    LET e == counterLRU + 1
    IN  List([next EXCEPT ![tailLRU] = e, ![e] = NIL], SetLRUHashTab(prev, k, tailLRU),
             [ekey EXCEPT ![e] = k], e)

(* Mutant: the entry with the new key stays at the head. *)
EvictLRUEntry_NoMove(k) ==
    LET first == next[HEAD]
    IN  IF Valid(first)
        THEN [list EXCEPT !.prev = SetLRUHashTab(DelLRUHashTab(@, ekey[first]), k, HEAD),
                          !.key[first] = k]
        ELSE [list EXCEPT !.ok = FALSE]

EvictLRUEntry(k) ==
    LET first == next[HEAD]
    IN  IF Valid(first)
        THEN MovLRUCache(
                 List(next, SetLRUHashTab(DelLRUHashTab(prev, ekey[first]), k, HEAD),
                      [ekey EXCEPT ![first] = k], tailLRU),
                 HEAD)
        ELSE [list EXCEPT !.ok = FALSE]

SetLRUCache(k) ==
    IF Hit(k) THEN GetLRUCache(k)
    ELSE IF counterLRU < LRU_CACHE_SIZE THEN NewLRUEntry(k)
    ELSE EvictLRUEntry(k)

(* delLRUCache; counterLRU stays as it is. *)
DelLRUCache(k) ==
    LET p == prev[k]
        curr == next[p]
        succ == next[curr]
        index == DelLRUHashTab(prev, k)
        unlinked == [next EXCEPT ![p] = succ]
    IN  IF ~Hit(k) THEN list
        ELSE IF curr = tailLRU THEN List(unlinked, index, ekey, p)
        ELSE IF Indexed(list, succ)
        THEN List(unlinked, SetLRUHashTab(index, ekey[succ], p), ekey, tailLRU)
        ELSE [list EXCEPT !.ok = FALSE]

(***************************************************************************)
(* kv_init, kv_set, kv_get, kv_delete, kv_reset.  A fault ends the run of  *)
(* the model: what the program does then is unknown.                       *)
(***************************************************************************)
Fault == fault' = TRUE /\ UNCHANGED <<kv, prev, next, ekey, eval, tailLRU, counterLRU,
                                      phase, walk, got>>

Use(l) == /\ next' = l.next
          /\ prev' = l.prev
          /\ ekey' = l.key
          /\ tailLRU' = l.tail

Called == phase = "open" /\ ~fault

(* The value that setLRUCache stores in the entry of the key. *)
CachedValue(k, v) == v

(* v is the value that kvNode points to afterwards. *)
KvStore(k, v) ==
    LET l == SetLRUCache(k)
    IN  IF l.ok
        THEN /\ Use(l)
             /\ kv' = SetKVHashTab(k, v)
             /\ eval' = [eval EXCEPT ![l.tail] = CachedValue(k, v)]
             /\ counterLRU' = IF Hit(k) \/ counterLRU = LRU_CACHE_SIZE
                              THEN counterLRU ELSE counterLRU + 1
             /\ got' = NULL
             /\ UNCHANGED <<phase, walk, fault>>
        ELSE Fault

KvSet(k, v) == /\ Called
               /\ IF kv[k] = Freed THEN Fault ELSE KvStore(k, v)

(* xmalloc returns NULL.  The old value has been freed by then; without an *)
(* old value there is no node, and kv_set follows the NULL pointer.        *)
KvSetNoMemory(k) ==
    /\ Called
    /\ IF kv[k] \in Val THEN KvStore(k, Freed) ELSE Fault

KvGet(k) ==
    LET l == GetLRUCache(k)
    IN  /\ Called
        /\ IF l.ok
           THEN /\ Use(l)
                /\ got' = IF Hit(k) THEN eval[l.tail] ELSE kv[k]
                /\ UNCHANGED <<kv, eval, counterLRU, phase, walk, fault>>
           ELSE Fault

KvDelete(k) ==
    LET l == DelLRUCache(k)
    IN  /\ Called
        /\ IF l.ok /\ kv[k] # Freed
           THEN /\ Use(l)
                /\ kv' = DelKVHashTab(k)
                /\ got' = NULL
                /\ UNCHANGED <<eval, counterLRU, phase, walk, fault>>
           ELSE Fault

KvReset ==
    /\ Called
    /\ phase' = "resetting"
    /\ counterLRU' = 0
    /\ walk' = HEAD
    /\ got' = NULL
    /\ UNCHANGED <<kv, prev, next, ekey, eval, tailLRU, fault>>

(* while (headLRU != NULL) headLRU = headLRU->next *)
KvResetLoop ==
    /\ phase = "resetting" /\ ~fault
    /\ walk # NIL
    /\ IF walk = WILD THEN Fault
       ELSE /\ walk' = next[walk]
            /\ UNCHANGED <<kv, prev, next, ekey, eval, tailLRU, counterLRU, phase,
                           fault, got>>

Emptied(st) ==
    /\ phase' = st
    /\ kv' = [k \in Key |-> NULL]
    /\ prev' = [k \in Key |-> NIL]
    /\ tailLRU' = HEAD
    /\ walk' = NIL

(* Every value of the table is freed, also one that kv_set freed before. *)
KvResetEnd ==
    /\ phase = "resetting" /\ ~fault
    /\ walk = NIL
    /\ IF \E k \in Key : kv[k] = Freed THEN Fault
       ELSE Emptied("closed") /\ UNCHANGED <<next, ekey, eval, counterLRU, fault, got>>

KvInit ==
    /\ phase = "closed"
    /\ Emptied("open")
    /\ next' = [next EXCEPT ![HEAD] = WILD]
    /\ counterLRU' = 0
    /\ UNCHANGED <<ekey, eval, fault, got>>

Stopped == fault /\ UNCHANGED kvars

Init ==
    /\ phase = "open"
    /\ kv = [k \in Key |-> NULL]
    /\ prev = [k \in Key |-> NIL]
    /\ next = [e \in Entry \cup {HEAD} |-> WILD]
    /\ ekey = [e \in Entry |-> NULL]
    /\ eval = [e \in Entry |-> NULL]
    /\ tailLRU = HEAD
    /\ counterLRU = 0
    /\ walk = NIL
    /\ fault = FALSE
    /\ got = NULL

Resetting == KvResetLoop \/ KvResetEnd

Next ==
    \/ \E k \in Key : KvGet(k) \/ KvDelete(k) \/ KvSetNoMemory(k)
    \/ \E k \in Key, v \in Val : KvSet(k, v)
    \/ KvReset \/ Resetting \/ KvInit \/ Stopped

Spec == Init /\ [][Next]_kvars

-----------------------------------------------------------------------------
(* The entries in the order of the list, and what they stand for. *)
At[i \in 0 .. LRU_CACHE_SIZE] ==
    IF i = 0 THEN HEAD
    ELSE LET e == At[i - 1] IN IF e \in {tailLRU, NIL} THEN NIL ELSE next[e]

Listed == {i \in Entry : At[i] # NIL}
Recency == [i \in 1 .. Cardinality(Listed) |-> ekey[At[i]]]

(* The store is a map with a cache that gives up the least recently used   *)
(* key, through hits, evictions, deletions and sets that run out of        *)
(* memory: kv_get returns the value that was set last wherever it finds    *)
(* it, and moves the key to the end of the list.                           *)
Map == INSTANCE KVSpec WITH
    Size <- LRU_CACHE_SIZE, None <- NULL, Lost <- Freed,
    store <- kv, recency <- Recency, got <- got

Implements == Map!LRUMap

(* The index finds every cached key behind the predecessor it names, and   *)
(* each entry on the list is found in this way: a predecessor that moved   *)
(* away would make the next hit move the entry of another key.             *)
PrevPointers ==
    phase = "open" =>
        /\ \A i \in Listed : prev[ekey[At[i]]] = At[i - 1]
        /\ \A k \in Key : Hit(k) => \E i \in Listed : ekey[At[i]] = k

=============================================================================
