----------------------------- MODULE KVStoreProofs -----------------------------
(***************************************************************************)
(* The key-value store, for every set of keys and values and every size of *)
(* the cache: the list, its index and its tail agree, and the store is a   *)
(* map in front of which is a cache in the order of use.                   *)
(***************************************************************************)
EXTENDS KVStore, FiniteSetTheorems, SequenceTheorems, WellFoundedInduction, TLAPS

Cell == Entry \cup {HEAD}
Stored == Val \cup {NULL, Freed}

(* A set of natural numbers that is not empty has a least element. *)
LEMMA LeastOf ==
    ASSUME NEW T \in SUBSET Nat, T # {}
    PROVE  \E x \in T : \A y \in T : x <= y
<1> DEFINE R == {ss \in Nat \X Nat : ss[1] < ss[2]}
<1>1. IsWellFoundedOn(R, Nat)
  BY NatLessThanWellFounded DEF OpToRel
<1>2. \A x, y \in Nat : <<y, x>> \in R <=> y < x
  OBVIOUS
<1> HIDE DEF R
<1>3. PICK x \in T : \A y \in T : ~(<<y, x>> \in R)
  BY <1>1, WFMin
<1>4. ASSUME NEW y \in T PROVE x <= y
  <2>1. x \in Nat /\ y \in Nat
    OBVIOUS
  <2>2. ~(y < x)
    BY <1>2, <1>3, <2>1
  <2> QED BY <2>1, <2>2
<1> QED BY <1>4

-----------------------------------------------------------------------------
(***************************************************************************)
(* The list.                                                               *)
(***************************************************************************)
ListType(l) ==
    /\ l.next \in [Cell -> Cell \cup {NIL, WILD}] /\ l.prev \in [Key -> Cell \cup {NIL}]
    /\ l.key \in [Entry -> Key \cup {NULL}] /\ l.tail \in Cell /\ l.ok

(* The entry before the i-th of the entries s, the dummy head included. *)
Before(s, i) == IF i = 1 THEN HEAD ELSE s[i - 1]
LastOf(s) == Before(s, Len(s) + 1)

(* The list l is s: pointers, tail and index say so. *)
Chained(s, l) ==
    /\ s \in Seq(Entry)
    /\ \A i, j \in 1 .. Len(s) : s[i] = s[j] => i = j
    /\ ListType(l)
    /\ l.tail = LastOf(s)
    /\ \A i \in 1 .. Len(s) : /\ l.next[Before(s, i)] = s[i]
                              /\ l.key[s[i]] \in Key
                              /\ l.prev[l.key[s[i]]] = Before(s, i)
    /\ \A k \in Key : l.prev[k] # NIL => \E i \in 1 .. Len(s) : l.key[s[i]] = k

(* Each entry has a predecessor and a key of its own. *)
LEMMA OneBefore ==
    ASSUME NEW s \in Seq(Entry), \A i, j \in 1 .. Len(s) : s[i] = s[j] => i = j
    PROVE  /\ Len(s) \in Nat
           /\ \A i \in 1 .. Len(s) : s[i] \in Entry /\ s[i] # HEAD /\ s[i] \in Int
           /\ \A i \in 1 .. Len(s) + 1 : Before(s, i) \in Cell
           /\ \A i, j \in 1 .. Len(s) + 1 : Before(s, i) = Before(s, j) => i = j
           /\ \A i \in 1 .. Len(s), j \in 1 .. Len(s) + 1 : s[i] = Before(s, j) <=> j = i + 1
<1>1. Len(s) \in Nat /\ \A i \in 1 .. Len(s) : s[i] \in Entry /\ s[i] # HEAD /\ s[i] \in Int
  BY SizeAssumption DEF Entry, HEAD
<1>2. \A i \in 1 .. Len(s) + 1 : i = 1 \/ i - 1 \in 1 .. Len(s)
  BY <1>1
<1>3. \A i \in 1 .. Len(s) + 1 : Before(s, i) \in Cell
  BY <1>1, <1>2 DEF Before, Cell
<1>4. \A i, j \in 1 .. Len(s) + 1 : Before(s, i) = Before(s, j) => i = j
  BY <1>1, <1>2 DEF Before
<1>5. \A i \in 1 .. Len(s), j \in 1 .. Len(s) + 1 : s[i] = Before(s, j) <=> j = i + 1
  BY <1>1, <1>2 DEF Before
<1> QED BY <1>1, <1>3, <1>4, <1>5

LEMMA OneKey ==
    ASSUME NEW s, NEW l, Chained(s, l)
    PROVE  \A i, j \in 1 .. Len(s) : l.key[s[i]] = l.key[s[j]] => i = j
<1>1. \A i, j \in 1 .. Len(s) + 1 : Before(s, i) = Before(s, j) => i = j
  BY OneBefore DEF Chained
<1>2. Len(s) \in Nat
  BY DEF Chained
<1> QED BY <1>1, <1>2 DEF Chained

(* The entries after the i-th has become the last. *)
Moved(s, i) ==
    [j \in 1 .. Len(s) |-> IF j < i THEN s[j] ELSE IF j < Len(s) THEN s[j + 1] ELSE s[i]]

LEMMA MovedShape ==
    ASSUME NEW s \in Seq(Entry), \A i, j \in 1 .. Len(s) : s[i] = s[j] => i = j,
           NEW i \in 1 .. Len(s)
    PROVE  LET t == Moved(s, i)
           IN  /\ t \in Seq(Entry) /\ Len(t) = Len(s)
               /\ \A a, b \in 1 .. Len(s) : t[a] = t[b] => a = b
               /\ \A j \in 1 .. Len(s) :
                     t[j] = IF j < i THEN s[j] ELSE IF j < Len(s) THEN s[j + 1] ELSE s[i]
               /\ \A j \in 1 .. Len(s) + 1 :
                     Before(t, j) = IF j <= i THEN Before(s, j)
                                    ELSE IF j <= Len(s) THEN s[j] ELSE s[i]
<1> DEFINE n == Len(s)
           t == Moved(s, i)
<1>1. n \in Nat /\ i \in 1 .. n /\ \A j \in 1 .. n : s[j] \in Entry
  OBVIOUS
<1>2. \A a, b \in 1 .. n : s[a] = s[b] => a = b
  OBVIOUS
<1>3. t = [j \in 1 .. n |-> IF j < i THEN s[j] ELSE IF j < n THEN s[j + 1] ELSE s[i]]
  BY DEF Moved
<1> HIDE DEF n, t
<1>4. \A j \in 1 .. n : t[j] = IF j < i THEN s[j] ELSE IF j < n THEN s[j + 1] ELSE s[i]
  BY <1>3
<1>5. t \in Seq(Entry) /\ Len(t) = n
  <2>1. \A j \in 1 .. n : j < n => j + 1 \in 1 .. n
    BY <1>1
  <2>2. \A j \in 1 .. n : t[j] \in Entry
    BY <1>1, <1>4, <2>1
  <2>3. DOMAIN t = 1 .. n /\ t = [j \in 1 .. n |-> t[j]]
    BY <1>3
  <2>4. t \in [1 .. n -> Entry]
    BY <2>2, <2>3
  <2> QED BY <1>1, <2>4
<1>6. ASSUME NEW a \in 1 .. n, NEW b \in 1 .. n, t[a] = t[b] PROVE a = b
  <2> DEFINE f(x) == IF x < i THEN x ELSE IF x < n THEN x + 1 ELSE i
  <2>1. f(a) \in 1 .. n /\ f(b) \in 1 .. n /\ t[a] = s[f(a)] /\ t[b] = s[f(b)]
    BY <1>1, <1>4
  <2>2. f(a) = f(b)
    BY <1>2, <1>6, <2>1
  <2> QED BY <1>1, <2>2
<1>7. ASSUME NEW j \in 1 .. n + 1
      PROVE  Before(t, j) = IF j <= i THEN Before(s, j) ELSE IF j <= n THEN s[j] ELSE s[i]
  <2>1. j # 1 => j - 1 \in 1 .. n /\ (j - 1) + 1 = j
    BY <1>1
  <2> QED BY <1>1, <1>4, <2>1 DEF Before
<1> QED BY <1>4, <1>5, <1>6, <1>7 DEF n, t

(* movLRUCache moves the entry behind p to the tail, and that is all. *)
LEMMA MovesToTail ==
    ASSUME NEW s, NEW l, Chained(s, l), NEW i \in 1 .. Len(s)
    PROVE  LET m == MovLRUCache(l, Before(s, i))
           IN  Chained(Moved(s, i), m) /\ m.key = l.key
<1> DEFINE n == Len(s)
           p == Before(s, i)
           t == Moved(s, i)
           m == MovLRUCache(l, p)
<1>1. /\ s \in Seq(Entry) /\ n \in Nat /\ i \in 1 .. n
      /\ \A a, b \in 1 .. n : s[a] = s[b] => a = b
      /\ \A a \in 1 .. n : s[a] \in Entry /\ s[a] # HEAD
      /\ \A a \in 1 .. n + 1 : Before(s, a) \in Cell
      /\ \A a, b \in 1 .. n + 1 : Before(s, a) = Before(s, b) => a = b
      /\ \A a \in 1 .. n, b \in 1 .. n + 1 : s[a] = Before(s, b) <=> b = a + 1
  BY OneBefore DEF Chained
<1>2. /\ ListType(l) /\ l.tail = Before(s, n + 1)
      /\ \A a \in 1 .. n : /\ l.next[Before(s, a)] = s[a] /\ l.key[s[a]] \in Key
                           /\ l.prev[l.key[s[a]]] = Before(s, a)
      /\ \A k \in Key : l.prev[k] # NIL => \E a \in 1 .. n : l.key[s[a]] = k
  BY DEF Chained, LastOf
<1>3. \A a, b \in 1 .. n : l.key[s[a]] = l.key[s[b]] => a = b
  BY OneKey
<1>4. /\ t \in Seq(Entry) /\ Len(t) = n
      /\ \A a, b \in 1 .. n : t[a] = t[b] => a = b
      /\ \A j \in 1 .. n : t[j] = IF j < i THEN s[j] ELSE IF j < n THEN s[j + 1] ELSE s[i]
      /\ \A j \in 1 .. n + 1 : Before(t, j) = IF j <= i THEN Before(s, j)
                                              ELSE IF j <= n THEN s[j] ELSE s[i]
  BY <1>1, MovedShape
<1> HIDE DEF n, t, p
<1>5. l.next[p] = s[i] /\ p \in Cell /\ p = Before(s, i)
  BY <1>1, <1>2 DEF p
<1>6. CASE i = n
  <2>1. l.tail = s[i]
    BY <1>1, <1>2, <1>6
  <2>2. m = l
    BY <1>5, <2>1 DEF MovLRUCache
  <2>3. t = s
    <3>1. \A j \in 1 .. n : t[j] = s[j]
      BY <1>1, <1>4, <1>6
    <3> QED BY <1>1, <1>4, <3>1 DEF n
  <2> QED BY <2>2, <2>3 DEF t, p
<1>7. CASE i < n
  <2>1. /\ i + 1 \in 1 .. n /\ n \in 1 .. n /\ n + 1 \in 1 .. n + 1 /\ i \in 1 .. n + 1
        /\ l.next[s[i]] = s[i + 1] /\ l.tail = s[n] /\ s[i] # s[n] /\ p # s[n]
    BY <1>1, <1>2, <1>5, <1>7
  <2> DEFINE nx == [[l.next EXCEPT ![p] = s[i + 1]] EXCEPT ![s[n]] = s[i]]
             pv == [[l.prev EXCEPT ![l.key[s[i + 1]]] = p] EXCEPT ![l.key[s[i]]] = s[n]]
  <2>2. nx[p] = s[i + 1]
    BY <1>1, <1>2, <1>5, <2>1 DEF ListType
  <2>3. \A a \in 1 .. n : l.key[s[a]] \in Key /\ l.prev[l.key[s[a]]] # NIL
    <3>1. \A a \in 1 .. n : a \in 1 .. n + 1
      BY <1>1
    <3>2. NIL \notin Cell
      BY SizeAssumption DEF NIL, Cell, Entry, HEAD
    <3> QED BY <1>1, <1>2, <3>1, <3>2
  <2>4. m = List(nx, pv, l.key, s[i])
    <3>1. Indexed(l, s[i]) /\ Indexed(l, s[i + 1])
      BY <1>1, <2>1, <2>3 DEF Indexed, Valid
    <3>2. l.next[p] = s[i] /\ l.next[s[i]] = s[i + 1] /\ l.tail = s[n] /\ s[i] # s[n]
      BY <1>5, <2>1
    <3> HIDE DEF nx, pv
    <3>3. nx = [[l.next EXCEPT ![p] = l.next[s[i]]] EXCEPT ![l.tail] = s[i]]
      BY <3>2 DEF nx
    <3>4. pv = [[l.prev EXCEPT ![l.key[nx[p]]] = p] EXCEPT ![l.key[s[i]]] = l.tail]
      BY <3>2, <2>2 DEF pv
    <3> QED BY <2>2, <3>1, <3>2, <3>3, <3>4 DEF MovLRUCache
  <2>5. m.next = nx /\ m.prev = pv /\ m.tail = s[i] /\ m.key = l.key /\ m.ok
    BY <2>4 DEF List
  <2>6. ListType(m)
    <3>1. nx \in [Cell -> Cell \cup {NIL, WILD}]
      BY <1>1, <1>2, <1>5, <2>1 DEF ListType, Cell
    <3>2. pv \in [Key -> Cell \cup {NIL}]
      BY <1>1, <1>2, <1>5, <2>1, <2>3 DEF ListType, Cell
    <3>3. s[i] \in Cell
      BY <1>1 DEF Cell
    <3> HIDE DEF nx, pv, m
    <3> QED BY <1>2, <2>5, <3>1, <3>2, <3>3 DEF ListType
  <2>7. m.tail = LastOf(t)
    BY <1>1, <1>4, <1>7, <2>5 DEF LastOf
  <2>8. ASSUME NEW j \in 1 .. n
        PROVE  /\ nx[Before(t, j)] = t[j] /\ l.key[t[j]] \in Key
               /\ pv[l.key[t[j]]] = Before(t, j)
    <3>0. j \in 1 .. n + 1 /\ l.next \in [Cell -> Cell \cup {NIL, WILD}]
          /\ l.prev \in [Key -> Cell \cup {NIL}] /\ Before(s, j) \in Cell /\ p \in Cell
      BY <1>1, <1>2, <1>5 DEF ListType
    <3>1. CASE j < i
      <4>1. t[j] = s[j] /\ Before(t, j) = Before(s, j)
        BY <1>1, <1>4, <3>0, <3>1
      <4>2. Before(s, j) # p /\ Before(s, j) # s[n]
        BY <1>1, <1>5, <2>1, <3>0, <3>1
      <4>3. l.key[s[j]] # l.key[s[i]] /\ l.key[s[j]] # l.key[s[i + 1]]
        BY <1>1, <1>3, <2>1, <3>1
      <4> QED BY <1>2, <3>0, <4>1, <4>2, <4>3
    <3>2. CASE j = i
      <4>1. t[j] = s[i + 1] /\ Before(t, j) = p
        BY <1>1, <1>4, <1>5, <1>7, <3>0, <3>2
      <4>2. l.key[s[i + 1]] # l.key[s[i]]
        BY <1>1, <1>3, <2>1
      <4> HIDE DEF nx
      <4> QED BY <2>1, <2>2, <2>3, <3>0, <4>1, <4>2
    <3>3. CASE i < j /\ j < n
      <4>1. t[j] = s[j + 1] /\ Before(t, j) = s[j] /\ j + 1 \in 1 .. n /\ s[j] \in Cell
            /\ s[j] = Before(s, j + 1)
        BY <1>1, <1>4, <3>0, <3>3 DEF Cell
      <4>2. s[j] # p /\ s[j] # s[n]
        BY <1>1, <1>5, <2>1, <3>3
      <4>3. l.key[s[j + 1]] # l.key[s[i]] /\ l.key[s[j + 1]] # l.key[s[i + 1]]
        BY <1>1, <1>3, <2>1, <3>3, <4>1
      <4> QED BY <1>2, <3>0, <4>1, <4>2, <4>3
    <3>4. CASE j = n
      <4>1. t[j] = s[i] /\ Before(t, j) = s[n] /\ s[n] \in Cell
        BY <1>1, <1>4, <1>7, <3>0, <3>4 DEF Cell
      <4>2. l.key[s[i]] \in Key
        BY <1>1, <1>2
      <4>3. nx[s[n]] = s[i] /\ pv[l.key[s[i]]] = s[n]
        BY <3>0, <4>1, <4>2
      <4> HIDE DEF nx, pv
      <4> QED BY <4>1, <4>2, <4>3
    <3> QED BY <1>1, <3>1, <3>2, <3>3, <3>4
  <2>9. ASSUME NEW k \in Key, pv[k] # NIL PROVE \E j \in 1 .. n : l.key[t[j]] = k
    <3>1. l.prev[k] # NIL
      BY <1>2, <2>1, <2>3, <2>9 DEF ListType
    <3>2. PICK a \in 1 .. n : l.key[s[a]] = k
      BY <1>2, <3>1
    <3>3. \E j \in 1 .. n : t[j] = s[a]
      <4>1. a < i => t[a] = s[a]
        BY <1>1, <1>4
      <4>2. a = i => t[n] = s[a]
        BY <1>1, <1>4, <1>7
      <4>3. a > i => a - 1 \in 1 .. n /\ t[a - 1] = s[a]
        BY <1>1, <1>4
      <4> QED BY <1>1, <2>1, <4>1, <4>2, <4>3
    <3> QED BY <3>2, <3>3
  <2> HIDE DEF nx, pv, m
  <2>10. Chained(t, m)
    BY <1>4, <2>5, <2>6, <2>7, <2>8, <2>9 DEF Chained
  <2> QED BY <2>5, <2>10 DEF m, p, t
<1> QED BY <1>1, <1>6, <1>7

(* The list a new entry e with key k makes, at the tail. *)
LEMMA AddsAtTail ==
    ASSUME NEW s, NEW l, Chained(s, l), NEW e \in Entry, NEW k \in Key, l.prev[k] = NIL,
           \A i \in 1 .. Len(s) : s[i] # e
    PROVE  Chained(Append(s, e), List([l.next EXCEPT ![l.tail] = e, ![e] = NIL],
                                      [l.prev EXCEPT ![k] = l.tail], [l.key EXCEPT ![e] = k], e))
<1> DEFINE n == Len(s)
           t == Append(s, e)
           nx == [l.next EXCEPT ![l.tail] = e, ![e] = NIL]
           ky == [l.key EXCEPT ![e] = k]
           pv == [l.prev EXCEPT ![k] = l.tail]
           m == List(nx, pv, ky, e)
<1>1. /\ s \in Seq(Entry) /\ n \in Nat
      /\ \A a, b \in 1 .. n : s[a] = s[b] => a = b
      /\ \A a \in 1 .. n : s[a] \in Entry /\ s[a] # HEAD
      /\ \A a \in 1 .. n + 1 : Before(s, a) \in Cell
      /\ \A a, b \in 1 .. n + 1 : Before(s, a) = Before(s, b) => a = b
      /\ \A a \in 1 .. n, b \in 1 .. n + 1 : s[a] = Before(s, b) <=> b = a + 1
  BY OneBefore DEF Chained
<1>2. /\ ListType(l) /\ l.tail = Before(s, n + 1)
      /\ \A a \in 1 .. n : /\ l.next[Before(s, a)] = s[a] /\ l.key[s[a]] \in Key
                           /\ l.prev[l.key[s[a]]] = Before(s, a)
      /\ \A x \in Key : l.prev[x] # NIL => \E a \in 1 .. n : l.key[s[a]] = x
  BY DEF Chained, LastOf
<1>3. /\ t \in Seq(Entry) /\ Len(t) = n + 1 /\ t[n + 1] = e
      /\ \A a \in 1 .. n : t[a] = s[a]
  BY <1>1
<1>5. \A a \in 1 .. n + 1 : Before(t, a) = Before(s, a) /\ Before(s, a) # e
  <2>1. \A a \in 1 .. n + 1 : a = 1 \/ a - 1 \in 1 .. n
    BY <1>1
  <2>2. e # HEAD
    BY SizeAssumption DEF Entry, HEAD
  <2> HIDE DEF t
  <2> QED BY <1>3, <2>1, <2>2 DEF Before
<1>6. LastOf(t) = e
  <2>1. n + 2 # 1 /\ (n + 2) - 1 = n + 1 /\ (n + 1) + 1 = n + 2
    BY <1>1
  <2> HIDE DEF t
  <2> QED BY <1>3, <2>1 DEF LastOf, Before
<1> HIDE DEF t, n
<1>7. ListType(m)
  <2> USE DEF List
  <2>1. l.tail \in Cell /\ e \in Cell
    BY <1>1, <1>2 DEF Cell
  <2> QED BY <1>2, <2>1 DEF ListType
<1>8. \A a, b \in 1 .. n + 1 : t[a] = t[b] => a = b
  <2>1. \A a \in 1 .. n + 1 : a \in 1 .. n \/ a = n + 1
    BY <1>1
  <2>2. \A i \in 1 .. n : s[i] # e
    BY DEF n
  <2> QED BY <1>1, <1>3, <2>1, <2>2
<1>9. ASSUME NEW j \in 1 .. n + 1
      PROVE  nx[Before(t, j)] = t[j] /\ ky[t[j]] \in Key /\ pv[ky[t[j]]] = Before(t, j)
  <2>1. Before(t, j) = Before(s, j) /\ Before(s, j) # e /\ Before(s, j) \in Cell
    BY <1>1, <1>5
  <2>2. l.next \in [Cell -> Cell \cup {NIL, WILD}] /\ l.key \in [Entry -> Key \cup {NULL}]
        /\ l.prev \in [Key -> Cell \cup {NIL}]
    BY <1>2 DEF ListType
  <2>3. CASE j = n + 1
    BY <1>2, <1>3, <2>1, <2>2, <2>3
  <2>4. CASE j \in 1 .. n
    <3>1. s[j] # e /\ s[j] \in Entry
      BY <1>1, <2>4 DEF n
    <3>2. Before(s, j) # l.tail
      BY <1>1, <1>2, <2>4
    <3>3. l.key[s[j]] # k /\ l.key[s[j]] \in Key
      <4>1. l.prev[l.key[s[j]]] \in Cell
        BY <1>1, <1>2, <2>4
      <4>2. NIL \notin Cell
        BY SizeAssumption DEF NIL, Cell, Entry, HEAD
      <4> QED BY <1>2, <2>4, <4>1, <4>2
    <3> QED BY <1>2, <1>3, <2>1, <2>2, <2>4, <3>1, <3>2, <3>3
  <2> QED BY <1>1, <2>3, <2>4
<1>10. ASSUME NEW x \in Key, pv[x] # NIL PROVE \E j \in 1 .. n + 1 : ky[t[j]] = x
  <2>1. CASE x = k
    <3>1. ky[t[n + 1]] = k /\ n + 1 \in 1 .. n + 1
      BY <1>1, <1>2, <1>3 DEF ListType
    <3> QED BY <2>1, <3>1
  <2>2. CASE x # k
    <3>1. PICK a \in 1 .. n : l.key[s[a]] = x
      BY <1>2, <1>10, <2>2 DEF ListType
    <3>2. a \in 1 .. n + 1 /\ t[a] = s[a] /\ s[a] # e /\ s[a] \in Entry
      BY <1>1, <1>3 DEF n
    <3>3. ky[t[a]] = x
      BY <1>2, <3>1, <3>2 DEF ListType
    <3> QED BY <3>2, <3>3
  <2> QED BY <2>1, <2>2
<1> DEFINE mm == m
<1>11. mm.next = nx /\ mm.prev = pv /\ mm.key = ky /\ mm.tail = e  /\ ListType(mm)
  BY <1>2, <1>7 DEF List
<1>12. Chained(t, mm)
  <2> HIDE DEF mm, nx, pv, ky
  <2> QED BY <1>3, <1>6, <1>8, <1>9, <1>10, <1>11 DEF Chained
<1> QED BY <1>12 DEF t

(* The first entry gets another key. *)
LEMMA RenamesFirst ==
    ASSUME NEW s, NEW l, Chained(s, l), Len(s) # 0, NEW k \in Key, l.prev[k] = NIL
    PROVE  Chained(s, List(l.next, [[l.prev EXCEPT ![l.key[s[1]]] = NIL] EXCEPT ![k] = HEAD],
                           [l.key EXCEPT ![s[1]] = k], l.tail))
<1> DEFINE n == Len(s)
           ky == [l.key EXCEPT ![s[1]] = k]
           pv == [[l.prev EXCEPT ![l.key[s[1]]] = NIL] EXCEPT ![k] = HEAD]
           m == List(l.next, pv, ky, l.tail)
<1>0. s \in Seq(Entry) /\ n \in Nat /\ n # 0 /\ \A a, b \in 1 .. n : s[a] = s[b] => a = b
  BY DEF Chained
<1>1. /\ s \in Seq(Entry) /\ n \in Nat /\ n # 0 /\ 1 \in 1 .. n
      /\ \A a, b \in 1 .. n : s[a] = s[b] => a = b
      /\ \A a \in 1 .. n : s[a] \in Entry /\ s[a] # HEAD /\ a \in 1 .. n + 1
      /\ \A a \in 1 .. n + 1 : Before(s, a) \in Cell
  <2>1. \A a \in 1 .. n : s[a] \in Entry /\ s[a] # HEAD
    BY <1>0, OneBefore
  <2>2. \A a \in 1 .. n + 1 : Before(s, a) \in Cell
    BY <1>0, OneBefore
  <2> QED BY <1>0, <2>1, <2>2
<1>2. /\ ListType(l) /\ l.tail = LastOf(s)
      /\ \A a \in 1 .. n : /\ l.next[Before(s, a)] = s[a] /\ l.key[s[a]] \in Key
                           /\ l.prev[l.key[s[a]]] = Before(s, a)
      /\ \A x \in Key : l.prev[x] # NIL => \E a \in 1 .. n : l.key[s[a]] = x
  BY DEF Chained
<1>3. \A a, b \in 1 .. n : l.key[s[a]] = l.key[s[b]] => a = b
  BY OneKey
<1> HIDE DEF n
<1>5. /\ l.key \in [Entry -> Key \cup {NULL}] /\ l.prev \in [Key -> Cell \cup {NIL}]
      /\ s[1] \in Entry /\ l.key[s[1]] \in Key /\ HEAD \in Cell
  BY <1>1, <1>2 DEF ListType, Cell
<1>6. ListType(m)
  BY <1>2, <1>5 DEF ListType, List
<1>7. ASSUME NEW j \in 1 .. n
      PROVE  ky[s[j]] \in Key /\ pv[ky[s[j]]] = Before(s, j)
  <2>1. CASE j = 1
    BY <1>1, <1>5, <2>1 DEF Before
  <2>2. CASE j # 1
    <3>1. s[j] # s[1] /\ l.key[s[j]] # l.key[s[1]] /\ s[j] \in Entry /\ l.key[s[j]] \in Key
      BY <1>1, <1>2, <1>3, <2>2
    <3>2. l.key[s[j]] # k
      <4>1. l.prev[l.key[s[j]]] \in Cell
        BY <1>1, <1>2
      <4>2. NIL \notin Cell
        BY SizeAssumption DEF NIL, Cell, Entry, HEAD
      <4> QED BY <4>1, <4>2
    <3> QED BY <1>2, <1>5, <3>1, <3>2
  <2> QED BY <2>1, <2>2
<1>8. ASSUME NEW x \in Key, pv[x] # NIL PROVE \E j \in 1 .. n : ky[s[j]] = x
  <2>1. CASE x = k
    BY <1>1, <1>5, <2>1
  <2>2. CASE x # k
    <3>1. x # l.key[s[1]] /\ l.prev[x] # NIL
      BY <1>5, <1>8, <2>2
    <3>2. PICK a \in 1 .. n : l.key[s[a]] = x
      BY <1>2, <3>1
    <3>3. s[a] # s[1] /\ s[a] \in Entry
      BY <1>1, <3>1, <3>2
    <3> QED BY <1>5, <3>2, <3>3
  <2> QED BY <2>1, <2>2
<1> DEFINE mm == m
<1>9. mm.next = l.next /\ mm.prev = pv /\ mm.key = ky /\ mm.tail = l.tail 
      /\ ListType(mm)
  BY <1>2, <1>6 DEF List
<1>10. Chained(s, mm)
  <2> HIDE DEF mm, pv, ky
  <2> QED BY <1>1, <1>2, <1>7, <1>8, <1>9 DEF Chained, n, ListType
<1> QED BY <1>10

(* An entry e that is not on the list becomes the only one of an empty     *)
(* list, whatever the old pointers are.                                    *)
LEMMA EntersEmpty ==
    ASSUME NEW s, NEW l, Chained(s, l), Len(s) = 0, NEW e \in Entry, NEW k \in Key,
           l.next[HEAD] = e
    PROVE  LET pv == [[l.prev EXCEPT ![l.key[e]] = NIL] EXCEPT ![k] = HEAD]
               ky == [l.key EXCEPT ![e] = k]
               m == MovLRUCache(List(l.next, pv, ky, l.tail), HEAD)
           IN  Chained(<<e>>, m) /\ m.key = ky
<1> DEFINE pv == [[l.prev EXCEPT ![l.key[e]] = NIL] EXCEPT ![k] = HEAD]
           ky == [l.key EXCEPT ![e] = k]
           l1 == List(l.next, pv, ky, l.tail)
           m == MovLRUCache(l1, HEAD)
           nx == [[l.next EXCEPT ![HEAD] = l.next[e]] EXCEPT ![HEAD] = e]
           pv2 == [[pv EXCEPT ![k] = HEAD] EXCEPT ![k] = HEAD]
<1>1. /\ ListType(l) /\ l.tail = HEAD /\ HEAD \in Cell /\ e \in Cell /\ e # HEAD /\ HEAD # NIL
      /\ \A x \in Key : l.prev[x] = NIL
  <2>1. l.tail = HEAD
    BY DEF Chained, LastOf, Before
  <2>2. \A x \in Key : l.prev[x] = NIL
    BY DEF Chained
  <2>3. HEAD \in Cell /\ e \in Cell /\ e # HEAD /\ HEAD # NIL
    BY SizeAssumption DEF Cell, Entry, HEAD, NIL
  <2> QED BY <2>1, <2>2, <2>3 DEF Chained
<1>2. /\ ky \in [Entry -> Key \cup {NULL}] /\ ky[e] = k
      /\ pv \in [Key -> Cell \cup {NIL}] /\ pv[k] = HEAD
      /\ \A x \in Key : x # k => pv[x] = NIL
  BY <1>1 DEF ListType
<1>3. nx \in [Cell -> Cell \cup {NIL, WILD}] /\ nx[HEAD] = e
  BY <1>1 DEF ListType
<1> HIDE DEF pv, ky
<1>4. pv2 \in [Key -> Cell \cup {NIL}] /\ pv2[k] = HEAD /\ \A x \in Key : x # k => pv2[x] = NIL
  BY <1>1, <1>2
<1>5. m = List(nx, pv2, ky, e)
  <2> DEFINE l2 == l1
  <2>1. l2.next = l.next /\ l2.prev = pv /\ l2.key = ky /\ l2.tail = HEAD
    BY <1>1 DEF List
  <2>2. Indexed(l2, e)
    BY <1>1, <1>2, <2>1 DEF Indexed, Valid
  <2> HIDE DEF l2
  <2>3. MovLRUCache(l2, HEAD) = List(nx, pv2, ky, e)
    <3> HIDE DEF nx
    <3>1. nx = [[l2.next EXCEPT ![HEAD] = l2.next[l2.next[HEAD]]] EXCEPT ![l2.tail] = l2.next[HEAD]]
      BY <2>1 DEF nx
    <3>2. l2.next[HEAD] = e /\ nx[HEAD] = e /\ l2.key[e] = k /\ e # l2.tail
      BY <1>1, <1>2, <1>3, <2>1
    <3> QED BY <2>1, <2>2, <3>1, <3>2 DEF MovLRUCache
  <2> QED BY <2>3 DEF l2
<1> HIDE DEF nx, pv2, m
<1>6. m.next = nx /\ m.prev = pv2 /\ m.key = ky /\ m.tail = e /\ m.ok
  BY <1>5 DEF List
<1>7. <<e>> \in Seq(Entry) /\ Len(<<e>>) = 1 /\ <<e>>[1] = e
  OBVIOUS
<1> DEFINE t == <<e>>
<1>8. Before(t, 1) = HEAD /\ LastOf(t) = e
  BY <1>7 DEF Before, LastOf
<1> HIDE DEF t
<1>9. ListType(m)
  BY <1>1, <1>2, <1>3, <1>4, <1>6 DEF ListType
<1>10. t \in Seq(Entry) /\ Len(t) = 1 /\ t[1] = e /\ 1 .. 1 = {1}
  BY <1>7 DEF t
<1>11. Chained(t, m)
  BY <1>2, <1>3, <1>4, <1>6, <1>8, <1>9, <1>10 DEF Chained
<1> QED BY <1>6, <1>11 DEF t, m, pv, ky

(* The entries without the i-th. *)
Dropped(s, i) == [j \in 1 .. Len(s) - 1 |-> IF j < i THEN s[j] ELSE s[j + 1]]

LEMMA DroppedShape ==
    ASSUME NEW s \in Seq(Entry), \A i, j \in 1 .. Len(s) : s[i] = s[j] => i = j,
           NEW i \in 1 .. Len(s)
    PROVE  LET t == Dropped(s, i)
           IN  /\ t \in Seq(Entry) /\ Len(t) = Len(s) - 1
               /\ \A a, b \in 1 .. Len(s) - 1 : t[a] = t[b] => a = b
               /\ \A j \in 1 .. Len(s) - 1 : t[j] = IF j < i THEN s[j] ELSE s[j + 1]
               /\ \A j \in 1 .. Len(s) : Before(t, j) = IF j <= i THEN Before(s, j) ELSE s[j]
<1> DEFINE n == Len(s)
           t == Dropped(s, i)
<1>1. n \in Nat /\ i \in 1 .. n /\ n >= 1 /\ \A j \in 1 .. n : s[j] \in Entry
  OBVIOUS
<1>2. \A a, b \in 1 .. n : s[a] = s[b] => a = b
  OBVIOUS
<1>3. t = [j \in 1 .. n - 1 |-> IF j < i THEN s[j] ELSE s[j + 1]]
  BY DEF Dropped
<1> HIDE DEF n, t
<1>4. \A j \in 1 .. n - 1 : t[j] = IF j < i THEN s[j] ELSE s[j + 1]
  BY <1>3
<1>5. t \in Seq(Entry) /\ Len(t) = n - 1
  <2>1. \A j \in 1 .. n - 1 : j \in 1 .. n /\ j + 1 \in 1 .. n
    BY <1>1
  <2>2. \A j \in 1 .. n - 1 : t[j] \in Entry
    BY <1>1, <1>4, <2>1
  <2>3. DOMAIN t = 1 .. n - 1 /\ t = [j \in 1 .. n - 1 |-> t[j]]
    BY <1>3
  <2>4. t \in [1 .. n - 1 -> Entry] /\ n - 1 \in Nat
    BY <1>1, <2>2, <2>3
  <2> QED BY <2>4
<1>6. ASSUME NEW a \in 1 .. n - 1, NEW b \in 1 .. n - 1, t[a] = t[b] PROVE a = b
  <2> DEFINE f(x) == IF x < i THEN x ELSE x + 1
  <2>1. f(a) \in 1 .. n /\ f(b) \in 1 .. n /\ t[a] = s[f(a)] /\ t[b] = s[f(b)]
    BY <1>1, <1>4
  <2>2. f(a) = f(b)
    BY <1>2, <1>6, <2>1
  <2> QED BY <1>1, <2>2
<1>7. ASSUME NEW j \in 1 .. n
      PROVE  Before(t, j) = IF j <= i THEN Before(s, j) ELSE s[j]
  <2>1. j # 1 => j - 1 \in 1 .. n - 1 /\ (j - 1) + 1 = j
    BY <1>1
  <2> QED BY <1>1, <1>4, <2>1 DEF Before
<1> QED BY <1>4, <1>5, <1>6, <1>7 DEF n, t

(* delLRUCache takes the entry of k off the list. *)
LEMMA Unlinks ==
    ASSUME NEW s, Chained(s, list), NEW i \in 1 .. Len(s), NEW k \in Key, ekey[s[i]] = k
    PROVE  Chained(Dropped(s, i), DelLRUCache(k)) /\ DelLRUCache(k).key = ekey
<1> DEFINE n == Len(s)
           p == Before(s, i)
           t == Dropped(s, i)
           m == DelLRUCache(k)
<1>0. list.next = next /\ list.prev = prev /\ list.key = ekey /\ list.tail = tailLRU
  BY DEF list, List
<1>1. /\ s \in Seq(Entry) /\ n \in Nat /\ i \in 1 .. n
      /\ \A a, b \in 1 .. n : s[a] = s[b] => a = b
      /\ \A a \in 1 .. n : s[a] \in Entry /\ s[a] # HEAD
      /\ \A a \in 1 .. n + 1 : Before(s, a) \in Cell
      /\ \A a, b \in 1 .. n + 1 : Before(s, a) = Before(s, b) => a = b
      /\ \A a \in 1 .. n, b \in 1 .. n + 1 : s[a] = Before(s, b) <=> b = a + 1
  BY OneBefore DEF Chained
<1>2. /\ ListType(list) /\ tailLRU = Before(s, n + 1)
      /\ \A a \in 1 .. n : /\ next[Before(s, a)] = s[a] /\ ekey[s[a]] \in Key
                           /\ prev[ekey[s[a]]] = Before(s, a)
      /\ \A x \in Key : prev[x] # NIL => \E a \in 1 .. n : ekey[s[a]] = x
  BY <1>0 DEF Chained, LastOf
<1>3. \A a, b \in 1 .. n : ekey[s[a]] = ekey[s[b]] => a = b
  BY <1>0, OneKey
<1>4. /\ next \in [Cell -> Cell \cup {NIL, WILD}] /\ prev \in [Key -> Cell \cup {NIL}]
      /\ ekey \in [Entry -> Key \cup {NULL}]
  BY <1>0, <1>2 DEF ListType
<1>5. /\ t \in Seq(Entry) /\ Len(t) = n - 1
      /\ \A a, b \in 1 .. n - 1 : t[a] = t[b] => a = b
      /\ \A j \in 1 .. n - 1 : t[j] = IF j < i THEN s[j] ELSE s[j + 1]
      /\ \A j \in 1 .. n : Before(t, j) = IF j <= i THEN Before(s, j) ELSE s[j]
  BY <1>1, DroppedShape
<1> HIDE DEF n, t, p
<1>6. /\ next[p] = s[i] /\ p \in Cell /\ p = Before(s, i) /\ prev[k] = p /\ p # NIL
      /\ i \in 1 .. n + 1 /\ n \in 1 .. n /\ n >= 1
  <2>1. NIL \notin Cell
    BY SizeAssumption DEF NIL, Cell, Entry, HEAD
  <2> QED BY <1>1, <1>2, <2>1 DEF p
<1> DEFINE nx == [next EXCEPT ![p] = next[s[i]]]
           index == [prev EXCEPT ![k] = NIL]
<1>7. Hit(k)
  BY <1>6 DEF Hit
<1>8. nx \in [Cell -> Cell \cup {NIL, WILD}]
  BY <1>1, <1>4, <1>6 DEF Cell
<1>9. ASSUME NEW j \in 1 .. n - 1 PROVE nx[Before(t, j)] = t[j] /\ ekey[t[j]] \in Key
  <2>0. j \in 1 .. n /\ j + 1 \in 1 .. n /\ j \in 1 .. n + 1
    BY <1>1
  <2>1. CASE j < i
    <3>1. Before(t, j) = Before(s, j) /\ t[j] = s[j] /\ Before(s, j) # p /\ Before(s, j) \in Cell
      BY <1>1, <1>5, <1>6, <2>0, <2>1
    <3> QED BY <1>2, <1>4, <2>0, <3>1
  <2>2. CASE j = i
    <3>1. Before(t, j) = p /\ t[j] = s[i + 1] /\ s[i] = Before(s, i + 1)
      BY <1>1, <1>5, <1>6, <2>0, <2>2
    <3> QED BY <1>2, <1>4, <1>6, <2>0, <2>2, <3>1
  <2>3. CASE j > i
    <3>1. Before(t, j) = s[j] /\ t[j] = s[j + 1] /\ s[j] = Before(s, j + 1) /\ s[j] # p
          /\ s[j] \in Cell
      BY <1>1, <1>5, <1>6, <2>0, <2>3 DEF Cell
    <3> QED BY <1>2, <1>4, <2>0, <3>1
  <2> QED BY <1>1, <2>1, <2>2, <2>3
<1>10. ASSUME NEW x \in Key, index[x] # NIL PROVE \E j \in 1 .. n - 1 : ekey[t[j]] = x
  <2>1. x # k /\ prev[x] # NIL
    BY <1>4, <1>10
  <2>2. PICK a \in 1 .. n : ekey[s[a]] = x
    BY <1>2, <2>1
  <2>3. a # i
    BY <2>1, <2>2
  <2>4. a < i => a \in 1 .. n - 1 /\ t[a] = s[a]
    BY <1>1, <1>5
  <2>5. a > i => a - 1 \in 1 .. n - 1 /\ t[a - 1] = s[a]
    BY <1>1, <1>5
  <2> QED BY <1>1, <2>2, <2>3, <2>4, <2>5
<1>11. CASE i = n
  <2>1. s[i] = tailLRU
    BY <1>1, <1>2, <1>6, <1>11
  <2>2. m = List(nx, index, ekey, p)
    BY <1>6, <1>7, <2>1 DEF DelLRUCache, DelLRUHashTab
  <2>3. m.next = nx /\ m.prev = index /\ m.key = ekey /\ m.tail = p /\ m.ok
    BY <2>2 DEF List
  <2>4. LastOf(t) = p
    <3>1. (n - 1) + 1 = n
      BY <1>1
    <3> QED BY <1>5, <1>6, <1>11, <3>1 DEF LastOf
  <2>5. ASSUME NEW j \in 1 .. n - 1 PROVE index[ekey[t[j]]] = Before(t, j)
    <3>1. j < i /\ j \in 1 .. n /\ j # i
      BY <1>1, <1>11
    <3>2. t[j] = s[j] /\ Before(t, j) = Before(s, j) /\ ekey[s[j]] # k /\ ekey[s[j]] \in Key
      BY <1>1, <1>2, <1>3, <1>5, <3>1
    <3> QED BY <1>2, <1>4, <3>1, <3>2
  <2>6. ListType(m)
    <3>1. index \in [Key -> Cell \cup {NIL}]
      BY <1>4
    <3> HIDE DEF m, nx, index
    <3> QED BY <1>4, <1>6, <1>8, <2>3, <3>1 DEF ListType
  <2> HIDE DEF m, nx, index
  <2>7. Chained(t, m)
    BY <1>5, <1>9, <1>10, <2>3, <2>4, <2>5, <2>6 DEF Chained
  <2> QED BY <2>3, <2>7 DEF m, t
<1>12. CASE i < n
  <2>0. i + 1 \in 1 .. n /\ i + 1 \in 1 .. n + 1 /\ n + 1 \in 1 .. n + 1
    BY <1>1, <1>12
  <2>1. i + 1 \in 1 .. n /\ next[s[i]] = s[i + 1] /\ s[i] # tailLRU
    <3>1. s[i] = Before(s, i + 1) /\ s[n] = Before(s, n + 1) /\ s[i] # s[n]
      BY <1>1, <1>6, <1>12, <2>0
    <3> QED BY <1>2, <2>0, <3>1
  <2> DEFINE pv == [index EXCEPT ![ekey[s[i + 1]]] = p]
  <2>2. Indexed(list, s[i + 1])
    <3>1. NIL \notin Cell
      BY SizeAssumption DEF NIL, Cell, Entry, HEAD
    <3>2. prev[ekey[s[i + 1]]] \in Cell
      BY <1>1, <1>2, <2>1
    <3> QED BY <1>0, <1>1, <2>1, <3>1, <3>2 DEF Indexed, Valid
  <2>3. m = List(nx, pv, ekey, tailLRU)
    BY <1>6, <1>7, <2>1, <2>2 DEF DelLRUCache, DelLRUHashTab, SetLRUHashTab
  <2>4. m.next = nx /\ m.prev = pv /\ m.key = ekey /\ m.tail = tailLRU /\ m.ok
    BY <2>3 DEF List
  <2>5. LastOf(t) = tailLRU
    <3>1. (n - 1) + 1 = n
      BY <1>1
    <3> QED BY <1>1, <1>2, <1>5, <1>6, <1>12, <3>1 DEF LastOf
  <2>6. ekey[s[i + 1]] # k /\ ekey[s[i + 1]] \in Key
    BY <1>1, <1>2, <1>3, <2>1
  <2>7. pv \in [Key -> Cell \cup {NIL}] /\ pv[ekey[s[i + 1]]] = p
        /\ \A x \in Key : x # ekey[s[i + 1]] => pv[x] = index[x]
    BY <1>4, <1>6, <2>6
  <2>8. ASSUME NEW j \in 1 .. n - 1 PROVE pv[ekey[t[j]]] = Before(t, j)
    <3>1. j \in 1 .. n /\ j + 1 \in 1 .. n
      BY <1>1
    <3> HIDE DEF pv
    <3>2. CASE j < i
      <4>1. t[j] = s[j] /\ Before(t, j) = Before(s, j) /\ ekey[s[j]] # k /\ ekey[s[j]] \in Key
            /\ ekey[s[j]] # ekey[s[i + 1]]
        BY <1>1, <1>2, <1>3, <1>5, <2>1, <3>1, <3>2
      <4> QED BY <1>2, <1>4, <2>7, <3>1, <4>1
    <3>3. CASE j = i
      <4>1. t[j] = s[i + 1] /\ Before(t, j) = Before(s, i)
        BY <1>1, <1>5, <3>1, <3>3
      <4> QED BY <1>6, <2>7, <4>1
    <3>4. CASE j > i
      <4>1. t[j] = s[j + 1] /\ Before(t, j) = s[j] /\ ekey[s[j + 1]] # k /\ ekey[s[j + 1]] \in Key
            /\ ekey[s[j + 1]] # ekey[s[i + 1]] /\ s[j] = Before(s, j + 1)
        BY <1>1, <1>2, <1>3, <1>5, <2>1, <3>1, <3>4
      <4> QED BY <1>2, <1>4, <2>7, <3>1, <4>1
    <3> QED BY <1>1, <3>2, <3>3, <3>4
  <2>9. ListType(m)
    <3>1. tailLRU \in Cell
      BY <1>0, <1>2 DEF ListType
    <3> HIDE DEF m, nx, pv
    <3> QED BY <1>4, <1>8, <2>4, <2>7, <3>1 DEF ListType
  <2>10. ASSUME NEW x \in Key, pv[x] # NIL PROVE \E j \in 1 .. n - 1 : ekey[t[j]] = x
    <3>1. CASE x = ekey[s[i + 1]]
      <4>1. i \in 1 .. n - 1 /\ t[i] = s[i + 1]
        BY <1>1, <1>5, <1>12
      <4> QED BY <3>1, <4>1
    <3>2. CASE x # ekey[s[i + 1]]
      BY <1>10, <2>7, <2>10, <3>2
    <3> QED BY <3>1, <3>2
  <2> HIDE DEF m, nx, index, pv
  <2>11. Chained(t, m)
    BY <1>5, <1>9, <2>4, <2>5, <2>8, <2>9, <2>10 DEF Chained
  <2> QED BY <2>4, <2>11 DEF m, t
<1> QED BY <1>1, <1>11, <1>12

-----------------------------------------------------------------------------
(***************************************************************************)
(* What a walk along the list finds.                                       *)
(***************************************************************************)
Walk(s, i) == IF i = 0 THEN HEAD ELSE IF i <= Len(s) THEN s[i] ELSE NIL

(* At is a recursive function: that there is one, and that no other        *)
(* satisfies its equation, is shown by the least place where it would not. *)
LEMMA WalkAt ==
    ASSUME NEW s, Chained(s, list), Len(s) <= LRU_CACHE_SIZE
    PROVE  At = [i \in 0 .. LRU_CACHE_SIZE |-> Walk(s, i)]
<1> DEFINE L == LRU_CACHE_SIZE
           Stop == {tailLRU, NIL}
           Rec(f) == f = [i \in 0 .. L |-> IF i = 0 THEN HEAD
                                           ELSE IF f[i - 1] \in Stop THEN NIL ELSE next[f[i - 1]]]
           w == [i \in 0 .. L |-> Walk(s, i)]
<1>0. L \in Nat
  BY SizeAssumption
<1>1. At = CHOOSE f : Rec(f)
  BY DEF At
<1>2. \A i \in 1 .. L : w[i] = IF w[i - 1] \in Stop THEN NIL ELSE next[w[i - 1]]
  <2> SUFFICES ASSUME NEW i \in 1 .. L
               PROVE  w[i] = IF w[i - 1] \in Stop THEN NIL ELSE next[w[i - 1]]
    OBVIOUS
  <2>1. i - 1 \in 0 .. L /\ i \in 0 .. L /\ i # 0
    BY <1>0
  <2>2. w[i] = Walk(s, i) /\ w[i - 1] = Walk(s, i - 1)
    BY <2>1
  <2>3. /\ s \in Seq(Entry) /\ Len(s) \in Nat
        /\ \A a \in 1 .. Len(s) : s[a] \in Entry /\ s[a] # HEAD /\ s[a] \in Int
        /\ \A a, b \in 1 .. Len(s) + 1 : Before(s, a) = Before(s, b) => a = b
    BY OneBefore DEF Chained
  <2>4. tailLRU = Before(s, Len(s) + 1) /\ \A a \in 1 .. Len(s) : next[Before(s, a)] = s[a]
    BY DEF Chained, list, List, LastOf
  <2>5. NIL \notin Entry /\ NIL # HEAD
    BY SizeAssumption DEF NIL, Entry, HEAD
  <2>6. i <= Len(s) + 1 => Walk(s, i - 1) = Before(s, i)
    BY <2>1, <2>3 DEF Walk, Before
  <2> HIDE DEF w
  <2>7. CASE i <= Len(s)
    <3>1. Before(s, i) # tailLRU /\ i \in 1 .. Len(s)
      BY <2>3, <2>4, <2>7
    <3>2. Before(s, i) # NIL
      <4>1. i = 1 \/ i - 1 \in 1 .. Len(s)
        BY <2>3, <2>7
      <4> QED BY <2>3, <2>5, <4>1 DEF Before
    <3> QED BY <2>1, <2>2, <2>3, <2>4, <2>6, <2>7, <3>1, <3>2 DEF Walk
  <2>8. CASE i = Len(s) + 1
    BY <2>1, <2>2, <2>3, <2>4, <2>6, <2>8 DEF Walk
  <2>9. CASE i > Len(s) + 1
    BY <2>1, <2>2, <2>3, <2>9 DEF Walk
  <2> QED BY <2>1, <2>3, <2>7, <2>8, <2>9
<1>3. Rec(w)
  <2>1. \A i \in 0 .. L : i = 0 \/ i \in 1 .. L
    BY <1>0
  <2>2. w[0] = HEAD
    BY <1>0 DEF Walk
  <2>3. w = [i \in 0 .. L |-> w[i]]
    OBVIOUS
  <2> HIDE DEF w
  <2> QED BY <1>2, <2>1, <2>2, <2>3
<1>4. Rec(At)
  <2> HIDE DEF Rec, w
  <2> QED BY <1>1, <1>3
<1> DEFINE f == At
           Bad == {i \in Nat : i <= L /\ f[i] # w[i]}
<1>5. /\ f = [i \in 0 .. L |-> f[i]] /\ f[0] = HEAD
      /\ \A i \in 1 .. L : f[i] = IF f[i - 1] \in Stop THEN NIL ELSE next[f[i - 1]]
  <2> HIDE DEF f
  <2>1. Rec(f)
    BY <1>4 DEF f
  <2>2. 0 \in 0 .. L /\ \A i \in 1 .. L : i \in 0 .. L /\ i # 0
    BY <1>0
  <2> QED BY <2>1, <2>2
<1> HIDE DEF f
<1>6. Bad = {}
  <2>1. SUFFICES ASSUME Bad # {} PROVE FALSE
    OBVIOUS
  <2>2. PICK m \in Bad : \A y \in Bad : m <= y
    <3>1. Bad \in SUBSET Nat
      OBVIOUS
    <3> HIDE DEF Bad
    <3> QED BY <2>1, <3>1, LeastOf
  <2>3. m \in Nat /\ m <= L /\ f[m] # w[m]
    BY <2>2
  <2>4. m # 0
    BY <1>0, <1>5, <2>3 DEF Walk
  <2>5. m - 1 \in Nat /\ m - 1 <= L /\ m - 1 \notin Bad /\ m \in 1 .. L
    <3> HIDE DEF Bad
    <3> QED BY <1>0, <2>2, <2>3, <2>4
  <2>6. f[m - 1] = w[m - 1]
    BY <2>5
  <2> HIDE DEF w
  <2> QED BY <1>2, <1>5, <2>3, <2>5, <2>6
<1>7. \A i \in 0 .. L : f[i] = w[i]
  <2>1. \A i \in 0 .. L : i \in Nat /\ i <= L
    BY <1>0
  <2> HIDE DEF w
  <2> QED BY <1>6, <2>1
<1>8. f = w
  BY <1>5, <1>7
<1> QED BY <1>8 DEF f
(* The keys of the entries s. *)
Keys(s, key) == [i \in 1 .. Len(s) |-> key[s[i]]]

(* What the refinement mapping makes of a list. *)
ListRead ==
    \A s : Chained(s, list) /\ Len(s) <= LRU_CACHE_SIZE =>
             /\ Recency = Keys(s, ekey) /\ Listed = 1 .. Len(s)
             /\ \A i \in 0 .. Len(s) : At[i] = Walk(s, i)

LEMMA RecencyOf == ListRead
<1> SUFFICES ASSUME NEW s, Chained(s, list), Len(s) <= LRU_CACHE_SIZE
             PROVE  /\ Recency = Keys(s, ekey) /\ Listed = 1 .. Len(s)
                    /\ \A i \in 0 .. Len(s) : At[i] = Walk(s, i)
  BY DEF ListRead
<1> DEFINE L == LRU_CACHE_SIZE
           n == Len(s)
<1>1. n \in Nat /\ L \in Nat /\ n <= L /\ \A i \in 1 .. n : s[i] \in Entry
  BY SizeAssumption DEF Chained
<1>2. At = [i \in 0 .. L |-> Walk(s, i)]
  BY WalkAt
<1>3. NIL \notin Entry
  BY SizeAssumption DEF Entry, NIL
<1> HIDE DEF n
<1>4. \A i \in 0 .. L : At[i] = Walk(s, i)
  BY <1>2
<1>5. \A i \in 1 .. L : (At[i] # NIL <=> i <= n) /\ (i <= n => At[i] = s[i])
  <2> SUFFICES ASSUME NEW i \in 1 .. L
               PROVE  (At[i] # NIL <=> i <= n) /\ (i <= n => At[i] = s[i])
    OBVIOUS
  <2>1. i # 0 /\ i \in 0 .. L
    BY <1>1
  <2>2. i <= n => i \in 1 .. n
    BY <1>1
  <2> QED BY <1>1, <1>3, <1>4, <2>1, <2>2 DEF Walk, n
<1>6. Listed = 1 .. n
  <2>1. \A i : i \in 1 .. n <=> i \in 1 .. L /\ i <= n
    BY <1>1
  <2> QED BY <1>5, <2>1 DEF Listed, Entry
<1>7. Cardinality(Listed) = n
  <2>1. Cardinality(1 .. n) = IF 1 > n THEN 0 ELSE n - 1 + 1
    BY <1>1, FS_Interval
  <2> QED BY <1>1, <1>6, <2>1
<1>8. Recency = Keys(s, ekey)
  <2>1. \A i \in 1 .. n : At[i] = s[i]
    BY <1>1, <1>5
  <2> QED BY <1>7, <2>1 DEF Recency, Keys, n
<1>9. \A i \in 0 .. n : i \in 0 .. L
  BY <1>1
<1> QED BY <1>4, <1>6, <1>8, <1>9 DEF n

LEMMA KeysShape ==
    ASSUME NEW s, NEW l, Chained(s, l)
    PROVE  /\ Keys(s, l.key) \in Seq(Key) /\ Len(Keys(s, l.key)) = Len(s)
           /\ \A i \in 1 .. Len(s) : Keys(s, l.key)[i] = l.key[s[i]]
           /\ \A i, j \in 1 .. Len(s) : Keys(s, l.key)[i] = Keys(s, l.key)[j] => i = j
           /\ \A k \in Key : k \in ToSet(Keys(s, l.key)) <=> l.prev[k] # NIL
<1> DEFINE n == Len(s)
           r == Keys(s, l.key)
<1>1. n \in Nat /\ \A i \in 1 .. n : l.key[s[i]] \in Key
  BY DEF Chained
<1>2. \A i \in 1 .. n : r[i] = l.key[s[i]]
  BY DEF Keys
<1>3. r \in Seq(Key) /\ Len(r) = n /\ DOMAIN r = 1 .. n
  <2>1. r \in [1 .. n -> Key]
    BY <1>1 DEF Keys
  <2> QED BY <1>1, <2>1
<1>4. \A i, j \in 1 .. n : l.key[s[i]] = l.key[s[j]] => i = j
  BY OneKey
<1>5. ASSUME NEW k \in Key PROVE k \in ToSet(r) <=> l.prev[k] # NIL
  <2>1. k \in ToSet(r) <=> \E i \in 1 .. n : l.key[s[i]] = k
    BY <1>2, <1>3 DEF ToSet
  <2>2. ASSUME NEW i \in 1 .. n, l.key[s[i]] = k PROVE l.prev[k] # NIL
    <3>1. \A a \in 1 .. n + 1 : Before(s, a) \in Cell
      BY OneBefore DEF Chained
    <3>2. NIL \notin Cell
      BY SizeAssumption DEF NIL, Cell, Entry, HEAD
    <3>3. i \in 1 .. n + 1
      BY <1>1
    <3> QED BY <2>2, <3>1, <3>2, <3>3 DEF Chained
  <2> QED BY <2>1, <2>2 DEF Chained
<1> HIDE DEF r, n
<1> QED BY <1>2, <1>3, <1>4, <1>5 DEF r, n

(* RemoveFirst takes out the one place that has the element. *)
LEMMA RemovesFirst ==
    ASSUME NEW S, NEW r \in Seq(S), \A i, j \in 1 .. Len(r) : r[i] = r[j] => i = j,
           NEW i \in 1 .. Len(r)
    PROVE  LET t == RemoveFirst(r, r[i])
           IN  /\ t \in Seq(S) /\ Len(t) = Len(r) - 1
               /\ \A j \in 1 .. Len(r) - 1 : t[j] = IF j < i THEN r[j] ELSE r[j + 1]
<1> DEFINE n == Len(r)
           I == {j \in 1 .. Len(r) : r[j] = r[i]}
           a == SubSeq(r, 1, i - 1)
           b == SubSeq(r, i + 1, n)
<1>1. n \in Nat /\ i \in Int /\ 1 <= i /\ i <= n /\ \A j \in 1 .. n : r[j] \in S
  OBVIOUS
<1>2. I = {i}
  OBVIOUS
<1>3. Min(I) = i
  <2>1. Min({i}) = i
    BY <1>1 DEF Min
  <2> QED BY <1>2, <2>1
<1>4. RemoveFirst(r, r[i]) = a \o b
  <2>1. SelectInSeq(r, LAMBDA v : v = r[i]) = i
    BY <1>2, <1>3 DEF SelectInSeq
  <2> QED BY <2>1 DEF RemoveFirst, RemoveAt
<1>5. /\ a \in Seq(S) /\ Len(a) = i - 1
      /\ \A j \in 1 .. i - 1 : a[j] = r[j]
  <2>1. \A j \in 1 .. i - 1 : r[j] \in S
    BY <1>1
  <2>2. a \in Seq(S) /\ Len(a) = (IF 1 <= i - 1 THEN (i - 1) - 1 + 1 ELSE 0)
        /\ \A j \in 1 .. (i - 1) - 1 + 1 : a[j] = r[1 + j - 1]
    BY <1>1, <2>1, SubSeqProperties
  <2> HIDE DEF a
  <2>3. \A j \in 1 .. i - 1 : j \in 1 .. (i - 1) - 1 + 1 /\ 1 + j - 1 = j
    BY <1>1
  <2> QED BY <1>1, <2>2, <2>3
<1>6. /\ b \in Seq(S) /\ Len(b) = n - i
      /\ \A j \in 1 .. n - i : b[j] = r[i + j]
  <2>1. \A j \in i + 1 .. n : r[j] \in S
    BY <1>1
  <2>2. b \in Seq(S) /\ Len(b) = (IF i + 1 <= n THEN n - (i + 1) + 1 ELSE 0)
        /\ \A j \in 1 .. n - (i + 1) + 1 : b[j] = r[(i + 1) + j - 1]
    BY <1>1, <2>1, SubSeqProperties
  <2> HIDE DEF b, n
  <2>3. \A j \in 1 .. n - i : j \in 1 .. n - (i + 1) + 1 /\ (i + 1) + j - 1 = i + j
    BY <1>1
  <2> QED BY <1>1, <2>2, <2>3
<1> HIDE DEF a, b, n
<1>7. /\ a \o b \in Seq(S) /\ Len(a \o b) = Len(a) + Len(b)
      /\ \A j \in 1 .. Len(a) + Len(b) :
            (a \o b)[j] = IF j <= Len(a) THEN a[j] ELSE b[j - Len(a)]
  <2>1. a \in Seq(S) /\ b \in Seq(S)
    BY <1>5, <1>6
  <2> QED BY <2>1
<1>8. Len(a) + Len(b) = n - 1
  BY <1>1, <1>5, <1>6
<1>9. ASSUME NEW j \in 1 .. n - 1 PROVE (a \o b)[j] = IF j < i THEN r[j] ELSE r[j + 1]
  <2>1. (a \o b)[j] = IF j <= i - 1 THEN a[j] ELSE b[j - (i - 1)]
    BY <1>5, <1>7, <1>8
  <2>2. j < i => j \in 1 .. i - 1
    BY <1>1
  <2>3. ~(j < i) => j - (i - 1) \in 1 .. n - i /\ i + (j - (i - 1)) = j + 1
    BY <1>1
  <2> QED BY <1>1, <1>5, <1>6, <2>1, <2>2, <2>3
<1> QED BY <1>4, <1>7, <1>8, <1>9 DEF n

LEMMA ReadAfter == ListRead /\ ListRead'
  BY RecencyOf, PTL

LEMMA SameSeq ==
    ASSUME NEW S, NEW r \in Seq(S), NEW t \in Seq(S), Len(r) = Len(t),
           \A i \in 1 .. Len(r) : r[i] = t[i]
    PROVE  r = t
  BY SeqEqual

(* The keys after each of the changes of the list. *)
LEMMA MovedKeys ==
    ASSUME NEW s, NEW l, Chained(s, l), NEW i \in 1 .. Len(s)
    PROVE  LET r == Keys(s, l.key)
           IN  Keys(Moved(s, i), l.key) = Append(RemoveFirst(r, l.key[s[i]]), l.key[s[i]])
<1> DEFINE n == Len(s)
           r == Keys(s, l.key)
           k == l.key[s[i]]
           t == Moved(s, i)
           u == RemoveFirst(r, k)
           v == Append(u, k)
           w == Keys(t, l.key)
<1>1. n \in Nat /\ i \in 1 .. n /\ k \in Key /\ n - 1 \in Nat /\ s \in Seq(Entry)
      /\ \A a, b \in 1 .. n : s[a] = s[b] => a = b
  BY DEF Chained
<1>2. /\ r \in Seq(Key) /\ Len(r) = n /\ \A j \in 1 .. n : r[j] = l.key[s[j]]
      /\ \A a, b \in 1 .. n : r[a] = r[b] => a = b
  BY KeysShape
<1>3. /\ Len(t) = n
      /\ \A j \in 1 .. n : t[j] = IF j < i THEN s[j] ELSE IF j < n THEN s[j + 1] ELSE s[i]
  BY <1>1, MovedShape
<1>4. w = [j \in 1 .. n |-> l.key[t[j]]]
  BY <1>3 DEF Keys
<1> HIDE DEF n, r, t, w
<1>5. r[i] = k
  BY <1>1, <1>2
<1>6. u \in Seq(Key) /\ Len(u) = n - 1
      /\ \A j \in 1 .. n - 1 : u[j] = IF j < i THEN r[j] ELSE r[j + 1]
  <2> DEFINE x == RemoveFirst(r, r[i])
  <2>1. r \in Seq(Key) /\ i \in 1 .. Len(r) /\ \A a, b \in 1 .. Len(r) : r[a] = r[b] => a = b
    BY <1>1, <1>2
  <2>2. x \in Seq(Key) /\ Len(x) = Len(r) - 1
        /\ \A j \in 1 .. Len(r) - 1 : x[j] = IF j < i THEN r[j] ELSE r[j + 1]
    BY <2>1, RemovesFirst
  <2> QED BY <1>2, <1>5, <2>2
<1> HIDE DEF u, k
<1>7. v \in Seq(Key) /\ Len(v) = n /\ v[n] = k /\ \A j \in 1 .. n - 1 : v[j] = u[j]
  BY <1>1, <1>6
<1> HIDE DEF v
<1>8. ASSUME NEW j \in 1 .. n PROVE v[j] = l.key[t[j]] /\ v[j] \in Key
  <2>0. v[j] \in Key
    BY <1>7
  <2>1. CASE j = n
    BY <1>1, <1>3, <1>7, <2>0, <2>1 DEF k
  <2>2. CASE j < n
    <3>1. j \in 1 .. n - 1 /\ j + 1 \in 1 .. n
      BY <1>1, <2>2
    <3>2. v[j] = (IF j < i THEN r[j] ELSE r[j + 1]) /\ t[j] = IF j < i THEN s[j] ELSE s[j + 1]
      BY <1>3, <1>6, <1>7, <2>2, <3>1
    <3> QED BY <1>2, <2>0, <3>1, <3>2
  <2> QED BY <1>1, <2>1, <2>2
<1>9. w \in Seq(Key) /\ Len(w) = n /\ \A j \in 1 .. n : w[j] = v[j]
  <2>1. w \in [1 .. n -> Key]
    BY <1>4, <1>8
  <2>2. n \in Nat
    BY <1>1
  <2>3. w \in Seq(Key) /\ Len(w) = n
    BY ONLY <2>1, <2>2
  <2>4. \A j \in 1 .. n : w[j] = v[j]
    BY ONLY <1>4, <1>8
  <2> QED BY <2>3, <2>4
<1>10. w = v
  BY <1>7, <1>9, SameSeq
<1> QED BY <1>10 DEF w, v, u, t, r, k, n

LEMMA DroppedKeys ==
    ASSUME NEW s, NEW l, Chained(s, l), NEW i \in 1 .. Len(s)
    PROVE  Keys(Dropped(s, i), l.key) = RemoveFirst(Keys(s, l.key), l.key[s[i]])
<1> DEFINE n == Len(s)
           r == Keys(s, l.key)
           k == l.key[s[i]]
           t == Dropped(s, i)
           u == RemoveFirst(r, k)
           w == Keys(t, l.key)
<1>1. n \in Nat /\ i \in 1 .. n /\ k \in Key /\ n - 1 \in Nat /\ s \in Seq(Entry)
      /\ \A a, b \in 1 .. n : s[a] = s[b] => a = b
  BY DEF Chained
<1>2. /\ r \in Seq(Key) /\ Len(r) = n /\ \A j \in 1 .. n : r[j] = l.key[s[j]]
      /\ \A a, b \in 1 .. n : r[a] = r[b] => a = b
  BY KeysShape
<1>3. /\ Len(t) = n - 1
      /\ \A j \in 1 .. n - 1 : t[j] = IF j < i THEN s[j] ELSE s[j + 1]
  BY <1>1, DroppedShape
<1>4. w = [j \in 1 .. n - 1 |-> l.key[t[j]]]
  BY <1>3 DEF Keys
<1> HIDE DEF n, r, t, w
<1>5. r[i] = k
  BY <1>1, <1>2
<1>6. u \in Seq(Key) /\ Len(u) = n - 1
      /\ \A j \in 1 .. n - 1 : u[j] = IF j < i THEN r[j] ELSE r[j + 1]
  <2> DEFINE x == RemoveFirst(r, r[i])
  <2>1. r \in Seq(Key) /\ i \in 1 .. Len(r) /\ \A a, b \in 1 .. Len(r) : r[a] = r[b] => a = b
    BY <1>1, <1>2
  <2>2. x \in Seq(Key) /\ Len(x) = Len(r) - 1
        /\ \A j \in 1 .. Len(r) - 1 : x[j] = IF j < i THEN r[j] ELSE r[j + 1]
    BY <2>1, RemovesFirst
  <2> QED BY <1>2, <1>5, <2>2
<1> HIDE DEF u, k
<1>8. ASSUME NEW j \in 1 .. n - 1 PROVE u[j] = l.key[t[j]] /\ u[j] \in Key
  <2>1. j \in 1 .. n /\ j + 1 \in 1 .. n
    BY <1>1
  <2>2. u[j] \in Key
    BY <1>6
  <2> QED BY <1>2, <1>3, <1>6, <2>1, <2>2
<1>9. w \in Seq(Key) /\ Len(w) = n - 1 /\ \A j \in 1 .. n - 1 : w[j] = u[j]
  <2>1. w \in [1 .. n - 1 -> Key]
    BY <1>4, <1>8
  <2>2. n - 1 \in Nat
    BY <1>1
  <2>3. w \in Seq(Key) /\ Len(w) = n - 1
    BY ONLY <2>1, <2>2
  <2>4. \A j \in 1 .. n - 1 : w[j] = u[j]
    BY ONLY <1>4, <1>8
  <2> QED BY <2>3, <2>4
<1>10. w = u
  BY <1>6, <1>9, SameSeq
<1> QED BY <1>10 DEF w, u, t, r, k, n

LEMMA AddedKeys ==
    ASSUME NEW s, NEW l, Chained(s, l), NEW e \in Entry, NEW k \in Key,
           \A i \in 1 .. Len(s) : s[i] # e
    PROVE  Keys(Append(s, e), [l.key EXCEPT ![e] = k]) = Append(Keys(s, l.key), k)
<1> DEFINE n == Len(s)
           r == Keys(s, l.key)
           t == Append(s, e)
           ky == [l.key EXCEPT ![e] = k]
           v == Append(r, k)
           w == Keys(t, ky)
<1>1. n \in Nat /\ s \in Seq(Entry) /\ l.key \in [Entry -> Key \cup {NULL}]
      /\ \A a \in 1 .. n : s[a] \in Entry /\ s[a] # e /\ l.key[s[a]] \in Key
  BY DEF Chained, ListType
<1>2. r \in Seq(Key) /\ Len(r) = n /\ \A j \in 1 .. n : r[j] = l.key[s[j]]
  BY KeysShape
<1>3. Len(t) = n + 1 /\ t[n + 1] = e /\ \A j \in 1 .. n : t[j] = s[j]
  BY <1>1
<1>4. w = [j \in 1 .. n + 1 |-> ky[t[j]]]
  BY <1>3 DEF Keys
<1>5. ky[e] = k /\ \A x \in Entry : x # e => ky[x] = l.key[x]
  BY <1>1
<1> HIDE DEF n, r, t, w, ky
<1>7. v \in Seq(Key) /\ Len(v) = n + 1 /\ v[n + 1] = k /\ \A j \in 1 .. n : v[j] = r[j]
  BY <1>1, <1>2
<1> HIDE DEF v
<1>8. ASSUME NEW j \in 1 .. n + 1 PROVE v[j] = ky[t[j]] /\ v[j] \in Key
  <2>0. v[j] \in Key
    BY <1>7
  <2>1. CASE j = n + 1
    BY <1>1, <1>3, <1>5, <1>7, <2>0, <2>1
  <2>2. CASE j \in 1 .. n
    BY <1>1, <1>2, <1>3, <1>5, <1>7, <2>0, <2>2
  <2> QED BY <1>1, <2>1, <2>2
<1>9. w \in Seq(Key) /\ Len(w) = n + 1 /\ \A j \in 1 .. n + 1 : w[j] = v[j]
  <2>1. w \in [1 .. n + 1 -> Key]
    BY <1>4, <1>8
  <2>2. n + 1 \in Nat
    BY <1>1
  <2>3. w \in Seq(Key) /\ Len(w) = n + 1
    BY ONLY <2>1, <2>2
  <2>4. \A j \in 1 .. n + 1 : w[j] = v[j]
    BY ONLY <1>4, <1>8
  <2> QED BY <2>3, <2>4
<1>10. w = v
  BY <1>7, <1>9, SameSeq
<1> QED BY <1>10 DEF w, v, t, r, ky, n

LEMMA RenamedKeys ==
    ASSUME NEW s, NEW l, Chained(s, l), 1 <= Len(s), NEW k \in Key
    PROVE  LET r == Keys(s, l.key)
               ky == [l.key EXCEPT ![s[1]] = k]
           IN  r # <<>> /\ Keys(Moved(s, 1), ky) = Append(Tail(r), k)
<1> DEFINE n == Len(s)
           r == Keys(s, l.key)
           t == Moved(s, 1)
           ky == [l.key EXCEPT ![s[1]] = k]
           u == Tail(r)
           v == Append(u, k)
           w == Keys(t, ky)
<1>1. n \in Nat /\ 1 \in 1 .. n /\ n - 1 \in Nat /\ s \in Seq(Entry)
      /\ l.key \in [Entry -> Key \cup {NULL}]
      /\ (\A a \in 1 .. n : s[a] \in Entry /\ l.key[s[a]] \in Key)
      /\ \A a, b \in 1 .. n : s[a] = s[b] => a = b
  BY DEF Chained, ListType
<1>2. r \in Seq(Key) /\ Len(r) = n /\ \A j \in 1 .. n : r[j] = l.key[s[j]]
  BY KeysShape
<1>3. /\ Len(t) = n
      /\ \A j \in 1 .. n : t[j] = IF j < 1 THEN s[j] ELSE IF j < n THEN s[j + 1] ELSE s[1]
  BY <1>1, MovedShape
<1>4. w = [j \in 1 .. n |-> ky[t[j]]]
  BY <1>3 DEF Keys
<1>5. ky[s[1]] = k /\ \A x \in Entry : x # s[1] => ky[x] = l.key[x]
  BY <1>1
<1> HIDE DEF n, r, t, w, ky
<1>6. r # <<>> /\ u \in Seq(Key) /\ Len(u) = n - 1 /\ \A j \in 1 .. n - 1 : u[j] = r[j + 1]
  BY <1>1, <1>2
<1> HIDE DEF u
<1>7. v \in Seq(Key) /\ Len(v) = n /\ v[n] = k /\ \A j \in 1 .. n - 1 : v[j] = u[j]
  BY <1>1, <1>6
<1> HIDE DEF v
<1>8. ASSUME NEW j \in 1 .. n PROVE v[j] = ky[t[j]] /\ v[j] \in Key
  <2>0. v[j] \in Key /\ ~(j < 1)
    BY <1>1, <1>7
  <2>1. CASE j = n
    BY <1>1, <1>3, <1>5, <1>7, <2>0, <2>1
  <2>2. CASE j < n
    <3>1. j \in 1 .. n - 1 /\ j + 1 \in 1 .. n /\ j + 1 # 1
      BY <1>1, <2>2
    <3>2. s[j + 1] # s[1] /\ s[j + 1] \in Entry
      BY <1>1, <3>1
    <3> QED BY <1>2, <1>3, <1>5, <1>6, <1>7, <2>0, <2>2, <3>1, <3>2
  <2> QED BY <1>1, <2>1, <2>2
<1>9. w \in Seq(Key) /\ Len(w) = n /\ \A j \in 1 .. n : w[j] = v[j]
  <2>1. w \in [1 .. n -> Key]
    BY <1>4, <1>8
  <2>2. n \in Nat
    BY <1>1
  <2>3. w \in Seq(Key) /\ Len(w) = n
    BY ONLY <2>1, <2>2
  <2>4. \A j \in 1 .. n : w[j] = v[j]
    BY ONLY <1>4, <1>8
  <2> QED BY <2>3, <2>4
<1>10. w = v
  BY <1>7, <1>9, SameSeq
<1> QED BY <1>6, <1>10 DEF w, v, u, t, r, ky, n

-----------------------------------------------------------------------------
(***************************************************************************)
(* The invariant: there are entries s that the list, its index and its     *)
(* tail are about, they hold the values of the hash table, and while the   *)
(* store is open they are among the entries that have been created.        *)
(***************************************************************************)
Kept(s) ==
    /\ Chained(s, list) /\ Len(s) <= LRU_CACHE_SIZE
    /\ \A i \in 1 .. Len(s) : eval[s[i]] = kv[ekey[s[i]]]
    /\ phase = "open" => Len(s) <= counterLRU /\ \A i \in 1 .. Len(s) : s[i] <= counterLRU
    /\ phase = "closed" => s = <<>> /\ kv = [k \in Key |-> NULL]

KVType ==
    /\ kv \in [Key -> Stored] /\ eval \in [Entry -> Stored]
    /\ counterLRU \in 0 .. LRU_CACHE_SIZE
    /\ phase \in {"open", "resetting", "closed"}
    /\ phase # "open" => got = NULL

KVInv == KVType /\ \E s : Kept(s)

(* t is s after k has become the most recently used key of the list l. *)
Used(s, t, l, k) ==
    /\ Chained(t, l)
    /\ l.tail \in Entry /\ l.key[l.tail] = k
    /\ \A i \in 1 .. Len(t) :
          t[i] # l.tail => \E j \in 1 .. Len(s) : s[j] = t[i] /\ l.key[t[i]] = ekey[s[j]]

(* A sequence of keys after k has been moved to the end, or entered. *)
KeyMoved(r, q, k) == q = Append(RemoveFirst(r, k), k)
KeyEntered(r, q, k) == \/ Len(r) < LRU_CACHE_SIZE /\ q = Append(r, k)
                       \/ r # <<>> /\ q = Append(Tail(r), k)

(* A hit. *)
LEMMA HitEffect ==
    ASSUME NEW s, Chained(s, list), NEW k \in Key, Hit(k),
           NEW c \in Int, \A i \in 1 .. Len(s) : s[i] <= c
    PROVE  LET l == MovLRUCache(list, prev[k])
           IN  \E t : /\ Used(s, t, l, k) /\ Len(t) = Len(s)
                      /\ \A i \in 1 .. Len(t) : t[i] <= c
                      /\ KeyMoved(Keys(s, ekey), Keys(t, l.key), k)
                      /\ \E i \in 1 .. Len(s) : l.tail = s[i] /\ ekey[s[i]] = k
<1> DEFINE n == Len(s)
           l == MovLRUCache(list, prev[k])
<1>0. list.next = next /\ list.prev = prev /\ list.key = ekey /\ list.tail = tailLRU
  BY DEF list, List
<1>1. n \in Nat /\ s \in Seq(Entry) /\ \A a, b \in 1 .. n : s[a] = s[b] => a = b
  BY DEF Chained
<1>2. PICK i \in 1 .. n : ekey[s[i]] = k
  BY <1>0 DEF Chained, Hit
<1>3. prev[k] = Before(s, i)
  BY <1>0, <1>2 DEF Chained
<1> DEFINE t == Moved(s, i)
<1>4. Chained(t, l) /\ l.key = ekey
  BY <1>0, <1>3, MovesToTail
<1>5. /\ Len(t) = n
      /\ \A j \in 1 .. n : t[j] = IF j < i THEN s[j] ELSE IF j < n THEN s[j + 1] ELSE s[i]
  BY <1>1, MovedShape
<1>6. Keys(t, list.key) = Append(RemoveFirst(Keys(s, list.key), list.key[s[i]]), list.key[s[i]])
  BY MovedKeys
<1> HIDE DEF t, l, n
<1>7. l.tail = s[i]
  <2>1. LastOf(t) = t[n]
    <3>1. n + 1 # 1 /\ (n + 1) - 1 = n
      BY <1>1
    <3> QED BY <1>5, <3>1 DEF LastOf, Before
  <2>2. n \in 1 .. n /\ t[n] = s[i]
    BY <1>1, <1>5
  <2> QED BY <1>4, <2>1, <2>2 DEF Chained
<1>8. ASSUME NEW j \in 1 .. n PROVE \E a \in 1 .. n : t[j] = s[a]
  <2>1. j < n => j + 1 \in 1 .. n
    BY <1>1
  <2> QED BY <1>5, <2>1
<1>9. s[i] \in Entry
  BY <1>1 DEF n
<1>10. Used(s, t, l, k)
  <2>1. \A j \in 1 .. Len(t) : \E a \in 1 .. Len(s) : s[a] = t[j] /\ l.key[t[j]] = ekey[s[a]]
    BY <1>4, <1>5, <1>8 DEF n
  <2> QED BY <1>2, <1>4, <1>7, <1>9, <2>1 DEF Used
<1>11. \A j \in 1 .. Len(t) : t[j] <= c
  BY <1>5, <1>8 DEF n
<1>12. KeyMoved(Keys(s, ekey), Keys(t, l.key), k)
  BY <1>0, <1>2, <1>4, <1>6 DEF KeyMoved
<1> QED BY <1>2, <1>5, <1>7, <1>10, <1>11, <1>12 DEF n, l

(* A new entry. *)
LEMMA NewEffect ==
    ASSUME NEW s, Chained(s, list), NEW k \in Key, ~Hit(k), counterLRU \in Nat,
           counterLRU < LRU_CACHE_SIZE, Len(s) <= counterLRU,
           \A i \in 1 .. Len(s) : s[i] <= counterLRU
    PROVE  LET l == NewLRUEntry(k)
           IN  \E t : /\ Used(s, t, l, k) /\ Len(t) = Len(s) + 1
                      /\ \A i \in 1 .. Len(t) : t[i] <= counterLRU + 1
                      /\ KeyEntered(Keys(s, ekey), Keys(t, l.key), k)
<1> DEFINE n == Len(s)
           l == NewLRUEntry(k)
           e == counterLRU + 1
           t == Append(s, e)
<1>0. list.next = next /\ list.prev = prev /\ list.key = ekey /\ list.tail = tailLRU
  BY DEF list, List
<1>1. n \in Nat /\ s \in Seq(Entry) /\ \A a \in 1 .. n : s[a] \in Entry /\ s[a] \in Int
  BY OneBefore DEF Chained
<1>2. e \in Entry /\ \A i \in 1 .. n : s[i] # e
  BY <1>1, SizeAssumption DEF Entry
<1>3. l = List([list.next EXCEPT ![list.tail] = e, ![e] = NIL],
               [list.prev EXCEPT ![k] = list.tail], [list.key EXCEPT ![e] = k], e)
  BY <1>0 DEF NewLRUEntry, SetLRUHashTab
<1>4. list.prev[k] = NIL
  BY <1>0 DEF Hit
<1>5. Chained(t, l)
  <2> HIDE DEF l, e
  <2> QED BY <1>2, <1>3, <1>4, AddsAtTail DEF n
<1>6. l.key = [ekey EXCEPT ![e] = k] /\ l.tail = e
  BY <1>0, <1>3 DEF List
<1>7. Keys(t, l.key) = Append(Keys(s, ekey), k)
  <2>1. Keys(t, [list.key EXCEPT ![e] = k]) = Append(Keys(s, list.key), k)
    <3> HIDE DEF e
    <3> QED BY <1>2, AddedKeys DEF n
  <2> QED BY <1>0, <1>6, <2>1
<1>8. Len(t) = n + 1 /\ t[n + 1] = e /\ \A j \in 1 .. n : t[j] = s[j]
  BY <1>1
<1>9. Len(Keys(s, ekey)) = n
  BY <1>0, KeysShape
<1>10. ekey \in [Entry -> Key \cup {NULL}]
  BY <1>0 DEF Chained, ListType
<1> HIDE DEF t, l, n, e
<1>11. l.key[e] = k /\ \A x \in Entry : x # e => l.key[x] = ekey[x]
  BY <1>2, <1>6, <1>10
<1>12. \A j \in 1 .. n + 1 : j = n + 1 \/ j \in 1 .. n
  BY <1>1
<1>13. Used(s, t, l, k)
  <2>1. ASSUME NEW j \in 1 .. Len(t), t[j] # e
        PROVE  \E a \in 1 .. Len(s) : s[a] = t[j] /\ l.key[t[j]] = ekey[s[a]]
    BY <1>1, <1>2, <1>8, <1>11, <1>12, <2>1 DEF n
  <2> QED BY <1>2, <1>5, <1>6, <1>11, <2>1 DEF Used
<1>14. \A i \in 1 .. Len(t) : t[i] <= counterLRU + 1
  BY <1>1, <1>8, <1>12 DEF n, e
<1>15. KeyEntered(Keys(s, ekey), Keys(t, l.key), k)
  <2>1. n < LRU_CACHE_SIZE
    BY <1>1, SizeAssumption DEF n
  <2> QED BY <1>7, <1>9, <2>1 DEF KeyEntered
<1> QED BY <1>8, <1>13, <1>14, <1>15 DEF n, l

(* The entry of the least recently used key is given to k; after a         *)
(* deletion that left the list empty it is one that is not on it.          *)
LEMMA EvictEffect ==
    ASSUME NEW s, Chained(s, list), NEW k \in Key, ~Hit(k), EvictLRUEntry(k).ok
    PROVE  LET l == EvictLRUEntry(k)
           IN  \E t : /\ Used(s, t, l, k) /\ (Len(t) = Len(s) \/ Len(t) = 1)
                      /\ KeyEntered(Keys(s, ekey), Keys(t, l.key), k)
<1> DEFINE n == Len(s)
           l == EvictLRUEntry(k)
           first == next[HEAD]
           pv == [[prev EXCEPT ![ekey[first]] = NIL] EXCEPT ![k] = HEAD]
           ky == [ekey EXCEPT ![first] = k]
           l1 == List(next, pv, ky, tailLRU)
<1>0. list.next = next /\ list.prev = prev /\ list.key = ekey /\ list.tail = tailLRU
  BY DEF list, List
<1>1. /\ n \in Nat /\ s \in Seq(Entry) /\ (\A a \in 1 .. n : s[a] \in Entry)
      /\ \A a, b \in 1 .. n : s[a] = s[b] => a = b
  BY DEF Chained
<1>2. first \in Entry
  <2>1. CASE ~Valid(first)
    <3>1. l.ok = FALSE
      BY <2>1 DEF EvictLRUEntry, list, List
    <3> QED BY <3>1
  <2> QED BY <2>1 DEF Valid
<1>3. l = MovLRUCache(l1, HEAD)
  BY <1>2 DEF EvictLRUEntry, SetLRUHashTab, DelLRUHashTab, Valid
<1>4. list.prev[k] = NIL
  BY <1>0 DEF Hit
<1>5. ekey \in [Entry -> Key \cup {NULL}]
  BY <1>0 DEF Chained, ListType
<1>6. ky[first] = k /\ \A x \in Entry : x # first => ky[x] = ekey[x]
  BY <1>2, <1>5
<1>7. CASE n = 0
  <2>1. Chained(<<first>>, l) /\ l.key = ky
    <3> HIDE DEF first
    <3>1. list.next[HEAD] = first /\ n = 0
      BY <1>0, <1>7 DEF first
    <3> QED BY <1>0, <1>2, <1>3, <3>1, EntersEmpty DEF n
  <2> DEFINE t == <<first>>
  <2>2. Len(t) = 1 /\ t[1] = first /\ 1 .. 1 = {1} /\ t \in Seq(Entry)
    BY <1>2
  <2> HIDE DEF t
  <2>3. Chained(t, l)
    BY <2>1 DEF t
  <2>4. l.tail = first
    BY <2>2, <2>3 DEF Chained, LastOf, Before
  <2>5. Used(s, t, l, k)
    <3> HIDE DEF ky, l, first
    <3> QED BY <1>2, <1>6, <2>1, <2>2, <2>3, <2>4 DEF Used
  <2>6. Keys(t, l.key) = <<k>>
    <3> DEFINE w == Keys(t, l.key)
    <3>1. w = [j \in 1 .. 1 |-> l.key[t[j]]] /\ l.key[first] = k
      BY <1>6, <2>1, <2>2 DEF Keys
    <3>2. w \in [1 .. 1 -> Key]
      BY <2>2, <3>1
    <3>3. w \in Seq(Key) /\ Len(w) = 1 /\ w[1] = k
      BY <2>2, <3>1, <3>2
    <3>4. <<k>> \in Seq(Key) /\ Len(<<k>>) = 1 /\ <<k>>[1] = k
      OBVIOUS
    <3> HIDE DEF w
    <3>5. w = <<k>>
      <4> DEFINE u == <<k>>
      <4> HIDE DEF u
      <4>1. u \in Seq(Key) /\ Len(u) = 1 /\ u[1] = k
        BY <3>4 DEF u
      <4>2. w = u
        BY <2>2, <3>3, <4>1, SameSeq
      <4> QED BY <4>2 DEF u
    <3> QED BY <3>5 DEF w
  <2>7. Keys(s, ekey) \in Seq(Key) /\ Len(Keys(s, ekey)) = 0
    BY <1>0, <1>7, KeysShape
  <2>8. Append(Keys(s, ekey), k) = <<k>>
    <3> DEFINE r == Keys(s, ekey)
    <3> HIDE DEF r
    <3>1. r = <<>>
      BY <2>7 DEF r
    <3>2. Append(r, k) = <<k>>
      BY <3>1
    <3> QED BY <3>2 DEF r
  <2>9. KeyEntered(Keys(s, ekey), Keys(t, l.key), k)
    BY <2>6, <2>7, <2>8, SizeAssumption DEF KeyEntered
  <2> QED BY <2>2, <2>5, <2>9 DEF l
<1>8. CASE n # 0
  <2>0. 1 \in 1 .. n /\ 1 <= n /\ Before(s, 1) = HEAD
    BY <1>1, <1>8 DEF Before
  <2>1. first = s[1]
    BY <1>0, <2>0 DEF Chained, n
  <2>2. Chained(s, l1)
    <3>1. Chained(s, List(list.next, [[list.prev EXCEPT ![list.key[s[1]]] = NIL] EXCEPT ![k] = HEAD],
                           [list.key EXCEPT ![s[1]] = k], list.tail))
      BY <1>4, <1>8, RenamesFirst DEF n
    <3> HIDE DEF first
    <3> QED BY <1>0, <2>1, <3>1
  <2> DEFINE t == Moved(s, 1)
  <2>3. l1.key = ky
    BY DEF List
  <2> HIDE DEF l1, ky, first
  <2>4. Chained(t, l) /\ l.key = ky
    <3> HIDE DEF l, n
    <3>1. 1 \in 1 .. Len(s)
      BY <2>0 DEF n
    <3>2. l = MovLRUCache(l1, Before(s, 1))
      BY <1>3, <2>0
    <3> QED BY <2>2, <2>3, <3>1, <3>2, MovesToTail
  <2>5. /\ Len(t) = n
        /\ \A j \in 1 .. n : t[j] = IF j < 1 THEN s[j] ELSE IF j < n THEN s[j + 1] ELSE s[1]
    BY <1>1, <2>0, MovedShape
  <2>6. Keys(s, ekey) # <<>> /\ Keys(t, ky) = Append(Tail(Keys(s, ekey)), k)
    <3>1. /\ Keys(s, list.key) # <<>>
          /\ Keys(Moved(s, 1), [list.key EXCEPT ![s[1]] = k]) = Append(Tail(Keys(s, list.key)), k)
      BY <2>0, RenamedKeys DEF n
    <3> QED BY <1>0, <2>1, <3>1 DEF ky
  <2> HIDE DEF t, n, l
  <2>7. l.tail = first
    <3>1. n + 1 # 1 /\ (n + 1) - 1 = n /\ n \in 1 .. n
      BY <1>1, <2>0
    <3>2. LastOf(t) = t[n] /\ t[n] = s[1]
      BY <1>1, <2>0, <2>5, <3>1 DEF LastOf, Before
    <3> QED BY <2>1, <2>4, <3>2 DEF Chained
  <2>8. Used(s, t, l, k)
    <3>1. ASSUME NEW j \in 1 .. Len(t), t[j] # first
          PROVE  \E a \in 1 .. Len(s) : s[a] = t[j] /\ ky[t[j]] = ekey[s[a]]
      <4>1. j \in 1 .. n /\ ~(j < 1)
        BY <1>1, <2>5, <3>1
      <4>2. j < n
        BY <1>1, <2>1, <2>5, <3>1, <4>1
      <4>3. t[j] = s[j + 1] /\ j + 1 \in 1 .. n
        BY <1>1, <2>5, <4>1, <4>2
      <4> QED BY <1>1, <1>6, <3>1, <4>3 DEF n
    <3> QED BY <1>2, <1>6, <2>4, <2>7, <3>1 DEF Used
  <2>9. KeyEntered(Keys(s, ekey), Keys(t, l.key), k)
    BY <2>4, <2>6 DEF KeyEntered
  <2> QED BY <2>5, <2>8, <2>9 DEF l, n
<1> QED BY <1>7, <1>8

-----------------------------------------------------------------------------
(***************************************************************************)
(* The steps.                                                              *)
(***************************************************************************)
kvMap == <<kv, Recency, got>>

LEMMA UseEffect ==
    ASSUME NEW l, NEW t, Use(l), Chained(t, l), Len(t) <= LRU_CACHE_SIZE
    PROVE  Chained(t, list') /\ ekey' = l.key /\ Recency' = Keys(t, l.key)
<1>1. list'.next = l.next /\ list'.prev = l.prev /\ list'.key = l.key /\ list'.tail = l.tail
      /\ list'.ok /\ ekey' = l.key
  BY DEF Use, list, List
<1>2. Chained(t, list')
  <2> DEFINE m == list'
  <2>1. m.next = l.next /\ m.prev = l.prev /\ m.key = l.key /\ m.tail = l.tail /\ m.ok
    BY <1>1
  <2> HIDE DEF m
  <2>2. Chained(t, m)
    BY <2>1 DEF Chained, ListType
  <2> QED BY <2>2 DEF m
<1>3. Recency' = Keys(t, ekey')
  BY <1>2, ReadAfter DEF ListRead
<1> QED BY <1>1, <1>2, <1>3

LEMMA KeptRecency ==
    ASSUME NEW s, Kept(s)
    PROVE  Recency = Keys(s, ekey)
  BY RecencyOf DEF ListRead, Kept

(* A step that leaves the list and the table alone. *)
LEMMA StandsStill ==
    ASSUME KVInv, UNCHANGED <<kv, prev, next, ekey, eval, tailLRU>>,
           NEW s, Kept(s)
    PROVE  Chained(s, list') /\ Recency' = Recency
<1>1. list' = list
  BY DEF list
<1>2. Chained(s, list) /\ Len(s) <= LRU_CACHE_SIZE
  BY DEF Kept
<1>3. Chained(s, list')
  BY <1>1, <1>2
<1>4. Recency' = Keys(s, ekey')
  BY <1>2, <1>3, ReadAfter DEF ListRead
<1> QED BY <1>3, <1>4, KeptRecency

LEMMA FaultStep ==
    ASSUME KVInv, UNCHANGED <<kv, prev, next, ekey, eval, tailLRU, counterLRU, phase, got>>
    PROVE  KVInv' /\ UNCHANGED kvMap
<1>1. PICK s : Kept(s)
  BY DEF KVInv
<1>2. Chained(s, list') /\ Recency' = Recency
  BY <1>1, StandsStill
<1>3. Kept(s)'
  BY <1>1, <1>2 DEF Kept
<1>4. KVType'
  BY DEF KVInv, KVType
<1> QED BY <1>2, <1>3, <1>4 DEF KVInv, kvMap

(* The entries other than the one that k has been given hold their values. *)
LEMMA OthersKept ==
    ASSUME NEW s, Kept(s), NEW t, NEW l, NEW k \in Key, Used(s, t, l, k),
           NEW i \in 1 .. Len(t)
    PROVE  /\ t[i] \in Entry /\ l.tail \in Entry /\ l.key[t[i]] \in Key
           /\ \/ t[i] = l.tail /\ l.key[t[i]] = k
              \/ t[i] # l.tail /\ l.key[t[i]] # k /\ eval[t[i]] = kv[l.key[t[i]]]
<1>1. /\ t[i] \in Entry /\ l.tail \in Entry /\ l.key[l.tail] = k /\ Chained(t, l)
      /\ l.key[t[i]] \in Key
  BY DEF Used, Chained
<1>2. \A j \in 1 .. Len(t) : l.key[t[j]] = l.key[t[i]] => j = i
  BY <1>1, OneKey
<1>3. CASE t[i] = l.tail
  BY <1>1, <1>3
<1>4. CASE t[i] # l.tail
  <2>1. PICK j \in 1 .. Len(s) : s[j] = t[i] /\ l.key[t[i]] = ekey[s[j]]
    BY <1>4 DEF Used
  <2>2. eval[t[i]] = kv[l.key[t[i]]]
    BY <2>1 DEF Kept
  <2>3. l.key[t[i]] # k
    <3>1. Len(t) \in Nat /\ l.tail = LastOf(t) /\ l.tail # HEAD
      BY <1>1, SizeAssumption DEF Chained, Entry, HEAD
    <3>2. Len(t) \in 1 .. Len(t) /\ l.tail = t[Len(t)]
      BY <3>1 DEF LastOf, Before
    <3> QED BY <1>1, <1>2, <1>4, <3>2
  <2> QED BY <1>1, <1>4, <2>2, <2>3
<1> QED BY <1>3, <1>4

(* The operators of the abstract store, applied to the list. *)
LEMMA MapView ==
    ASSUME NEW s, Kept(s), NEW k \in Key
    PROVE  /\ Map!Cached(k) <=> Hit(k)
           /\ Map!Without(k) = RemoveFirst(Keys(s, ekey), k)
           /\ Recency = Keys(s, ekey)
<1>1. Recency = Keys(s, ekey)
  BY KeptRecency
<1>2. list.key = ekey /\ list.prev = prev
  BY DEF list, List
<1>3. k \in ToSet(Keys(s, ekey)) <=> Hit(k)
  BY <1>2, KeysShape DEF Kept, Hit
<1>4. Map!Cached(k) <=> Hit(k)
  BY <1>1, <1>3 DEF Map!Cached, Map!ToSet, ToSet
<1>5. Map!Without(k) = RemoveFirst(Keys(s, ekey), k)
  BY <1>1 DEF Map!Without, Map!RemoveFirst, RemoveFirst, Map!RemoveAt, RemoveAt,
              Map!SelectInSeq, SelectInSeq, Map!Min, Min
<1> QED BY <1>1, <1>4, <1>5

(* kv_set, with memory and without. *)
LEMMA StoreStep ==
    ASSUME KVInv, phase = "open", NEW k \in Key, NEW v \in Val \cup {Freed},
           v = Freed => kv[k] # NULL, KvStore(k, v)
    PROVE  KVInv' /\ (Map!Put(k, v) \/ UNCHANGED kvMap)
<1>1. PICK s : Kept(s)
  BY DEF KVInv
<1> DEFINE l == SetLRUCache(k)
           c == IF Hit(k) \/ counterLRU = LRU_CACHE_SIZE THEN counterLRU ELSE counterLRU + 1
<1>2. CASE ~l.ok
  <2>1. Fault
    BY <1>2 DEF KvStore
  <2> QED BY <2>1, FaultStep DEF Fault
<1>3. CASE l.ok
  <2>0. KVType /\ Chained(s, list) /\ Len(s) <= counterLRU /\ (\A i \in 1 .. Len(s) : s[i] <= counterLRU)
        /\ counterLRU \in Nat /\ counterLRU <= LRU_CACHE_SIZE /\ LRU_CACHE_SIZE \in Nat
        /\ LRU_CACHE_SIZE >= 1 /\ Len(s) \in Nat
    BY <1>1, SizeAssumption DEF KVInv, KVType, Kept, Chained
  <2>1. /\ Use(l) /\ kv' = [kv EXCEPT ![k] = v] /\ eval' = [eval EXCEPT ![l.tail] = v]
        /\ counterLRU' = c /\ got' = NULL /\ phase' = phase
    BY <1>3 DEF KvStore, SetKVHashTab, CachedValue
  <2>2. /\ c \in 0 .. LRU_CACHE_SIZE
        /\ \E t : /\ Used(s, t, l, k) /\ Len(t) <= c /\ (\A i \in 1 .. Len(t) : t[i] <= c)
                  /\ IF Hit(k) THEN KeyMoved(Keys(s, ekey), Keys(t, l.key), k)
                               ELSE KeyEntered(Keys(s, ekey), Keys(t, l.key), k)
    <3>1. CASE Hit(k)
      <4>1. l = MovLRUCache(list, prev[k]) /\ c = counterLRU
        BY <3>1 DEF SetLRUCache, GetLRUCache
      <4> HIDE DEF l, c
      <4>2. PICK t : /\ Used(s, t, l, k) /\ Len(t) = Len(s)
                     /\ \A i \in 1 .. Len(t) : t[i] <= counterLRU
                     /\ KeyMoved(Keys(s, ekey), Keys(t, l.key), k)
        BY <2>0, <3>1, <4>1, HitEffect
      <4> QED BY <2>0, <3>1, <4>1, <4>2
    <3>2. CASE ~Hit(k) /\ counterLRU < LRU_CACHE_SIZE
      <4>1. l = NewLRUEntry(k) /\ c = counterLRU + 1
        BY <2>0, <3>2 DEF SetLRUCache
      <4> HIDE DEF l, c
      <4>2. PICK t : /\ Used(s, t, l, k) /\ Len(t) = Len(s) + 1
                     /\ \A i \in 1 .. Len(t) : t[i] <= counterLRU + 1
                     /\ KeyEntered(Keys(s, ekey), Keys(t, l.key), k)
        BY <2>0, <3>2, <4>1, NewEffect
      <4> QED BY <2>0, <3>2, <4>1, <4>2
    <3>3. CASE ~Hit(k) /\ counterLRU = LRU_CACHE_SIZE
      <4>1. l = EvictLRUEntry(k) /\ c = LRU_CACHE_SIZE
        BY <2>0, <3>3 DEF SetLRUCache
      <4>2. l.ok
        BY <1>3
      <4> HIDE DEF l, c
      <4>3. PICK t : /\ Used(s, t, l, k) /\ (Len(t) = Len(s) \/ Len(t) = 1)
                     /\ KeyEntered(Keys(s, ekey), Keys(t, l.key), k)
        BY <2>0, <3>3, <4>1, <4>2, EvictEffect
      <4>4. \A i \in 1 .. Len(t) : t[i] <= LRU_CACHE_SIZE
        BY <2>0, <4>3 DEF Used, Chained, Entry
      <4> QED BY <2>0, <3>3, <4>1, <4>3, <4>4
    <3> QED BY <2>0, <3>1, <3>2, <3>3
  <2>3. PICK t : /\ Used(s, t, l, k) /\ Len(t) <= c /\ (\A i \in 1 .. Len(t) : t[i] <= c)
                 /\ IF Hit(k) THEN KeyMoved(Keys(s, ekey), Keys(t, l.key), k)
                              ELSE KeyEntered(Keys(s, ekey), Keys(t, l.key), k)
    BY <2>2
  <2> HIDE DEF l, c
  <2>4. Chained(t, l) /\ Len(t) \in Nat /\ Len(t) <= LRU_CACHE_SIZE
    BY <2>0, <2>2, <2>3 DEF Used, Chained
  <2>5. Chained(t, list') /\ ekey' = l.key /\ Recency' = Keys(t, l.key)
    BY <2>1, <2>4, UseEffect
  <2>6. \A i \in 1 .. Len(t) : eval'[t[i]] = kv'[ekey'[t[i]]]
    <3> SUFFICES ASSUME NEW i \in 1 .. Len(t) PROVE eval'[t[i]] = kv'[ekey'[t[i]]]
      OBVIOUS
    <3>1. /\ t[i] \in Entry /\ l.tail \in Entry /\ l.key[t[i]] \in Key
          /\ \/ t[i] = l.tail /\ l.key[t[i]] = k
             \/ t[i] # l.tail /\ l.key[t[i]] # k /\ eval[t[i]] = kv[l.key[t[i]]]
      BY <1>1, <2>3, OthersKept
    <3>2. eval \in [Entry -> Stored] /\ kv \in [Key -> Stored]
      BY <2>0 DEF KVType
    <3>3. eval'[t[i]] = kv'[l.key[t[i]]]
      BY <2>1, <3>1, <3>2
    <3> QED BY <2>5, <3>3
  <2>7. Kept(t)'
    BY <2>1, <2>3, <2>4, <2>5, <2>6 DEF Kept
  <2>8. KVType'
    <3>1. v \in Stored /\ l.tail \in Entry
      BY <2>3 DEF Stored, Used
    <3> QED BY <2>0, <2>1, <2>2, <3>1 DEF KVType
  <2>9. Map!Put(k, v)
    <3>1. /\ Map!Cached(k) <=> Hit(k)
          /\ Map!Without(k) = RemoveFirst(Keys(s, ekey), k)
          /\ Recency = Keys(s, ekey)
      BY <1>1, MapView
    <3>2. IF Map!Cached(k) THEN Map!Touch(k) ELSE Map!Enter(k)
      <4>1. CASE Hit(k)
        BY <2>3, <2>5, <3>1, <4>1 DEF Map!Touch, KeyMoved
      <4>2. CASE ~Hit(k)
        BY <2>3, <2>5, <3>1, <4>2 DEF Map!Enter, KeyEntered
      <4> QED BY <3>1, <4>1, <4>2
    <3> QED BY <2>1, <3>2 DEF Map!Put
  <2> QED BY <2>7, <2>8, <2>9 DEF KVInv
<1> QED BY <1>2, <1>3

LEMMA SetStep ==
    ASSUME KVInv, NEW k \in Key, NEW v \in Val, KvSet(k, v)
    PROVE  KVInv' /\ (Map!KVNext \/ UNCHANGED kvMap)
<1>1. phase = "open"
  BY DEF KvSet, Called
<1>2. CASE kv[k] = Freed
  BY <1>2, FaultStep DEF KvSet, Fault
<1>3. CASE kv[k] # Freed
  <2>1. KvStore(k, v) /\ v # Freed
    BY <1>3, ValueAssumption DEF KvSet
  <2>2. KVInv' /\ (Map!Put(k, v) \/ UNCHANGED kvMap)
    BY <1>1, <2>1, StoreStep
  <2> QED BY <2>2 DEF Map!KVNext
<1> QED BY <1>2, <1>3

LEMMA SetNoMemoryStep ==
    ASSUME KVInv, NEW k \in Key, KvSetNoMemory(k)
    PROVE  KVInv' /\ (Map!KVNext \/ UNCHANGED kvMap)
<1>1. phase = "open"
  BY DEF KvSetNoMemory, Called
<1>2. CASE kv[k] \notin Val
  BY <1>2, FaultStep DEF KvSetNoMemory, Fault
<1>3. CASE kv[k] \in Val
  <2>1. KvStore(k, Freed) /\ kv[k] # NULL
    BY <1>3, ValueAssumption DEF KvSetNoMemory
  <2>2. KVInv' /\ (Map!Put(k, Freed) \/ UNCHANGED kvMap)
    BY <1>1, <2>1, StoreStep
  <2> QED BY <2>2 DEF Map!KVNext
<1> QED BY <1>2, <1>3

LEMMA GetStep ==
    ASSUME KVInv, NEW k \in Key, KvGet(k)
    PROVE  KVInv' /\ (Map!KVNext \/ UNCHANGED kvMap)
<1>1. PICK s : Kept(s)
  BY DEF KVInv
<1> DEFINE l == GetLRUCache(k)
<1>2. /\ phase = "open" /\ KVType /\ Chained(s, list) /\ Len(s) <= counterLRU
      /\ (\A i \in 1 .. Len(s) : s[i] <= counterLRU) /\ counterLRU \in Int
      /\ Len(s) \in Nat /\ Len(s) <= LRU_CACHE_SIZE
  BY <1>1 DEF KvGet, Called, KVInv, KVType, Kept, Chained
<1>3. /\ Map!Cached(k) <=> Hit(k)
      /\ Map!Without(k) = RemoveFirst(Keys(s, ekey), k)
      /\ Recency = Keys(s, ekey)
  BY <1>1, MapView
<1>4. CASE ~l.ok
  <2>1. Fault
    BY <1>4 DEF KvGet
  <2> QED BY <2>1, FaultStep DEF Fault
<1>5. CASE l.ok
  <2>1. /\ Use(l) /\ got' = (IF Hit(k) THEN eval[l.tail] ELSE kv[k])
        /\ UNCHANGED <<kv, eval, counterLRU, phase>>
    BY <1>5 DEF KvGet
  <2>2. CASE Hit(k)
    <3>1. l = MovLRUCache(list, prev[k])
      BY <2>2 DEF GetLRUCache
    <3> HIDE DEF l
    <3>2. PICK t : /\ Used(s, t, l, k) /\ Len(t) = Len(s)
                   /\ (\A i \in 1 .. Len(t) : t[i] <= counterLRU)
                   /\ KeyMoved(Keys(s, ekey), Keys(t, l.key), k)
                   /\ \E i \in 1 .. Len(s) : l.tail = s[i] /\ ekey[s[i]] = k
      <4> DEFINE m == MovLRUCache(list, prev[k])
                 c == counterLRU
      <4>1. c \in Int /\ \A i \in 1 .. Len(s) : s[i] <= c
        BY <1>2
      <4> HIDE DEF c
      <4>2. \E t : /\ Used(s, t, m, k) /\ Len(t) = Len(s)
                    /\ (\A i \in 1 .. Len(t) : t[i] <= c)
                    /\ KeyMoved(Keys(s, ekey), Keys(t, m.key), k)
                    /\ \E i \in 1 .. Len(s) : m.tail = s[i] /\ ekey[s[i]] = k
        BY <1>2, <2>2, <4>1, HitEffect
      <4> QED BY <3>1, <4>2 DEF c
    <3>3. Chained(t, l) /\ Len(t) <= LRU_CACHE_SIZE
      BY <1>2, <3>2 DEF Used
    <3>4. Chained(t, list') /\ ekey' = l.key /\ Recency' = Keys(t, l.key)
      BY <2>1, <3>3, UseEffect
    <3>5. eval[l.tail] = kv[k]
      BY <1>1, <3>2 DEF Kept
    <3>6. \A i \in 1 .. Len(t) : eval[t[i]] = kv[l.key[t[i]]]
      <4>1. l.key[l.tail] = k
        BY <3>2 DEF Used
      <4>2. ASSUME NEW i \in 1 .. Len(t), t[i] # l.tail PROVE eval[t[i]] = kv[l.key[t[i]]]
        BY <1>1, <3>2, <4>2 DEF Used, Kept
      <4> QED BY <3>5, <4>1, <4>2
    <3>7. Kept(t)'
      BY <1>2, <2>1, <3>2, <3>3, <3>4, <3>6 DEF Kept
    <3>8. KVType'
      BY <1>2, <2>1 DEF KVType
    <3>9. Map!Fetch(k)
      <4>1. Map!Touch(k)
        BY <1>3, <2>2, <3>2, <3>4 DEF Map!Touch, KeyMoved
      <4> QED BY <2>1, <2>2, <3>5, <4>1 DEF Map!Fetch
    <3> QED BY <3>7, <3>8, <3>9 DEF KVInv, Map!KVNext
  <2>3. CASE ~Hit(k)
    <3>1. l = list
      BY <2>3 DEF GetLRUCache
    <3>2. UNCHANGED <<kv, prev, next, ekey, eval, tailLRU>>
      BY <2>1, <3>1 DEF Use, list, List
    <3>3. Chained(s, list') /\ Recency' = Recency
      BY <1>1, <3>2, StandsStill
    <3>4. Kept(s)'
      BY <1>1, <2>1, <3>2, <3>3 DEF Kept
    <3>5. KVType'
      BY <1>2, <2>1 DEF KVType
    <3>6. Map!Fetch(k)
      <4>1. Map!Touch(k)
        BY <1>3, <2>3, <3>3 DEF Map!Touch
      <4> QED BY <2>1, <2>3, <4>1 DEF Map!Fetch
    <3> QED BY <3>4, <3>5, <3>6 DEF KVInv, Map!KVNext
  <2> QED BY <2>2, <2>3
<1> QED BY <1>4, <1>5

LEMMA DeleteStep ==
    ASSUME KVInv, NEW k \in Key, KvDelete(k)
    PROVE  KVInv' /\ (Map!KVNext \/ UNCHANGED kvMap)
<1>1. PICK s : Kept(s)
  BY DEF KVInv
<1> DEFINE l == DelLRUCache(k)
<1>0. list.next = next /\ list.prev = prev /\ list.key = ekey /\ list.tail = tailLRU
  BY DEF list, List
<1>2. /\ phase = "open" /\ KVType /\ Chained(s, list) /\ Len(s) <= counterLRU
      /\ (\A i \in 1 .. Len(s) : s[i] <= counterLRU) /\ counterLRU \in Int
      /\ Len(s) \in Nat /\ Len(s) <= LRU_CACHE_SIZE
  BY <1>1 DEF KvDelete, Called, KVInv, KVType, Kept, Chained
<1>3. /\ Map!Cached(k) <=> Hit(k)
      /\ Map!Without(k) = RemoveFirst(Keys(s, ekey), k)
      /\ Recency = Keys(s, ekey)
  BY <1>1, MapView
<1>4. CASE ~(l.ok /\ kv[k] # Freed)
  <2>1. Fault
    BY <1>4 DEF KvDelete
  <2> QED BY <2>1, FaultStep DEF Fault
<1>5. CASE l.ok /\ kv[k] # Freed
  <2>1. /\ Use(l) /\ kv' = [kv EXCEPT ![k] = NULL] /\ got' = NULL
        /\ UNCHANGED <<eval, counterLRU, phase>>
    BY <1>5 DEF KvDelete, DelKVHashTab
  <2>2. kv \in [Key -> Stored] /\ kv' \in [Key -> Stored]
        /\ \A x \in Key : x # k => kv'[x] = kv[x]
    BY <1>2, <2>1 DEF KVType, Stored
  <2>3. KVType'
    BY <1>2, <2>1, <2>2 DEF KVType
  <2>4. CASE Hit(k)
    <3>1. PICK i \in 1 .. Len(s) : ekey[s[i]] = k
      BY <1>0, <1>2, <2>4 DEF Chained, Hit
    <3> DEFINE t == Dropped(s, i)
    <3>2. Chained(t, l) /\ l.key = ekey
      BY <1>2, <3>1, Unlinks
    <3>3. /\ Len(t) = Len(s) - 1
          /\ \A j \in 1 .. Len(s) - 1 : t[j] = IF j < i THEN s[j] ELSE s[j + 1]
      BY <1>2, DroppedShape DEF Chained
    <3>4. Keys(t, list.key) = RemoveFirst(Keys(s, list.key), list.key[s[i]])
      BY <1>2, DroppedKeys
    <3> HIDE DEF t, l
    <3>5. Chained(t, list') /\ ekey' = l.key /\ Recency' = Keys(t, l.key)
      <4>1. Len(t) <= LRU_CACHE_SIZE
        BY <1>2, <3>3, SizeAssumption
      <4> QED BY <2>1, <3>2, <4>1, UseEffect
    <3>6. ASSUME NEW j \in 1 .. Len(t)
          PROVE  \E a \in 1 .. Len(s) : a # i /\ t[j] = s[a]
      <4>1. j \in 1 .. Len(s) - 1 /\ j \in 1 .. Len(s) /\ j + 1 \in 1 .. Len(s)
        BY <1>2, <3>3
      <4>2. CASE j < i
        BY <3>3, <4>1, <4>2
      <4>3. CASE ~(j < i)
        <5>1. j + 1 # i /\ t[j] = s[j + 1]
          BY <1>2, <3>3, <4>1, <4>3
        <5> QED BY <4>1, <5>1
      <4> QED BY <4>2, <4>3
    <3>7. \A j \in 1 .. Len(t) : eval'[t[j]] = kv'[ekey'[t[j]]]
      <4> SUFFICES ASSUME NEW j \in 1 .. Len(t) PROVE eval'[t[j]] = kv'[ekey'[t[j]]]
        OBVIOUS
      <4>1. PICK a \in 1 .. Len(s) : a # i /\ t[j] = s[a]
        BY <3>6
      <4>2. \A x, y \in 1 .. Len(s) : list.key[s[x]] = list.key[s[y]] => x = y
        BY <1>2, OneKey
      <4>3. ekey[s[a]] # k /\ ekey[s[a]] \in Key
        BY <1>0, <1>2, <3>1, <4>1, <4>2 DEF Chained
      <4>4. eval[s[a]] = kv[ekey[s[a]]]
        BY <1>1 DEF Kept
      <4> QED BY <2>1, <2>2, <3>2, <3>5, <4>1, <4>3, <4>4
    <3>8. Kept(t)'
      <4>1. Len(t) <= counterLRU /\ Len(t) <= LRU_CACHE_SIZE
        BY <1>2, <3>3, SizeAssumption
      <4>2. \A j \in 1 .. Len(t) : t[j] <= counterLRU
        BY <1>2, <3>6
      <4> QED BY <1>2, <2>1, <3>5, <3>7, <4>1, <4>2 DEF Kept
    <3>9. Map!Discard(k)
      BY <1>0, <1>3, <2>1, <3>1, <3>2, <3>4, <3>5 DEF Map!Discard
    <3> QED BY <2>3, <3>8, <3>9 DEF KVInv, Map!KVNext
  <2>5. CASE ~Hit(k)
    <3>1. l = list
      BY <2>5 DEF DelLRUCache
    <3>2. UNCHANGED <<prev, next, ekey, tailLRU, eval>>
      BY <2>1, <3>1 DEF Use, list, List
    <3>3. Chained(s, list') /\ Recency' = Keys(s, ekey)
      <4>1. list' = list
        BY <3>2 DEF list
      <4>2. Chained(s, list')
        BY <1>2, <4>1
      <4>3. Recency' = Keys(s, ekey')
        BY <1>2, <4>2, ReadAfter DEF ListRead
      <4> QED BY <3>2, <4>2, <4>3
    <3>4. k \notin ToSet(Keys(s, ekey)) /\ Keys(s, ekey) \in Seq(Key)
      BY <1>0, <1>2, <2>5, KeysShape DEF Hit
    <3>5. RemoveFirst(Keys(s, ekey), k) = Keys(s, ekey)
      <4> DEFINE r == Keys(s, ekey)
      <4> HIDE DEF r
      <4>1. r \in Seq(Key) /\ k \notin ToSet(r)
        BY <3>4 DEF r
      <4>2. ~ \E i \in 1 .. Len(r) : r[i] = k
        BY <4>1 DEF ToSet
      <4>3. RemoveFirst(r, k) = r
        BY <4>2 DEF RemoveFirst
      <4> QED BY <4>3 DEF r
    <3>6. \A i \in 1 .. Len(s) : eval'[s[i]] = kv'[ekey'[s[i]]]
      <4> SUFFICES ASSUME NEW i \in 1 .. Len(s) PROVE eval'[s[i]] = kv'[ekey'[s[i]]]
        OBVIOUS
      <4>1. ekey[s[i]] \in Key /\ prev[ekey[s[i]]] = Before(s, i) /\ Before(s, i) \in Cell
        <5>1. i \in 1 .. Len(s) + 1
          BY <1>2
        <5>2. Before(s, i) \in Cell
          BY <1>2, <5>1, OneBefore DEF Chained
        <5> QED BY <1>0, <1>2, <5>2 DEF Chained
      <4>2. NIL \notin Cell
        BY SizeAssumption DEF NIL, Cell, Entry, HEAD
      <4>3. ekey[s[i]] # k
        BY <2>5, <4>1, <4>2 DEF Hit
      <4> QED BY <1>1, <2>2, <3>2, <4>1, <4>3 DEF Kept
    <3>7. Kept(s)'
      BY <1>2, <2>1, <3>3, <3>6 DEF Kept
    <3>8. Map!Discard(k)
      BY <1>3, <2>1, <3>3, <3>5 DEF Map!Discard
    <3> QED BY <2>3, <3>7, <3>8 DEF KVInv, Map!KVNext
  <2> QED BY <2>4, <2>5
<1> QED BY <1>4, <1>5

(* kv_reset begins, and its loop. *)
LEMMA ResetStep ==
    ASSUME KVInv, KvReset
    PROVE  KVInv' /\ (Map!KVNext \/ UNCHANGED kvMap)
<1>1. PICK s : Kept(s)
  BY DEF KVInv
<1>2. Chained(s, list') /\ Recency' = Recency
  BY <1>1, StandsStill DEF KvReset
<1>3. Kept(s)'
  BY <1>1, <1>2 DEF Kept, KvReset
<1>4. KVType'
  BY SizeAssumption DEF KVInv, KVType, KvReset
<1>5. Map!Idle
  BY <1>2 DEF Map!Idle, KvReset
<1> QED BY <1>3, <1>4, <1>5 DEF KVInv, Map!KVNext

LEMMA ResetLoopStep ==
    ASSUME KVInv, KvResetLoop
    PROVE  KVInv' /\ UNCHANGED kvMap
  BY FaultStep DEF KvResetLoop, Fault

(* The end of kv_reset, and kv_init. *)
LEMMA EmptyStep ==
    ASSUME KVInv, NEW st \in {"open", "closed"}, Emptied(st), ekey' = ekey, eval' = eval,
           next' = next \/ next' = [next EXCEPT ![HEAD] = WILD],
           counterLRU' \in 0 .. LRU_CACHE_SIZE, got = NULL, got' = got
    PROVE  KVInv' /\ Map!Clear
<1>1. PICK s : Kept(s)
  BY DEF KVInv
<1>2. /\ next \in [Cell -> Cell \cup {NIL, WILD}] /\ ekey \in [Entry -> Key \cup {NULL}]
  BY <1>1 DEF Kept, Chained, ListType, list, List
<1> DEFINE m == list'
           t == <<>>
<1>3. m.next = next' /\ m.prev = prev' /\ m.key = ekey /\ m.tail = HEAD /\ m.ok
  BY DEF Emptied, list, List
<1>4. /\ next' \in [Cell -> Cell \cup {NIL, WILD}] /\ prev' \in [Key -> Cell \cup {NIL}]
      /\ HEAD \in Cell /\ \A k \in Key : prev'[k] = NIL
  BY <1>2 DEF Cell, Emptied
<1>5. t \in Seq(Entry) /\ Len(t) = 0 /\ 1 .. 0 = {}
  OBVIOUS
<1>6. LastOf(t) = HEAD
  BY DEF LastOf, Before
<1>7. Chained(t, m)
  <2> HIDE DEF t, m
  <2>1. ListType(m)
    BY <1>2, <1>3, <1>4 DEF ListType
  <2> QED BY <1>3, <1>4, <1>5, <1>6, <2>1 DEF Chained
<1>8. Recency' = Keys(t, ekey')
  <2> HIDE DEF t
  <2>1. Chained(t, list') /\ Len(t) <= LRU_CACHE_SIZE
    BY <1>5, <1>7, SizeAssumption
  <2> QED BY <2>1, ReadAfter DEF ListRead
<1>9. Keys(t, ekey') = <<>>
  <2> HIDE DEF t
  <2>1. Keys(t, ekey') \in Seq(Key) /\ Len(Keys(t, ekey')) = 0
    <3>1. m.key = ekey'
      BY <1>3
    <3> HIDE DEF m
    <3> QED BY <1>5, <1>7, <3>1, KeysShape
  <2> QED BY <2>1
<1>10. Kept(t)'
  <2>0. t = <<>>
    OBVIOUS
  <2> HIDE DEF t
  <2>1. Chained(t, list') /\ Len(t) = 0 /\ 0 <= counterLRU' /\ Len(t) <= LRU_CACHE_SIZE
    BY <1>5, <1>7, SizeAssumption
  <2> QED BY <1>5, <2>0, <2>1 DEF Kept, Emptied
<1>11. KVType'
  BY DEF KVInv, KVType, Emptied, Stored
<1>12. Map!Clear
  BY <1>8, <1>9 DEF Map!Clear, Emptied
<1> QED BY <1>10, <1>11, <1>12 DEF KVInv

LEMMA ResetEndStep ==
    ASSUME KVInv, KvResetEnd \/ KvInit
    PROVE  KVInv' /\ (Map!KVNext \/ UNCHANGED kvMap)
<1>1. CASE Fault
  <2>1. KVInv' /\ UNCHANGED kvMap
    BY <1>1, FaultStep DEF Fault
  <2> QED BY <2>1
<1>2. CASE ~Fault
  <2>0. Emptied("closed") \/ Emptied("open")
    BY <1>2 DEF KvResetEnd, KvInit
  <2>1. got = NULL /\ got' = got /\ counterLRU' \in 0 .. LRU_CACHE_SIZE /\ ekey' = ekey /\ eval' = eval
        /\ (next' = next \/ next' = [next EXCEPT ![HEAD] = WILD])
    BY <1>2, SizeAssumption DEF KVInv, KVType, KvResetEnd, KvInit
  <2>2. KVInv' /\ Map!Clear
    BY <2>0, <2>1, EmptyStep
  <2> QED BY <2>2 DEF Map!KVNext
<1> QED BY <1>1, <1>2

LEMMA KVInitial == Init => KVInv /\ Map!KVInit
<1> SUFFICES ASSUME Init PROVE KVInv /\ Map!KVInit
  OBVIOUS
<1> DEFINE t == <<>>
<1>1. t \in Seq(Entry) /\ Len(t) = 0 /\ 1 .. 0 = {} /\ LastOf(t) = HEAD
  BY DEF LastOf, Before
<1>2. ListType(list) /\ list.tail = HEAD /\ list.prev = prev /\ list.key = ekey
  <2>1. list.next = next /\ list.prev = prev /\ list.key = ekey /\ list.tail = HEAD /\ list.ok
    BY DEF list, List, Init
  <2>2. /\ next \in [Cell -> Cell \cup {NIL, WILD}] /\ prev \in [Key -> Cell \cup {NIL}]
        /\ ekey \in [Entry -> Key \cup {NULL}] /\ HEAD \in Cell
    BY DEF Init, Cell
  <2> QED BY <2>1, <2>2 DEF ListType
<1>3. \A k \in Key : list.prev[k] = NIL
  BY <1>2 DEF Init
<1> HIDE DEF t
<1>4. Chained(t, list)
  BY <1>1, <1>2, <1>3 DEF Chained
<1>5. Kept(t)
  BY <1>1, <1>4, SizeAssumption DEF Kept, Init
<1>6. KVType
  BY SizeAssumption DEF KVType, Init, Stored
<1>7. Recency = <<>>
  <2>1. Keys(t, ekey) \in Seq(Key) /\ Len(Keys(t, ekey)) = 0
    BY <1>1, <1>2, <1>4, KeysShape
  <2> QED BY <1>5, <2>1, KeptRecency
<1> QED BY <1>5, <1>6, <1>7 DEF KVInv, Map!KVInit, Init

LEMMA KVSteps == KVInv /\ [Next]_kvars => KVInv' /\ [Map!KVNext]_kvMap
<1> SUFFICES ASSUME KVInv, [Next]_kvars PROVE KVInv' /\ (Map!KVNext \/ UNCHANGED kvMap)
  OBVIOUS
<1>1. CASE UNCHANGED kvars
  BY <1>1, FaultStep DEF kvars
<1>2. ASSUME NEW k \in Key, KvGet(k) \/ KvDelete(k) \/ KvSetNoMemory(k)
      PROVE  KVInv' /\ (Map!KVNext \/ UNCHANGED kvMap)
  BY <1>2, GetStep, DeleteStep, SetNoMemoryStep
<1>3. ASSUME NEW k \in Key, NEW v \in Val, KvSet(k, v)
      PROVE  KVInv' /\ (Map!KVNext \/ UNCHANGED kvMap)
  BY <1>3, SetStep
<1>4. CASE KvReset \/ Resetting \/ KvInit
  BY <1>4, ResetStep, ResetLoopStep, ResetEndStep DEF Resetting
<1>5. CASE Stopped
  BY <1>1, <1>5 DEF Stopped
<1> QED BY <1>1, <1>2, <1>3, <1>4, <1>5 DEF Next

(* The invariant holds in every state of kv_store.c. *)
THEOREM KVInvariant == Spec => []KVInv
<1>1. Init => KVInv
  BY KVInitial
<1> QED BY <1>1, KVSteps, PTL DEF Spec

(* The index lruHashTab names the predecessor of every cached entry, and   *)
(* of no other, after any sequence of calls of kv_store.c.                 *)
THEOREM IndexExact == Spec => []PrevPointers
<1>1. KVInv => PrevPointers
  <2> SUFFICES ASSUME KVInv PROVE PrevPointers
    OBVIOUS
  <2>1. PICK s : Kept(s)
    BY DEF KVInv
  <2>2. Chained(s, list) /\ Len(s) <= LRU_CACHE_SIZE /\ Len(s) \in Nat
    BY <2>1 DEF Kept, Chained
  <2>3. Listed = 1 .. Len(s) /\ \A i \in 0 .. Len(s) : At[i] = Walk(s, i)
    BY <2>2, RecencyOf DEF ListRead
  <2>4. list.prev = prev /\ list.key = ekey
    BY DEF list, List
  <2>5. \A i \in 1 .. Len(s) : At[i] = s[i] /\ At[i - 1] = Before(s, i)
    <3> SUFFICES ASSUME NEW i \in 1 .. Len(s) PROVE At[i] = s[i] /\ At[i - 1] = Before(s, i)
      OBVIOUS
    <3>1. i \in 0 .. Len(s) /\ i - 1 \in 0 .. Len(s) /\ i # 0 /\ i <= Len(s) /\ i - 1 <= Len(s)
          /\ (i - 1 = 0 <=> i = 1)
      BY <2>2
    <3>2. At[i] = Walk(s, i) /\ At[i - 1] = Walk(s, i - 1)
      BY <2>3, <3>1
    <3> QED BY <3>1, <3>2 DEF Walk, Before
  <2>6. \A i \in Listed : prev[ekey[At[i]]] = At[i - 1]
    BY <2>2, <2>3, <2>4, <2>5 DEF Chained
  <2>7. \A k \in Key : Hit(k) => \E i \in Listed : ekey[At[i]] = k
    BY <2>2, <2>3, <2>4, <2>5 DEF Chained, Hit
  <2> QED BY <2>6, <2>7 DEF PrevPointers
<1> QED BY <1>1, KVInvariant, PTL

(* The pointers and hash tables of kv_store.c implement a map with a       *)
(* cache in the order of use: kv_get returns what was set last, hit or     *)
(* miss, and an eviction takes the least recently used key.                *)
THEOREM StoreImplementsMap == Spec => Implements
<1>1. Init => Map!KVInit
  BY KVInitial
<1>2. KVInv /\ [Next]_kvars => [Map!KVNext]_<<kv, Recency, got>>
  BY KVSteps DEF kvMap
<1> QED BY <1>1, <1>2, KVInvariant, PTL DEF Spec, Implements, Map!LRUMap
==============================================================================
