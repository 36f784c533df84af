--------------------------- MODULE XinuKernelProofs ---------------------------
(***************************************************************************)
(* XinuKernel for every number of processes and semaphores, every workload *)
(* and both platforms, in four parts:                                      *)
(*   1. what the queue operations return, for queues of any length;        *)
(*   2. the process states, the queues and the semaphore counts agree in   *)
(*      every reachable state;                                             *)
(*   3. what processes may rely on: a message after receive, the processor *)
(*      for the highest priority, the whole of a delay.  The steps of the  *)
(*      kernel are first sorted by what they do to the ready list and the  *)
(*      sleep queue; each property is then proved for each sort;           *)
(*   4. what the users of semaphores may rely on: what each call does to   *)
(*      the counts and to who waits on which semaphore.                    *)
(***************************************************************************)
EXTENDS XinuKernel, SequenceTheorems, FiniteSetTheorems, WellFoundedInduction, TLAPS

-----------------------------------------------------------------------------
(***************************************************************************)
(* 1. The queue operations.                                                *)
(***************************************************************************)
(* A set of natural numbers that is not empty has a least element, and     *)
(* Min picks it.                                                           *)
LEMMA MinOfNats ==
    ASSUME NEW T \in SUBSET Nat, T # {}
    PROVE  Min(T) \in T /\ \A y \in T : Min(T) <= y
<1> DEFINE R == {ss \in Nat \X Nat : ss[1] < ss[2]}
<1>1. IsWellFoundedOn(R, Nat)
  BY NatLessThanWellFounded DEF OpToRel
<1>3. \A x, y \in Nat : <<y, x>> \in R <=> y < x
  OBVIOUS
<1> HIDE DEF R
<1>2. \E x \in T : \A y \in T : ~(<<y, x>> \in R)
  BY <1>1, WFMin
<1>4. \E x \in T : \A y \in T : x <= y
  <2>1. PICK x \in T : \A y \in T : ~(<<y, x>> \in R)
    BY <1>2
  <2>2. \A y \in T : x <= y
    <3>1. TAKE y \in T
    <3>2. ~(y < x)
      BY <1>3, <2>1
    <3> QED BY <3>2
  <2> QED BY <2>2
<1> QED BY <1>4 DEF Min

(* InsertAt adds its element to the members, and nothing else. *)
LEMMA InsertAtProp ==
    ASSUME NEW S, NEW q \in Seq(S), NEW i \in 1 .. Len(q) + 1, NEW p \in S
    PROVE  /\ InsertAt(q, i, p) \in Seq(S)
           /\ Len(InsertAt(q, i, p)) = Len(q) + 1
           /\ \A j \in 1 .. Len(q) + 1 :
                 InsertAt(q, i, p)[j] = IF j < i THEN q[j] ELSE IF j = i THEN p ELSE q[j-1]
<1> DEFINE a == SubSeq(q, 1, i - 1)
           b == SubSeq(q, i, Len(q))
<1>1. a \in Seq(S) /\ Len(a) = i - 1 /\ \A j \in 1 .. i - 1 : a[j] = q[j]
  BY SubSeqProperties
<1>2. b \in Seq(S) /\ Len(b) = Len(q) - i + 1 /\ \A j \in 1 .. Len(q) - i + 1 : b[j] = q[i + j - 1]
  BY SubSeqProperties
<1> HIDE DEF a, b
<1>3. InsertAt(q, i, p) = (a \o <<p>>) \o b
  BY DEF InsertAt, a, b
<1>4. a \o <<p>> \in Seq(S) /\ Len(a \o <<p>>) = i
      /\ \A j \in 1 .. i : (a \o <<p>>)[j] = IF j < i THEN q[j] ELSE p
  BY <1>1
<1> DEFINE c == a \o <<p>>
<1> HIDE DEF c
<1>5. c \in Seq(S) /\ Len(c) = i /\ \A j \in 1 .. i : c[j] = IF j < i THEN q[j] ELSE p
  BY <1>4 DEF c
<1>6. InsertAt(q, i, p) = c \o b
  BY <1>3 DEF c
<1>7. c \o b \in Seq(S) /\ Len(c \o b) = i + Len(b)
      /\ \A j \in 1 .. i + Len(b) : (c \o b)[j] = IF j <= i THEN c[j] ELSE b[j - i]
  BY <1>2, <1>5, ConcatProperties
<1>8. i + Len(b) = Len(q) + 1
  BY <1>2
<1>9. ASSUME NEW j \in 1 .. Len(q) + 1
      PROVE  (c \o b)[j] = IF j < i THEN q[j] ELSE IF j = i THEN p ELSE q[j-1]
  <2>1. CASE j <= i
    BY <1>5, <1>7, <1>8, <2>1
  <2>2. CASE j > i
    <3>1. j - i \in 1 .. Len(q) - i + 1 /\ i + (j - i) - 1 = j - 1
      BY <2>2
    <3>2. (c \o b)[j] = b[j - i]
      BY <1>7, <1>8, <2>2
    <3>3. b[j - i] = q[j - 1]
      BY <1>2, <3>1
    <3> QED BY <2>2, <3>2, <3>3
  <2>3. j <= i \/ j > i
    OBVIOUS
  <2> QED BY <2>1, <2>2, <2>3
<1> QED BY <1>6, <1>7, <1>8, <1>9

(* RemoveAt keeps the other elements, in their order. *)
LEMMA RemoveAtProp ==
    ASSUME NEW S, NEW q \in Seq(S), NEW i \in 1 .. Len(q)
    PROVE  /\ RemoveAt(q, i) \in Seq(S)
           /\ Len(RemoveAt(q, i)) = Len(q) - 1
           /\ \A j \in 1 .. Len(q) - 1 :
                 RemoveAt(q, i)[j] = IF j < i THEN q[j] ELSE q[j+1]
<1> DEFINE a == SubSeq(q, 1, i - 1)
           b == SubSeq(q, i + 1, Len(q))
<1>1. a \in Seq(S) /\ Len(a) = i - 1 /\ \A j \in 1 .. i - 1 : a[j] = q[j]
  BY SubSeqProperties
<1>2. b \in Seq(S) /\ Len(b) = Len(q) - i /\ \A j \in 1 .. Len(q) - i : b[j] = q[i + j]
  BY SubSeqProperties
<1> HIDE DEF a, b
<1>3. RemoveAt(q, i) = a \o b
  BY DEF RemoveAt, a, b
<1>4. a \o b \in Seq(S) /\ Len(a \o b) = Len(a) + Len(b)
      /\ \A j \in 1 .. Len(a) + Len(b) :
            (a \o b)[j] = IF j <= Len(a) THEN a[j] ELSE b[j - Len(a)]
  BY <1>1, <1>2, ConcatProperties
<1>5. Len(a) + Len(b) = Len(q) - 1
  BY <1>1, <1>2
<1>6. ASSUME NEW j \in 1 .. Len(q) - 1
      PROVE  (a \o b)[j] = IF j < i THEN q[j] ELSE q[j+1]
  <2>1. CASE j < i
    BY <1>1, <1>4, <1>5, <2>1
  <2>2. CASE j >= i
    <3>1. j - (i - 1) \in 1 .. Len(q) - i /\ i + (j - (i - 1)) = j + 1
      BY <2>2
    <3>2. (a \o b)[j] = b[j - (i - 1)]
      BY <1>1, <1>4, <1>5, <2>2
    <3>3. b[j - (i - 1)] = q[j + 1]
      BY <1>2, <3>1
    <3> QED BY <2>2, <3>2, <3>3
  <2>3. j < i \/ j >= i
    OBVIOUS
  <2> QED BY <2>1, <2>2, <2>3
<1> QED BY <1>3, <1>4, <1>5, <1>6

-----------------------------------------------------------------------------
(***************************************************************************)
(* What the operations do to the set of processes on a queue.              *)
(***************************************************************************)
(* A process linked in anywhere is on the queue, besides the others. *)
LEMMA InsertAtOnQueue ==
    ASSUME NEW P, NEW q \in Seq(P), NEW S, OnQueue(q, S),
           NEW p \in P, p \notin S, NEW i \in 1 .. Len(q) + 1
    PROVE  /\ InsertAt(q, i, p) \in Seq(P)
           /\ Len(InsertAt(q, i, p)) = Len(q) + 1
           /\ OnQueue(InsertAt(q, i, p), S \cup {p})
<1> DEFINE r == InsertAt(q, i, p)
<1>1. /\ r \in Seq(P)
      /\ Len(r) = Len(q) + 1
      /\ \A j \in 1 .. Len(q) + 1 : r[j] = IF j < i THEN q[j] ELSE IF j = i THEN p ELSE q[j-1]
  BY InsertAtProp
<1> HIDE DEF r
<1>2. DOMAIN r = 1 .. Len(q) + 1 /\ DOMAIN q = 1 .. Len(q) /\ Len(q) \in Nat
  BY <1>1
<1>3. \A j \in 1 .. Len(q) : q[j] \in S
  BY <1>2 DEF OnQueue, ToSet
<1>4. \A x \in S : \E j \in 1 .. Len(q) : q[j] = x
  BY <1>2 DEF OnQueue, ToSet
<1>5. \A j, l \in 1 .. Len(q) : q[j] = q[l] => j = l
  BY <1>2 DEF OnQueue, IsInjective
<1>6. \A j \in 1 .. Len(q) + 1 : r[j] \in S \cup {p}
  BY <1>1, <1>3, <1>2
<1>7. r[i] = p
  BY <1>1
<1>8. \A x \in S : \E j \in 1 .. Len(q) + 1 : r[j] = x
  <2>1. TAKE x \in S
  <2>2. PICK j \in 1 .. Len(q) : q[j] = x
    BY <1>4
  <2>3. CASE j < i
    <3>1. r[j] = x BY <1>1, <1>2, <2>2, <2>3
    <3> QED BY <3>1, <1>2
  <2>4. CASE j >= i
    <3>1. j + 1 \in 1 .. Len(q) + 1 /\ ~(j + 1 < i) /\ j + 1 # i /\ (j + 1) - 1 = j
      BY <2>4, <1>2
    <3>2. r[j+1] = x BY <1>1, <2>2, <3>1
    <3> QED BY <3>1, <3>2
  <2> QED BY <2>3, <2>4
<1>9. ToSet(r) = S \cup {p}
  BY <1>2, <1>6, <1>7, <1>8 DEF ToSet
<1>10. IsInjective(r)
  <2>1. SUFFICES ASSUME NEW a \in 1 .. Len(q) + 1, NEW b \in 1 .. Len(q) + 1, r[a] = r[b]
                 PROVE  a = b
    BY <1>2 DEF IsInjective
  <2>2. CASE a = i /\ b = i
    BY <2>2
  <2>3. CASE a # i /\ b # i
    <3> DEFINE u == IF a < i THEN a ELSE a - 1
               v == IF b < i THEN b ELSE b - 1
    <3>1. u \in 1 .. Len(q) /\ v \in 1 .. Len(q)
      BY <1>2, <2>3
    <3>2. r[a] = q[u] /\ r[b] = q[v]
      BY <1>1, <2>3
    <3>3. u = v
      BY <1>5, <2>1, <3>1, <3>2
    <3> QED BY <3>3, <2>3, <1>2
  <2>4. CASE a = i /\ b # i
    <3> DEFINE v == IF b < i THEN b ELSE b - 1
    <3>1. v \in 1 .. Len(q) /\ r[b] = q[v]
      BY <1>1, <1>2, <2>4
    <3> QED BY <3>1, <1>3, <1>7, <2>1, <2>4
  <2>5. CASE a # i /\ b = i
    <3> DEFINE v == IF a < i THEN a ELSE a - 1
    <3>1. v \in 1 .. Len(q) /\ r[a] = q[v]
      BY <1>1, <1>2, <2>5
    <3> QED BY <3>1, <1>3, <1>7, <2>1, <2>5
  <2> QED BY <2>2, <2>3, <2>4, <2>5
<1> QED BY <1>1, <1>9, <1>10 DEF OnQueue, r

(* insert puts the process on the queue, whatever the keys are. *)
LEMMA InsertOnQueue ==
    ASSUME NEW P, NEW q \in Seq(P), NEW S, OnQueue(q, S),
           NEW p \in P, p \notin S, NEW k, NEW key
    PROVE  /\ Insert(q, k, p, key) \in Seq(P)
           /\ Insert(q, k, p, key) # <<>>
           /\ OnQueue(Insert(q, k, p, key), S \cup {p})
<1> DEFINE T == {i \in 1 .. Len(q) + 1 : i = Len(q) + 1 \/ k[q[i]] < key}
<1>1. T \in SUBSET Nat /\ T # {} /\ T \subseteq 1 .. Len(q) + 1
  <2>1. Len(q) + 1 \in T
    OBVIOUS
  <2> QED BY <2>1
<1>2. Min(T) \in 1 .. Len(q) + 1
  BY <1>1, MinOfNats
<1>3. Insert(q, k, p, key) = InsertAt(q, Min(T), p)
  BY DEF Insert, InsertPos
<1> HIDE DEF T
<1> QED BY <1>2, <1>3, InsertAtOnQueue

(* So does insertd. *)
LEMMA InsertdPosRange ==
    ASSUME NEW P, NEW q \in Seq(P), NEW k, NEW delay
    PROVE  InsertdPos(q, k, delay) \in 1 .. Len(q) + 1
<1> DEFINE T == {i \in 1 .. Len(q) + 1 :
                    i = Len(q) + 1 \/ k[q[i]] > delay - DeltaSum(q, k)[i-1]}
<1>1. T \in SUBSET Nat /\ T # {} /\ T \subseteq 1 .. Len(q) + 1
  <2>1. Len(q) + 1 \in T
    OBVIOUS
  <2> QED BY <2>1
<1>2. InsertdPos(q, k, delay) = Min(T)
  BY DEF InsertdPos
<1> HIDE DEF T
<1> QED BY <1>1, <1>2, MinOfNats

(* insertd puts the process on the queue, besides the others. *)
LEMMA InsertdOnQueue ==
    ASSUME NEW P, NEW q \in Seq(P), NEW S, OnQueue(q, S),
           NEW p \in P, p \notin S, NEW k, NEW delay
    PROVE  /\ Insertd(q, k, p, delay) \in Seq(P)
           /\ OnQueue(Insertd(q, k, p, delay), S \cup {p})
BY InsertdPosRange, InsertAtOnQueue DEF Insertd

(* enqueue adds the process at the end. *)
LEMMA EnqueueOnQueue ==
    ASSUME NEW P, NEW q \in Seq(P), NEW S, OnQueue(q, S), NEW p \in P, p \notin S
    PROVE  /\ Enqueue(q, p) \in Seq(P)
           /\ Len(Enqueue(q, p)) = Len(q) + 1
           /\ OnQueue(Enqueue(q, p), S \cup {p})
<1> DEFINE r == Append(q, p)
<1>1. /\ r \in Seq(P) /\ Len(r) = Len(q) + 1 /\ DOMAIN r = 1 .. Len(q) + 1
      /\ r[Len(q) + 1] = p /\ \A j \in 1 .. Len(q) : r[j] = q[j]
      /\ DOMAIN q = 1 .. Len(q) /\ Len(q) \in Nat
  OBVIOUS
<1> HIDE DEF r
<1>2. \A j \in 1 .. Len(q) : q[j] \in S
  BY <1>1 DEF OnQueue, ToSet
<1>3. \A x \in S : \E j \in 1 .. Len(q) : q[j] = x
  BY <1>1 DEF OnQueue, ToSet
<1>4. \A j, l \in 1 .. Len(q) : q[j] = q[l] => j = l
  BY <1>1 DEF OnQueue, IsInjective
<1>5. \A j \in 1 .. Len(q) + 1 : j \in 1 .. Len(q) \/ j = Len(q) + 1
  BY <1>1
<1>6. \A j \in 1 .. Len(q) : j \in 1 .. Len(q) + 1
  BY <1>1
<1>7. Len(q) + 1 \in 1 .. Len(q) + 1
  BY <1>1
<1>8. ToSet(r) = S \cup {p}
  BY <1>1, <1>2, <1>3, <1>5, <1>6, <1>7 DEF ToSet
<1>9. IsInjective(r)
  BY <1>1, <1>2, <1>4, <1>5 DEF IsInjective
<1> QED BY <1>1, <1>8, <1>9 DEF OnQueue, Enqueue, r

(* getitem takes the process off the queue and leaves the others on it. *)
LEMMA GetItemOnQueue ==
    ASSUME NEW P, NEW q \in Seq(P), NEW S, OnQueue(q, S), NEW p \in S
    PROVE  /\ GetItem(q, p) \in Seq(P)
           /\ Len(GetItem(q, p)) = Len(q) - 1
           /\ OnQueue(GetItem(q, p), S \ {p})
           /\ PosOf(q, p) \in 1 .. Len(q)
<1> DEFINE i == PosOf(q, p)
           r == RemoveAt(q, i)
<1>1. DOMAIN q = 1 .. Len(q) /\ Len(q) \in Nat
  OBVIOUS
<1>2. i \in 1 .. Len(q) /\ q[i] = p
  BY <1>1 DEF PosOf, OnQueue, ToSet
<1> HIDE DEF i
<1>3. /\ r \in Seq(P) /\ Len(r) = Len(q) - 1 /\ DOMAIN r = 1 .. Len(q) - 1
      /\ \A j \in 1 .. Len(q) - 1 : r[j] = IF j < i THEN q[j] ELSE q[j+1]
  BY <1>2, RemoveAtProp
<1> HIDE DEF r
<1>4. \A j \in 1 .. Len(q) : q[j] \in S
  BY <1>1 DEF OnQueue, ToSet
<1>5. \A x \in S : \E j \in 1 .. Len(q) : q[j] = x
  BY <1>1 DEF OnQueue, ToSet
<1>6. \A j, l \in 1 .. Len(q) : q[j] = q[l] => j = l
  BY <1>1 DEF OnQueue, IsInjective
<1>7. \A j \in 1 .. Len(q) - 1 : r[j] \in S \ {p}
  <2>1. TAKE j \in 1 .. Len(q) - 1
  <2> DEFINE u == IF j < i THEN j ELSE j + 1
  <2>2. u \in 1 .. Len(q) /\ u # i
    BY <1>1, <1>2
  <2>3. r[j] = q[u]
    BY <1>3
  <2> QED BY <1>2, <1>4, <1>6, <2>2, <2>3
<1>8. \A x \in S \ {p} : \E j \in 1 .. Len(q) - 1 : r[j] = x
  <2>1. TAKE x \in S \ {p}
  <2>2. PICK j \in 1 .. Len(q) : q[j] = x
    BY <1>5
  <2>3. j # i
    BY <1>2, <2>2
  <2>4. CASE j < i
    <3>1. j \in 1 .. Len(q) - 1
      BY <1>1, <1>2, <2>4
    <3>2. r[j] = x
      BY <1>3, <2>2, <2>4, <3>1
    <3> QED BY <3>1, <3>2
  <2>5. CASE j > i
    <3>1. j - 1 \in 1 .. Len(q) - 1 /\ ~(j - 1 < i) /\ (j - 1) + 1 = j
      BY <1>1, <1>2, <2>5
    <3>2. r[j-1] = x
      BY <1>3, <2>2, <3>1
    <3> QED BY <3>1, <3>2
  <2> QED BY <1>1, <1>2, <2>3, <2>4, <2>5
<1>9. ToSet(r) = S \ {p}
  BY <1>3, <1>7, <1>8, ZenonT(40) DEF ToSet
<1>10. IsInjective(r)
  <2>1. SUFFICES ASSUME NEW a \in 1 .. Len(q) - 1, NEW b \in 1 .. Len(q) - 1, r[a] = r[b]
                 PROVE  a = b
    BY <1>3 DEF IsInjective
  <2> DEFINE u == IF a < i THEN a ELSE a + 1
             v == IF b < i THEN b ELSE b + 1
  <2>2. u \in 1 .. Len(q) /\ v \in 1 .. Len(q)
    BY <1>1, <1>2
  <2>3. r[a] = q[u] /\ r[b] = q[v]
    BY <1>3
  <2>4. u = v
    BY <1>6, <2>1, <2>2, <2>3
  <2> QED BY <2>4, <1>1, <1>2
<1> QED BY <1>2, <1>3, <1>9, <1>10 DEF OnQueue, GetItem, r, i

(* dequeue and getfirst take the first process. *)
LEMMA TailOnQueue ==
    ASSUME NEW P, NEW q \in Seq(P), NEW S, OnQueue(q, S), q # <<>>
    PROVE  /\ Head(q) \in S /\ Head(q) \in P
           /\ Tail(q) \in Seq(P)
           /\ Len(Tail(q)) = Len(q) - 1
           /\ OnQueue(Tail(q), S \ {Head(q)})
<1> DEFINE r == Tail(q)
<1>1. DOMAIN q = 1 .. Len(q) /\ Len(q) \in Nat /\ Len(q) >= 1 /\ Head(q) = q[1]
  OBVIOUS
<1>2. /\ r \in Seq(P) /\ Len(r) = Len(q) - 1 /\ DOMAIN r = 1 .. Len(q) - 1
      /\ \A j \in 1 .. Len(q) - 1 : r[j] = q[j+1]
  BY HeadTailProperties
<1> HIDE DEF r
<1>3. \A j \in 1 .. Len(q) : q[j] \in S /\ q[j] \in P
  BY <1>1 DEF OnQueue, ToSet
<1>4. \A x \in S : \E j \in 1 .. Len(q) : q[j] = x
  BY <1>1 DEF OnQueue, ToSet
<1>5. \A j, l \in 1 .. Len(q) : q[j] = q[l] => j = l
  BY <1>1 DEF OnQueue, IsInjective
<1>6. \A j \in 1 .. Len(q) - 1 : r[j] \in S \ {q[1]}
  <2>1. TAKE j \in 1 .. Len(q) - 1
  <2>2. j + 1 \in 1 .. Len(q) /\ j + 1 # 1 /\ 1 \in 1 .. Len(q)
    BY <1>1
  <2> QED BY <1>2, <1>3, <1>5, <2>2
<1>7. \A x \in S \ {q[1]} : \E j \in 1 .. Len(q) - 1 : r[j] = x
  <2>1. TAKE x \in S \ {q[1]}
  <2>2. PICK j \in 1 .. Len(q) : q[j] = x
    BY <1>4
  <2>3. j - 1 \in 1 .. Len(q) - 1 /\ (j - 1) + 1 = j
    BY <1>1, <2>1, <2>2
  <2>4. r[j-1] = x
    BY <1>2, <2>2, <2>3
  <2> QED BY <2>3, <2>4
<1>8. ToSet(r) = S \ {q[1]}
  <2>1. \A x : x \in ToSet(r) => x \in S \ {q[1]}
    BY <1>2, <1>6 DEF ToSet
  <2>2. \A x : x \in S \ {q[1]} => x \in ToSet(r)
    BY <1>2, <1>7 DEF ToSet
  <2> QED BY <2>1, <2>2
<1>9. IsInjective(r)
  <2>1. SUFFICES ASSUME NEW a \in 1 .. Len(q) - 1, NEW b \in 1 .. Len(q) - 1, r[a] = r[b]
                 PROVE  a = b
    BY <1>2 DEF IsInjective
  <2>2. a + 1 \in 1 .. Len(q) /\ b + 1 \in 1 .. Len(q)
    BY <1>1
  <2>3. a + 1 = b + 1
    BY <1>2, <1>5, <2>1, <2>2
  <2> QED BY <2>3
<1>10. 1 \in 1 .. Len(q)
  BY <1>1
<1> QED BY <1>1, <1>2, <1>3, <1>8, <1>9, <1>10 DEF OnQueue, r

-----------------------------------------------------------------------------
(***************************************************************************)
(* The keys.                                                               *)
(***************************************************************************)
(* f are integers that grow by one delta at a time. *)
Sums(q, k, f) == /\ f \in [0 .. Len(q) -> Int]
                 /\ f[0] = 0
                 /\ \A i \in 1 .. Len(q) : f[i] = f[i-1] + k[q[i]]

(* The sums of the deltas are defined and do.  The least number for which  *)
(* they do not would follow one for which they do.                         *)
LEMMA DeltaSumRec ==
    ASSUME NEW P, NEW q \in Seq(P), NEW k \in [P -> Int]
    PROVE  Sums(q, k, DeltaSum(q, k))
<1> DEFINE L == Len(q)
           Good(f, n) == /\ f \in [0 .. n -> Int]
                         /\ f[0] = 0
                         /\ \A i \in 1 .. n : f[i] = f[i-1] + k[q[i]]
           Bad == {n \in Nat : n <= L /\ ~ \E f \in [0 .. n -> Int] : Good(f, n)}
<1>0. L \in Nat /\ \A i \in 1 .. L : k[q[i]] \in Int
  OBVIOUS
<1>1. Bad = {}
  <2>1. SUFFICES ASSUME Bad # {} PROVE FALSE
    OBVIOUS
  <2> DEFINE m == Min(Bad)
  <2>2. Bad \in SUBSET Nat
    OBVIOUS
  <2>3. m \in Bad /\ \A y \in Bad : m <= y
    <3> HIDE DEF Bad
    <3> QED BY <2>1, <2>2, MinOfNats
  <2> HIDE DEF m
  <2>4. m \in Nat /\ m <= L /\ ~ \E f \in [0 .. m -> Int] : Good(f, m)
    BY <2>3
  <2>5. CASE m = 0
    <3>1. Good([i \in 0 .. 0 |-> 0], 0)
      OBVIOUS
    <3> QED BY <2>4, <2>5, <3>1
  <2>6. CASE m # 0
    <3>1. m - 1 \in Nat /\ m - 1 <= L /\ m - 1 \notin Bad
      <4> HIDE DEF Bad
      <4> QED BY <2>3, <2>4, <2>6, <1>0
    <3>2. PICK f \in [0 .. m - 1 -> Int] : Good(f, m - 1)
      BY <3>1
    <3> DEFINE g == [i \in 0 .. m |-> IF i = m THEN f[m-1] + k[q[m]] ELSE f[i]]
    <3>3. g \in [0 .. m -> Int]
      BY <1>0, <2>4, <2>6, <3>2
    <3>4. g[0] = 0
      BY <2>4, <2>6, <3>2
    <3>5. \A i \in 1 .. m : g[i] = g[i-1] + k[q[i]]
      BY <2>4, <2>6, <3>2
    <3>6. Good(g, m)
      BY <3>3, <3>4, <3>5
    <3> QED BY <2>4, <3>3, <3>6
  <2> QED BY <2>5, <2>6
<1>2. PICK f \in [0 .. L -> Int] : Good(f, L)
  <2>1. L \notin Bad
    BY <1>1
  <2>2. L \in Nat /\ L <= L
    BY <1>0
  <2> HIDE DEF L, Good
  <2> QED BY <2>1, <2>2
<1> DEFINE Rec(h) == h = [n \in 0 .. L |-> IF n = 0 THEN 0 ELSE h[n-1] + k[q[n]]]
<1>3. Rec(f)
  BY <1>0, <1>2
<1>4. DeltaSum(q, k) = CHOOSE h : Rec(h)
  BY DEF DeltaSum
<1>5. Rec(DeltaSum(q, k))
  <2> HIDE DEF Rec
  <2> QED BY <1>3, <1>4
<1> DEFINE d == DeltaSum(q, k)
           Bad2 == {n \in Nat : n <= L /\ d[n] \notin Int}
<1> HIDE DEF d
<1>6. /\ d = [n \in 0 .. L |-> IF n = 0 THEN 0 ELSE d[n-1] + k[q[n]]]
  BY <1>5 DEF d
<1>7. Bad2 = {}
  <2>1. SUFFICES ASSUME Bad2 # {} PROVE FALSE
    OBVIOUS
  <2> DEFINE m == Min(Bad2)
  <2>2. m \in Bad2 /\ \A y \in Bad2 : m <= y
    <3>1. Bad2 \in SUBSET Nat
      OBVIOUS
    <3> HIDE DEF Bad2
    <3> QED BY <2>1, <3>1, MinOfNats
  <2> HIDE DEF m
  <2>3. m \in Nat /\ m <= L /\ d[m] \notin Int
    BY <2>2
  <2>4. m # 0
    BY <1>0, <1>6, <2>3
  <2>5. m - 1 \in Nat /\ m - 1 <= L /\ m - 1 \notin Bad2
    <3> HIDE DEF Bad2
    <3> QED BY <2>2, <2>3, <2>4, <1>0
  <2>6. d[m-1] \in Int
    BY <2>5
  <2>7. d[m] = d[m-1] + k[q[m]]
    BY <1>0, <1>6, <2>3, <2>4, SMTT(30)
  <2> QED BY <1>0, <2>3, <2>4, <2>6, <2>7
<1>8. \A n \in 0 .. L : d[n] \in Int
  BY <1>0, <1>7
<1>9. d[0] = 0 /\ \A i \in 1 .. L : d[i] = d[i-1] + k[q[i]]
  BY <1>0, <1>6
<1> QED BY <1>6, <1>8, <1>9 DEF d, Sums

LEMMA DeltaSumType ==
    ASSUME NEW P, NEW q \in Seq(P), NEW k \in [P -> Int]
    PROVE  DeltaSum(q, k) \in [0 .. Len(q) -> Int]
BY DeltaSumRec DEF Sums

(* They are the only numbers that do: again the least place where another  *)
(* function differs would follow one where it does not.                    *)
LEMMA DeltaSumUnique ==
    ASSUME NEW P, NEW q \in Seq(P), NEW k \in [P -> Int], NEW f, Sums(q, k, f)
    PROVE  DeltaSum(q, k) = f
<1> DEFINE L == Len(q)
           d == DeltaSum(q, k)
           Bad == {n \in Nat : n <= L /\ d[n] # f[n]}
<1>1. /\ d \in [0 .. L -> Int] /\ d[0] = 0 /\ L \in Nat
      /\ \A i \in 1 .. L : d[i] = d[i-1] + k[q[i]]
  BY DeltaSumRec DEF Sums
<1>2. f \in [0 .. L -> Int] /\ f[0] = 0 /\ \A i \in 1 .. L : f[i] = f[i-1] + k[q[i]]
  BY DEF Sums
<1> HIDE DEF d, L
<1>3. Bad = {}
  <2>1. SUFFICES ASSUME Bad # {} PROVE FALSE
    OBVIOUS
  <2> DEFINE m == Min(Bad)
  <2>2. m \in Bad /\ \A y \in Bad : m <= y
    <3>1. Bad \in SUBSET Nat
      OBVIOUS
    <3> HIDE DEF Bad
    <3> QED BY <2>1, <3>1, MinOfNats
  <2> HIDE DEF m
  <2>3. m \in Nat /\ m <= L /\ d[m] # f[m]
    BY <2>2
  <2>4. m # 0
    BY <1>1, <1>2, <2>3
  <2>5. m - 1 \in Nat /\ m - 1 <= L /\ m - 1 \notin Bad
    <3> HIDE DEF Bad
    <3> QED BY <1>1, <2>2, <2>3, <2>4
  <2>6. d[m-1] = f[m-1]
    BY <2>5
  <2>7. m \in 1 .. L
    BY <1>1, <2>3, <2>4
  <2> QED BY <1>1, <1>2, <2>3, <2>6, <2>7
<1>4. ASSUME NEW i \in 0 .. L PROVE d[i] = f[i]
  <2>1. i \in Nat /\ i <= L
    BY <1>1
  <2>2. i \notin Bad
    BY <1>3
  <2> QED BY <2>1, <2>2
<1>5. d = f
  BY <1>1, <1>2, <1>4
<1> QED BY <1>5 DEF d

(* The keys of the processes on the queue are the same. *)
SameKeys(q, k, l) == \A i \in 1 .. Len(q) : l[q[i]] = k[q[i]]

(* Keys of processes elsewhere do not matter. *)
LEMMA DeltaSumOther ==
    ASSUME NEW P, NEW q \in Seq(P), NEW k \in [P -> Int], NEW l \in [P -> Int],
           SameKeys(q, k, l)
    PROVE  DeltaSum(q, l) = DeltaSum(q, k)
<1>1. Sums(q, k, DeltaSum(q, k))
  BY DeltaSumRec
<1>2. Sums(q, l, DeltaSum(q, k))
  BY <1>1 DEF Sums, SameKeys
<1> QED BY <1>2, DeltaSumUnique

(* The keys l are k with the first one lower by one. *)
FirstLess(q, k, l) == l = [k EXCEPT ![Head(q)] = @ - 1]

(* When the first key goes down by one, so do all sums. *)
LEMMA DeltaSumTick ==
    ASSUME NEW P, NEW q \in Seq(P), NEW S, OnQueue(q, S), q # <<>>, NEW k \in [P -> Int],
           NEW l, FirstLess(q, k, l)
    PROVE  \A i \in 1 .. Len(q) : DeltaSum(q, l)[i] = DeltaSum(q, k)[i] - 1
<1> DEFINE d == DeltaSum(q, k)
           f == [i \in 0 .. Len(q) |-> IF i = 0 THEN 0 ELSE d[i] - 1]
<1>1. /\ d \in [0 .. Len(q) -> Int] /\ d[0] = 0 /\ Len(q) \in Nat
      /\ \A i \in 1 .. Len(q) : d[i] = d[i-1] + k[q[i]]
  BY DeltaSumRec DEF Sums
<1>0. \A i \in 1 .. Len(q) : k[q[i]] \in Int /\ q[i] \in P
  OBVIOUS
<1>2. Head(q) = q[1] /\ 1 \in 1 .. Len(q) /\ DOMAIN q = 1 .. Len(q)
  OBVIOUS
<1>3. \A i \in 1 .. Len(q) : q[i] = q[1] => i = 1
  BY <1>2 DEF OnQueue, IsInjective
<1> HIDE DEF d
<1>4. l \in [P -> Int] /\ \A i \in 1 .. Len(q) : l[q[i]] = IF i = 1 THEN k[q[i]] - 1 ELSE k[q[i]]
  BY <1>0, <1>2, <1>3 DEF FirstLess
<1>5. f \in [0 .. Len(q) -> Int] /\ f[0] = 0
  BY <1>1
<1>6. ASSUME NEW i \in 1 .. Len(q) PROVE f[i] = f[i-1] + l[q[i]]
  <2>1. i \in 0 .. Len(q) /\ i - 1 \in 0 .. Len(q) /\ i # 0
    BY <1>1
  <2>2. f[i] = d[i] - 1 /\ f[i-1] = IF i = 1 THEN 0 ELSE d[i-1] - 1
    BY <1>1, <2>1
  <2>3. d[i] = d[i-1] + k[q[i]] /\ d[i-1] \in Int /\ k[q[i]] \in Int
    BY <1>0, <1>1, <2>1
  <2>4. i = 1 => d[i-1] = 0
    BY <1>1
  <2> HIDE DEF f
  <2> QED BY <1>4, <2>2, <2>3, <2>4
<1>7. \A i \in 1 .. Len(q) : f[i] = d[i] - 1
  BY <1>1
<1> HIDE DEF f
<1>8. Sums(q, l, f)
  BY <1>5, <1>6 DEF Sums
<1>9. DeltaSum(q, l) = f
  BY <1>4, <1>8, DeltaSumUnique
<1>10. \A i \in 1 .. Len(q) : DeltaSum(q, l)[i] = d[i] - 1
  BY <1>7, <1>9
<1> QED BY <1>10 DEF d

(* When the first process is taken off, the others lose its key. *)
LEMMA DeltaSumTail ==
    ASSUME NEW P, NEW q \in Seq(P), q # <<>>, NEW k \in [P -> Int]
    PROVE  \A i \in 1 .. Len(q) - 1 :
              DeltaSum(Tail(q), k)[i] = DeltaSum(q, k)[i+1] - k[Head(q)]
<1> DEFINE d == DeltaSum(q, k)
           t == Tail(q)
           f == [i \in 0 .. Len(q) - 1 |-> d[i+1] - k[q[1]]]
<1>1. /\ d \in [0 .. Len(q) -> Int] /\ d[0] = 0 /\ Len(q) \in Nat
      /\ \A i \in 1 .. Len(q) : d[i] = d[i-1] + k[q[i]]
  BY DeltaSumRec DEF Sums
<1>0. Len(q) >= 1 /\ \A i \in 1 .. Len(q) : k[q[i]] \in Int
  OBVIOUS
<1>2. /\ Head(q) = q[1] /\ t \in Seq(P) /\ Len(t) = Len(q) - 1
      /\ \A i \in 1 .. Len(q) - 1 : t[i] = q[i+1]
  BY HeadTailProperties
<1> HIDE DEF d, t
<1>3. f \in [0 .. Len(t) -> Int] /\ f[0] = 0
  BY <1>0, <1>1, <1>2
<1>4. ASSUME NEW i \in 1 .. Len(t) PROVE f[i] = f[i-1] + k[t[i]]
  <2>1. i + 1 \in 1 .. Len(q) /\ (i + 1) - 1 = i /\ i \in 0 .. Len(q) - 1 /\ i - 1 \in 0 .. Len(q) - 1
        /\ (i - 1) + 1 = i /\ i \in 1 .. Len(q) - 1 /\ i \in 0 .. Len(q) /\ 1 \in 1 .. Len(q)
    BY <1>0, <1>1, <1>2
  <2>2. d[i+1] = d[i] + k[q[i+1]]
    BY <1>1, <2>1
  <2>3. d[i] \in Int /\ k[q[i+1]] \in Int /\ k[q[1]] \in Int
    BY <1>0, <1>1, <2>1
  <2>4. f[i] = d[i+1] - k[q[1]] /\ f[i-1] = d[i] - k[q[1]]
    BY <2>1
  <2>5. t[i] = q[i+1]
    BY <1>2, <2>1
  <2> HIDE DEF f
  <2> QED BY <2>2, <2>3, <2>4, <2>5
<1>5. \A i \in 1 .. Len(q) - 1 : f[i] = d[i+1] - k[q[1]]
  OBVIOUS
<1> HIDE DEF f
<1>6. Sums(t, k, f)
  BY <1>3, <1>4 DEF Sums
<1>7. DeltaSum(t, k) = f
  BY <1>2, <1>6, DeltaSumUnique
<1> QED BY <1>2, <1>5, <1>7 DEF d, t

(* The keys that insertd and unsleep leave are integers. *)
LEMMA InsertdKeysType ==
    ASSUME NEW P, NEW q \in Seq(P), NEW k \in [P -> Int], NEW p \in P, NEW delay \in Int
    PROVE  InsertdKeys(q, k, p, delay) \in [P -> Int]
<1> DEFINE pos  == InsertdPos(q, k, delay)
           left == delay - DeltaSum(q, k)[pos - 1]
<1>1. pos - 1 \in 0 .. Len(q)
  BY InsertdPosRange
<1>2. left \in Int
  <2>1. DeltaSum(q, k)[pos - 1] \in Int
    <3> HIDE DEF pos
    <3> QED BY <1>1, DeltaSumType
  <2> QED BY <2>1
<1> HIDE DEF pos, left
<1>3. InsertdKeys(q, k, p, delay) =
        [x \in P |-> IF x = p THEN left
                     ELSE IF pos <= Len(q) /\ x = q[pos] THEN k[x] - left ELSE k[x]]
  BY DEF InsertdKeys, pos, left
<1> QED BY <1>2, <1>3

(* unsleep leaves integer keys. *)
LEMMA UnsleepKeysType ==
    ASSUME NEW P, NEW q \in Seq(P), NEW S, OnQueue(q, S), NEW p \in S, p \in P,
           NEW k \in [P -> Int]
    PROVE  UnsleepKeys(q, k, p) \in [P -> Int]
<1> DEFINE i == PosOf(q, p)
<1>1. i \in 1 .. Len(q)
  BY GetItemOnQueue
<1> HIDE DEF i
<1>2. CASE i = Len(q)
  BY <1>2 DEF UnsleepKeys, i
<1>3. CASE i # Len(q)
  <2>1. q[i+1] \in P
    BY <1>1, <1>3
  <2>2. UnsleepKeys(q, k, p) = [k EXCEPT ![q[i+1]] = k[q[i+1]] + k[p]]
    BY <1>3 DEF UnsleepKeys, i
  <2> QED BY <2>1, <2>2
<1> QED BY <1>2, <1>3

(* The sums d with a newcomer at pos, and without the one at pos. *)
JoinedSums(d, sum, L, pos, delay) ==
    \A i \in 1 .. L + 1 :
        sum[i] = IF i < pos THEN d[i] ELSE IF i = pos THEN delay ELSE d[i-1]

LeftSums(d, sum, L, pos) ==
    \A i \in 1 .. L - 1 : sum[i] = IF i < pos THEN d[i] ELSE d[i+1]

(* insertd leaves the sums of the others, and the newcomer's is its delay. *)
LEMMA DeltaSumInsertd ==
    ASSUME NEW P, NEW q \in Seq(P), NEW S, OnQueue(q, S), NEW k \in [P -> Int],
           NEW p \in P, p \notin S, NEW delay \in Int
    PROVE  JoinedSums(DeltaSum(q, k),
                      DeltaSum(Insertd(q, k, p, delay), InsertdKeys(q, k, p, delay)),
                      Len(q), InsertdPos(q, k, delay), delay)
<1> DEFINE pos == InsertdPos(q, k, delay)
           d == DeltaSum(q, k)
           L == Len(q)
           left == delay - d[pos - 1]
           r == Insertd(q, k, p, delay)
           l == InsertdKeys(q, k, p, delay)
           f == [i \in 0 .. L + 1 |-> IF i < pos THEN d[i] ELSE IF i = pos THEN delay ELSE d[i-1]]
<1>1. d \in [0 .. L -> Int] /\ d[0] = 0 /\ \A i \in 1 .. L : d[i] = d[i-1] + k[q[i]]
  BY DeltaSumRec DEF Sums
<1>2. L \in Nat /\ DOMAIN q = 1 .. L /\ \A i \in 1 .. L : k[q[i]] \in Int /\ q[i] \in P
  OBVIOUS
<1>3. pos \in 1 .. L + 1
  BY InsertdPosRange
<1>4. /\ r \in Seq(P) /\ Len(r) = L + 1
      /\ \A j \in 1 .. L + 1 : r[j] = IF j < pos THEN q[j] ELSE IF j = pos THEN p ELSE q[j-1]
  <2> HIDE DEF pos
  <2>1. r = InsertAt(q, pos, p)
    BY DEF Insertd, pos
  <2> QED BY <1>3, <2>1, InsertAtProp
<1>5. l \in [P -> Int]
  BY InsertdKeysType
<1>6. \A x \in P : l[x] = IF x = p THEN left ELSE IF pos <= L /\ x = q[pos] THEN k[x] - left ELSE k[x]
  BY DEF InsertdKeys
<1>7. \A i \in 1 .. L : q[i] # p
  BY <1>2 DEF OnQueue, ToSet
<1>8. \A i, j \in 1 .. L : q[i] = q[j] => i = j
  BY <1>2 DEF OnQueue, IsInjective
<1>9. left \in Int /\ d[pos - 1] \in Int
  <2>1. pos - 1 \in 0 .. L
    BY <1>2, <1>3
  <2> HIDE DEF pos, d
  <2> QED BY <1>1, <2>1
<1>10. left = delay - d[pos - 1]
  OBVIOUS
<1> HIDE DEF pos, d, left, r, l, L
<1>16. L \in Nat
  BY <1>2
<1>11. f \in [0 .. L + 1 -> Int] /\ f[0] = 0
  BY <1>1, <1>2, <1>3
<1>12. ASSUME NEW i \in 1 .. L + 1 PROVE f[i] = f[i-1] + l[r[i]]
  <2>1. i \in 0 .. L + 1 /\ i - 1 \in 0 .. L + 1
    BY <1>2
  <2>2. CASE i < pos
    <3>1. i \in 1 .. L /\ r[i] = q[i] /\ f[i] = d[i] /\ f[i-1] = d[i-1]
      BY <1>2, <1>3, <1>4, <2>1, <2>2
    <3>2. l[r[i]] = k[q[i]]
      BY <1>2, <1>3, <1>6, <1>7, <1>8, <2>2, <3>1
    <3> QED BY <1>1, <3>1, <3>2
  <2>3. CASE i = pos
    <3>1. r[i] = p /\ f[i] = delay /\ f[i-1] = d[pos - 1]
      BY <1>2, <1>3, <1>4, <2>1, <2>3
    <3>2. l[r[i]] = left
      BY <1>6, <3>1
    <3> QED BY <1>9, <1>10, <3>1, <3>2
  <2>4. CASE i = pos + 1
    <3>1. pos \in 1 .. L /\ pos <= L
      BY <1>2, <1>3, <2>4
    <3>2. r[i] = q[pos] /\ f[i] = d[pos] /\ f[i-1] = delay
      BY <1>2, <1>3, <1>4, <2>1, <2>4, <3>1
    <3>3. l[r[i]] = k[q[pos]] - left
      BY <1>2, <1>6, <1>7, <3>1, <3>2
    <3>4. d[pos] = d[pos - 1] + k[q[pos]] /\ k[q[pos]] \in Int
      BY <1>1, <1>2, <3>1
    <3>5. d[pos - 1] \in Int /\ left = delay - d[pos - 1]
      BY <1>9, <1>10
    <3> HIDE DEF f
    <3> QED BY <3>2, <3>3, <3>4, <3>5
  <2>5. CASE i > pos + 1
    <3>1. i - 1 \in 1 .. L /\ i - 1 # pos /\ i - 1 > pos
      BY <1>3, <1>16, <2>5
    <3>4. ~(i < pos) /\ i # pos /\ ~(i - 1 < pos)
      BY <1>3, <1>16, <2>5, <3>1
    <3>2. r[i] = q[i-1] /\ f[i] = d[i-1] /\ f[i-1] = d[(i-1)-1]
      BY <1>4, <2>1, <3>1, <3>4
    <3>3. l[r[i]] = k[q[i-1]]
      BY <1>2, <1>3, <1>6, <1>7, <1>8, <3>1, <3>2
    <3> QED BY <1>1, <3>1, <3>2, <3>3
  <2> QED BY <1>3, <2>2, <2>3, <2>4, <2>5
<1>13. \A i \in 1 .. L + 1 : f[i] = IF i < pos THEN d[i] ELSE IF i = pos THEN delay ELSE d[i-1]
  BY <1>2
<1> HIDE DEF f
<1>14. Sums(r, l, f)
  BY <1>4, <1>11, <1>12 DEF Sums
<1>15. DeltaSum(r, l) = f
  BY <1>4, <1>5, <1>14, DeltaSumUnique
<1>17. JoinedSums(d, DeltaSum(r, l), L, pos, delay)
  BY <1>13, <1>15 DEF JoinedSums
<1> QED BY <1>17 DEF pos, d, r, l, L

(* unsleep leaves the sums of the others. *)
LEMMA DeltaSumUnsleep ==
    ASSUME NEW P, NEW q \in Seq(P), NEW S, OnQueue(q, S), NEW p \in S, p \in P,
           NEW k \in [P -> Int]
    PROVE  LeftSums(DeltaSum(q, k), DeltaSum(GetItem(q, p), UnsleepKeys(q, k, p)),
                    Len(q), PosOf(q, p))
<1> DEFINE pos == PosOf(q, p)
           d == DeltaSum(q, k)
           L == Len(q)
           r == GetItem(q, p)
           l == UnsleepKeys(q, k, p)
           f == [i \in 0 .. L - 1 |-> IF i < pos THEN d[i] ELSE d[i+1]]
<1>1. d \in [0 .. L -> Int] /\ d[0] = 0 /\ \A i \in 1 .. L : d[i] = d[i-1] + k[q[i]]
  BY DeltaSumRec DEF Sums
<1>2. L \in Nat /\ DOMAIN q = 1 .. L /\ \A i \in 1 .. L : k[q[i]] \in Int /\ q[i] \in P
  OBVIOUS
<1>3. pos \in 1 .. L /\ q[pos] = p
  <2>1. \E i \in DOMAIN q : q[i] = p
    BY DEF OnQueue, ToSet
  <2> QED BY <1>2, <2>1 DEF PosOf
<1>4. /\ r \in Seq(P) /\ Len(r) = L - 1
      /\ \A j \in 1 .. L - 1 : r[j] = IF j < pos THEN q[j] ELSE q[j+1]
  <2> HIDE DEF pos
  <2>1. r = RemoveAt(q, pos)
    BY DEF GetItem, pos
  <2> QED BY <1>3, <2>1, RemoveAtProp
<1>5. l \in [P -> Int]
  BY UnsleepKeysType
<1>6. /\ pos = L => l = k
      /\ pos # L => l = [k EXCEPT ![q[pos + 1]] = k[q[pos + 1]] + k[p]]
  BY DEF UnsleepKeys
<1>7. \A i, j \in 1 .. L : q[i] = q[j] => i = j
  BY <1>2 DEF OnQueue, IsInjective
<1> HIDE DEF pos, d, r, l, L
<1>13. L \in Nat
  BY <1>2
<1>14. pos \in 1 .. L
  BY <1>3
<1>8. f \in [0 .. L - 1 -> Int] /\ f[0] = 0
  BY <1>1, <1>2, <1>3
<1>9. ASSUME NEW i \in 1 .. L - 1 PROVE f[i] = f[i-1] + l[r[i]]
  <2>1. i \in 0 .. L - 1 /\ i - 1 \in 0 .. L - 1 /\ i \in 1 .. L /\ i + 1 \in 1 .. L
    BY <1>2
  <2>2. CASE i < pos
    <3>1. r[i] = q[i] /\ f[i] = d[i] /\ f[i-1] = d[i-1]
      BY <1>3, <1>4, <2>1, <2>2
    <3>2. pos # L => pos + 1 \in 1 .. L /\ pos + 1 # i
      BY <1>13, <1>14, <2>2
    <3>3. l[r[i]] = k[q[i]]
      BY <1>2, <1>6, <1>7, <2>1, <3>1, <3>2
    <3> QED BY <1>1, <2>1, <3>1, <3>3
  <2>3. CASE i = pos
    <3>1. r[i] = q[i+1] /\ f[i] = d[i+1] /\ f[i-1] = d[i-1] /\ pos # L
      BY <1>2, <1>3, <1>4, <2>1, <2>3
    <3>2. l[r[i]] = k[q[i+1]] + k[q[i]]
      BY <1>2, <1>3, <1>6, <2>1, <2>3, <3>1
    <3>3. d[i+1] = d[(i+1)-1] + k[q[i+1]] /\ d[i] = d[i-1] + k[q[i]] /\ (i+1)-1 = i
      BY <1>1, <2>1
    <3>4. k[q[i]] \in Int /\ k[q[i+1]] \in Int
      BY <1>2, <2>1
    <3>5. d[i-1] \in Int
      <4>1. i - 1 \in 0 .. L
        BY <1>13
      <4> QED BY <1>1, <4>1
    <3> HIDE DEF f
    <3> QED BY <3>1, <3>2, <3>3, <3>4, <3>5
  <2>4. CASE i > pos
    <3>5. ~(i < pos) /\ ~(i - 1 < pos) /\ (i - 1) + 1 = i
      BY <1>13, <1>14, <2>4
    <3>1. r[i] = q[i+1] /\ f[i] = d[i+1] /\ f[i-1] = d[i]
      BY <1>4, <2>1, <3>5
    <3>2. pos # L => pos + 1 \in 1 .. L /\ pos + 1 # i + 1
      BY <1>13, <1>14, <2>4
    <3>3. l[r[i]] = k[q[i+1]]
      BY <1>2, <1>6, <1>7, <2>1, <3>1, <3>2
    <3>4. d[i+1] = d[(i+1)-1] + k[q[i+1]] /\ (i+1)-1 = i
      BY <1>1, <2>1
    <3> QED BY <3>1, <3>3, <3>4
  <2> QED BY <1>14, <2>2, <2>3, <2>4
<1>10. \A i \in 1 .. L - 1 : f[i] = d[IF i < pos THEN i ELSE i + 1]
  BY <1>2
<1> HIDE DEF f
<1>11. Sums(r, l, f)
  BY <1>4, <1>8, <1>9 DEF Sums
<1>12. DeltaSum(r, l) = f
  BY <1>4, <1>5, <1>11, DeltaSumUnique
<1>15. LeftSums(d, DeltaSum(r, l), L, pos)
  BY <1>10, <1>12 DEF LeftSums
<1> QED BY <1>15 DEF pos, d, r, l, L

-----------------------------------------------------------------------------
(***************************************************************************)
(* 2. The states, the queues and the counts.                               *)
(***************************************************************************)
(* States in which a process is on no queue. *)
Unqueued == {"FREE", "CURR", "RECV", "SUSP"}

(* The queues with their types. *)
Queues(ps, rl, sq, sqs, psem) ==
    /\ ps \in [Pid -> States]
    /\ rl \in Seq(Pid)
    /\ sq \in Seq(Pid)
    /\ sqs \in [Sem -> Seq(Pid)]
    /\ psem \in [Pid -> Sem \cup {-1}]
    /\ QueuesAgree(ps, rl, sq, sqs, psem)

(* Names, for the provers, for functions changed at one point. *)
Put(f, x, v) == [f EXCEPT ![x] = v]

(* p taken off its queue; SUSP stands for every unqueued state. *)
Off(ps, p) == Put(ps, p, "SUSP")

-----------------------------------------------------------------------------
(***************************************************************************)
(* A process leaves a queue.                                               *)
(***************************************************************************)
(* The members of the queues when p is off. *)
LEMMA OffMembers ==
    ASSUME NEW ps \in [Pid -> States], NEW p \in Pid
    PROVE  /\ Off(ps, p) \in [Pid -> States]
           /\ ReadyProcs(Off(ps, p)) = ReadyProcs(ps) \ {p}
           /\ SleepProcs(Off(ps, p)) = SleepProcs(ps) \ {p}
           /\ \A x \in Pid : Off(ps, p)[x] = "WAIT" => ps[x] = "WAIT"
<1>1. Off(ps, p) \in [Pid -> States]
  BY DEF Off, Put, States
<1>2. \A x \in Pid : Off(ps, p)[x] = IF x = p THEN "SUSP" ELSE ps[x]
  BY DEF Off, Put
<1>3. ReadyProcs(Off(ps, p)) = ReadyProcs(ps) \ {p}
  BY <1>2 DEF ReadyProcs
<1>4. SleepProcs(Off(ps, p)) = SleepProcs(ps) \ {p}
  BY <1>2 DEF SleepProcs
<1>6. \A x \in Pid : Off(ps, p)[x] = "WAIT" => ps[x] = "WAIT"
  BY <1>2
<1> QED BY <1>1, <1>3, <1>4, <1>6

(* A process that is on no queue may be relabelled. *)
LEMMA OffUnqueued ==
    ASSUME NEW ps, NEW rl, NEW sq, NEW sqs, NEW psem, Queues(ps, rl, sq, sqs, psem),
           NEW p \in Pid, ps[p] \in Unqueued
    PROVE  Queues(Off(ps, p), rl, sq, sqs, psem)
<1>1. ps \in [Pid -> States]
  BY DEF Queues
<1>2. \A x \in Pid : Off(ps, p)[x] = IF x = p THEN "SUSP" ELSE ps[x]
  BY <1>1 DEF Off, Put
<1>3. ReadyProcs(Off(ps, p)) = ReadyProcs(ps)
  BY <1>2 DEF ReadyProcs, Unqueued
<1>4. SleepProcs(Off(ps, p)) = SleepProcs(ps)
  BY <1>2 DEF SleepProcs, Unqueued
<1>5. \A s \in Sem : WaitProcs(Off(ps, p), psem, s) = WaitProcs(ps, psem, s)
  BY <1>2 DEF WaitProcs, Unqueued
<1>6. Off(ps, p) \in [Pid -> States] /\ \A x \in Pid : Off(ps, p)[x] = "WAIT" => ps[x] = "WAIT"
  BY <1>1, OffMembers
<1> QED BY <1>3, <1>4, <1>5, <1>6 DEF Queues, QueuesAgree

(* The ready list loses p. *)
LEMMA OffReady ==
    ASSUME NEW ps, NEW rl, NEW sq, NEW sqs, NEW psem, Queues(ps, rl, sq, sqs, psem),
           NEW p \in Pid, ps[p] = "READY",
           NEW new \in Seq(Pid), OnQueue(new, ReadyProcs(ps) \ {p})
    PROVE  Queues(Off(ps, p), new, sq, sqs, psem)
<1>1. ps \in [Pid -> States]
  BY DEF Queues
<1>2. \A x \in Pid : Off(ps, p)[x] = IF x = p THEN "SUSP" ELSE ps[x]
  BY <1>1 DEF Off, Put
<1>3. ReadyProcs(Off(ps, p)) = ReadyProcs(ps) \ {p}
  BY <1>2 DEF ReadyProcs
<1>4. SleepProcs(Off(ps, p)) = SleepProcs(ps)
  BY <1>2 DEF SleepProcs
<1>5. \A s \in Sem : WaitProcs(Off(ps, p), psem, s) = WaitProcs(ps, psem, s)
  BY <1>2 DEF WaitProcs
<1>6. Off(ps, p) \in [Pid -> States] /\ \A x \in Pid : Off(ps, p)[x] = "WAIT" => ps[x] = "WAIT"
  BY <1>1, OffMembers
<1> QED BY <1>3, <1>4, <1>5, <1>6 DEF Queues, QueuesAgree

(* The sleep queue loses p. *)
LEMMA OffSleep ==
    ASSUME NEW ps, NEW rl, NEW sq, NEW sqs, NEW psem, Queues(ps, rl, sq, sqs, psem),
           NEW p \in Pid, ps[p] \in {"SLEEP", "RECTIM"},
           NEW new \in Seq(Pid), OnQueue(new, SleepProcs(ps) \ {p})
    PROVE  Queues(Off(ps, p), rl, new, sqs, psem)
<1>1. ps \in [Pid -> States]
  BY DEF Queues
<1>2. \A x \in Pid : Off(ps, p)[x] = IF x = p THEN "SUSP" ELSE ps[x]
  BY <1>1 DEF Off, Put
<1>3. ReadyProcs(Off(ps, p)) = ReadyProcs(ps)
  BY <1>2 DEF ReadyProcs
<1>4. SleepProcs(Off(ps, p)) = SleepProcs(ps) \ {p}
  BY <1>2 DEF SleepProcs
<1>5. \A s \in Sem : WaitProcs(Off(ps, p), psem, s) = WaitProcs(ps, psem, s)
  BY <1>2 DEF WaitProcs
<1>6. Off(ps, p) \in [Pid -> States] /\ \A x \in Pid : Off(ps, p)[x] = "WAIT" => ps[x] = "WAIT"
  BY <1>1, OffMembers
<1> QED BY <1>3, <1>4, <1>5, <1>6 DEF Queues, QueuesAgree

(* The queue of semaphore t loses p. *)
LEMMA OffWait ==
    ASSUME NEW ps, NEW rl, NEW sq, NEW sqs, NEW psem, Queues(ps, rl, sq, sqs, psem),
           NEW p \in Pid, NEW t \in Sem, ps[p] = "WAIT", psem[p] = t,
           NEW new \in Seq(Pid), OnQueue(new, WaitProcs(ps, psem, t) \ {p})
    PROVE  Queues(Off(ps, p), rl, sq, Put(sqs, t, new), psem)
<1>1. ps \in [Pid -> States] /\ sqs \in [Sem -> Seq(Pid)]
  BY DEF Queues
<1>2. /\ Put(sqs, t, new) \in [Sem -> Seq(Pid)]
      /\ \A s \in Sem : Put(sqs, t, new)[s] = IF s = t THEN new ELSE sqs[s]
  BY <1>1 DEF Put
<1>4. \A x \in Pid : Off(ps, p)[x] = IF x = p THEN "SUSP" ELSE ps[x]
  BY <1>1 DEF Off, Put
<1>3. \A s \in Sem : OnQueue(Put(sqs, t, new)[s], WaitProcs(Off(ps, p), psem, s))
  <2>1. TAKE s \in Sem
  <2>2. WaitProcs(Off(ps, p), psem, s) = WaitProcs(ps, psem, s) \ {p}
    BY <1>4 DEF WaitProcs
  <2>3. CASE s = t
    BY <1>2, <2>2, <2>3
  <2>4. CASE s # t
    <3>1. WaitProcs(ps, psem, s) \ {p} = WaitProcs(ps, psem, s)
      BY <2>4 DEF WaitProcs
    <3>2. OnQueue(sqs[s], WaitProcs(ps, psem, s))
      BY DEF Queues, QueuesAgree
    <3> QED BY <1>2, <2>2, <2>4, <3>1, <3>2
  <2> QED BY <2>3, <2>4
<1>5. Off(ps, p) \in [Pid -> States] /\ \A x \in Pid : Off(ps, p)[x] = "WAIT" => ps[x] = "WAIT"
  BY <1>1, OffMembers
<1>6. ReadyProcs(Off(ps, p)) = ReadyProcs(ps) /\ SleepProcs(Off(ps, p)) = SleepProcs(ps)
  BY <1>4 DEF ReadyProcs, SleepProcs
<1> QED BY <1>2, <1>3, <1>5, <1>6 DEF Queues, QueuesAgree

-----------------------------------------------------------------------------
(***************************************************************************)
(* A process that is off the queues gets a state again.                    *)
(***************************************************************************)
(* Its new state decides the one queue it belongs to. *)
LEMMA OnMembers ==
    ASSUME NEW ps \in [Pid -> States], NEW p \in Pid, NEW st \in States
    PROVE  /\ Put(ps, p, st) \in [Pid -> States]
           /\ st = "READY" => ReadyProcs(Put(ps, p, st)) = ReadyProcs(Off(ps, p)) \cup {p}
           /\ st # "READY" => ReadyProcs(Put(ps, p, st)) = ReadyProcs(Off(ps, p))
           /\ st \in {"SLEEP", "RECTIM"} => SleepProcs(Put(ps, p, st)) = SleepProcs(Off(ps, p)) \cup {p}
           /\ st \notin {"SLEEP", "RECTIM"} => SleepProcs(Put(ps, p, st)) = SleepProcs(Off(ps, p))
           /\ st # "WAIT" => \A x \in Pid : Put(ps, p, st)[x] = "WAIT" => Off(ps, p)[x] = "WAIT"
<1> DEFINE new == Put(ps, p, st)
<1>1. new \in [Pid -> States]
  BY DEF Put
<1>2. \A x \in Pid : Off(ps, p)[x] = IF x = p THEN "SUSP" ELSE ps[x]
  BY DEF Off, Put
<1>3. \A x \in Pid : new[x] = IF x = p THEN st ELSE ps[x]
  BY DEF Put
<1> HIDE DEF new
<1>4. st = "READY" => ReadyProcs(new) = ReadyProcs(Off(ps, p)) \cup {p}
  BY <1>2, <1>3 DEF ReadyProcs
<1>5. st # "READY" => ReadyProcs(new) = ReadyProcs(Off(ps, p))
  BY <1>2, <1>3 DEF ReadyProcs
<1>6. st \in {"SLEEP", "RECTIM"} => SleepProcs(new) = SleepProcs(Off(ps, p)) \cup {p}
  BY <1>2, <1>3 DEF SleepProcs
<1>7. st \notin {"SLEEP", "RECTIM"} => SleepProcs(new) = SleepProcs(Off(ps, p))
  BY <1>2, <1>3 DEF SleepProcs
<1>9. st # "WAIT" => \A x \in Pid : new[x] = "WAIT" => Off(ps, p)[x] = "WAIT"
  BY <1>2, <1>3
<1> QED BY <1>1, <1>4, <1>5, <1>6, <1>7, <1>9 DEF new

(* A state other than WAIT adds no waiter to any semaphore. *)
LEMMA OnWaiters ==
    ASSUME NEW ps \in [Pid -> States], NEW psem, NEW p \in Pid, NEW st \in States \ {"WAIT"},
           NEW s
    PROVE  WaitProcs(Put(ps, p, st), psem, s) = WaitProcs(Off(ps, p), psem, s)
<1>1. \A x \in Pid : Off(ps, p)[x] = IF x = p THEN "SUSP" ELSE ps[x]
  BY DEF Off, Put
<1>2. \A x \in Pid : Put(ps, p, st)[x] = IF x = p THEN st ELSE ps[x]
  BY DEF Put
<1> QED BY <1>1, <1>2 DEF WaitProcs

(* A process that is off every queue is on neither ready list nor sleep queue. *)
LEMMA OffNotIn ==
    ASSUME NEW ps \in [Pid -> States], NEW p \in Pid
    PROVE  /\ p \notin ReadyProcs(Off(ps, p))
           /\ p \notin SleepProcs(Off(ps, p))
<1>1. Off(ps, p)[p] = "SUSP"
  BY DEF Off, Put
<1> QED BY <1>1 DEF ReadyProcs, SleepProcs

(* A process that is off every queue waits on no semaphore. *)
LEMMA OffNotWaiting ==
    ASSUME NEW ps \in [Pid -> States], NEW p \in Pid, NEW psem, NEW s
    PROVE  p \notin WaitProcs(Off(ps, p), psem, s)
<1>1. Off(ps, p)[p] = "SUSP"
  BY DEF Off, Put
<1> QED BY <1>1 DEF WaitProcs

(* An unqueued state. *)
LEMMA ToUnqueued ==
    ASSUME NEW ps \in [Pid -> States], NEW rl, NEW sq, NEW sqs, NEW psem, NEW p \in Pid,
           Queues(Off(ps, p), rl, sq, sqs, psem), NEW st \in Unqueued
    PROVE  Queues(Put(ps, p, st), rl, sq, sqs, psem)
<1>1. st \in States /\ st # "READY" /\ st # "WAIT" /\ st \notin {"SLEEP", "RECTIM"}
  BY DEF States, Unqueued
<1> DEFINE new == Put(ps, p, st)
<1>2. /\ new \in [Pid -> States]
      /\ ReadyProcs(new) = ReadyProcs(Off(ps, p))
      /\ SleepProcs(new) = SleepProcs(Off(ps, p))
      /\ \A x \in Pid : new[x] = "WAIT" => Off(ps, p)[x] = "WAIT"
  BY <1>1, OnMembers
<1>3. \A s \in Sem : WaitProcs(new, psem, s) = WaitProcs(Off(ps, p), psem, s)
  BY <1>1, OnWaiters
<1> HIDE DEF new
<1>4. Queues(new, rl, sq, sqs, psem)
  BY <1>2, <1>3 DEF Queues, QueuesAgree
<1> QED BY <1>4 DEF new

(* READY, through insert. *)
LEMMA ToReady ==
    ASSUME NEW ps \in [Pid -> States], NEW rl, NEW sq, NEW sqs, NEW psem, NEW p \in Pid,
           Queues(Off(ps, p), rl, sq, sqs, psem), NEW k, NEW key
    PROVE  /\ Queues(Put(ps, p, "READY"), Insert(rl, k, p, key), sq, sqs, psem)
           /\ Insert(rl, k, p, key) # <<>>
<1>1. "READY" \in States /\ "READY" # "WAIT" /\ "READY" \notin {"SLEEP", "RECTIM"}
  BY DEF States
<1>2. rl \in Seq(Pid) /\ OnQueue(rl, ReadyProcs(Off(ps, p)))
  BY DEF Queues, QueuesAgree
<1>3. /\ Insert(rl, k, p, key) \in Seq(Pid)
      /\ Insert(rl, k, p, key) # <<>>
      /\ OnQueue(Insert(rl, k, p, key), ReadyProcs(Off(ps, p)) \cup {p})
  BY <1>2, OffNotIn, InsertOnQueue
<1> DEFINE new == Put(ps, p, "READY")
<1>4. /\ new \in [Pid -> States]
      /\ ReadyProcs(new) = ReadyProcs(Off(ps, p)) \cup {p}
      /\ SleepProcs(new) = SleepProcs(Off(ps, p))
      /\ \A x \in Pid : new[x] = "WAIT" => Off(ps, p)[x] = "WAIT"
  BY <1>1, OnMembers
<1>6. \A s \in Sem : WaitProcs(new, psem, s) = WaitProcs(Off(ps, p), psem, s)
  BY <1>1, OnWaiters
<1> HIDE DEF new
<1>5. Queues(new, Insert(rl, k, p, key), sq, sqs, psem)
  BY <1>3, <1>4, <1>6 DEF Queues, QueuesAgree
<1> QED BY <1>3, <1>5 DEF new

(* SLEEP or RECTIM, through insertd. *)
LEMMA ToSleep ==
    ASSUME NEW ps \in [Pid -> States], NEW rl, NEW sq, NEW sqs, NEW psem, NEW p \in Pid,
           Queues(Off(ps, p), rl, sq, sqs, psem), NEW k, NEW delay,
           NEW st \in {"SLEEP", "RECTIM"}
    PROVE  Queues(Put(ps, p, st), rl, Insertd(sq, k, p, delay), sqs, psem)
<1>1. st \in States /\ st # "READY" /\ st # "WAIT"
  BY DEF States
<1>2. sq \in Seq(Pid) /\ OnQueue(sq, SleepProcs(Off(ps, p)))
  BY DEF Queues, QueuesAgree
<1>3. /\ Insertd(sq, k, p, delay) \in Seq(Pid)
      /\ OnQueue(Insertd(sq, k, p, delay), SleepProcs(Off(ps, p)) \cup {p})
  BY <1>2, OffNotIn, InsertdOnQueue
<1> DEFINE new == Put(ps, p, st)
<1>4. /\ new \in [Pid -> States]
      /\ ReadyProcs(new) = ReadyProcs(Off(ps, p))
      /\ SleepProcs(new) = SleepProcs(Off(ps, p)) \cup {p}
      /\ \A x \in Pid : new[x] = "WAIT" => Off(ps, p)[x] = "WAIT"
  BY <1>1, OnMembers
<1>6. \A s \in Sem : WaitProcs(new, psem, s) = WaitProcs(Off(ps, p), psem, s)
  BY <1>1, OnWaiters
<1> HIDE DEF new
<1>5. Queues(new, rl, Insertd(sq, k, p, delay), sqs, psem)
  BY <1>3, <1>4, <1>6 DEF Queues, QueuesAgree
<1> QED BY <1>5 DEF new

(* WAIT on semaphore t, through enqueue. *)
LEMMA ToWait ==
    ASSUME NEW ps \in [Pid -> States], NEW rl, NEW sq, NEW sqs, NEW psem, NEW p \in Pid,
           Queues(Off(ps, p), rl, sq, sqs, psem), NEW t \in Sem
    PROVE  Queues(Put(ps, p, "WAIT"), rl, sq,
                  Put(sqs, t, Enqueue(sqs[t], p)), Put(psem, p, t))
<1> DEFINE new  == Put(ps, p, "WAIT")
           psn  == Put(psem, p, t)
           sqn  == Put(sqs, t, Enqueue(sqs[t], p))
<1>0. "WAIT" \in States
  BY DEF States
<1>1. psem \in [Pid -> Sem \cup {-1}] /\ sqs \in [Sem -> Seq(Pid)]
  BY DEF Queues
<1>2. psn \in [Pid -> Sem \cup {-1}] /\ \A x \in Pid : psn[x] = IF x = p THEN t ELSE psem[x]
  BY <1>1 DEF Put
<1>3. \A x \in Pid : new[x] = IF x = p THEN "WAIT" ELSE ps[x]
  BY DEF Put
<1>4. \A x \in Pid : Off(ps, p)[x] = IF x = p THEN "SUSP" ELSE ps[x]
  BY DEF Off, Put
<1>5. /\ Enqueue(sqs[t], p) \in Seq(Pid)
      /\ OnQueue(Enqueue(sqs[t], p), WaitProcs(Off(ps, p), psem, t) \cup {p})
  <2>1. sqs[t] \in Seq(Pid) /\ OnQueue(sqs[t], WaitProcs(Off(ps, p), psem, t))
    BY <1>1 DEF Queues, QueuesAgree
  <2> QED BY <2>1, OffNotWaiting, EnqueueOnQueue
<1>6. sqn \in [Sem -> Seq(Pid)]
  BY <1>1, <1>5 DEF Put
<1>7. \A s \in Sem : sqn[s] = IF s = t THEN Enqueue(sqs[t], p) ELSE sqs[s]
  BY <1>1 DEF Put
<1> HIDE DEF new, psn, sqn
<1>8. \A s \in Sem : WaitProcs(new, psn, s) = IF s = t THEN WaitProcs(Off(ps, p), psem, s) \cup {p}
                                               ELSE WaitProcs(Off(ps, p), psem, s)
  BY <1>2, <1>3, <1>4 DEF WaitProcs
<1>9. \A s \in Sem : OnQueue(sqn[s], WaitProcs(new, psn, s))
  BY <1>5, <1>7, <1>8 DEF Queues, QueuesAgree
<1>10. \A x \in Pid : new[x] = "WAIT" => psn[x] \in Sem
  BY <1>2, <1>3, <1>4 DEF Queues, QueuesAgree
<1>11. /\ new \in [Pid -> States]
       /\ ReadyProcs(new) = ReadyProcs(Off(ps, p))
       /\ SleepProcs(new) = SleepProcs(Off(ps, p))
  BY <1>0, OnMembers DEF new
<1> QED BY <1>2, <1>6, <1>9, <1>10, <1>11 DEF Queues, QueuesAgree, new, psn, sqn

-----------------------------------------------------------------------------
(***************************************************************************)
(* resched and ready.                                                      *)
(***************************************************************************)
(* What resched leaves behind, whoever it dispatches. *)
Dispatched ==
    /\ currpid' \in Pid
    /\ qkey' \in [Pid -> Int]
    /\ preempt' \in Int
    /\ \A p \in Pid : prstate'[p] = "CURR" <=> p = currpid'
    /\ prstate'[NULLPROC] \in {"CURR", "READY"}

(* The head of a non-empty ready list is dispatched. *)
LEMMA SwitchToOK ==
    ASSUME NEW ps, NEW rl, NEW sq, NEW sqs, NEW psem, Queues(ps, rl, sq, sqs, psem),
           NEW k \in [Pid -> Int], rl # <<>>,
           ps[NULLPROC] = "READY", \A p \in Pid : ps[p] # "CURR",
           SwitchTo(rl, ps, k)
    PROVE  Queues(prstate', readylist', sq, sqs, psem) /\ Dispatched
<1> DEFINE h == Head(rl)
<1>1. ps \in [Pid -> States] /\ rl \in Seq(Pid) /\ OnQueue(rl, ReadyProcs(ps))
  BY DEF Queues, QueuesAgree
<1>2. h \in ReadyProcs(ps) /\ h \in Pid /\ Tail(rl) \in Seq(Pid) /\ OnQueue(Tail(rl), ReadyProcs(ps) \ {h})
  BY <1>1, TailOnQueue
<1>3. /\ currpid' = h /\ readylist' = Tail(rl) /\ prstate' = Put(ps, h, "CURR")
      /\ qkey' = k /\ preempt' = QUANTUM
  BY DEF SwitchTo, Put
<1> HIDE DEF h
<1>4. ps[h] = "READY"
  BY <1>2 DEF ReadyProcs
<1>5. Queues(Off(ps, h), Tail(rl), sq, sqs, psem)
  BY <1>2, <1>4, OffReady
<1>6. "CURR" \in Unqueued
  BY DEF Unqueued
<1>7. Queues(Put(ps, h, "CURR"), Tail(rl), sq, sqs, psem)
  BY <1>1, <1>2, <1>5, <1>6, ToUnqueued
<1>8. \A p \in Pid : Put(ps, h, "CURR")[p] = IF p = h THEN "CURR" ELSE ps[p]
  BY <1>1 DEF Put
<1>9. NULLPROC \in Pid
  BY NPROCAssumption DEF NULLPROC, Pid
<1>10. Dispatched
  <2>1. prstate'[NULLPROC] \in {"CURR", "READY"} /\ \A p \in Pid : prstate'[p] = "CURR" <=> p = currpid'
    BY <1>3, <1>8, <1>9
  <2>2. QUANTUM \in Int
    BY QUANTUMAssumption
  <2> QED BY <1>2, <1>3, <2>1, <2>2 DEF Dispatched
<1> QED BY <1>3, <1>7, <1>10

(* resched, called with the process states ps and the ready list rl.  The  *)
(* null process is READY or CURR, so the list is not empty when it is      *)
(* needed, and nothing switches while rescheduling is deferred.            *)
LEMMA ReschedOK ==
    ASSUME NEW slice \in Int, NEW nd \in Nat, NEW rl, NEW ps, NEW k \in [Pid -> Int],
           NEW sq, NEW sqs, NEW psem, Queues(ps, rl, sq, sqs, psem),
           currpid \in Pid, prprio \in [Pid -> Int], attempt \in BOOLEAN,
           ps[NULLPROC] \in {"CURR", "READY"},
           \A p \in Pid : ps[p] = "CURR" => p = currpid,
           nd > 0 => ps[currpid] = "CURR",
           ReschedWith(slice, nd, rl, ps, k)
    PROVE  /\ Queues(prstate', readylist', sq, sqs, psem)
           /\ Dispatched
           /\ ndefers' = nd
           /\ attempt' \in BOOLEAN
           /\ nd > 0 => currpid' = currpid
<1> DEFINE prio == prprio[currpid]
           eligible == ps[currpid] = "CURR"
           stays == nd > 0 \/ (eligible /\ ~Outranked(prio, rl, k))
<1>1. NULLPROC \in Pid
  BY NPROCAssumption DEF NULLPROC, Pid
<1>2. ndefers' = nd /\ attempt' = (attempt \/ nd > 0)
  BY DEF ReschedWith
<1>3. attempt' \in BOOLEAN
  BY <1>2
<1>4. CASE stays
  <2>1. NoSwitch(slice, rl, ps, k)
    BY <1>4 DEF ReschedWith
  <2>2. eligible
    BY <1>4
  <2>3. /\ readylist' = rl /\ prstate' = ps /\ qkey' = k /\ preempt' = slice
        /\ currpid' = currpid
    BY <2>1 DEF NoSwitch
  <2>4. Dispatched
    BY <2>2, <2>3 DEF Dispatched
  <2> QED BY <1>2, <1>3, <2>3, <2>4
<1>5. CASE ~stays /\ eligible
  <2> DEFINE ps2 == Put(ps, currpid, "READY")
             rl2 == Insert(rl, k, currpid, prio)
             k2 == [k EXCEPT ![currpid] = prio]
  <2>1. SwitchTo(rl2, ps2, k2)
    BY <1>5 DEF ReschedWith, Put
  <2>2. k2 \in [Pid -> Int]
    OBVIOUS
  <2>3. "CURR" \in Unqueued /\ ps \in [Pid -> States]
    BY DEF Unqueued, Queues
  <2>4. Queues(Off(ps, currpid), rl, sq, sqs, psem)
    BY <1>5, <2>3, OffUnqueued
  <2>5. Queues(ps2, rl2, sq, sqs, psem) /\ rl2 # <<>>
    BY <2>3, <2>4, ToReady
  <2>6. \A p \in Pid : ps2[p] = IF p = currpid THEN "READY" ELSE ps[p]
    BY <2>3 DEF Put
  <2> HIDE DEF ps2, rl2, k2
  <2>7. ps2[NULLPROC] = "READY" /\ \A p \in Pid : ps2[p] # "CURR"
    BY <1>1, <2>6
  <2>8. Queues(prstate', readylist', sq, sqs, psem) /\ Dispatched
    BY <2>1, <2>2, <2>5, <2>7, SwitchToOK
  <2> QED BY <1>2, <1>3, <1>5, <2>8
<1>6. CASE ~stays /\ ~eligible
  <2>1. SwitchTo(rl, ps, k)
    BY <1>6 DEF ReschedWith
  <2>2. ps[NULLPROC] = "READY" /\ \A p \in Pid : ps[p] # "CURR"
    BY <1>1, <1>6
  <2>3. rl # <<>>
    <3>1. NULLPROC \in ReadyProcs(ps)
      BY <1>1, <2>2 DEF ReadyProcs
    <3>2. ToSet(rl) = ReadyProcs(ps)
      BY DEF Queues, QueuesAgree, OnQueue
    <3> QED BY <3>1, <3>2 DEF ToSet
  <2>4. Queues(prstate', readylist', sq, sqs, psem) /\ Dispatched
    BY <2>1, <2>2, <2>3, SwitchToOK
  <2> QED BY <1>2, <1>3, <1>6, <2>4
<1> QED BY <1>4, <1>5, <1>6

(* ready: p, which is on no queue, joins the ready list. *)
LEMMA ReadyOK ==
    ASSUME NEW rl, NEW ps \in [Pid -> States], NEW k \in [Pid -> Int],
           NEW sq, NEW sqs, NEW psem, NEW p \in Pid,
           Queues(Off(ps, p), rl, sq, sqs, psem),
           currpid \in Pid, prprio \in [Pid -> Int], attempt \in BOOLEAN,
           preempt \in Int, ndefers \in Nat,
           ps[NULLPROC] \in {"CURR", "READY"} \/ p = NULLPROC,
           p # currpid, \A x \in Pid : ps[x] = "CURR" <=> x = currpid,
           Ready(p, rl, ps, k)
    PROVE  /\ Queues(prstate', readylist', sq, sqs, psem)
           /\ Dispatched
           /\ ndefers' = ndefers
           /\ attempt' \in BOOLEAN
           /\ ndefers > 0 => currpid' = currpid
<1> DEFINE ps2 == Put(ps, p, "READY")
           rl2 == Insert(rl, k, p, prprio[p])
           k2 == [k EXCEPT ![p] = prprio[p]]
<1>1. ReschedWith(preempt, ndefers, rl2, ps2, k2)
  BY DEF Ready, Resched, Put
<1>2. k2 \in [Pid -> Int]
  OBVIOUS
<1>3. Queues(ps2, rl2, sq, sqs, psem)
  BY ToReady
<1>4. \A x \in Pid : ps2[x] = IF x = p THEN "READY" ELSE ps[x]
  BY DEF Put
<1>5. NULLPROC \in Pid
  BY NPROCAssumption DEF NULLPROC, Pid
<1> HIDE DEF ps2, rl2, k2
<1>6. /\ ps2[NULLPROC] \in {"CURR", "READY"}
      /\ \A x \in Pid : ps2[x] = "CURR" => x = currpid
      /\ ps2[currpid] = "CURR"
  BY <1>4, <1>5
<1> QED BY <1>1, <1>2, <1>3, <1>6, ReschedOK
-----------------------------------------------------------------------------
(***************************************************************************)
(* The invariant, taken apart and put together again.                      *)
(***************************************************************************)
(* The types of what resched and the queue operations do not touch. *)
OtherTypes ==
    /\ prprio \in [Pid -> Int]
    /\ prparent \in [Pid -> Pid]
    /\ prhasmsg \in [Pid -> BOOLEAN]
    /\ prcount \in Int
    /\ nextpid \in Pid
    /\ sstate \in [Sem -> {"FREE", "USED"}]
    /\ scount \in [Sem -> Int]
    /\ nextsem \in Sem
    /\ attempt \in BOOLEAN
    /\ cont \in [Pid -> Conts]
    /\ karg \in [Pid -> Int]
    /\ kcount \in [Pid -> Nat]
    /\ halted \in BOOLEAN
    /\ remain \in [Pid -> Int]

(* The parts of IInv, as the steps below use them. *)
LEMMA TakeApart ==
    ASSUME IInv
    PROVE  /\ Queues(prstate, readylist, sleepq, squeue, prsem)
           /\ OtherTypes
           /\ currpid \in Pid
           /\ qkey \in [Pid -> Int]
           /\ preempt \in Int
           /\ ndefers \in Nat
           /\ \A p \in Pid : prstate[p] = "CURR" <=> p = currpid
           /\ prstate[NULLPROC] \in {"CURR", "READY"}
           /\ prstate[currpid] = "CURR"
           /\ prstate \in [Pid -> States]
           /\ NULLPROC \in Pid
<1>1. NULLPROC \in Pid
  BY NPROCAssumption DEF NULLPROC, Pid
<1>2. TypeOK /\ QueueState /\ NullEligible
  BY DEF IInv
<1>3. Queues(prstate, readylist, sleepq, squeue, prsem)
  BY <1>2 DEF TypeOK, QueueState, Queues
<1>4. OtherTypes
  BY <1>2 DEF TypeOK, OtherTypes
<1>5. \A p \in Pid : prstate[p] = "CURR" <=> p = currpid
  BY <1>2 DEF QueueState
<1>6. currpid \in Pid /\ qkey \in [Pid -> Int] /\ preempt \in Int /\ ndefers \in Nat
  BY <1>2 DEF TypeOK
<1>7. prstate[NULLPROC] \in {"CURR", "READY"}
  BY <1>2 DEF NullEligible
<1>8. prstate \in [Pid -> States]
  BY <1>3 DEF Queues
<1> QED BY <1>1, <1>3, <1>4, <1>5, <1>6, <1>7, <1>8

(* The parts shown for the next state give IInv there. *)
LEMMA PutTogether ==
    ASSUME Queues(prstate', readylist', sleepq', squeue', prsem'), Dispatched, ndefers' \in Nat,
           OtherTypes', PendingCalls', SemCount', NoWaiterOnFree'
    PROVE  IInv'
<1>1. TypeOK'
  BY DEF TypeOK, Queues, Dispatched, OtherTypes
<1>2. QueueState'
  BY DEF QueueState, Queues, Dispatched
<1>3. NullEligible'
  BY DEF NullEligible, Dispatched
<1> QED BY <1>1, <1>2, <1>3 DEF IInv

(* A step that leaves the scheduler alone. *)
LEMMA SchedSame ==
    ASSUME IInv, UNCHANGED sched
    PROVE  Dispatched /\ ndefers' \in Nat
<1>1. /\ currpid' = currpid /\ prstate' = prstate /\ qkey' = qkey
      /\ preempt' = preempt /\ ndefers' = ndefers
  BY DEF sched
<1> QED BY <1>1, TakeApart DEF Dispatched

(* While the current process is in none of the loops, rescheduling is not  *)
(* deferred and no loop is half done.                                      *)
LEMMA NoLoop ==
    ASSUME IInv, cont[currpid] \notin Deferring
    PROVE  /\ ndefers = 0
           /\ \A p \in Pid : cont[p] \notin Deferring
           /\ \A s \in Sem : ~InReset(s) /\ ~InDelete(s)
<1>1. currpid \in Pid
  BY TakeApart
<1>2. ndefers = 0 /\ \A p \in Pid : cont[p] \notin Deferring
  BY <1>1 DEF IInv, PendingCalls
<1>3. cont[currpid] # "semreset" /\ cont[currpid] # "semdelete"
  BY <1>2 DEF Deferring
<1> QED BY <1>2, <1>3 DEF InReset, InDelete

(* A user call is made with no loop half done and nothing deferred. *)
LEMMA UserMode ==
    ASSUME IInv, Interruptible
    PROVE  /\ cont[currpid] = "user" /\ cont[currpid] \notin Deferring
           /\ ndefers = 0
<1>1. cont[currpid] = "user" /\ cont[currpid] \notin Deferring
  BY DEF Interruptible, Deferring
<1> QED BY <1>1, NoLoop

(* A step outside the loops that leaves the semaphores alone. *)
LEMMA SemSame ==
    ASSUME IInv, cont[currpid] \notin Deferring, UNCHANGED semvars
    PROVE  SemCount' /\ NoWaiterOnFree'
<1>1. sstate' = sstate /\ scount' = scount /\ squeue' = squeue
  BY DEF semvars
<1>2. \A s \in Sem : ~InReset(s) /\ ~InDelete(s)
  BY NoLoop
<1>3. \A s \in Sem : Len(squeue[s]) = IF scount[s] < 0 THEN -scount[s] ELSE 0
  BY <1>2 DEF IInv, SemCount
<1>4. \A s \in Sem : sstate[s] = "FREE" => squeue[s] = <<>>
  BY <1>2 DEF IInv, NoWaiterOnFree
<1> QED BY <1>1, <1>3, <1>4 DEF SemCount, NoWaiterOnFree

(* A step outside the loops that starts no loop. *)
LEMMA PendingSame ==
    ASSUME IInv, cont[currpid] \notin Deferring, currpid' \in Pid, ndefers' = ndefers,
           \A p \in Pid : \/ cont'[p] = cont[p] /\ karg'[p] = karg[p]
                          \/ cont'[p] \in {"user", "receive", "recvtime", "clkhandler"}
                          \/ cont'[p] = "kill" /\ karg'[p] \in Pid \ {NULLPROC}
    PROVE  PendingCalls'
<1>1. ndefers = 0 /\ \A p \in Pid : cont[p] \notin Deferring
  BY NoLoop
<1>2. \A p \in Pid : cont'[p] \notin Deferring
  BY <1>1 DEF Deferring
<1>3. \A p \in Pid :
        /\ cont[p] \in {"signaln", "semdelete", "semreset"} => karg[p] \in Sem
        /\ cont[p] = "kill" => karg[p] \in Pid \ {NULLPROC}
  BY DEF IInv, PendingCalls
<1>4. \A p \in Pid :
        /\ cont'[p] \in {"signaln", "semdelete", "semreset"} => karg'[p] \in Sem
        /\ cont'[p] = "kill" => karg'[p] \in Pid \ {NULLPROC}
  BY <1>3
<1> QED BY <1>1, <1>2, <1>4 DEF PendingCalls

(* The same when the saved contexts do not change at all. *)
LEMMA PendingUnchanged ==
    ASSUME IInv, cont[currpid] \notin Deferring, currpid' \in Pid, ndefers' = ndefers,
           UNCHANGED <<cont, karg>>
    PROVE  PendingCalls'
BY PendingSame
-----------------------------------------------------------------------------
(***************************************************************************)
(* Every action preserves the invariant.  First the calls that leave the   *)
(* semaphores alone.                                                       *)
(***************************************************************************)
(* chprio keeps IInv. *)
LEMMA ChPrioStep ==
    ASSUME IInv, NEW p \in Pid, NEW new \in Prios, ChPrio(p, new)
    PROVE  IInv'
<1>1. Interruptible
  BY DEF ChPrio, Calling
<1>2. /\ UNCHANGED sched /\ UNCHANGED semvars /\ UNCHANGED <<cont, karg>>
      /\ sleepq' = sleepq /\ prsem' = prsem
  BY DEF ChPrio, kvars
<1>3. Dispatched /\ ndefers' \in Nat /\ ndefers' = ndefers
  BY <1>2, SchedSame DEF sched
<1>4. SemCount' /\ NoWaiterOnFree'
  BY <1>1, <1>2, UserMode, SemSame
<1>5. PendingCalls'
  BY <1>1, <1>2, <1>3, UserMode, PendingUnchanged DEF Dispatched
<1>6. Queues(prstate', readylist', sleepq', squeue', prsem')
  BY <1>2, TakeApart DEF sched, semvars
<1>7. OtherTypes'
  <2>1. prprio' = [prprio EXCEPT ![p] = new]
    BY DEF ChPrio
  <2>2. prprio' \in [Pid -> Int]
    BY <2>1, TakeApart, PriosAssumption DEF OtherTypes
  <2> QED BY <2>2, TakeApart DEF OtherTypes, ChPrio, sched, semvars, kvars
<1> QED BY <1>3, <1>4, <1>5, <1>6, <1>7, PutTogether

(* recvclr keeps IInv. *)
LEMMA RecvClrStep ==
    ASSUME IInv, RecvClr
    PROVE  IInv'
<1>1. Interruptible
  BY DEF RecvClr, Calling
<1>2. /\ UNCHANGED sched /\ UNCHANGED semvars /\ UNCHANGED <<cont, karg>>
      /\ sleepq' = sleepq /\ prsem' = prsem
  BY DEF RecvClr, kvars
<1>3. Dispatched /\ ndefers' \in Nat /\ ndefers' = ndefers
  BY <1>2, SchedSame DEF sched
<1>4. SemCount' /\ NoWaiterOnFree'
  BY <1>1, <1>2, UserMode, SemSame
<1>5. PendingCalls'
  BY <1>1, <1>2, <1>3, UserMode, PendingUnchanged DEF Dispatched
<1>6. Queues(prstate', readylist', sleepq', squeue', prsem')
  BY <1>2, TakeApart DEF sched, semvars
<1>7. OtherTypes'
  BY TakeApart DEF OtherTypes, RecvClr, sched, semvars, kvars
<1> QED BY <1>3, <1>4, <1>5, <1>6, <1>7, PutTogether

(* The return of a blocked receive or recvtime keeps IInv. *)
LEMMA ReceiveEndStep ==
    ASSUME IInv, ReceiveEnd
    PROVE  IInv'
<1>1. cont[currpid] \notin Deferring
  BY DEF ReceiveEnd, Continuing, Deferring
<1>2. /\ UNCHANGED sched /\ UNCHANGED semvars
      /\ sleepq' = sleepq /\ prsem' = prsem
  BY DEF ReceiveEnd
<1>3. Dispatched /\ ndefers' \in Nat /\ ndefers' = ndefers
  BY <1>2, SchedSame DEF sched
<1>4. SemCount' /\ NoWaiterOnFree'
  BY <1>1, <1>2, SemSame
<1>5. PendingCalls'
  <2>1. \A p \in Pid : (cont'[p] = cont[p] /\ karg'[p] = karg[p]) \/ cont'[p] = "user"
    BY TakeApart DEF ReceiveEnd, Return, OtherTypes
  <2> QED BY <1>1, <1>3, <2>1, PendingSame DEF Dispatched
<1>6. Queues(prstate', readylist', sleepq', squeue', prsem')
  BY <1>2, TakeApart DEF sched, semvars
<1>7. OtherTypes'
  BY TakeApart DEF OtherTypes, ReceiveEnd, Return, sched, semvars, Conts
<1> QED BY <1>3, <1>4, <1>5, <1>6, <1>7, PutTogether

(* A call that only reschedules: yield, and sleepms of no delay. *)
LEMMA ReschedStep ==
    ASSUME IInv, Interruptible, Resched(ndefers, readylist, prstate, qkey),
           UNCHANGED <<semvars, kvars, prprio, prsem, prparent, prhasmsg, prcount,
                       nextpid, sleepq, nextsem, halted, remain>>
    PROVE  IInv'
<1>1. ReschedWith(preempt, ndefers, readylist, prstate, qkey)
  BY DEF Resched
<1>2. cont[currpid] \notin Deferring /\ ndefers = 0
  BY UserMode
<1>3. /\ Queues(prstate, readylist, sleepq, squeue, prsem)
      /\ currpid \in Pid /\ prprio \in [Pid -> Int] /\ attempt \in BOOLEAN
      /\ preempt \in Int /\ ndefers \in Nat /\ qkey \in [Pid -> Int]
      /\ prstate[NULLPROC] \in {"CURR", "READY"}
      /\ \A p \in Pid : prstate[p] = "CURR" => p = currpid
      /\ ndefers > 0 => prstate[currpid] = "CURR"
  BY TakeApart DEF OtherTypes
<1>4. /\ Queues(prstate', readylist', sleepq, squeue, prsem)
      /\ Dispatched
      /\ ndefers' = ndefers
      /\ attempt' \in BOOLEAN
  BY <1>1, <1>3, ReschedOK
<1>5. SemCount' /\ NoWaiterOnFree'
  BY <1>2, SemSame
<1>6. PendingCalls'
  BY <1>2, <1>4, PendingUnchanged DEF Dispatched, kvars
<1>7. OtherTypes'
  BY <1>4, TakeApart DEF OtherTypes, semvars, kvars
<1>8. Queues(prstate', readylist', sleepq', squeue', prsem')
  BY <1>4 DEF semvars
<1> QED BY <1>3, <1>4, <1>5, <1>6, <1>7, <1>8, PutTogether
(* A step outside the loops that leaves the semaphores alone. *)
LEMMA QuietStep ==
    ASSUME IInv, cont[currpid] \notin Deferring,
           Queues(prstate', readylist', sleepq', squeue', prsem'), Dispatched,
           ndefers' = ndefers, UNCHANGED semvars, OtherTypes',
           \A p \in Pid : \/ cont'[p] = cont[p] /\ karg'[p] = karg[p]
                          \/ cont'[p] \in {"user", "receive", "recvtime", "clkhandler"}
                          \/ cont'[p] = "kill" /\ karg'[p] \in Pid \ {NULLPROC}
    PROVE  IInv'
<1>1. SemCount' /\ NoWaiterOnFree'
  BY SemSame
<1>2. currpid' \in Pid
  BY DEF Dispatched
<1>3. PendingCalls'
  BY <1>2, PendingSame
<1>4. ndefers' \in Nat
  BY TakeApart
<1> QED BY <1>1, <1>3, <1>4, PutTogether

(* The current process leaves the processor: resched is called with its    *)
(* new state in ps and the queues that go with it.                         *)
LEMMA LeaveOK ==
    ASSUME IInv, cont[currpid] \notin Deferring, currpid # NULLPROC,
           NEW ps, NEW rl, NEW sq, NEW sqs, NEW psem, Queues(ps, rl, sq, sqs, psem),
           \A x \in Pid : x # currpid => ps[x] = prstate[x],
           NEW k \in [Pid -> Int], Resched(ndefers, rl, ps, k)
    PROVE  /\ Queues(prstate', readylist', sq, sqs, psem)
           /\ Dispatched
           /\ ndefers' = ndefers
           /\ attempt' \in BOOLEAN
<1>1. ReschedWith(preempt, ndefers, rl, ps, k)
  BY DEF Resched
<1>2. ndefers = 0
  BY NoLoop
<1>3. /\ currpid \in Pid /\ prprio \in [Pid -> Int] /\ attempt \in BOOLEAN
      /\ preempt \in Int /\ ndefers \in Nat
      /\ prstate[NULLPROC] \in {"CURR", "READY"} /\ NULLPROC \in Pid
      /\ \A p \in Pid : prstate[p] = "CURR" => p = currpid
  BY TakeApart DEF OtherTypes
<1>4. /\ ps[NULLPROC] \in {"CURR", "READY"}
      /\ \A p \in Pid : ps[p] = "CURR" => p = currpid
      /\ ~(ndefers > 0)
  BY <1>2, <1>3
<1> QED BY <1>1, <1>3, <1>4, ReschedOK

(* The current process is on no queue. *)
LEMMA CurrOff ==
    ASSUME IInv
    PROVE  Queues(Off(prstate, currpid), readylist, sleepq, squeue, prsem)
<1>1. Queues(prstate, readylist, sleepq, squeue, prsem) /\ currpid \in Pid
  BY TakeApart
<1>2. prstate[currpid] \in Unqueued
  BY TakeApart DEF Unqueued
<1> QED BY <1>1, <1>2, OffUnqueued

(* It leaves for an unqueued state. *)
LEMMA LeaveUnqueued ==
    ASSUME IInv, cont[currpid] \notin Deferring, currpid # NULLPROC, NEW st \in Unqueued,
           Resched(ndefers, readylist, [prstate EXCEPT ![currpid] = st], qkey)
    PROVE  /\ Queues(prstate', readylist', sleepq, squeue, prsem)
           /\ Dispatched
           /\ ndefers' = ndefers
           /\ attempt' \in BOOLEAN
<1> DEFINE ps == Put(prstate, currpid, st)
<1>1. prstate \in [Pid -> States] /\ currpid \in Pid /\ qkey \in [Pid -> Int]
  BY TakeApart
<1>2. Queues(ps, readylist, sleepq, squeue, prsem)
  BY <1>1, CurrOff, ToUnqueued
<1>3. \A x \in Pid : x # currpid => ps[x] = prstate[x]
  BY <1>1 DEF Put
<1>4. Resched(ndefers, readylist, ps, qkey)
  BY DEF Put
<1> HIDE DEF ps
<1> QED BY <1>1, <1>2, <1>3, <1>4, LeaveOK

(* It goes to sleep. *)
LEMMA LeaveAsleep ==
    ASSUME IInv, cont[currpid] \notin Deferring, currpid # NULLPROC, NEW st \in {"SLEEP", "RECTIM"},
           NEW delay \in Int, SleepFor(delay, st)
    PROVE  /\ Queues(prstate', readylist', sleepq', squeue, prsem)
           /\ Dispatched
           /\ ndefers' = ndefers
           /\ attempt' \in BOOLEAN
<1> DEFINE ps == Put(prstate, currpid, st)
           k == InsertdKeys(sleepq, qkey, currpid, delay)
           sq == Insertd(sleepq, qkey, currpid, delay)
<1>1. /\ prstate \in [Pid -> States] /\ currpid \in Pid /\ qkey \in [Pid -> Int]
      /\ sleepq \in Seq(Pid)
  BY TakeApart DEF Queues
<1>2. Queues(ps, readylist, sq, squeue, prsem)
  BY <1>1, CurrOff, ToSleep
<1>3. \A x \in Pid : x # currpid => ps[x] = prstate[x]
  BY <1>1 DEF Put
<1>4. k \in [Pid -> Int]
  BY <1>1, InsertdKeysType
<1>5. Resched(ndefers, readylist, ps, k) /\ sleepq' = sq
  BY DEF SleepFor, Put
<1> HIDE DEF ps, k, sq
<1>6. /\ Queues(prstate', readylist', sq, squeue, prsem)
      /\ Dispatched
      /\ ndefers' = ndefers
      /\ attempt' \in BOOLEAN
  BY <1>2, <1>3, <1>4, <1>5, LeaveOK
<1> QED BY <1>5, <1>6

(* yield keeps IInv. *)
LEMMA YieldStep ==
    ASSUME IInv, Yield
    PROVE  IInv'
<1>1. Interruptible /\ Resched(ndefers, readylist, prstate, qkey)
  BY DEF Yield, Calling
<1>2. UNCHANGED <<semvars, kvars, prprio, prsem, prparent, prhasmsg, prcount,
                  nextpid, sleepq, nextsem, halted, remain>>
  BY DEF Yield
<1> QED BY <1>1, <1>2, ReschedStep

(* sleepms keeps IInv. *)
LEMMA SleepMsStep ==
    ASSUME IInv, NEW d \in Delays, SleepMs(d)
    PROVE  IInv'
<1>1. Interruptible /\ currpid # NULLPROC
  BY DEF SleepMs, Calling
<1>2. UNCHANGED <<semvars, kvars, prprio, prsem, prparent, prhasmsg, prcount,
                  nextpid, nextsem, halted>>
  BY DEF SleepMs
<1>3. CASE d = 0
  <2>1. Resched(ndefers, readylist, prstate, qkey) /\ UNCHANGED <<sleepq, remain>>
    BY <1>3 DEF SleepMs
  <2> QED BY <1>1, <1>2, <2>1, ReschedStep
<1>4. CASE d # 0
  <2>1. SleepFor(AsInt32(d), "SLEEP") /\ remain' = [remain EXCEPT ![currpid] = d]
    BY <1>4 DEF SleepMs
  <2>2. d \in Int /\ AsInt32(d) \in Int
    BY DelaysAssumption, IntBitsAssumption DEF AsInt32
  <2>3. cont[currpid] \notin Deferring
    BY <1>1, UserMode
  <2>4. /\ Queues(prstate', readylist', sleepq', squeue, prsem)
        /\ Dispatched
        /\ ndefers' = ndefers
        /\ attempt' \in BOOLEAN
    BY <1>1, <2>1, <2>2, <2>3, LeaveAsleep
  <2>5. remain' \in [Pid -> Int]
    BY <2>1, <2>2, TakeApart DEF OtherTypes
  <2>6. OtherTypes'
    BY <1>2, <2>4, <2>5, TakeApart DEF OtherTypes, semvars, kvars
  <2>7. cont' = cont /\ karg' = karg /\ squeue' = squeue /\ prsem' = prsem /\ UNCHANGED semvars
    BY <1>2 DEF kvars, semvars
  <2> QED BY <2>3, <2>4, <2>6, <2>7, QuietStep
<1> QED BY <1>3, <1>4

(* receive keeps IInv. *)
LEMMA ReceiveStep ==
    ASSUME IInv, Receive
    PROVE  IInv'
<1>1. Interruptible /\ currpid # NULLPROC
  BY DEF Receive, Calling
<1>2. UNCHANGED <<semvars, prprio, prsem, prparent, prcount, nextpid, sleepq,
                   nextsem, halted, remain>>
  BY DEF Receive
<1>3. cont[currpid] \notin Deferring
  BY <1>1, UserMode
<1>4. CASE prhasmsg[currpid]
  <2>1. prhasmsg' = [prhasmsg EXCEPT ![currpid] = FALSE] /\ UNCHANGED <<sched, kvars>>
    BY <1>4 DEF Receive
  <2>2. prhasmsg' \in [Pid -> BOOLEAN]
    BY <2>1, TakeApart DEF OtherTypes
  <2>3. Dispatched /\ ndefers' = ndefers
    BY <2>1, SchedSame DEF sched
  <2>4. OtherTypes'
    BY <1>2, <2>1, <2>2, TakeApart DEF OtherTypes, sched, semvars, kvars
  <2>5. Queues(prstate', readylist', sleepq', squeue', prsem')
    BY <1>2, <2>1, TakeApart DEF sched, semvars
  <2>6. cont' = cont /\ karg' = karg /\ UNCHANGED semvars
    BY <1>2, <2>1 DEF kvars
  <2> QED BY <1>3, <2>3, <2>4, <2>5, <2>6, QuietStep
<1>5. CASE ~prhasmsg[currpid]
  <2>1. /\ Resched(ndefers, readylist, [prstate EXCEPT ![currpid] = "RECV"], qkey)
        /\ cont' = [cont EXCEPT ![currpid] = "receive"]
        /\ UNCHANGED <<prhasmsg, karg, kcount>>
    BY <1>5 DEF Receive, Block, Then
  <2>2. /\ Queues(prstate', readylist', sleepq, squeue, prsem)
        /\ Dispatched
        /\ ndefers' = ndefers
        /\ attempt' \in BOOLEAN
    <3>1. "RECV" \in Unqueued
      BY DEF Unqueued
    <3> QED BY <1>1, <1>3, <2>1, <3>1, LeaveUnqueued
  <2>3. cont' \in [Pid -> Conts] /\ \A p \in Pid : cont'[p] = cont[p] \/ cont'[p] = "receive"
    BY <2>1, TakeApart DEF OtherTypes, Conts
  <2>4. OtherTypes'
    BY <1>2, <2>1, <2>2, <2>3, TakeApart DEF OtherTypes, semvars
  <2>5. squeue' = squeue /\ prsem' = prsem /\ sleepq' = sleepq /\ karg' = karg /\ UNCHANGED semvars
    BY <1>2, <2>1 DEF semvars
  <2> QED BY <1>3, <2>2, <2>3, <2>4, <2>5, QuietStep
<1> QED BY <1>4, <1>5

(* recvtime keeps IInv. *)
LEMMA ReceiveTimedStep ==
    ASSUME IInv, NEW w \in Waits, ReceiveTimed(w)
    PROVE  IInv'
<1>1. Interruptible /\ currpid # NULLPROC
  BY DEF ReceiveTimed, Calling
<1>2. UNCHANGED <<semvars, prprio, prsem, prparent, prcount, nextpid, nextsem, halted>>
  BY DEF ReceiveTimed
<1>3. cont[currpid] \notin Deferring
  BY <1>1, UserMode
<1>4. CASE prhasmsg[currpid]
  <2>1. /\ prhasmsg' = [prhasmsg EXCEPT ![currpid] = FALSE]
        /\ UNCHANGED <<sched, kvars, sleepq, remain>>
    BY <1>4 DEF ReceiveTimed
  <2>2. prhasmsg' \in [Pid -> BOOLEAN]
    BY <2>1, TakeApart DEF OtherTypes
  <2>3. Dispatched /\ ndefers' = ndefers
    BY <2>1, SchedSame DEF sched
  <2>4. OtherTypes'
    BY <1>2, <2>1, <2>2, TakeApart DEF OtherTypes, sched, semvars, kvars
  <2>5. Queues(prstate', readylist', sleepq', squeue', prsem')
    BY <1>2, <2>1, TakeApart DEF sched, semvars
  <2>6. cont' = cont /\ karg' = karg /\ UNCHANGED semvars
    BY <1>2, <2>1 DEF kvars
  <2> QED BY <1>3, <2>3, <2>4, <2>5, <2>6, QuietStep
<1>5. CASE ~prhasmsg[currpid]
  <2>1. /\ SleepFor(w, "RECTIM")
        /\ cont' = [cont EXCEPT ![currpid] = "recvtime"]
        /\ remain' = [remain EXCEPT ![currpid] = w]
        /\ UNCHANGED <<prhasmsg, karg, kcount>>
    BY <1>5 DEF ReceiveTimed, Then
  <2>2. w \in Int
    BY WaitsAssumption
  <2>3. /\ Queues(prstate', readylist', sleepq', squeue, prsem)
        /\ Dispatched
        /\ ndefers' = ndefers
        /\ attempt' \in BOOLEAN
    BY <1>1, <1>3, <2>1, <2>2, LeaveAsleep
  <2>4. cont' \in [Pid -> Conts] /\ \A p \in Pid : cont'[p] = cont[p] \/ cont'[p] = "recvtime"
    BY <2>1, TakeApart DEF OtherTypes, Conts
  <2>5. remain' \in [Pid -> Int]
    BY <2>1, <2>2, TakeApart DEF OtherTypes
  <2>6. OtherTypes'
    BY <1>2, <2>1, <2>3, <2>4, <2>5, TakeApart DEF OtherTypes, semvars
  <2>7. squeue' = squeue /\ prsem' = prsem /\ karg' = karg /\ UNCHANGED semvars
    BY <1>2, <2>1 DEF semvars
  <2> QED BY <1>3, <2>3, <2>4, <2>6, <2>7, QuietStep
<1> QED BY <1>4, <1>5
(* send: a process that waits for the message, with or without a timeout,  *)
(* becomes ready.                                                          *)
LEMMA SendToOK ==
    ASSUME IInv, cont[currpid] \notin Deferring, NEW r \in Pid, SendTo(r)
    PROVE  /\ Queues(prstate', readylist', sleepq', squeue, prsem)
           /\ Dispatched
           /\ ndefers' = ndefers
           /\ attempt' \in BOOLEAN
           /\ prhasmsg' \in [Pid -> BOOLEAN]
           /\ remain' \in [Pid -> Int]
<1>1. /\ Queues(prstate, readylist, sleepq, squeue, prsem)
      /\ currpid \in Pid /\ prprio \in [Pid -> Int] /\ attempt \in BOOLEAN
      /\ preempt \in Int /\ ndefers \in Nat /\ qkey \in [Pid -> Int]
      /\ prhasmsg \in [Pid -> BOOLEAN] /\ remain \in [Pid -> Int]
      /\ prstate[NULLPROC] \in {"CURR", "READY"}
      /\ \A p \in Pid : prstate[p] = "CURR" <=> p = currpid
      /\ prstate \in [Pid -> States]
  BY TakeApart DEF OtherTypes
<1>2. CASE UNCHANGED <<sched, prhasmsg, sleepq, remain>>
  <2>1. Dispatched
    BY <1>2, SchedSame
  <2> QED BY <1>1, <1>2, <2>1 DEF sched
<1>3. CASE ~(prstate[r] = "FREE" \/ prhasmsg[r])
  <2>1. prhasmsg' = [prhasmsg EXCEPT ![r] = TRUE]
    BY <1>3 DEF SendTo
  <2>2. prhasmsg' \in [Pid -> BOOLEAN]
    BY <1>1, <2>1
  <2>3. CASE prstate[r] = "RECV"
    <3>1. Ready(r, readylist, prstate, qkey) /\ sleepq' = sleepq /\ remain' = remain
      BY <1>3, <2>3 DEF SendTo
    <3>2. r # currpid /\ prstate[r] \in Unqueued
      BY <1>1, <2>3 DEF Unqueued
    <3>3. Queues(Off(prstate, r), readylist, sleepq, squeue, prsem)
      BY <1>1, <3>2, OffUnqueued
    <3>4. /\ Queues(prstate', readylist', sleepq, squeue, prsem)
          /\ Dispatched
          /\ ndefers' = ndefers
          /\ attempt' \in BOOLEAN
      BY <1>1, <3>1, <3>2, <3>3, ReadyOK
    <3> QED BY <1>1, <2>2, <3>1, <3>4
  <2>4. CASE prstate[r] = "RECTIM"
    <3> DEFINE sq == GetItem(sleepq, r)
               k == UnsleepKeys(sleepq, qkey, r)
    <3>1. Ready(r, readylist, prstate, k) /\ sleepq' = sq /\ remain' = [remain EXCEPT ![r] = 0]
      BY <1>3, <2>4 DEF SendTo
    <3>2. sleepq \in Seq(Pid) /\ OnQueue(sleepq, SleepProcs(prstate)) /\ r \in SleepProcs(prstate)
      BY <1>1, <2>4 DEF Queues, QueuesAgree, SleepProcs
    <3>3. sq \in Seq(Pid) /\ OnQueue(sq, SleepProcs(prstate) \ {r})
      BY <3>2, GetItemOnQueue
    <3>4. k \in [Pid -> Int]
      BY <1>1, <3>2, UnsleepKeysType
    <3> HIDE DEF sq, k
    <3>5. Queues(Off(prstate, r), readylist, sq, squeue, prsem)
      BY <1>1, <2>4, <3>3, OffSleep
    <3>6. r # currpid
      BY <1>1, <2>4
    <3>7. /\ Queues(prstate', readylist', sq, squeue, prsem)
          /\ Dispatched
          /\ ndefers' = ndefers
          /\ attempt' \in BOOLEAN
      BY <1>1, <3>1, <3>4, <3>5, <3>6, ReadyOK
    <3>8. remain' \in [Pid -> Int]
      BY <1>1, <3>1
    <3> QED BY <2>2, <3>1, <3>7, <3>8
  <2>5. CASE prstate[r] # "RECV" /\ prstate[r] # "RECTIM"
    <3>1. UNCHANGED <<sched, sleepq, remain>>
      BY <1>3, <2>5 DEF SendTo
    <3>2. Dispatched
      BY <3>1, SchedSame
    <3> QED BY <1>1, <2>2, <3>1, <3>2 DEF sched
  <2> QED BY <2>3, <2>4, <2>5
<1> QED BY <1>2, <1>3 DEF SendTo

(* send keeps IInv. *)
LEMMA SendStep ==
    ASSUME IInv, NEW r \in Pid, Send(r)
    PROVE  IInv'
<1>1. Interruptible /\ SendTo(r)
  BY DEF Send, Calling
<1>2. UNCHANGED <<semvars, kvars, prprio, prsem, prparent, prcount, nextpid, nextsem, halted>>
  BY DEF Send
<1>3. cont[currpid] \notin Deferring
  BY <1>1, UserMode
<1>4. /\ Queues(prstate', readylist', sleepq', squeue, prsem)
      /\ Dispatched
      /\ ndefers' = ndefers
      /\ attempt' \in BOOLEAN
      /\ prhasmsg' \in [Pid -> BOOLEAN]
      /\ remain' \in [Pid -> Int]
  BY <1>1, <1>3, SendToOK
<1>5. OtherTypes'
  BY <1>2, <1>4, TakeApart DEF OtherTypes, semvars, kvars
<1>6. squeue' = squeue /\ prsem' = prsem /\ cont' = cont /\ karg' = karg /\ UNCHANGED semvars
  BY <1>2 DEF semvars, kvars
<1> QED BY <1>3, <1>4, <1>5, <1>6, QuietStep

(* p, which is ready, leaves the ready list for an unqueued state. *)
LEMMA UnreadyOK ==
    ASSUME IInv, NEW p \in Pid, p # NULLPROC, prstate[p] = "READY", NEW st \in Unqueued \ {"CURR"},
           readylist' = GetItem(readylist, p),
           prstate' = [prstate EXCEPT ![p] = st],
           UNCHANGED <<currpid, qkey, preempt>>
    PROVE  Queues(prstate', readylist', sleepq, squeue, prsem) /\ Dispatched
<1>1. /\ Queues(prstate, readylist, sleepq, squeue, prsem)
      /\ currpid \in Pid /\ preempt \in Int /\ qkey \in [Pid -> Int]
      /\ prstate[NULLPROC] \in {"CURR", "READY"} /\ NULLPROC \in Pid
      /\ \A x \in Pid : prstate[x] = "CURR" <=> x = currpid
      /\ prstate \in [Pid -> States]
  BY TakeApart
<1>2. readylist \in Seq(Pid) /\ OnQueue(readylist, ReadyProcs(prstate)) /\ p \in ReadyProcs(prstate)
  BY <1>1 DEF Queues, QueuesAgree, ReadyProcs
<1>3. readylist' \in Seq(Pid) /\ OnQueue(readylist', ReadyProcs(prstate) \ {p})
  BY <1>2, GetItemOnQueue
<1>4. Queues(Off(prstate, p), readylist', sleepq, squeue, prsem)
  BY <1>1, <1>3, OffReady
<1>5. Queues(Put(prstate, p, st), readylist', sleepq, squeue, prsem)
  BY <1>1, <1>4, ToUnqueued
<1>6. prstate' = Put(prstate, p, st) /\ \A x \in Pid : prstate'[x] = IF x = p THEN st ELSE prstate[x]
  BY <1>1 DEF Put
<1>7. Dispatched
  BY <1>1, <1>6 DEF Dispatched
<1> QED BY <1>5, <1>6, <1>7

(* suspend keeps IInv. *)
LEMMA SuspendStep ==
    ASSUME IInv, NEW p \in Pid, Suspend(p)
    PROVE  IInv'
<1>1. Interruptible /\ currpid # NULLPROC /\ p # NULLPROC
  BY DEF Suspend, Calling
<1>2. UNCHANGED <<semvars, kvars, prprio, prsem, prparent, prhasmsg, prcount,
                  nextpid, sleepq, nextsem, halted, remain>>
  BY DEF Suspend
<1>3. cont[currpid] \notin Deferring
  BY <1>1, UserMode
<1>4. "SUSP" \in Unqueued \ {"CURR"} /\ "SUSP" \in Unqueued
  BY DEF Unqueued
<1>5. /\ Queues(prstate', readylist', sleepq, squeue, prsem)
      /\ Dispatched
      /\ ndefers' = ndefers
      /\ attempt' \in BOOLEAN
  <2>1. CASE prstate[p] = "READY"
    <3>1. /\ readylist' = GetItem(readylist, p)
          /\ prstate' = [prstate EXCEPT ![p] = "SUSP"]
          /\ UNCHANGED <<currpid, qkey, preempt, ndefers, attempt>>
      BY <2>1 DEF Suspend
    <3>2. Queues(prstate', readylist', sleepq, squeue, prsem) /\ Dispatched
      BY <1>1, <1>4, <2>1, <3>1, UnreadyOK
    <3> QED BY <3>1, <3>2, TakeApart DEF OtherTypes
  <2>2. CASE prstate[p] = "CURR"
    <3>1. Resched(ndefers, readylist, [prstate EXCEPT ![p] = "SUSP"], qkey)
      BY <2>2 DEF Suspend
    <3>2. p = currpid
      BY <2>2, TakeApart
    <3> QED BY <1>1, <1>3, <1>4, <3>1, <3>2, LeaveUnqueued
  <2> QED BY <2>1, <2>2 DEF Suspend
<1>6. OtherTypes'
  BY <1>2, <1>5, TakeApart DEF OtherTypes, semvars, kvars
<1>7. squeue' = squeue /\ prsem' = prsem /\ sleepq' = sleepq /\ cont' = cont /\ karg' = karg
      /\ UNCHANGED semvars
  BY <1>2 DEF semvars, kvars
<1> QED BY <1>3, <1>5, <1>6, <1>7, QuietStep

(* resume keeps IInv. *)
LEMMA ResumeStep ==
    ASSUME IInv, NEW p \in Pid, Resume(p)
    PROVE  IInv'
<1>1. Interruptible /\ prstate[p] = "SUSP" /\ Ready(p, readylist, prstate, qkey)
  BY DEF Resume, Calling
<1>2. UNCHANGED <<semvars, kvars, prprio, prsem, prparent, prhasmsg, prcount,
                  nextpid, sleepq, nextsem, halted, remain>>
  BY DEF Resume
<1>3. cont[currpid] \notin Deferring
  BY <1>1, UserMode
<1>4. /\ Queues(prstate, readylist, sleepq, squeue, prsem)
      /\ currpid \in Pid /\ prprio \in [Pid -> Int] /\ attempt \in BOOLEAN
      /\ preempt \in Int /\ ndefers \in Nat /\ qkey \in [Pid -> Int]
      /\ prstate[NULLPROC] \in {"CURR", "READY"}
      /\ \A x \in Pid : prstate[x] = "CURR" <=> x = currpid
      /\ prstate \in [Pid -> States]
  BY TakeApart DEF OtherTypes
<1>5. p # currpid /\ prstate[p] \in Unqueued
  BY <1>1, <1>4 DEF Unqueued
<1>6. Queues(Off(prstate, p), readylist, sleepq, squeue, prsem)
  BY <1>4, <1>5, OffUnqueued
<1>7. /\ Queues(prstate', readylist', sleepq, squeue, prsem)
      /\ Dispatched
      /\ ndefers' = ndefers
      /\ attempt' \in BOOLEAN
  BY <1>1, <1>4, <1>5, <1>6, ReadyOK
<1>8. OtherTypes'
  BY <1>2, <1>7, TakeApart DEF OtherTypes, semvars, kvars
<1>9. squeue' = squeue /\ prsem' = prsem /\ sleepq' = sleepq /\ cont' = cont /\ karg' = karg
      /\ UNCHANGED semvars
  BY <1>2 DEF semvars, kvars
<1> QED BY <1>3, <1>7, <1>8, <1>9, QuietStep
(* newpid and newsem stay inside their tables. *)
LEMMA ModRange ==
    ASSUME NEW n \in Nat \ {0}, NEW i \in Nat
    PROVE  i % n \in 0 .. n - 1
OBVIOUS

(* newpid returns a free slot of the process table. *)
LEMMA NewPidFree ==
    ASSUME IInv, PidsFrom # {}
    PROVE  NewPid \in Pid /\ prstate[NewPid] = "FREE" /\ After(NewPid, NPROC) \in Pid
<1>1. PidsFrom \in SUBSET Nat
  BY NPROCAssumption DEF PidsFrom
<1>2. Min(PidsFrom) \in PidsFrom
  BY <1>1, MinOfNats
<1>3. prstate[NewPid] = "FREE"
  BY <1>2 DEF PidsFrom, NewPid
<1>4. nextpid + Min(PidsFrom) \in Nat
  <2>1. nextpid \in 0 .. NPROC - 1
    BY TakeApart DEF OtherTypes, Pid
  <2>2. Min(PidsFrom) \in Nat
    BY <1>1, <1>2
  <2> QED BY <2>1, <2>2, NPROCAssumption
<1>5. NewPid \in 0 .. NPROC - 1
  BY <1>4, NPROCAssumption, ModRange DEF NewPid
<1>6. NewPid + 1 \in Nat
  BY <1>5
<1>7. After(NewPid, NPROC) \in 0 .. NPROC - 1
  BY <1>6, NPROCAssumption, ModRange DEF After
<1> QED BY <1>3, <1>5, <1>7 DEF Pid

(* create keeps IInv. *)
LEMMA CreateStep ==
    ASSUME IInv, NEW prio \in Prios, Create(prio)
    PROVE  IInv'
<1> DEFINE p == NewPid
<1>1. Interruptible /\ PidsFrom # {}
  BY DEF Create, Calling
<1>2. UNCHANGED <<currpid, readylist, qkey, preempt, ndefers, attempt,
                  semvars, kvars, sleepq, nextsem, halted, remain>>
  BY DEF Create
<1>3. cont[currpid] \notin Deferring
  BY <1>1, UserMode
<1>4. p \in Pid /\ prstate[p] = "FREE" /\ nextpid' \in Pid
  BY <1>1, NewPidFree DEF Create
<1>5. /\ Queues(prstate, readylist, sleepq, squeue, prsem)
      /\ currpid \in Pid /\ preempt \in Int /\ qkey \in [Pid -> Int]
      /\ prstate[NULLPROC] \in {"CURR", "READY"} /\ NULLPROC \in Pid
      /\ \A x \in Pid : prstate[x] = "CURR" <=> x = currpid
      /\ prstate \in [Pid -> States]
      /\ prsem \in [Pid -> Sem \cup {-1}]
  BY TakeApart DEF Queues
<1>6. squeue' = squeue /\ sleepq' = sleepq /\ readylist' = readylist /\ cont' = cont /\ karg' = karg
      /\ ndefers' = ndefers /\ UNCHANGED semvars
  BY <1>2 DEF semvars, kvars
<1>7. CASE prio < 1
  <2>1. UNCHANGED <<prcount, prstate, prprio, prsem, prparent, prhasmsg>>
    BY <1>7 DEF Create
  <2>2. Dispatched
    BY <1>2, <1>5, <2>1 DEF Dispatched
  <2>3. OtherTypes'
    BY <1>2, <1>4, <2>1, TakeApart DEF OtherTypes, semvars, kvars
  <2>4. Queues(prstate', readylist', sleepq', squeue', prsem')
    BY <1>5, <1>6, <2>1
  <2> QED BY <1>3, <1>6, <2>2, <2>3, <2>4, QuietStep
<1>8. CASE ~(prio < 1)
  <2>1. /\ prcount' = prcount + 1
        /\ prstate' = [prstate EXCEPT ![p] = "SUSP"]
        /\ prprio' = [prprio EXCEPT ![p] = prio]
        /\ prsem' = [prsem EXCEPT ![p] = -1]
        /\ prparent' = [prparent EXCEPT ![p] = currpid]
        /\ prhasmsg' = [prhasmsg EXCEPT ![p] = FALSE]
    BY <1>8 DEF Create
  <2> HIDE DEF p
  <2>2. /\ \A x \in Pid : prstate'[x] = IF x = p THEN "SUSP" ELSE prstate[x]
        /\ \A x \in Pid : prsem'[x] = IF x = p THEN -1 ELSE prsem[x]
    BY <1>5, <2>1
  <2>3. ReadyProcs(prstate') = ReadyProcs(prstate) /\ SleepProcs(prstate') = SleepProcs(prstate)
    BY <1>4, <2>2 DEF ReadyProcs, SleepProcs
  <2>4. \A s \in Sem : WaitProcs(prstate', prsem', s) = WaitProcs(prstate, prsem, s)
    BY <1>4, <2>2 DEF WaitProcs
  <2>5. \A x \in Pid : prstate'[x] = "WAIT" => prsem'[x] \in Sem
    BY <1>5, <2>2 DEF Queues, QueuesAgree
  <2>6. prstate' \in [Pid -> States] /\ prsem' \in [Pid -> Sem \cup {-1}]
    BY <1>5, <2>1 DEF States
  <2>7. Queues(prstate', readylist', sleepq', squeue', prsem')
    BY <1>5, <1>6, <2>3, <2>4, <2>5, <2>6 DEF Queues, QueuesAgree
  <2>8. Dispatched
    BY <1>2, <1>4, <1>5, <2>2 DEF Dispatched
  <2>9. OtherTypes'
    <3>1. prio \in Int
      BY PriosAssumption
    <3>2. prprio' \in [Pid -> Int]
      BY <2>1, <3>1, TakeApart DEF OtherTypes
    <3>3. prparent' \in [Pid -> Pid] /\ prcount' \in Int
      <4>1. prparent \in [Pid -> Pid] /\ prcount \in Int
        BY TakeApart DEF OtherTypes
      <4>2. currpid \in Pid /\ prparent' = [prparent EXCEPT ![p] = currpid] /\ prcount' = prcount + 1
        BY <1>5, <2>1
      <4>3. prcount' \in Int
        BY <4>1, <4>2
      <4> QED BY <4>1, <4>2, <4>3
    <3>4. prhasmsg' \in [Pid -> BOOLEAN]
      <4>1. prhasmsg \in [Pid -> BOOLEAN]
        BY TakeApart DEF OtherTypes
      <4> QED BY <2>1, <4>1
    <3> QED BY <1>2, <1>4, <3>2, <3>3, <3>4, TakeApart DEF OtherTypes, semvars, kvars
  <2> QED BY <1>3, <1>6, <2>7, <2>8, <2>9, QuietStep
<1> QED BY <1>7, <1>8

(* The first part of kill keeps IInv. *)
LEMMA KillStep ==
    ASSUME IInv, NEW p \in Pid, Kill(p)
    PROVE  IInv'
<1>1. Interruptible /\ p # NULLPROC /\ prcount' = prcount - 1
  BY DEF Kill, Calling
<1>2. UNCHANGED <<semvars, prprio, prsem, prparent, nextpid, nextsem>>
  BY DEF Kill
<1>3. cont[currpid] \notin Deferring
  BY <1>1, UserMode
<1>4. CASE LastUser(prcount - 1)
  <2>1. halted' = TRUE /\ UNCHANGED <<sched, prhasmsg, sleepq, remain, kvars>>
    BY <1>4 DEF Kill
  <2>2. Dispatched /\ ndefers' = ndefers
    BY <2>1, SchedSame DEF sched
  <2>3. OtherTypes'
    BY <1>1, <1>2, <2>1, TakeApart DEF OtherTypes, sched, semvars, kvars
  <2>4. Queues(prstate', readylist', sleepq', squeue', prsem')
    BY <1>2, <2>1, TakeApart DEF sched, semvars
  <2>5. cont' = cont /\ karg' = karg /\ UNCHANGED semvars
    BY <1>2, <2>1 DEF kvars
  <2> QED BY <1>3, <2>2, <2>3, <2>4, <2>5, QuietStep
<1>5. CASE ~LastUser(prcount - 1)
  <2>1. /\ SendTo(prparent[p])
        /\ cont' = [cont EXCEPT ![currpid] = "kill"]
        /\ karg' = [karg EXCEPT ![currpid] = p]
        /\ UNCHANGED <<kcount, halted>>
    BY <1>5 DEF Kill, Then, With
  <2>2. prparent[p] \in Pid
    BY TakeApart DEF OtherTypes
  <2>3. /\ Queues(prstate', readylist', sleepq', squeue, prsem)
        /\ Dispatched
        /\ ndefers' = ndefers
        /\ attempt' \in BOOLEAN
        /\ prhasmsg' \in [Pid -> BOOLEAN]
        /\ remain' \in [Pid -> Int]
    BY <1>3, <2>1, <2>2, SendToOK
  <2>4. cont' \in [Pid -> Conts] /\ karg' \in [Pid -> Int]
    <3>1. p \in Int /\ "kill" \in Conts
      BY DEF Pid, Conts
    <3>2. cont \in [Pid -> Conts] /\ karg \in [Pid -> Int]
      BY TakeApart DEF OtherTypes
    <3> QED BY <2>1, <3>1, <3>2
  <2>5. \A x \in Pid : \/ cont'[x] = cont[x] /\ karg'[x] = karg[x]
                       \/ cont'[x] = "kill" /\ karg'[x] \in Pid \ {NULLPROC}
    BY <1>1, <2>1, TakeApart DEF OtherTypes
  <2>6. OtherTypes'
    BY <1>1, <1>2, <2>1, <2>3, <2>4, TakeApart DEF OtherTypes, semvars
  <2>7. squeue' = squeue /\ prsem' = prsem /\ UNCHANGED semvars
    BY <1>2 DEF semvars
  <2> QED BY <1>3, <2>3, <2>5, <2>6, <2>7, QuietStep
<1> QED BY <1>4, <1>5
-----------------------------------------------------------------------------
(***************************************************************************)
(* The loops that release processes: nothing switches, so the contexts and *)
(* the current process stay what they are.                                 *)
(***************************************************************************)
(* Rescheduling is deferred once, and no other process is in a loop. *)
LEMMA InLoop ==
    ASSUME IInv, cont[currpid] \in Deferring
    PROVE  ndefers = 1 /\ \A p \in Pid : p # currpid => cont[p] \notin Deferring
BY DEF IInv, PendingCalls

(* A step that moves no context keeps the pending calls consistent. *)
LEMMA LoopPending ==
    ASSUME IInv, UNCHANGED <<currpid, cont, karg, ndefers>>
    PROVE  PendingCalls'
BY DEF IInv, PendingCalls

(* DEFER_STOP, with the current process back from its loop. *)
LEMMA DeferStopOK ==
    ASSUME IInv, cont[currpid] \in Deferring, DeferStop
    PROVE  /\ Queues(prstate', readylist', sleepq, squeue, prsem)
           /\ Dispatched
           /\ ndefers' = 0
           /\ attempt' \in BOOLEAN
<1>1. ndefers = 1
  BY InLoop
<1>2. /\ Queues(prstate, readylist, sleepq, squeue, prsem)
      /\ currpid \in Pid /\ prprio \in [Pid -> Int] /\ attempt \in BOOLEAN
      /\ preempt \in Int /\ qkey \in [Pid -> Int]
      /\ prstate[NULLPROC] \in {"CURR", "READY"}
      /\ \A p \in Pid : prstate[p] = "CURR" <=> p = currpid
  BY TakeApart DEF OtherTypes
<1>3. CASE attempt
  <2>1. ReschedWith(preempt, 0, readylist, prstate, qkey)
    BY <1>1, <1>3 DEF DeferStop, Resched
  <2>2. 0 \in Nat /\ ~(0 > 0)
    OBVIOUS
  <2> QED BY <1>2, <2>1, <2>2, ReschedOK
<1>4. CASE ~attempt
  <2>1. ndefers' = ndefers - 1 /\ UNCHANGED <<currpid, prstate, readylist, qkey, preempt, attempt>>
    BY <1>1, <1>4 DEF DeferStop
  <2>2. Dispatched
    BY <1>2, <2>1 DEF Dispatched
  <2>3. ndefers' = 0
    BY <1>1, <2>1
  <2>4. attempt' \in BOOLEAN
    BY <1>2, <2>1
  <2> QED BY <1>2, <2>1, <2>2, <2>3, <2>4
<1> QED BY <1>3, <1>4

(* The pending calls are consistent again once a loop has ended. *)
LEMMA LoopEndPending ==
    ASSUME IInv, cont[currpid] \in Deferring, NEW c \in {"user", "clkhandler"},
           cont' = [cont EXCEPT ![currpid] = c],
           \A p \in Pid : p # currpid => karg'[p] = karg[p],
           ndefers' = 0, currpid' \in Pid
    PROVE  PendingCalls'
<1>1. \A p \in Pid : p # currpid => cont[p] \notin Deferring
  BY InLoop
<1>2. \A p \in Pid : cont'[p] = IF p = currpid THEN c ELSE cont[p]
  BY TakeApart DEF OtherTypes
<1>3. \A p \in Pid : cont'[p] \notin Deferring
  BY <1>1, <1>2 DEF Deferring
<1>4. \A p \in Pid :
        /\ cont[p] \in {"signaln", "semdelete", "semreset"} => karg[p] \in Sem
        /\ cont[p] = "kill" => karg[p] \in Pid \ {NULLPROC}
  BY DEF IInv, PendingCalls
<1>5. \A p \in Pid :
        /\ cont'[p] \in {"signaln", "semdelete", "semreset"} => karg'[p] \in Sem
        /\ cont'[p] = "kill" => karg'[p] \in Pid \ {NULLPROC}
  BY <1>2, <1>4
<1> QED BY <1>3, <1>5 DEF PendingCalls

(* The start of a loop. *)
LEMMA LoopStart ==
    ASSUME IInv, Interruptible, ndefers' = ndefers + 1,
           attempt' = (attempt /\ ndefers # 0),
           UNCHANGED <<currpid, prstate, readylist, preempt>>, qkey' \in [Pid -> Int],
           NEW c \in Deferring, cont' = [cont EXCEPT ![currpid] = c],
           c # "wakeup" => karg'[currpid] \in Sem,
           \A p \in Pid : p # currpid => karg'[p] = karg[p]
    PROVE  /\ Dispatched
           /\ PendingCalls'
           /\ ndefers' \in Nat
           /\ attempt' \in BOOLEAN
           /\ cont' \in [Pid -> Conts]
<1>1. ndefers = 0 /\ cont[currpid] \notin Deferring
  BY UserMode
<1>2. \A p \in Pid : cont[p] \notin Deferring
  BY <1>1, NoLoop
<1>3. /\ currpid \in Pid /\ attempt \in BOOLEAN /\ cont \in [Pid -> Conts]
      /\ preempt \in Int
      /\ prstate[NULLPROC] \in {"CURR", "READY"}
      /\ \A p \in Pid : prstate[p] = "CURR" <=> p = currpid
  BY TakeApart DEF OtherTypes
<1>4. Dispatched
  BY <1>3 DEF Dispatched
<1>5. ndefers' = 1 /\ ndefers' \in Nat
  BY <1>1
<1>6. attempt' \in BOOLEAN
  OBVIOUS
<1>7. c \in Conts /\ c # "kill" /\ c \in {"signaln", "semdelete", "semreset", "wakeup"}
  BY DEF Deferring, Conts
<1>8. cont' \in [Pid -> Conts] /\ \A p \in Pid : cont'[p] = IF p = currpid THEN c ELSE cont[p]
  BY <1>3, <1>7
<1>9. \A p \in Pid :
        /\ cont[p] \in {"signaln", "semdelete", "semreset"} => karg[p] \in Sem
        /\ cont[p] = "kill" => karg[p] \in Pid \ {NULLPROC}
  BY DEF IInv, PendingCalls
<1>10. \A p \in Pid :
        /\ cont'[p] \in {"signaln", "semdelete", "semreset"} => karg'[p] \in Sem
        /\ cont'[p] = "kill" => karg'[p] \in Pid \ {NULLPROC}
  BY <1>7, <1>8, <1>9
<1>11. (\A p \in Pid : cont'[p] \in Deferring => p = currpid') /\ cont'[currpid'] \in Deferring
  BY <1>2, <1>3, <1>8
<1>12. PendingCalls'
  BY <1>5, <1>10, <1>11 DEF PendingCalls
<1> QED BY <1>4, <1>5, <1>6, <1>8, <1>12
-----------------------------------------------------------------------------
(***************************************************************************)
(* The clock interrupt.                                                    *)
(***************************************************************************)
(* The clock variables keep their types in a tick. *)
LEMMA TickTypes ==
    ASSUME IInv
    PROVE  TickedKeys \in [Pid -> Int] /\ TickedRemain \in [Pid -> Int]
<1>1. qkey \in [Pid -> Int] /\ sleepq \in Seq(Pid) /\ remain \in [Pid -> Int]
  BY TakeApart DEF OtherTypes, Queues
<1>2. TickedKeys \in [Pid -> Int]
  BY <1>1 DEF TickedKeys
<1>3. TickedRemain \in [Pid -> Int]
  BY <1>1 DEF TickedRemain
<1> QED BY <1>2, <1>3

(* The end of a tick reschedules or does nothing to the queues. *)
LEMMA TickReschedOK ==
    ASSUME IInv, ndefers = 0, NEW k \in [Pid -> Int],
           Resched(ndefers, readylist, prstate, k) \/ CountDown(k)
    PROVE  /\ Queues(prstate', readylist', sleepq, squeue, prsem)
           /\ Dispatched
           /\ ndefers' = ndefers
           /\ attempt' \in BOOLEAN
<1>1. /\ Queues(prstate, readylist, sleepq, squeue, prsem)
      /\ currpid \in Pid /\ prprio \in [Pid -> Int] /\ attempt \in BOOLEAN
      /\ preempt \in Int /\ ndefers \in Nat
      /\ prstate[NULLPROC] \in {"CURR", "READY"}
      /\ \A p \in Pid : prstate[p] = "CURR" <=> p = currpid
      /\ ndefers > 0 => prstate[currpid] = "CURR"
  BY TakeApart DEF OtherTypes
<1>2. ASSUME NEW slice \in Int, ReschedWith(slice, ndefers, readylist, prstate, k)
      PROVE  /\ Queues(prstate', readylist', sleepq, squeue, prsem)
             /\ Dispatched
             /\ ndefers' = ndefers
             /\ attempt' \in BOOLEAN
  BY <1>1, <1>2, ReschedOK
<1>3. CASE Resched(ndefers, readylist, prstate, k)
  BY <1>1, <1>2, <1>3 DEF Resched
<1>4. CASE CountDown(k) /\ preempt - 1 = 0
  <2>1. ReschedWith(QUANTUM, ndefers, readylist, prstate, k) /\ QUANTUM \in Int
    BY <1>4, QUANTUMAssumption DEF CountDown
  <2> QED BY <1>2, <2>1
<1>5. CASE CountDown(k) /\ preempt - 1 # 0
  <2>1. /\ preempt' = preempt - 1 /\ qkey' = k
        /\ UNCHANGED <<currpid, prstate, readylist, ndefers, attempt>>
    BY <1>5 DEF CountDown
  <2>2. Dispatched
    BY <1>1, <2>1 DEF Dispatched
  <2>3. attempt' \in BOOLEAN
    BY <1>1, <2>1
  <2> QED BY <1>1, <2>1, <2>2, <2>3
<1> QED BY <1>3, <1>4, <1>5

(* A tick without wakeup keeps IInv. *)
LEMMA TickStep ==
    ASSUME IInv, Tick
    PROVE  IInv'
<1>1. Interruptible /\ remain' = TickedRemain
  BY DEF Tick
<1>2. Resched(ndefers, readylist, prstate, TickedKeys) \/ CountDown(TickedKeys)
  BY DEF Tick
<1>3. UNCHANGED <<semvars, kvars, prprio, prsem, prparent, prhasmsg, prcount,
                  nextpid, sleepq, nextsem, halted>>
  BY DEF Tick
<1>4. cont[currpid] \notin Deferring /\ ndefers = 0
  BY <1>1, UserMode
<1>5. TickedKeys \in [Pid -> Int] /\ remain' \in [Pid -> Int]
  BY <1>1, TickTypes
<1>6. /\ Queues(prstate', readylist', sleepq, squeue, prsem)
      /\ Dispatched
      /\ ndefers' = ndefers
      /\ attempt' \in BOOLEAN
  BY <1>2, <1>4, <1>5, TickReschedOK
<1>7. OtherTypes'
  BY <1>3, <1>5, <1>6, TakeApart DEF OtherTypes, semvars, kvars
<1>8. squeue' = squeue /\ prsem' = prsem /\ sleepq' = sleepq /\ cont' = cont /\ karg' = karg
      /\ UNCHANGED semvars
  BY <1>3 DEF semvars, kvars
<1> QED BY <1>4, <1>6, <1>7, <1>8, QuietStep

(* The end of the clock handler keeps IInv. *)
LEMMA ClkHandlerEndStep ==
    ASSUME IInv, ClkHandlerEnd
    PROVE  IInv'
<1>1. CountDown(qkey) /\ Return /\ cont[currpid] = "clkhandler"
  BY DEF ClkHandlerEnd, Continuing
<1>2. UNCHANGED <<semvars, prprio, prsem, prparent, prhasmsg, prcount,
                   nextpid, sleepq, nextsem, halted, remain>>
  BY DEF ClkHandlerEnd
<1>3. cont[currpid] \notin Deferring
  BY <1>1 DEF Deferring
<1>4. ndefers = 0 /\ qkey \in [Pid -> Int]
  BY <1>3, NoLoop, TakeApart
<1>5. /\ Queues(prstate', readylist', sleepq, squeue, prsem)
      /\ Dispatched
      /\ ndefers' = ndefers
      /\ attempt' \in BOOLEAN
  BY <1>1, <1>4, TickReschedOK
<1>6. cont' \in [Pid -> Conts] /\ karg' \in [Pid -> Int] /\ kcount' \in [Pid -> Nat]
  BY <1>1, TakeApart DEF OtherTypes, Return, Conts
<1>7. \A p \in Pid : (cont'[p] = cont[p] /\ karg'[p] = karg[p]) \/ cont'[p] = "user"
  BY <1>1, TakeApart DEF Return, OtherTypes
<1>8. OtherTypes'
  BY <1>2, <1>5, <1>6, TakeApart DEF OtherTypes, semvars
<1>9. squeue' = squeue /\ prsem' = prsem /\ sleepq' = sleepq /\ UNCHANGED semvars
  BY <1>2 DEF semvars
<1> QED BY <1>3, <1>5, <1>7, <1>8, <1>9, QuietStep

(* A tick that starts wakeup keeps IInv. *)
LEMMA TickWakeupStep ==
    ASSUME IInv, TickWakeup
    PROVE  IInv'
<1>1. /\ Interruptible /\ remain' = TickedRemain /\ qkey' = TickedKeys
      /\ ndefers' = ndefers + 1 /\ attempt' = (attempt /\ ndefers # 0)
      /\ cont' = [cont EXCEPT ![currpid] = "wakeup"]
  BY DEF TickWakeup, Then
<1>2. UNCHANGED <<currpid, prstate, readylist, preempt, karg, kcount, semvars,
                   prprio, prsem, prparent, prhasmsg, prcount, nextpid, sleepq,
                   nextsem, halted>>
  BY DEF TickWakeup
<1>3. qkey' \in [Pid -> Int] /\ remain' \in [Pid -> Int]
  BY <1>1, TickTypes
<1>4. "wakeup" \in Deferring /\ cont[currpid] \notin Deferring
  BY <1>1, UserMode DEF Deferring
<1>5. /\ Dispatched
      /\ PendingCalls'
      /\ ndefers' \in Nat
      /\ attempt' \in BOOLEAN
      /\ cont' \in [Pid -> Conts]
  BY <1>1, <1>2, <1>3, <1>4, LoopStart
<1>6. SemCount' /\ NoWaiterOnFree'
  BY <1>2, <1>4, SemSame
<1>7. OtherTypes'
  BY <1>2, <1>3, <1>5, TakeApart DEF OtherTypes, semvars
<1>8. Queues(prstate', readylist', sleepq', squeue', prsem')
  BY <1>2, TakeApart DEF semvars
<1> QED BY <1>5, <1>6, <1>7, <1>8, PutTogether

(* A loop step that leaves the semaphores alone, in wakeup. *)
LEMMA WakeupSem ==
    ASSUME IInv, cont[currpid] = "wakeup", UNCHANGED semvars
    PROVE  SemCount' /\ NoWaiterOnFree'
<1>1. \A s \in Sem : ~InReset(s) /\ ~InDelete(s)
  BY DEF InReset, InDelete
<1>2. \A s \in Sem : Len(squeue[s]) = IF scount[s] < 0 THEN -scount[s] ELSE 0
  BY <1>1 DEF IInv, SemCount
<1>3. \A s \in Sem : sstate[s] = "FREE" => squeue[s] = <<>>
  BY <1>1 DEF IInv, NoWaiterOnFree
<1> QED BY <1>2, <1>3 DEF SemCount, NoWaiterOnFree, semvars

(* A turn of the loop of wakeup keeps IInv. *)
LEMMA WakeupLoopStep ==
    ASSUME IInv, WakeupLoop
    PROVE  IInv'
<1> DEFINE h == Head(sleepq)
           sq == Tail(sleepq)
<1>1. /\ cont[currpid] = "wakeup" /\ sleepq # <<>> /\ sleepq' = sq
      /\ Ready(h, readylist, prstate, qkey) /\ remain' = [remain EXCEPT ![h] = 0]
  BY DEF WakeupLoop, Continuing, Expired
<1>2. UNCHANGED <<semvars, kvars, prprio, prsem, prparent, prhasmsg, prcount,
                   nextpid, nextsem, halted>>
  BY DEF WakeupLoop
<1>3. /\ Queues(prstate, readylist, sleepq, squeue, prsem)
      /\ currpid \in Pid /\ prprio \in [Pid -> Int] /\ attempt \in BOOLEAN
      /\ preempt \in Int /\ ndefers \in Nat /\ qkey \in [Pid -> Int]
      /\ prstate[NULLPROC] \in {"CURR", "READY"}
      /\ \A x \in Pid : prstate[x] = "CURR" <=> x = currpid
      /\ prstate \in [Pid -> States]
      /\ remain \in [Pid -> Int]
  BY TakeApart DEF OtherTypes
<1>4. sleepq \in Seq(Pid) /\ OnQueue(sleepq, SleepProcs(prstate))
  BY <1>3 DEF Queues, QueuesAgree
<1>5. h \in SleepProcs(prstate) /\ h \in Pid /\ sq \in Seq(Pid) /\ OnQueue(sq, SleepProcs(prstate) \ {h})
  BY <1>1, <1>4, TailOnQueue
<1> HIDE DEF h, sq
<1>6. prstate[h] \in {"SLEEP", "RECTIM"} /\ h # currpid
  BY <1>3, <1>5 DEF SleepProcs
<1>7. Queues(Off(prstate, h), readylist, sq, squeue, prsem)
  BY <1>3, <1>5, <1>6, OffSleep
<1>8. /\ Queues(prstate', readylist', sq, squeue, prsem)
      /\ Dispatched
      /\ ndefers' = ndefers
      /\ attempt' \in BOOLEAN
      /\ ndefers > 0 => currpid' = currpid
  BY <1>1, <1>3, <1>5, <1>6, <1>7, ReadyOK
<1>9. ndefers = 1
  BY <1>1, InLoop DEF Deferring
<1>10. cont' = cont /\ karg' = karg /\ squeue' = squeue /\ prsem' = prsem /\ UNCHANGED semvars
  BY <1>2 DEF kvars, semvars
<1>11. PendingCalls'
  BY <1>8, <1>9, <1>10, LoopPending
<1>12. SemCount' /\ NoWaiterOnFree'
  BY <1>1, <1>10, WakeupSem
<1>13. remain' \in [Pid -> Int]
  <2>1. h \in Pid /\ remain \in [Pid -> Int] /\ remain' = [remain EXCEPT ![h] = 0]
    BY <1>1, <1>3, <1>5
  <2> QED BY <2>1
<1>14. OtherTypes'
  BY <1>2, <1>8, <1>13, TakeApart DEF OtherTypes, semvars, kvars
<1> QED BY <1>1, <1>3, <1>8, <1>10, <1>11, <1>12, <1>14, PutTogether

(* The end of wakeup keeps IInv. *)
LEMMA WakeupEndStep ==
    ASSUME IInv, WakeupEnd
    PROVE  IInv'
<1> DEFINE c == IF Platform = "arm-qemu" THEN "user" ELSE "clkhandler"
<1>1. cont[currpid] = "wakeup" /\ DeferStop /\ cont' = [cont EXCEPT ![currpid] = c]
  BY DEF WakeupEnd, Continuing, Then
<1>2. UNCHANGED <<karg, kcount, semvars, prprio, prsem, prparent, prhasmsg,
                   prcount, nextpid, sleepq, nextsem, halted, remain>>
  BY DEF WakeupEnd
<1>3. c \in {"user", "clkhandler"} /\ c \in Conts /\ cont[currpid] \in Deferring
  BY <1>1 DEF Conts, Deferring
<1> HIDE DEF c
<1>4. /\ Queues(prstate', readylist', sleepq, squeue, prsem)
      /\ Dispatched
      /\ ndefers' = 0
      /\ attempt' \in BOOLEAN
  BY <1>1, <1>3, DeferStopOK
<1>5. currpid' \in Pid /\ ndefers' \in Nat
  BY <1>4 DEF Dispatched
<1>6. PendingCalls'
  BY <1>1, <1>2, <1>3, <1>4, <1>5, LoopEndPending
<1>7. SemCount' /\ NoWaiterOnFree'
  BY <1>1, <1>2, WakeupSem
<1>8. cont' \in [Pid -> Conts]
  BY <1>1, <1>3, TakeApart DEF OtherTypes
<1>9. OtherTypes'
  BY <1>2, <1>4, <1>8, TakeApart DEF OtherTypes, semvars
<1>10. Queues(prstate', readylist', sleepq', squeue', prsem')
  BY <1>2, <1>4 DEF semvars
<1> QED BY <1>4, <1>5, <1>6, <1>7, <1>9, <1>10, PutTogether
-----------------------------------------------------------------------------
(***************************************************************************)
(* The semaphores.                                                         *)
(***************************************************************************)
(* The count of a semaphore and the length of its queue agree. *)
Agrees(q, n) == Len(q) = IF n < 0 THEN -n ELSE 0

(* Outside semreset, the queue of a semaphore is as long as its count says. *)
LEMMA CountsAgree ==
    ASSUME IInv, NEW s \in Sem, ~InReset(s)
    PROVE  Agrees(squeue[s], scount[s])
BY DEF IInv, SemCount, Agrees

(* The first process of a semaphore's queue becomes ready. *)
LEMMA ReleaseOK ==
    ASSUME IInv, NEW s \in Sem, squeue[s] # <<>>,
           squeue' = [squeue EXCEPT ![s] = Tail(@)],
           Ready(Head(squeue[s]), readylist, prstate, qkey)
    PROVE  /\ Queues(prstate', readylist', sleepq, squeue', prsem)
           /\ Dispatched
           /\ ndefers' = ndefers
           /\ attempt' \in BOOLEAN
           /\ ndefers > 0 => currpid' = currpid
           /\ \A t \in Sem : t # s => squeue'[t] = squeue[t]
           /\ Len(squeue'[s]) = Len(squeue[s]) - 1
<1> DEFINE h == Head(squeue[s])
           q == Tail(squeue[s])
<1>1. /\ Queues(prstate, readylist, sleepq, squeue, prsem)
      /\ currpid \in Pid /\ prprio \in [Pid -> Int] /\ attempt \in BOOLEAN
      /\ preempt \in Int /\ ndefers \in Nat /\ qkey \in [Pid -> Int]
      /\ prstate[NULLPROC] \in {"CURR", "READY"}
      /\ \A x \in Pid : prstate[x] = "CURR" <=> x = currpid
      /\ prstate \in [Pid -> States]
  BY TakeApart DEF OtherTypes
<1>2. /\ squeue \in [Sem -> Seq(Pid)] /\ squeue[s] \in Seq(Pid)
      /\ OnQueue(squeue[s], WaitProcs(prstate, prsem, s))
  BY <1>1 DEF Queues, QueuesAgree
<1>3. /\ h \in WaitProcs(prstate, prsem, s) /\ h \in Pid /\ q \in Seq(Pid)
      /\ Len(q) = Len(squeue[s]) - 1
      /\ OnQueue(q, WaitProcs(prstate, prsem, s) \ {h})
  BY <1>2, TailOnQueue
<1>4. squeue' = Put(squeue, s, q)
  BY DEF Put
<1>5. Ready(h, readylist, prstate, qkey)
  OBVIOUS
<1> HIDE DEF h, q
<1>6. prstate[h] = "WAIT" /\ prsem[h] = s /\ h # currpid
  BY <1>1, <1>3 DEF WaitProcs
<1>7. Queues(Off(prstate, h), readylist, sleepq, Put(squeue, s, q), prsem)
  BY <1>1, <1>3, <1>6, OffWait
<1>8. /\ Queues(prstate', readylist', sleepq, Put(squeue, s, q), prsem)
      /\ Dispatched
      /\ ndefers' = ndefers
      /\ attempt' \in BOOLEAN
      /\ ndefers > 0 => currpid' = currpid
  BY <1>1, <1>3, <1>5, <1>6, <1>7, ReadyOK
<1>9. squeue'[s] = q /\ \A t \in Sem : t # s => squeue'[t] = squeue[t]
  BY <1>2, <1>4 DEF Put
<1> QED BY <1>3, <1>4, <1>8, <1>9

(* signal's body, also a turn of signaln and semdelete. *)
LEMMA SignalOnceOK ==
    ASSUME IInv, NEW s \in Sem, Agrees(squeue[s], scount[s]), SignalOnce(s)
    PROVE  /\ Queues(prstate', readylist', sleepq, squeue', prsem)
           /\ Dispatched
           /\ ndefers' = ndefers
           /\ attempt' \in BOOLEAN
           /\ ndefers > 0 => currpid' = currpid
           /\ scount' \in [Sem -> Int]
           /\ sstate' = sstate
           /\ \A t \in Sem : Agrees(squeue[t], scount[t]) => Agrees(squeue'[t], scount'[t])
           /\ \A t \in Sem : squeue[t] = <<>> => squeue'[t] = <<>>
<1>1. /\ Queues(prstate, readylist, sleepq, squeue, prsem) /\ attempt \in BOOLEAN
      /\ scount \in [Sem -> Int] /\ scount' = [scount EXCEPT ![s] = @ + 1] /\ sstate' = sstate
  BY TakeApart DEF OtherTypes, SignalOnce
<1>2. squeue \in [Sem -> Seq(Pid)] /\ Len(squeue[s]) \in Nat
  BY <1>1 DEF Queues
<1>3. /\ scount' \in [Sem -> Int] /\ scount'[s] = scount[s] + 1 /\ scount[s] \in Int
      /\ \A t \in Sem : t # s => scount'[t] = scount[t]
  <2>1. scount \in [Sem -> Int] /\ scount' = [scount EXCEPT ![s] = @ + 1]
    BY <1>1
  <2> QED BY <2>1
<1>4. CASE scount[s] < 0
  <2>1. squeue[s] # <<>>
    BY <1>3, <1>4 DEF Agrees
  <2>2. squeue' = [squeue EXCEPT ![s] = Tail(@)] /\ Ready(Head(squeue[s]), readylist, prstate, qkey)
    BY <1>4 DEF SignalOnce
  <2>3. /\ Queues(prstate', readylist', sleepq, squeue', prsem)
        /\ Dispatched
        /\ ndefers' = ndefers
        /\ attempt' \in BOOLEAN
        /\ ndefers > 0 => currpid' = currpid
        /\ \A t \in Sem : t # s => squeue'[t] = squeue[t]
        /\ Len(squeue'[s]) = Len(squeue[s]) - 1
    BY <2>1, <2>2, ReleaseOK
  <2>4. Agrees(squeue'[s], scount'[s])
    BY <1>2, <1>3, <1>4, <2>3 DEF Agrees
  <2>5. \A t \in Sem : Agrees(squeue[t], scount[t]) => Agrees(squeue'[t], scount'[t])
    BY <1>3, <2>3, <2>4
  <2>6. \A t \in Sem : squeue[t] = <<>> => squeue'[t] = <<>>
    BY <2>1, <2>3
  <2> QED BY <1>1, <1>3, <2>3, <2>5, <2>6
<1>5. CASE ~(scount[s] < 0)
  <2>1. UNCHANGED <<sched, squeue>>
    BY <1>5 DEF SignalOnce
  <2>2. Dispatched
    BY <2>1, SchedSame
  <2>3. Agrees(squeue'[s], scount'[s])
    BY <1>2, <1>3, <1>5, <2>1 DEF Agrees
  <2>4. \A t \in Sem : Agrees(squeue[t], scount[t]) => Agrees(squeue'[t], scount'[t])
    BY <1>3, <2>1, <2>3
  <2>5. currpid' = currpid /\ ndefers' = ndefers /\ attempt' = attempt /\ prstate' = prstate
        /\ readylist' = readylist /\ squeue' = squeue
    BY <2>1 DEF sched
  <2>6. attempt' \in BOOLEAN
    BY <1>1, <2>5
  <2> QED BY <1>1, <1>3, <2>2, <2>4, <2>5, <2>6
<1> QED BY <1>4, <1>5

(* What the invariant says of the semaphores when none is being reset or   *)
(* deleted.                                                                *)
LEMMA SemFacts ==
    ASSUME IInv, cont[currpid] # "semreset"
    PROVE  /\ \A s \in Sem : Agrees(squeue[s], scount[s])
           /\ cont[currpid] # "semdelete" =>
                 \A s \in Sem : sstate[s] = "FREE" => squeue[s] = <<>>
BY DEF IInv, SemCount, NoWaiterOnFree, InReset, InDelete, Agrees

(* The facts that make the semaphore part of IInv in the next state. *)
LEMMA SemDone ==
    ASSUME \A s \in Sem : Agrees(squeue'[s], scount'[s]),
           \A s \in Sem : sstate'[s] = "FREE" => squeue'[s] = <<>>
    PROVE  SemCount' /\ NoWaiterOnFree'
BY DEF SemCount, NoWaiterOnFree, Agrees

(* signal keeps IInv. *)
LEMMA SignalStep ==
    ASSUME IInv, NEW s \in Sem, Signal(s)
    PROVE  IInv'
<1>1. Interruptible /\ SignalOnce(s)
  BY DEF Signal, Signalling
<1>2. UNCHANGED <<kvars, prprio, prsem, prparent, prhasmsg, prcount, nextpid,
                   sleepq, nextsem, halted, remain>>
  BY DEF Signal
<1>3. cont[currpid] = "user" /\ cont[currpid] \notin Deferring
  BY <1>1, UserMode
<1>4. /\ \A t \in Sem : Agrees(squeue[t], scount[t])
      /\ \A t \in Sem : sstate[t] = "FREE" => squeue[t] = <<>>
  BY <1>3, SemFacts
<1>5. /\ Queues(prstate', readylist', sleepq, squeue', prsem)
      /\ Dispatched
      /\ ndefers' = ndefers
      /\ attempt' \in BOOLEAN
      /\ scount' \in [Sem -> Int]
      /\ sstate' = sstate
      /\ \A t \in Sem : Agrees(squeue[t], scount[t]) => Agrees(squeue'[t], scount'[t])
      /\ \A t \in Sem : squeue[t] = <<>> => squeue'[t] = <<>>
  BY <1>1, <1>4, SignalOnceOK
<1>6. SemCount' /\ NoWaiterOnFree'
  BY <1>4, <1>5, SemDone
<1>7. currpid' \in Pid /\ UNCHANGED <<cont, karg>> /\ prsem' = prsem /\ sleepq' = sleepq
  BY <1>2, <1>5 DEF Dispatched, kvars
<1>8. PendingCalls'
  BY <1>3, <1>5, <1>7, PendingUnchanged
<1>9. OtherTypes'
  BY <1>2, <1>5, TakeApart DEF OtherTypes, kvars
<1>10. ndefers' \in Nat
  BY <1>5, TakeApart
<1> QED BY <1>5, <1>6, <1>7, <1>8, <1>9, <1>10, PutTogether

(* A turn of the loop of signaln keeps IInv. *)
LEMMA SignalNLoopStep ==
    ASSUME IInv, SignalNLoop
    PROVE  IInv'
<1> DEFINE s == karg[currpid]
<1>1. /\ cont[currpid] = "signaln" /\ SignalOnce(s) /\ kcount[currpid] > 0
      /\ kcount' = [kcount EXCEPT ![currpid] = @ - 1]
  BY DEF SignalNLoop, Continuing
<1>2. UNCHANGED <<cont, karg, prprio, prsem, prparent, prhasmsg, prcount,
                   nextpid, sleepq, nextsem, halted, remain>>
  BY DEF SignalNLoop
<1>3. s \in Sem
  BY <1>1, TakeApart DEF IInv, PendingCalls
<1> HIDE DEF s
<1>4. /\ \A t \in Sem : Agrees(squeue[t], scount[t])
      /\ \A t \in Sem : sstate[t] = "FREE" => squeue[t] = <<>>
  BY <1>1, SemFacts
<1>5. /\ Queues(prstate', readylist', sleepq, squeue', prsem)
      /\ Dispatched
      /\ ndefers' = ndefers
      /\ attempt' \in BOOLEAN
      /\ ndefers > 0 => currpid' = currpid
      /\ scount' \in [Sem -> Int]
      /\ sstate' = sstate
      /\ \A t \in Sem : Agrees(squeue[t], scount[t]) => Agrees(squeue'[t], scount'[t])
      /\ \A t \in Sem : squeue[t] = <<>> => squeue'[t] = <<>>
  BY <1>1, <1>3, <1>4, SignalOnceOK
<1>6. SemCount' /\ NoWaiterOnFree'
  BY <1>4, <1>5, SemDone
<1>7. ndefers = 1
  BY <1>1, InLoop DEF Deferring
<1>8. PendingCalls'
  BY <1>2, <1>5, <1>7, LoopPending
<1>9. kcount' \in [Pid -> Nat]
  <2>1. kcount \in [Pid -> Nat] /\ currpid \in Pid
    BY TakeApart DEF OtherTypes
  <2>2. kcount[currpid] - 1 \in Nat
    BY <1>1, <2>1
  <2> QED BY <1>1, <2>1, <2>2
<1>10. OtherTypes'
  BY <1>2, <1>5, <1>9, TakeApart DEF OtherTypes
<1>11. ndefers' \in Nat
  BY <1>5, <1>7
<1> QED BY <1>2, <1>5, <1>6, <1>8, <1>10, <1>11, PutTogether

(* A turn of the loop of semdelete keeps IInv. *)
LEMMA SemDeleteLoopStep ==
    ASSUME IInv, SemDeleteLoop
    PROVE  IInv'
<1> DEFINE s == karg[currpid]
<1>1. cont[currpid] = "semdelete" /\ SignalOnce(s)
  BY DEF SemDeleteLoop, Continuing
<1>2. UNCHANGED <<kvars, prprio, prsem, prparent, prhasmsg, prcount,
                   nextpid, sleepq, nextsem, halted, remain>>
  BY DEF SemDeleteLoop
<1>3. s \in Sem
  BY <1>1, TakeApart DEF IInv, PendingCalls
<1>4. \A t \in Sem : sstate[t] = "FREE" /\ t # s => squeue[t] = <<>>
  BY DEF IInv, NoWaiterOnFree, InDelete
<1>5. \A t \in Sem : Agrees(squeue[t], scount[t])
  BY <1>1, SemFacts
<1>6. /\ Queues(prstate', readylist', sleepq, squeue', prsem)
      /\ Dispatched
      /\ ndefers' = ndefers
      /\ attempt' \in BOOLEAN
      /\ ndefers > 0 => currpid' = currpid
      /\ scount' \in [Sem -> Int]
      /\ sstate' = sstate
      /\ \A t \in Sem : Agrees(squeue[t], scount[t]) => Agrees(squeue'[t], scount'[t])
      /\ \A t \in Sem : squeue[t] = <<>> => squeue'[t] = <<>>
  BY <1>1, <1>3, <1>5, SignalOnceOK
<1>7. ndefers = 1
  BY <1>1, InLoop DEF Deferring
<1>8. UNCHANGED <<currpid, cont, karg, ndefers>>
  BY <1>2, <1>6, <1>7 DEF kvars
<1>9. PendingCalls'
  BY <1>8, LoopPending
<1>10. SemCount'
  BY <1>5, <1>6 DEF SemCount, Agrees
<1>11. NoWaiterOnFree'
  BY <1>1, <1>4, <1>6, <1>8 DEF NoWaiterOnFree, InDelete
<1>12. OtherTypes'
  BY <1>2, <1>6, TakeApart DEF OtherTypes, kvars
<1>13. ndefers' \in Nat
  BY <1>6, <1>7
<1> QED BY <1>2, <1>6, <1>9, <1>10, <1>11, <1>12, <1>13, PutTogether
(* wait keeps IInv. *)
LEMMA WaitStep ==
    ASSUME IInv, NEW s \in Sem, Wait(s)
    PROVE  IInv'
<1>1. /\ Interruptible /\ currpid # NULLPROC /\ sstate[s] = "USED"
      /\ scount' = [scount EXCEPT ![s] = @ - 1]
  BY DEF Wait, Calling
<1>2. UNCHANGED <<kvars, sstate, prprio, prparent, prhasmsg, prcount,
                   nextpid, sleepq, nextsem, halted, remain>>
  BY DEF Wait
<1>3. cont[currpid] = "user" /\ cont[currpid] \notin Deferring
  BY <1>1, UserMode
<1>4. /\ \A t \in Sem : Agrees(squeue[t], scount[t])
      /\ \A t \in Sem : sstate[t] = "FREE" => squeue[t] = <<>>
  BY <1>3, SemFacts
<1>5. scount \in [Sem -> Int]
  BY TakeApart DEF OtherTypes
<1>6. /\ scount' \in [Sem -> Int] /\ scount'[s] = scount[s] - 1 /\ scount[s] \in Int
      /\ \A t \in Sem : t # s => scount'[t] = scount[t]
  BY <1>1, <1>5
<1>7. /\ prstate \in [Pid -> States] /\ currpid \in Pid /\ qkey \in [Pid -> Int]
      /\ squeue \in [Sem -> Seq(Pid)] /\ Len(squeue[s]) \in Nat
      /\ attempt \in BOOLEAN /\ ndefers \in Nat
  <2>1. squeue \in [Sem -> Seq(Pid)]
    BY TakeApart DEF Queues
  <2>2. Len(squeue[s]) \in Nat
    BY <2>1
  <2>3. attempt \in BOOLEAN
    BY TakeApart DEF OtherTypes
  <2> QED BY <2>1, <2>2, <2>3, TakeApart
<1>8. /\ Queues(prstate', readylist', sleepq, squeue', prsem')
      /\ Dispatched
      /\ ndefers' = ndefers
      /\ attempt' \in BOOLEAN
      /\ \A t \in Sem : t # s => squeue'[t] = squeue[t]
      /\ Agrees(squeue'[s], scount'[s])
  <2>1. CASE scount[s] - 1 < 0
    <3> DEFINE ps == Put(prstate, currpid, "WAIT")
               q == Enqueue(squeue[s], currpid)
    <3>1. /\ prsem' = Put(prsem, currpid, s)
          /\ squeue' = Put(squeue, s, q)
          /\ Resched(ndefers, readylist, ps, qkey)
      BY <2>1 DEF Wait, Block, Put
    <3>2. Queues(ps, readylist, sleepq, Put(squeue, s, q), Put(prsem, currpid, s))
      BY <1>7, CurrOff, ToWait
    <3>3. \A x \in Pid : x # currpid => ps[x] = prstate[x]
      BY <1>7 DEF Put
    <3>4. Len(q) = Len(squeue[s]) + 1
      BY <1>7 DEF Enqueue
    <3> HIDE DEF ps, q
    <3>5. /\ Queues(prstate', readylist', sleepq, Put(squeue, s, q), Put(prsem, currpid, s))
          /\ Dispatched
          /\ ndefers' = ndefers
          /\ attempt' \in BOOLEAN
      BY <1>1, <1>3, <1>7, <3>1, <3>2, <3>3, LeaveOK
    <3>6. squeue'[s] = q /\ \A t \in Sem : t # s => squeue'[t] = squeue[t]
      BY <1>7, <3>1 DEF Put
    <3>7. Agrees(squeue[s], scount[s])
      BY <1>4
    <3>8. Agrees(squeue'[s], scount'[s])
      <4>1. /\ scount'[s] = scount[s] - 1 /\ scount[s] \in Int /\ scount[s] - 1 < 0
            /\ Len(squeue[s]) \in Nat /\ Len(squeue'[s]) = Len(squeue[s]) + 1
        BY <1>6, <1>7, <2>1, <3>4, <3>6
      <4> QED BY <3>7, <4>1 DEF Agrees
    <3> QED BY <3>1, <3>5, <3>6, <3>8
  <2>2. CASE ~(scount[s] - 1 < 0)
    <3>1. UNCHANGED <<sched, prsem, squeue>>
      BY <2>2 DEF Wait
    <3>2. Dispatched
      BY <3>1, SchedSame
    <3>3. Agrees(squeue[s], scount[s])
      BY <1>4
    <3>4. Agrees(squeue'[s], scount'[s])
      BY <1>6, <2>2, <3>1, <3>3 DEF Agrees
    <3>5. prstate' = prstate /\ readylist' = readylist /\ ndefers' = ndefers /\ attempt' = attempt
          /\ squeue' = squeue /\ prsem' = prsem
      BY <3>1 DEF sched
    <3>6. Queues(prstate', readylist', sleepq, squeue', prsem')
      BY <3>5, TakeApart
    <3>7. attempt' \in BOOLEAN
      BY <1>7, <3>5
    <3> QED BY <3>2, <3>4, <3>5, <3>6, <3>7
  <2> QED BY <2>1, <2>2
<1>9. \A t \in Sem : Agrees(squeue'[t], scount'[t])
  BY <1>4, <1>6, <1>8
<1>10. \A t \in Sem : sstate'[t] = "FREE" => squeue'[t] = <<>>
  BY <1>1, <1>2, <1>4, <1>8
<1>11. SemCount' /\ NoWaiterOnFree'
  BY <1>9, <1>10, SemDone
<1>12. currpid' \in Pid /\ UNCHANGED <<cont, karg>> /\ sleepq' = sleepq
  BY <1>2, <1>8 DEF Dispatched, kvars
<1>13. PendingCalls'
  BY <1>3, <1>8, <1>12, PendingUnchanged
<1>14. OtherTypes'
  BY <1>2, <1>6, <1>8, TakeApart DEF OtherTypes, kvars
<1>15. ndefers' \in Nat
  BY <1>7, <1>8
<1> QED BY <1>8, <1>11, <1>12, <1>13, <1>14, <1>15, PutTogether

(* signaln and semreset begin their loops. *)
LEMMA LoopCallStep ==
    ASSUME IInv, Interruptible, NEW s \in Sem, NEW n \in Int, n >= 0,
           NEW c \in {"signaln", "semreset"},
           DeferStart, Then(c), With(s), kcount' = [kcount EXCEPT ![currpid] = n],
           UNCHANGED <<semvars, prprio, prsem, prparent, prhasmsg, prcount,
                       nextpid, sleepq, nextsem, halted, remain>>
    PROVE  IInv'
<1>1. /\ ndefers' = ndefers + 1 /\ attempt' = (attempt /\ ndefers # 0)
      /\ UNCHANGED <<currpid, prstate, readylist, preempt>> /\ qkey' = qkey
      /\ cont' = [cont EXCEPT ![currpid] = c]
      /\ karg' = [karg EXCEPT ![currpid] = s]
  BY DEF DeferStart, Then, With
<1>2. /\ currpid \in Pid /\ karg \in [Pid -> Int] /\ kcount \in [Pid -> Nat]
      /\ qkey \in [Pid -> Int]
  BY TakeApart DEF OtherTypes
<1>3. s \in Int /\ n \in Nat
  BY DEF Sem
<1>4. /\ karg' \in [Pid -> Int] /\ karg'[currpid] \in Sem
      /\ \A p \in Pid : p # currpid => karg'[p] = karg[p]
  BY <1>1, <1>2, <1>3
<1>5. kcount' \in [Pid -> Nat]
  BY <1>2, <1>3
<1>6. c \in Deferring
  BY DEF Deferring
<1>7. qkey' \in [Pid -> Int]
  BY <1>1, <1>2
<1>8. /\ Dispatched
      /\ PendingCalls'
      /\ ndefers' \in Nat
      /\ attempt' \in BOOLEAN
      /\ cont' \in [Pid -> Conts]
  BY <1>1, <1>4, <1>6, <1>7, LoopStart
<1>9. SemCount' /\ NoWaiterOnFree'
  BY UserMode, SemSame
<1>10. OtherTypes'
  BY <1>4, <1>5, <1>8, TakeApart DEF OtherTypes, semvars
<1>11. Queues(prstate', readylist', sleepq', squeue', prsem')
  BY <1>1, TakeApart DEF semvars
<1> QED BY <1>8, <1>9, <1>10, <1>11, PutTogether

(* The call of signaln keeps IInv. *)
LEMMA SignalNStep ==
    ASSUME IInv, NEW s \in Sem, NEW n \in Int, SignalN(s, n)
    PROVE  IInv'
<1>1. /\ Interruptible /\ n >= 0 /\ DeferStart /\ Then("signaln") /\ With(s)
      /\ kcount' = [kcount EXCEPT ![currpid] = n]
      /\ UNCHANGED <<semvars, prprio, prsem, prparent, prhasmsg, prcount,
                     nextpid, sleepq, nextsem, halted, remain>>
  BY DEF SignalN, Signalling
<1> QED BY <1>1, LoopCallStep

(* The call of semreset keeps IInv. *)
LEMMA SemResetStep ==
    ASSUME IInv, NEW s \in Sem, NEW n \in Int, SemReset(s, n)
    PROVE  IInv'
<1>1. /\ Interruptible /\ n >= 0 /\ DeferStart /\ Then("semreset") /\ With(s)
      /\ kcount' = [kcount EXCEPT ![currpid] = n]
      /\ UNCHANGED <<semvars, prprio, prsem, prparent, prhasmsg, prcount,
                     nextpid, sleepq, nextsem, halted, remain>>
  BY DEF SemReset, Calling
<1> QED BY <1>1, LoopCallStep

(* The call of semdelete keeps IInv. *)
LEMMA SemDeleteStep ==
    ASSUME IInv, NEW s \in Sem, SemDelete(s)
    PROVE  IInv'
<1>1. /\ Interruptible /\ sstate' = [sstate EXCEPT ![s] = "FREE"]
      /\ ndefers' = ndefers + 1 /\ attempt' = (attempt /\ ndefers # 0)
      /\ UNCHANGED <<currpid, prstate, readylist, preempt>> /\ qkey' = qkey
      /\ cont' = [cont EXCEPT ![currpid] = "semdelete"]
      /\ karg' = [karg EXCEPT ![currpid] = s]
  BY DEF SemDelete, Calling, DeferStart, Then, With
<1>2. UNCHANGED <<kcount, scount, squeue, prprio, prsem, prparent, prhasmsg,
                   prcount, nextpid, sleepq, nextsem, halted, remain>>
  BY DEF SemDelete
<1>3. /\ currpid \in Pid /\ karg \in [Pid -> Int] /\ cont \in [Pid -> Conts]
      /\ sstate \in [Sem -> {"FREE", "USED"}] /\ qkey \in [Pid -> Int]
  BY TakeApart DEF OtherTypes
<1>4. s \in Int
  BY DEF Sem
<1>5. /\ karg' \in [Pid -> Int] /\ karg'[currpid] = s
      /\ \A p \in Pid : p # currpid => karg'[p] = karg[p]
  BY <1>1, <1>3, <1>4
<1>6. "semdelete" \in Deferring
  BY DEF Deferring
<1>7. qkey' \in [Pid -> Int]
  BY <1>1, <1>3
<1>8. /\ Dispatched
      /\ PendingCalls'
      /\ ndefers' \in Nat
      /\ attempt' \in BOOLEAN
      /\ cont' \in [Pid -> Conts]
  BY <1>1, <1>5, <1>6, <1>7, LoopStart
<1>9. cont[currpid] = "user"
  BY <1>1, UserMode
<1>10. /\ \A t \in Sem : Agrees(squeue[t], scount[t])
       /\ \A t \in Sem : sstate[t] = "FREE" => squeue[t] = <<>>
  BY <1>9, SemFacts
<1>11. SemCount'
  BY <1>2, <1>10 DEF SemCount, Agrees
<1>12. InDelete(s)'
  BY <1>1, <1>3, <1>5 DEF InDelete
<1>13. \A t \in Sem : t # s => sstate'[t] = sstate[t]
  BY <1>1, <1>3
<1>14. NoWaiterOnFree'
  BY <1>2, <1>10, <1>12, <1>13 DEF NoWaiterOnFree
<1>15. sstate' \in [Sem -> {"FREE", "USED"}]
  BY <1>1, <1>3
<1>16. OtherTypes'
  BY <1>2, <1>5, <1>8, <1>15, TakeApart DEF OtherTypes
<1>17. Queues(prstate', readylist', sleepq', squeue', prsem')
  BY <1>1, <1>2, TakeApart
<1> QED BY <1>8, <1>11, <1>14, <1>16, <1>17, PutTogether

(* The pending call of the current process ends a loop and returns. *)
LEMMA LoopReturn ==
    ASSUME IInv, cont[currpid] \in Deferring, DeferStop, Return,
           UNCHANGED <<sstate, squeue, prprio, prsem, prparent, prhasmsg, prcount,
                       nextpid, sleepq, nextsem, halted, remain>>,
           scount' \in [Sem -> Int], SemCount', NoWaiterOnFree'
    PROVE  IInv'
<1>1. /\ Queues(prstate', readylist', sleepq, squeue, prsem)
      /\ Dispatched
      /\ ndefers' = 0
      /\ attempt' \in BOOLEAN
  BY DeferStopOK
<1>2. /\ currpid \in Pid /\ cont \in [Pid -> Conts] /\ karg \in [Pid -> Int]
      /\ kcount \in [Pid -> Nat]
  BY TakeApart DEF OtherTypes
<1>3. /\ cont' = [cont EXCEPT ![currpid] = "user"]
      /\ karg' = [karg EXCEPT ![currpid] = 0]
      /\ kcount' = [kcount EXCEPT ![currpid] = 0]
  BY DEF Return
<1>4. "user" \in Conts
  BY DEF Conts
<1>5. cont' \in [Pid -> Conts] /\ karg' \in [Pid -> Int] /\ kcount' \in [Pid -> Nat]
  BY <1>2, <1>3, <1>4
<1>6. \A p \in Pid : p # currpid => karg'[p] = karg[p]
  BY <1>2, <1>3
<1>7. currpid' \in Pid /\ ndefers' \in Nat
  BY <1>1 DEF Dispatched
<1>8. PendingCalls'
  BY <1>1, <1>3, <1>6, <1>7, LoopEndPending
<1>9. OtherTypes'
  BY <1>1, <1>5, TakeApart DEF OtherTypes
<1> QED BY <1>1, <1>7, <1>8, <1>9, PutTogether

(* The end of signaln keeps IInv. *)
LEMMA SignalNEndStep ==
    ASSUME IInv, SignalNEnd
    PROVE  IInv'
<1>1. cont[currpid] = "signaln" /\ DeferStop /\ Return
  BY DEF SignalNEnd, Continuing
<1>2. UNCHANGED <<sstate, scount, squeue, prprio, prsem, prparent, prhasmsg, prcount,
                  nextpid, sleepq, nextsem, halted, remain>>
  BY DEF SignalNEnd, semvars
<1>3. /\ \A t \in Sem : Agrees(squeue[t], scount[t])
      /\ \A t \in Sem : sstate[t] = "FREE" => squeue[t] = <<>>
  BY <1>1, SemFacts
<1>4. SemCount' /\ NoWaiterOnFree'
  BY <1>2, <1>3, SemDone
<1>5. scount' \in [Sem -> Int]
  BY <1>2, TakeApart DEF OtherTypes
<1>6. cont[currpid] \in Deferring
  BY <1>1 DEF Deferring
<1> QED BY <1>1, <1>2, <1>4, <1>5, <1>6, LoopReturn

(* The end of semdelete keeps IInv. *)
LEMMA SemDeleteEndStep ==
    ASSUME IInv, SemDeleteEnd
    PROVE  IInv'
<1> DEFINE s == karg[currpid]
<1>1. /\ cont[currpid] = "semdelete" /\ ~(scount[s] < 0) /\ DeferStop /\ Return
      /\ scount' = [scount EXCEPT ![s] = @ + 1]
  BY DEF SemDeleteEnd, Continuing, Waited
<1>2. UNCHANGED <<sstate, squeue, prprio, prsem, prparent, prhasmsg, prcount,
                  nextpid, sleepq, nextsem, halted, remain>>
  BY DEF SemDeleteEnd
<1>3. s \in Sem
  BY <1>1, TakeApart DEF IInv, PendingCalls
<1>4. \A t \in Sem : sstate[t] = "FREE" /\ t # s => squeue[t] = <<>>
  BY DEF IInv, NoWaiterOnFree, InDelete
<1> HIDE DEF s
<1>5. \A t \in Sem : Agrees(squeue[t], scount[t])
  BY <1>1, SemFacts
<1>6. scount \in [Sem -> Int] /\ squeue \in [Sem -> Seq(Pid)]
  BY TakeApart DEF OtherTypes, Queues
<1>7. /\ scount' \in [Sem -> Int] /\ scount'[s] = scount[s] + 1 /\ scount[s] \in Int
      /\ \A t \in Sem : t # s => scount'[t] = scount[t]
  <2>1. scount' = [scount EXCEPT ![s] = @ + 1]
    BY <1>1
  <2> QED BY <1>3, <1>6, <2>1
<1>8. squeue[s] = <<>> /\ Len(squeue[s]) = 0
  <2>1. Agrees(squeue[s], scount[s]) /\ squeue[s] \in Seq(Pid)
    BY <1>3, <1>5, <1>6
  <2> QED BY <1>1, <1>7, <2>1 DEF Agrees
<1>9. Agrees(squeue'[s], scount'[s])
  BY <1>1, <1>2, <1>7, <1>8 DEF Agrees
<1>10. \A t \in Sem : Agrees(squeue'[t], scount'[t])
  BY <1>2, <1>5, <1>7, <1>9
<1>11. \A t \in Sem : sstate'[t] = "FREE" => squeue'[t] = <<>>
  BY <1>2, <1>4, <1>8
<1>12. SemCount' /\ NoWaiterOnFree'
  BY <1>10, <1>11, SemDone
<1>13. cont[currpid] \in Deferring
  BY <1>1 DEF Deferring
<1> QED BY <1>1, <1>2, <1>7, <1>12, <1>13, LoopReturn
(* A turn of the loop of semreset keeps IInv. *)
LEMMA SemResetLoopStep ==
    ASSUME IInv, SemResetLoop
    PROVE  IInv'
<1> DEFINE s == karg[currpid]
<1>1. /\ cont[currpid] = "semreset" /\ squeue[s] # <<>>
      /\ squeue' = [squeue EXCEPT ![s] = Tail(@)]
      /\ Ready(Head(squeue[s]), readylist, prstate, qkey)
  BY DEF SemResetLoop, Continuing
<1>2. UNCHANGED <<kvars, sstate, scount, prprio, prsem, prparent, prhasmsg, prcount,
                   nextpid, sleepq, nextsem, halted, remain>>
  BY DEF SemResetLoop
<1>3. s \in Sem
  BY <1>1, TakeApart DEF IInv, PendingCalls
<1>4. /\ \A t \in Sem : t # s => Agrees(squeue[t], scount[t])
      /\ \A t \in Sem : sstate[t] = "FREE" => squeue[t] = <<>>
  BY <1>1 DEF IInv, SemCount, NoWaiterOnFree, InReset, InDelete, Agrees
<1>5. /\ Queues(prstate', readylist', sleepq, squeue', prsem)
      /\ Dispatched
      /\ ndefers' = ndefers
      /\ attempt' \in BOOLEAN
      /\ ndefers > 0 => currpid' = currpid
      /\ \A t \in Sem : t # s => squeue'[t] = squeue[t]
  BY <1>1, <1>3, ReleaseOK
<1>6. ndefers = 1
  BY <1>1, InLoop DEF Deferring
<1>7. UNCHANGED <<currpid, cont, karg, ndefers>>
  BY <1>2, <1>5, <1>6 DEF kvars
<1>8. PendingCalls'
  BY <1>7, LoopPending
<1>9. SemCount'
  BY <1>1, <1>2, <1>4, <1>5, <1>7 DEF SemCount, Agrees, InReset
<1>10. NoWaiterOnFree'
  BY <1>1, <1>2, <1>3, <1>4, <1>5 DEF NoWaiterOnFree
<1>11. OtherTypes'
  BY <1>2, <1>5, TakeApart DEF OtherTypes, kvars
<1>12. ndefers' \in Nat
  BY <1>5, <1>6
<1> QED BY <1>2, <1>5, <1>8, <1>9, <1>10, <1>11, <1>12, PutTogether

(* The end of semreset, with its new count, keeps IInv. *)
LEMMA SemResetEndStep ==
    ASSUME IInv, SemResetEnd
    PROVE  IInv'
<1> DEFINE s == karg[currpid]
           n == kcount[currpid]
<1>1. /\ cont[currpid] = "semreset" /\ squeue[s] = <<>> /\ DeferStop /\ Return
      /\ scount' = [scount EXCEPT ![s] = n]
  BY DEF SemResetEnd, Continuing
<1>2. UNCHANGED <<sstate, squeue, prprio, prsem, prparent, prhasmsg, prcount,
                  nextpid, sleepq, nextsem, halted, remain>>
  BY DEF SemResetEnd
<1>3. s \in Sem /\ n \in Nat
  BY <1>1, TakeApart DEF IInv, PendingCalls, OtherTypes
<1>4. /\ \A t \in Sem : t # s => Agrees(squeue[t], scount[t])
      /\ \A t \in Sem : sstate[t] = "FREE" => squeue[t] = <<>>
  BY <1>1 DEF IInv, SemCount, NoWaiterOnFree, InReset, InDelete, Agrees
<1> HIDE DEF s, n
<1>5. scount \in [Sem -> Int]
  BY TakeApart DEF OtherTypes
<1>6. /\ scount' \in [Sem -> Int] /\ scount'[s] = n
      /\ \A t \in Sem : t # s => scount'[t] = scount[t]
  BY <1>1, <1>3, <1>5
<1>7. Agrees(squeue'[s], scount'[s])
  BY <1>1, <1>2, <1>3, <1>6 DEF Agrees
<1>8. \A t \in Sem : Agrees(squeue'[t], scount'[t])
  BY <1>2, <1>4, <1>6, <1>7
<1>9. SemCount' /\ NoWaiterOnFree'
  BY <1>2, <1>4, <1>8, SemDone
<1>10. cont[currpid] \in Deferring
  BY <1>1 DEF Deferring
<1> QED BY <1>1, <1>2, <1>6, <1>9, <1>10, LoopReturn

(* newsem returns a free slot of the semaphore table. *)
LEMMA NewSemFree ==
    ASSUME IInv, SemsFrom # {}
    PROVE  NewSem \in Sem /\ sstate[NewSem] = "FREE" /\ After(NewSem, NSEM) \in Sem
<1>1. SemsFrom \in SUBSET Nat
  BY NSEMAssumption DEF SemsFrom
<1>2. Min(SemsFrom) \in SemsFrom
  BY <1>1, MinOfNats
<1>3. sstate[NewSem] = "FREE"
  BY <1>2 DEF SemsFrom, NewSem
<1>4. nextsem + Min(SemsFrom) \in Nat
  <2>1. nextsem \in 0 .. NSEM - 1
    BY TakeApart DEF OtherTypes, Sem
  <2>2. Min(SemsFrom) \in Nat
    BY <1>1, <1>2
  <2> QED BY <2>1, <2>2, NSEMAssumption
<1>5. NewSem \in 0 .. NSEM - 1
  BY <1>4, NSEMAssumption, ModRange DEF NewSem
<1>6. NewSem + 1 \in Nat
  BY <1>5
<1>7. After(NewSem, NSEM) \in 0 .. NSEM - 1
  BY <1>6, NSEMAssumption, ModRange DEF After
<1> QED BY <1>3, <1>5, <1>7 DEF Sem

(* semcreate keeps IInv. *)
LEMMA SemCreateStep ==
    ASSUME IInv, NEW n \in Int, SemCreate(n)
    PROVE  IInv'
<1> DEFINE s == NewSem
<1>1. /\ Interruptible /\ n >= 0 /\ SemsFrom # {}
      /\ sstate' = [sstate EXCEPT ![s] = "USED"]
      /\ scount' = [scount EXCEPT ![s] = n]
      /\ nextsem' = After(s, NSEM)
  BY DEF SemCreate, Calling
<1>2. UNCHANGED <<sched, kvars, squeue, prprio, prsem, prparent, prhasmsg,
                   prcount, nextpid, sleepq, halted, remain>>
  BY DEF SemCreate
<1>3. s \in Sem /\ sstate[s] = "FREE" /\ nextsem' \in Sem
  BY <1>1, NewSemFree
<1> HIDE DEF s
<1>4. cont[currpid] = "user" /\ cont[currpid] \notin Deferring
  BY <1>1, UserMode
<1>5. /\ \A t \in Sem : Agrees(squeue[t], scount[t])
      /\ \A t \in Sem : sstate[t] = "FREE" => squeue[t] = <<>>
  BY <1>4, SemFacts
<1>6. scount \in [Sem -> Int] /\ sstate \in [Sem -> {"FREE", "USED"}]
  BY TakeApart DEF OtherTypes
<1>7. n \in Int
  OBVIOUS
<1>8. /\ scount' \in [Sem -> Int] /\ scount'[s] = n
      /\ \A t \in Sem : t # s => scount'[t] = scount[t]
  BY <1>1, <1>3, <1>6, <1>7
<1>9. /\ sstate' \in [Sem -> {"FREE", "USED"}]
      /\ \A t \in Sem : sstate'[t] = "FREE" => sstate[t] = "FREE"
  BY <1>1, <1>3, <1>6
<1>10. Agrees(squeue'[s], scount'[s])
  BY <1>1, <1>2, <1>3, <1>5, <1>7, <1>8 DEF Agrees
<1>11. \A t \in Sem : Agrees(squeue'[t], scount'[t])
  BY <1>2, <1>5, <1>8, <1>10
<1>12. SemCount' /\ NoWaiterOnFree'
  BY <1>2, <1>5, <1>9, <1>11, SemDone
<1>13. Dispatched /\ ndefers' \in Nat /\ ndefers' = ndefers
  BY <1>2, SchedSame DEF sched
<1>14. currpid' \in Pid /\ UNCHANGED <<cont, karg>>
  BY <1>2, <1>13 DEF Dispatched, kvars
<1>15. PendingCalls'
  BY <1>4, <1>13, <1>14, PendingUnchanged
<1>16. OtherTypes'
  BY <1>2, <1>3, <1>8, <1>9, TakeApart DEF OtherTypes, sched, kvars
<1>17. Queues(prstate', readylist', sleepq', squeue', prsem')
  BY <1>2, TakeApart DEF sched
<1> QED BY <1>12, <1>13, <1>15, <1>16, <1>17, PutTogether

-----------------------------------------------------------------------------
(***************************************************************************)
(* The end of kill: the state of the process decides which queue it is on. *)
(***************************************************************************)
(* p, which is not current, is freed; its queue has lost it already. *)
LEMMA FreedOK ==
    ASSUME IInv, NEW p \in Pid, p # NULLPROC, p # currpid, Freed(p), StaysOn,
           qkey' \in [Pid -> Int], NEW rl, NEW sq, NEW sqs,
           Queues(Off(prstate, p), rl, sq, sqs, prsem)
    PROVE  /\ Queues(prstate', rl, sq, sqs, prsem)
           /\ Dispatched
           /\ ndefers' = ndefers
           /\ attempt' \in BOOLEAN
<1>1. /\ prstate' = Put(prstate, p, "FREE")
      /\ currpid' = currpid /\ preempt' = preempt /\ ndefers' = ndefers /\ attempt' = attempt
  BY DEF Freed, StaysOn, Put
<1>2. /\ prstate \in [Pid -> States]
      /\ currpid \in Pid /\ preempt \in Int /\ NULLPROC \in Pid
      /\ prstate[NULLPROC] \in {"CURR", "READY"}
      /\ \A x \in Pid : prstate[x] = "CURR" <=> x = currpid
  BY TakeApart
<1>3. "FREE" \in Unqueued
  BY DEF Unqueued
<1>4. Queues(prstate', rl, sq, sqs, prsem)
  BY <1>1, <1>2, <1>3, ToUnqueued
<1>5. \A x \in Pid : prstate'[x] = IF x = p THEN "FREE" ELSE prstate[x]
  BY <1>1, <1>2 DEF Put
<1>6. Dispatched
  BY <1>1, <1>2, <1>5 DEF Dispatched
<1>7. attempt' \in BOOLEAN
  BY <1>1, TakeApart DEF OtherTypes
<1> QED BY <1>1, <1>4, <1>6, <1>7

(* The second part of kill keeps IInv. *)
LEMMA KillEndStep ==
    ASSUME IInv, KillEnd
    PROVE  IInv'
<1> DEFINE p == karg[currpid]
<1>1. cont[currpid] = "kill"
  BY DEF KillEnd, Continuing
<1>2. /\ cont' = [x \in Pid |-> IF x \in {p, currpid} THEN "user" ELSE cont[x]]
      /\ karg' = [x \in Pid |-> IF x \in {p, currpid} THEN 0 ELSE karg[x]]
      /\ kcount' = [kcount EXCEPT ![p] = 0]
      /\ remain' = [remain EXCEPT ![p] = 0]
  BY DEF KillEnd
<1>3. UNCHANGED <<prprio, prsem, prparent, prhasmsg, prcount, nextpid, nextsem, halted>>
  BY DEF KillEnd
<1>4. \/ prstate[p] = "CURR" /\ KillSelf(p)
      \/ prstate[p] \in {"SLEEP", "RECTIM"} /\ KillAsleep(p)
      \/ prstate[p] = "WAIT" /\ KillWaiting(p)
      \/ prstate[p] = "READY" /\ KillReady(p)
      \/ prstate[p] \notin {"CURR", "SLEEP", "RECTIM", "WAIT", "READY"} /\ KillUnqueued(p)
  BY DEF KillEnd
<1>5. p \in Pid /\ p # NULLPROC
  BY <1>1, TakeApart DEF IInv, PendingCalls
<1> HIDE DEF p
<1>6. cont[currpid] \notin Deferring
  BY <1>1 DEF Deferring
<1>7. /\ \A t \in Sem : Agrees(squeue[t], scount[t])
      /\ \A t \in Sem : sstate[t] = "FREE" => squeue[t] = <<>>
  BY <1>1, SemFacts
<1>8. /\ Queues(prstate, readylist, sleepq, squeue, prsem)
      /\ currpid \in Pid /\ qkey \in [Pid -> Int]
      /\ \A x \in Pid : prstate[x] = "CURR" <=> x = currpid
      /\ prstate \in [Pid -> States]
  BY TakeApart
<1>9. /\ Queues(prstate', readylist', sleepq', squeue', prsem)
      /\ Dispatched
      /\ ndefers' = ndefers
      /\ attempt' \in BOOLEAN
      /\ scount' \in [Sem -> Int]
      /\ sstate' = sstate
      /\ \A t \in Sem : Agrees(squeue'[t], scount'[t])
      /\ \A t \in Sem : squeue[t] = <<>> => squeue'[t] = <<>>
  <2>0. scount \in [Sem -> Int] /\ squeue \in [Sem -> Seq(Pid)] /\ sleepq \in Seq(Pid)
        /\ readylist \in Seq(Pid)
    BY TakeApart DEF OtherTypes, Queues
  <2>1. CASE prstate[p] = "CURR" /\ KillSelf(p)
    <3>1. /\ p = currpid /\ UNCHANGED <<semvars, sleepq>>
          /\ Resched(ndefers, readylist, [prstate EXCEPT ![p] = "FREE"], qkey)
      BY <1>5, <1>8, <2>1 DEF KillSelf
    <3>2. "FREE" \in Unqueued
      BY DEF Unqueued
    <3>3. /\ Queues(prstate', readylist', sleepq, squeue, prsem)
          /\ Dispatched
          /\ ndefers' = ndefers
          /\ attempt' \in BOOLEAN
      BY <1>5, <1>6, <3>1, <3>2, LeaveUnqueued
    <3> QED BY <1>7, <2>0, <3>1, <3>3 DEF semvars
  <2>2. CASE prstate[p] \in {"SLEEP", "RECTIM"} /\ KillAsleep(p)
    <3> DEFINE sq == GetItem(sleepq, p)
    <3>1. /\ sleepq' = sq /\ qkey' = UnsleepKeys(sleepq, qkey, p) /\ Freed(p) /\ StaysOn
          /\ readylist' = readylist /\ UNCHANGED semvars
      BY <2>2 DEF KillAsleep
    <3>2. OnQueue(sleepq, SleepProcs(prstate)) /\ p \in SleepProcs(prstate)
      BY <1>5, <1>8, <2>2 DEF Queues, QueuesAgree, SleepProcs
    <3>3. sq \in Seq(Pid) /\ OnQueue(sq, SleepProcs(prstate) \ {p})
      BY <2>0, <3>2, GetItemOnQueue
    <3>4. qkey' \in [Pid -> Int]
      BY <1>5, <1>8, <2>0, <3>1, <3>2, UnsleepKeysType
    <3> HIDE DEF sq
    <3>5. Queues(Off(prstate, p), readylist, sq, squeue, prsem)
      BY <1>5, <1>8, <2>2, <3>3, OffSleep
    <3>6. p # currpid
      BY <1>5, <1>8, <2>2
    <3>7. /\ Queues(prstate', readylist, sq, squeue, prsem)
          /\ Dispatched
          /\ ndefers' = ndefers
          /\ attempt' \in BOOLEAN
      BY <1>5, <3>1, <3>4, <3>5, <3>6, FreedOK
    <3> QED BY <1>7, <2>0, <3>1, <3>7 DEF semvars
  <2>3. CASE prstate[p] = "WAIT" /\ KillWaiting(p)
    <3> DEFINE s == prsem[p]
               q == GetItem(squeue[s], p)
    <3>1. /\ scount' = [scount EXCEPT ![s] = @ + 1]
          /\ squeue' = Put(squeue, s, q) /\ Freed(p) /\ StaysOn
          /\ readylist' = readylist /\ qkey' = qkey /\ sstate' = sstate /\ sleepq' = sleepq
      BY <2>3 DEF KillWaiting, Put
    <3>2. s \in Sem
      BY <1>5, <1>8, <2>3 DEF Queues, QueuesAgree
    <3>3. OnQueue(squeue[s], WaitProcs(prstate, prsem, s)) /\ p \in WaitProcs(prstate, prsem, s)
      BY <1>5, <1>8, <2>3, <3>2 DEF Queues, QueuesAgree, WaitProcs
    <3>4. squeue[s] \in Seq(Pid)
      BY <2>0, <3>2
    <3>5. /\ q \in Seq(Pid) /\ OnQueue(q, WaitProcs(prstate, prsem, s) \ {p})
          /\ Len(q) = Len(squeue[s]) - 1
          /\ PosOf(squeue[s], p) \in 1 .. Len(squeue[s])
      BY <3>3, <3>4, GetItemOnQueue
    <3>6. prsem[p] = s
      OBVIOUS
    <3> HIDE DEF q, s
    <3>7. Queues(Off(prstate, p), readylist, sleepq, Put(squeue, s, q), prsem)
      BY <1>5, <1>8, <2>3, <3>2, <3>5, <3>6, OffWait
    <3>8. p # currpid
      BY <1>5, <1>8, <2>3
    <3>9. /\ Queues(prstate', readylist, sleepq, Put(squeue, s, q), prsem)
          /\ Dispatched
          /\ ndefers' = ndefers
          /\ attempt' \in BOOLEAN
      BY <1>5, <1>8, <3>1, <3>7, <3>8, FreedOK
    <3>10. squeue'[s] = q /\ \A t \in Sem : t # s => squeue'[t] = squeue[t]
      BY <2>0, <3>1, <3>2 DEF Put
    <3>11. /\ scount' \in [Sem -> Int] /\ scount'[s] = scount[s] + 1 /\ scount[s] \in Int
           /\ \A t \in Sem : t # s => scount'[t] = scount[t]
      <4>1. scount' = [scount EXCEPT ![s] = @ + 1]
        BY <3>1
      <4> QED BY <2>0, <3>2, <4>1
    <3>12. Len(squeue[s]) \in Nat /\ Len(squeue[s]) >= 1
      BY <3>4, <3>5
    <3>13. Agrees(squeue'[s], scount'[s])
      <4>1. Agrees(squeue[s], scount[s])
        BY <1>7, <3>2
      <4>2. Len(squeue'[s]) = Len(squeue[s]) - 1
        BY <3>5, <3>10
      <4> QED BY <3>11, <3>12, <4>1, <4>2 DEF Agrees
    <3>14. \A t \in Sem : Agrees(squeue'[t], scount'[t])
      BY <1>7, <3>10, <3>11, <3>13
    <3>15. squeue[s] # <<>>
      BY <3>12
    <3>16. \A t \in Sem : squeue[t] = <<>> => squeue'[t] = <<>>
      BY <3>10, <3>15
    <3> QED BY <3>1, <3>9, <3>11, <3>14, <3>16
  <2>4. CASE prstate[p] = "READY" /\ KillReady(p)
    <3> DEFINE rl == GetItem(readylist, p)
    <3>1. /\ readylist' = rl /\ Freed(p) /\ StaysOn
          /\ qkey' = qkey /\ sleepq' = sleepq /\ UNCHANGED semvars
      BY <2>4 DEF KillReady
    <3>2. OnQueue(readylist, ReadyProcs(prstate)) /\ p \in ReadyProcs(prstate)
      BY <1>5, <1>8, <2>4 DEF Queues, QueuesAgree, ReadyProcs
    <3>3. rl \in Seq(Pid) /\ OnQueue(rl, ReadyProcs(prstate) \ {p})
      BY <2>0, <3>2, GetItemOnQueue
    <3> HIDE DEF rl
    <3>4. Queues(Off(prstate, p), rl, sleepq, squeue, prsem)
      BY <1>5, <1>8, <2>4, <3>3, OffReady
    <3>5. p # currpid
      BY <1>5, <1>8, <2>4
    <3>6. /\ Queues(prstate', rl, sleepq, squeue, prsem)
          /\ Dispatched
          /\ ndefers' = ndefers
          /\ attempt' \in BOOLEAN
      BY <1>5, <1>8, <3>1, <3>4, <3>5, FreedOK
    <3> QED BY <1>7, <2>0, <3>1, <3>6 DEF semvars
  <2>5. CASE prstate[p] \notin {"CURR", "SLEEP", "RECTIM", "WAIT", "READY"} /\ KillUnqueued(p)
    <3>1. /\ readylist' = readylist /\ Freed(p) /\ StaysOn
          /\ qkey' = qkey /\ sleepq' = sleepq /\ UNCHANGED semvars
      BY <2>5 DEF KillUnqueued
    <3>2. prstate[p] \in Unqueued /\ p # currpid
      BY <1>5, <1>8, <2>5 DEF Unqueued, States
    <3>3. Queues(Off(prstate, p), readylist, sleepq, squeue, prsem)
      BY <1>5, <1>8, <3>2, OffUnqueued
    <3>4. /\ Queues(prstate', readylist, sleepq, squeue, prsem)
          /\ Dispatched
          /\ ndefers' = ndefers
          /\ attempt' \in BOOLEAN
      BY <1>5, <1>8, <3>1, <3>2, <3>3, FreedOK
    <3> QED BY <1>7, <2>0, <3>1, <3>4 DEF semvars
  <2> QED BY <1>4, <2>1, <2>2, <2>3, <2>4, <2>5
<1>10. SemCount' /\ NoWaiterOnFree'
  BY <1>7, <1>9, SemDone
<1>11. \A x \in Pid : (cont'[x] = cont[x] /\ karg'[x] = karg[x]) \/ cont'[x] = "user"
  BY <1>2
<1>12. currpid' \in Pid /\ prsem' = prsem
  BY <1>3, <1>9 DEF Dispatched
<1>13. PendingCalls'
  BY <1>6, <1>9, <1>11, <1>12, PendingSame
<1>14. cont' \in [Pid -> Conts] /\ karg' \in [Pid -> Int]
  <2>1. cont \in [Pid -> Conts] /\ karg \in [Pid -> Int] /\ "user" \in Conts
    BY TakeApart DEF OtherTypes, Conts
  <2> QED BY <1>2, <2>1
<1>15. kcount' \in [Pid -> Nat] /\ remain' \in [Pid -> Int]
  <2>1. kcount \in [Pid -> Nat] /\ remain \in [Pid -> Int]
    BY TakeApart DEF OtherTypes
  <2> QED BY <1>2, <1>5, <2>1
<1>16. OtherTypes'
  BY <1>3, <1>9, <1>14, <1>15, TakeApart DEF OtherTypes
<1>17. ndefers' \in Nat
  BY <1>9, TakeApart
<1> QED BY <1>9, <1>10, <1>12, <1>13, <1>16, <1>17, PutTogether
-----------------------------------------------------------------------------
(***************************************************************************)
(* The theorems.                                                           *)
(***************************************************************************)
(* The state nulluser leaves satisfies IInv. *)
LEMMA InitIInv == Init => IInv
<1> SUFFICES ASSUME Init PROVE IInv
  OBVIOUS
<1>1. NULLPROC \in Pid /\ MAIN \in Pid /\ NULLPROC # MAIN /\ Pid \subseteq Int
  BY NPROCAssumption DEF NULLPROC, MAIN, Pid
<1>2. /\ currpid = MAIN
      /\ prstate = [p \in Pid |-> IF p = NULLPROC THEN "READY"
                                  ELSE IF p = MAIN THEN "CURR" ELSE "FREE"]
      /\ prsem = [p \in Pid |-> -1]
      /\ readylist = <<NULLPROC>>
      /\ sleepq = <<>>
      /\ sstate = [s \in Sem |-> "FREE"]
      /\ scount = [s \in Sem |-> 0]
      /\ squeue = [s \in Sem |-> <<>>]
      /\ ndefers = 0
      /\ cont = [p \in Pid |-> "user"]
  BY DEF Init
<1>3. PICK prio \in {x \in Prios : x >= 1} : prprio = [p \in Pid |-> IF p = MAIN THEN prio ELSE 0]
  BY DEF Init
<1>4. prprio \in [Pid -> Int]
  BY <1>3, PriosAssumption
<1>5. qkey \in [Pid -> Int]
  BY <1>1, <1>4 DEF Init
<1>6. nextpid \in Pid
  <2>1. nextpid = 2 % NPROC /\ NPROC \in Nat \ {0}
    BY NPROCAssumption DEF Init
  <2> QED BY <2>1, ModRange DEF Pid
<1>7. nextsem \in Sem
  BY NSEMAssumption DEF Init, Sem
<1>8. /\ prstate \in [Pid -> States] /\ prsem \in [Pid -> Sem \cup {-1}]
      /\ sstate \in [Sem -> {"FREE", "USED"}] /\ scount \in [Sem -> Int]
      /\ squeue \in [Sem -> Seq(Pid)]
      /\ readylist \in Seq(Pid) /\ sleepq \in Seq(Pid)
      /\ cont \in [Pid -> Conts]
  BY <1>1, <1>2 DEF States, Conts
<1>9. /\ prparent \in [Pid -> Pid]
      /\ prcount \in Int /\ preempt \in Int
      /\ karg \in [Pid -> Int] /\ kcount \in [Pid -> Nat] /\ remain \in [Pid -> Int]
  BY <1>1, QUANTUMAssumption DEF Init
<1>18. prhasmsg \in [Pid -> BOOLEAN] /\ attempt \in BOOLEAN /\ halted \in BOOLEAN
  <2>1. prhasmsg = [p \in Pid |-> FALSE] /\ attempt = FALSE /\ halted = FALSE
    BY DEF Init
  <2> QED BY <2>1
<1>10. TypeOK
  BY <1>1, <1>2, <1>4, <1>5, <1>6, <1>7, <1>8, <1>9, <1>18 DEF TypeOK
<1>11. ReadyProcs(prstate) = {NULLPROC} /\ SleepProcs(prstate) = {}
  BY <1>1, <1>2 DEF ReadyProcs, SleepProcs
<1>12. \A s \in Sem : WaitProcs(prstate, prsem, s) = {}
  BY <1>1, <1>2 DEF WaitProcs
<1>13. OnQueue(<<>>, {}) /\ OnQueue(<<NULLPROC>>, {NULLPROC})
  BY DEF OnQueue, ToSet, IsInjective
<1>14. QueueState
  <2>1. \A s \in Sem : OnQueue(squeue[s], WaitProcs(prstate, prsem, s))
    BY <1>2, <1>12, <1>13
  <2>2. \A p \in Pid : prstate[p] # "WAIT" /\ (prstate[p] = "CURR" <=> p = currpid)
    BY <1>1, <1>2
  <2> QED BY <1>2, <1>11, <1>13, <2>1, <2>2 DEF QueueState, QueuesAgree
<1>15. NullEligible
  BY <1>1, <1>2 DEF NullEligible
<1>16. PendingCalls
  BY <1>1, <1>2 DEF PendingCalls, Deferring
<1>17. SemCount /\ NoWaiterOnFree
  BY <1>2 DEF SemCount, NoWaiterOnFree
<1> QED BY <1>10, <1>14, <1>15, <1>16, <1>17 DEF IInv

(* Every semaphore call keeps IInv. *)
LEMMA SemStepIInv == IInv /\ SemStep => IInv'
<1> SUFFICES ASSUME IInv, SemStep PROVE IInv'
  OBVIOUS
<1>1. ASSUME NEW s \in Sem, Wait(s) \/ Signal(s) \/ SemDelete(s) PROVE IInv'
  BY <1>1, WaitStep, SignalStep, SemDeleteStep
<1>2. ASSUME NEW s \in Sem, NEW n \in Counts, SignalN(s, n) \/ SemReset(s, n) PROVE IInv'
  BY <1>2, CountsAssumption, SignalNStep, SemResetStep
<1>3. ASSUME NEW n \in Counts, SemCreate(n) PROVE IInv'
  BY <1>3, CountsAssumption, SemCreateStep
<1> QED BY <1>1, <1>2, <1>3 DEF SemStep

(* Every process and message call keeps IInv. *)
LEMMA ProcStepIInv == IInv /\ ProcStep => IInv'
<1> SUFFICES ASSUME IInv, ProcStep PROVE IInv'
  OBVIOUS
<1>1. ASSUME NEW p \in Pid, Send(p) \/ Suspend(p) \/ Resume(p) \/ Kill(p) PROVE IInv'
  BY <1>1, SendStep, SuspendStep, ResumeStep, KillStep
<1>2. ASSUME NEW p \in Pid, NEW prio \in Prios, ChPrio(p, prio) PROVE IInv'
  BY <1>2, ChPrioStep
<1>3. ASSUME NEW prio \in Prios, Create(prio) PROVE IInv'
  BY <1>3, CreateStep
<1>4. ASSUME NEW w \in Waits, ReceiveTimed(w) PROVE IInv'
  BY <1>4, ReceiveTimedStep
<1>5. ASSUME NEW d \in Delays, SleepMs(d) PROVE IInv'
  BY <1>5, SleepMsStep
<1>6. CASE Receive \/ RecvClr \/ Yield
  BY <1>6, ReceiveStep, RecvClrStep, YieldStep
<1> QED BY <1>1, <1>2, <1>3, <1>4, <1>5, <1>6 DEF ProcStep

(* Every step inside the kernel keeps IInv. *)
LEMMA KernelStepIInv == IInv /\ KernelStep => IInv'
<1> SUFFICES ASSUME IInv, KernelStep PROVE IInv'
  OBVIOUS
<1>1. CASE SignalNLoop \/ SignalNEnd
  BY <1>1, SignalNLoopStep, SignalNEndStep
<1>2. CASE SemDeleteLoop \/ SemDeleteEnd
  BY <1>2, SemDeleteLoopStep, SemDeleteEndStep
<1>3. CASE SemResetLoop \/ SemResetEnd
  BY <1>3, SemResetLoopStep, SemResetEndStep
<1>4. CASE ReceiveEnd \/ KillEnd
  BY <1>4, ReceiveEndStep, KillEndStep
<1>5. CASE WakeupLoop \/ WakeupEnd \/ ClkHandlerEnd
  BY <1>5, WakeupLoopStep, WakeupEndStep, ClkHandlerEndStep
<1> QED BY <1>1, <1>2, <1>3, <1>4, <1>5 DEF KernelStep

(* A stuttering step keeps IInv. *)
LEMMA StutterIInv == IInv /\ UNCHANGED vars => IInv'
<1> SUFFICES ASSUME IInv, UNCHANGED vars PROVE IInv'
  OBVIOUS
<1>1. TypeOK' /\ QueueState' /\ NullEligible'
  BY DEF IInv, TypeOK, QueueState, NullEligible, vars, sched, semvars, kvars
<1>2. PendingCalls' /\ SemCount' /\ NoWaiterOnFree'
  BY DEF IInv, PendingCalls, SemCount, NoWaiterOnFree, InReset, InDelete,
         vars, sched, semvars, kvars
<1> QED BY <1>1, <1>2 DEF IInv

(* The inductive invariant: every step of the kernel, on either platform,  *)
(* keeps the process table, the queues and the semaphores consistent.      *)
THEOREM Inductive == Spec => []IInv
<1>1. Init => IInv
  BY InitIInv
<1>2. IInv /\ [Next]_vars => IInv'
  <2> SUFFICES ASSUME IInv, [Next]_vars PROVE IInv'
    OBVIOUS
  <2>1. CASE SemStep
    BY <2>1, SemStepIInv
  <2>2. CASE ProcStep
    BY <2>2, ProcStepIInv
  <2>3. CASE KernelStep
    BY <2>3, KernelStepIInv
  <2>4. CASE ClockStep
    BY <2>4, TickStep, TickWakeupStep DEF ClockStep
  <2>5. CASE Halt
    BY <2>5, StutterIInv DEF Halt
  <2>6. CASE UNCHANGED vars
    BY <2>6, StutterIInv
  <2> QED BY <2>1, <2>2, <2>3, <2>4, <2>5, <2>6 DEF Next
<1> QED BY <1>1, <1>2, PTL DEF Spec

(* resched() always finds a process to dispatch, newpid and newsem stay in *)
(* their tables and every field keeps its type.                            *)
THEOREM TypeCorrect == Spec => []TypeOK
<1>1. IInv => TypeOK
  BY DEF IInv
<1> QED BY <1>1, Inductive, PTL

(* The state of a process always tells which queue it is on, as kill,      *)
(* suspend and send rely on when they unlink it, whatever was interleaved. *)
THEOREM QueuesConsistent == Spec => []QueueState
<1>1. IInv => QueueState
  BY DEF IInv
<1> QED BY <1>1, Inductive, PTL

(* A negative semaphore count is the number of processes that wait, so     *)
(* signal never takes a process from an empty queue.                       *)
THEOREM CountsWaiters == Spec => []SemCount
<1>1. IInv => SemCount
  BY DEF IInv
<1> QED BY <1>1, Inductive, PTL

(* semdelete leaves nobody behind on a semaphore that does not exist.      *)
THEOREM NobodyLeftBehind == Spec => []NoWaiterOnFree
<1>1. IInv => NoWaiterOnFree
  BY DEF IInv
<1> QED BY <1>1, Inductive, PTL

-----------------------------------------------------------------------------
(***************************************************************************)
(* 3. Messages, priorities and delays.                                     *)
(***************************************************************************)
(***************************************************************************)
(* The sorts of steps.                                                     *)
(***************************************************************************)
(* Nobody joins or leaves the sleep queue, and no delay gets shorter. *)
SleepersSame ==
    sleepq' = sleepq /\ \A x \in SleepProcs(prstate) : remain'[x] = remain[x]

(* Rescheduling starts or stops being deferred, or neither. *)
Deferral ==
    \/ UNCHANGED <<ndefers, attempt>>
    \/ ndefers = 0 /\ ndefers' = 1 /\ ~attempt'
    \/ ndefers = 1 /\ ~attempt /\ ndefers' = 0 /\ ~attempt'

(* No process changes its state. *)
Idles ==
    UNCHANGED <<currpid, prstate, readylist, qkey>> /\ SleepersSame /\ Deferral

(* resched is called, and nothing else. *)
Rescheds(slice, nd) ==
    ReschedWith(slice, nd, readylist, prstate, qkey) /\ SleepersSame

(* The current process blocks, is suspended or ends. *)
Leaves(st) ==
    /\ currpid # NULLPROC /\ ndefers = 0
    /\ ReschedWith(preempt, ndefers, readylist, Put(prstate, currpid, st), qkey)
    /\ SleepersSame
    /\ st = "FREE" => cont'[currpid] = "user"

(* The current process goes to sleep; asked is the delay it asked for. *)
Asks(delay, asked, st) ==
    \/ st = "SLEEP" /\ asked \in Delays \ {0} /\ delay = AsInt32(asked)
    \/ st = "RECTIM" /\ asked \in Waits /\ asked >= 0 /\ delay = asked

FallsAsleep(delay, asked, st) ==
    /\ currpid # NULLPROC /\ ndefers = 0
    /\ SleepFor(delay, st)
    /\ Asks(delay, asked, st)
    /\ remain' = [remain EXCEPT ![currpid] = asked]

(* Another process becomes ready, off a semaphore or off no queue. *)
Wakes(p) ==
    /\ prstate[p] \in {"RECV", "SUSP", "WAIT"}
    /\ prstate[p] = "RECV" => prhasmsg'[p]
    /\ Ready(p, readylist, prstate, qkey)
    /\ SleepersSame

(* The first sleeper's time has passed. *)
TimesOut ==
    /\ Expired
    /\ sleepq' = Tail(sleepq)
    /\ Ready(Head(sleepq), readylist, prstate, qkey)
    /\ \A x \in SleepProcs(prstate) : x # Head(sleepq) => remain'[x] = remain[x]
    /\ cont[currpid] = "wakeup" /\ cont' = cont

(* A sleeper gets its message before its time has passed. *)
GetsMessage(r) ==
    /\ prstate[r] = "RECTIM" /\ prhasmsg'[r]
    /\ sleepq' = GetItem(sleepq, r)
    /\ Ready(r, readylist, prstate, UnsleepKeys(sleepq, qkey, r))
    /\ \A x \in SleepProcs(prstate) : x # r => remain'[x] = remain[x]

(* Another process is suspended, killed or created. *)
Retires(p, st) ==
    /\ p # currpid
    /\ prstate[p] \in {"FREE", "READY", "RECV", "SUSP", "WAIT"}
    /\ prstate' = Put(prstate, p, st)
    /\ readylist' = IF prstate[p] = "READY" THEN GetItem(readylist, p) ELSE readylist
    /\ UNCHANGED <<currpid, qkey, ndefers, attempt>>
    /\ SleepersSame
    /\ prstate[p] = "RECV" \/ st = "FREE" => cont'[p] = "user"

(* A sleeper is killed. *)
DiesAsleep(p) ==
    /\ prstate[p] \in {"SLEEP", "RECTIM"}
    /\ prstate' = Put(prstate, p, "FREE")
    /\ sleepq' = GetItem(sleepq, p)
    /\ qkey' = UnsleepKeys(sleepq, qkey, p)
    /\ UNCHANGED <<currpid, readylist, ndefers, attempt>>
    /\ \A x \in SleepProcs(prstate) : x # p => remain'[x] = remain[x]
    /\ cont'[p] = "user"

(* The clock ticks, and may end the time slice or call wakeup. *)
Ticks ==
    /\ Interruptible
    /\ ~WakesUp \/ (currpid' = currpid /\ cont'[currpid] = "wakeup")
    /\ sleepq' = sleepq /\ remain' = TickedRemain
    /\ \/ \E slice \in Int : ReschedWith(slice, ndefers, readylist, prstate, TickedKeys)
       \/ /\ UNCHANGED <<currpid, prstate, readylist>> /\ qkey' = TickedKeys
          /\ Deferral

Sorted ==
    \/ Idles
    \/ \E slice \in Int, nd \in Nat : Rescheds(slice, nd)
    \/ \E st \in {"WAIT", "RECV", "SUSP", "FREE"} : Leaves(st)
    \/ \E delay \in Int, asked \in Int, st \in {"SLEEP", "RECTIM"} : FallsAsleep(delay, asked, st)
    \/ \E p \in Pid : Wakes(p)
    \/ TimesOut
    \/ \E p \in Pid : GetsMessage(p)
    \/ \E p \in Pid, st \in {"SUSP", "FREE"} : Retires(p, st)
    \/ \E p \in Pid : DiesAsleep(p)
    \/ Ticks

(* What the memberships below need of IInv. *)
LEMMA Types ==
    ASSUME IInv
    PROVE  /\ currpid \in Pid /\ prstate \in [Pid -> States] /\ prprio \in [Pid -> Int]
           /\ readylist \in Seq(Pid) /\ OnQueue(readylist, ReadyProcs(prstate))
           /\ sleepq \in Seq(Pid) /\ OnQueue(sleepq, SleepProcs(prstate))
           /\ qkey \in [Pid -> Int] /\ remain \in [Pid -> Int] /\ preempt \in Int
           /\ ndefers \in Nat /\ attempt \in BOOLEAN
           /\ cont \in [Pid -> Conts] /\ prhasmsg \in [Pid -> BOOLEAN]
           /\ NULLPROC \in Pid /\ prstate[NULLPROC] \in {"CURR", "READY"}
           /\ prstate[currpid] = "CURR"
           /\ \A x \in Pid : prstate[x] = "CURR" <=> x = currpid
<1>1. Queues(prstate, readylist, sleepq, squeue, prsem) /\ OtherTypes
  BY TakeApart
<1> QED BY <1>1, TakeApart DEF Queues, QueuesAgree, OtherTypes

(* What is on a queue is one of its processes. *)
LEMMA OnQueueMember ==
    ASSUME NEW P, NEW q \in Seq(P), NEW S, OnQueue(q, S), NEW i \in 1 .. Len(q)
    PROVE  q[i] \in S /\ q[i] \in P
BY DEF OnQueue, ToSet

(* A call that does not touch the scheduler. *)
LEMMA IdleStep ==
    ASSUME UNCHANGED sched, sleepq' = sleepq, remain' = remain
    PROVE  Sorted
<1>1. UNCHANGED <<currpid, prstate, readylist, qkey, ndefers, attempt>>
  BY DEF sched
<1>2. Idles
  BY <1>1 DEF Idles, SleepersSame, Deferral
<1> QED BY <1>2 DEF Sorted

(* The start of a loop under resched_cntl. *)
LEMMA StartStep ==
    ASSUME IInv, Interruptible, DeferStart, sleepq' = sleepq, remain' = remain
    PROVE  Sorted
<1>1. ndefers = 0
  BY UserMode
<1>2. ndefers' = 1 /\ ~attempt'
  <2>1. ndefers' = ndefers + 1 /\ attempt' = (attempt /\ ndefers # 0)
    BY DEF DeferStart
  <2>2. ~attempt'
    BY <1>1, <2>1, Zenon
  <2> QED BY <1>1, <2>1, <2>2
<1>3. Idles
  BY <1>1, <1>2 DEF Idles, SleepersSame, Deferral, DeferStart
<1> QED BY <1>3 DEF Sorted

(* The end of one. *)
LEMMA StopStep ==
    ASSUME IInv, cont[currpid] \in Deferring, DeferStop, sleepq' = sleepq, remain' = remain
    PROVE  Sorted
<1>1. ndefers = 1
  BY InLoop
<1>2. CASE attempt
  <2>1. Rescheds(preempt, 0)
    BY <1>1, <1>2 DEF DeferStop, Resched, Rescheds, SleepersSame
  <2>2. preempt \in Int /\ 0 \in Nat
    BY Types
  <2> QED BY <2>1, <2>2 DEF Sorted
<1>3. CASE ~attempt
  <2>1. ndefers' = 0 /\ attempt' = attempt
    BY <1>1, <1>3 DEF DeferStop
  <2>2. Idles
    BY <1>1, <1>3, <2>1 DEF DeferStop, Idles, SleepersSame, Deferral
  <2> QED BY <2>2 DEF Sorted
<1> QED BY <1>2, <1>3

(* resched and nothing else. *)
LEMMA PlainStep ==
    ASSUME IInv, NEW slice \in Int, ReschedWith(slice, ndefers, readylist, prstate, qkey),
           sleepq' = sleepq, remain' = remain
    PROVE  Sorted
<1>1. Rescheds(slice, ndefers)
  BY DEF Rescheds, SleepersSame
<1> QED BY <1>1, Types DEF Sorted

(* send. *)
LEMMA SendSorted ==
    ASSUME IInv, NEW r \in Pid, SendTo(r)
    PROVE  Sorted
<1>1. CASE UNCHANGED <<sched, prhasmsg, sleepq, remain>>
  BY <1>1, IdleStep
<1>2. CASE ~(prstate[r] = "FREE" \/ prhasmsg[r])
  <2>1. prhasmsg'[r]
    BY <1>2, Types DEF SendTo
  <2>2. CASE prstate[r] = "RECV"
    <3>1. Wakes(r)
      BY <1>2, <2>1, <2>2 DEF SendTo, Wakes, SleepersSame
    <3> QED BY <3>1 DEF Sorted
  <2>3. CASE prstate[r] = "RECTIM"
    <3>1. remain' = [remain EXCEPT ![r] = 0] /\ sleepq' = GetItem(sleepq, r)
          /\ Ready(r, readylist, prstate, UnsleepKeys(sleepq, qkey, r))
      BY <1>2, <2>3 DEF SendTo
    <3>2. \A x \in SleepProcs(prstate) : x # r => remain'[x] = remain[x]
      BY <3>1, Types DEF SleepProcs
    <3>3. GetsMessage(r)
      BY <2>1, <2>3, <3>1, <3>2 DEF GetsMessage
    <3> QED BY <3>3 DEF Sorted
  <2>4. CASE prstate[r] # "RECV" /\ prstate[r] # "RECTIM"
    <3>1. UNCHANGED <<sched, sleepq, remain>>
      BY <1>2, <2>4 DEF SendTo
    <3> QED BY <3>1, IdleStep
  <2> QED BY <2>2, <2>3, <2>4
<1> QED BY <1>1, <1>2 DEF SendTo

(* A waiting process is released. *)
LEMMA SignalSorted ==
    ASSUME IInv, NEW s \in Sem, ~InReset(s) \/ squeue[s] # <<>>,
           Ready(Head(squeue[s]), readylist, prstate, qkey), scount[s] < 0 \/ squeue[s] # <<>>,
           sleepq' = sleepq, remain' = remain
    PROVE  Sorted
<1>1. squeue[s] # <<>>
  <2>1. CASE ~InReset(s) /\ scount[s] < 0
    <3>1. Len(squeue[s]) = -scount[s]
      BY <2>1 DEF IInv, SemCount
    <3>2. scount[s] \in Int
      BY TakeApart DEF OtherTypes
    <3>3. Len(squeue[s]) # 0
      BY <2>1, <3>1, <3>2
    <3> QED BY <3>3
  <2> QED BY <2>1
<1>2. squeue[s] \in Seq(Pid) /\ OnQueue(squeue[s], WaitProcs(prstate, prsem, s))
  BY TakeApart DEF Queues, QueuesAgree
<1>3. Head(squeue[s]) \in WaitProcs(prstate, prsem, s) /\ Head(squeue[s]) \in Pid
  BY <1>1, <1>2, TailOnQueue
<1>4. prstate[Head(squeue[s])] = "WAIT"
  BY <1>3 DEF WaitProcs
<1>5. Wakes(Head(squeue[s]))
  BY <1>4 DEF Wakes, SleepersSame
<1> QED BY <1>3, <1>5 DEF Sorted

(* The clock handler's count-down of the time slice. *)
LEMMA CountDownSorted ==
    ASSUME IInv, CountDown(qkey), sleepq' = sleepq, remain' = remain
    PROVE  Sorted
<1>1. CASE preempt - 1 = 0
  <2>1. ReschedWith(QUANTUM, ndefers, readylist, prstate, qkey)
    BY <1>1 DEF CountDown
  <2>2. QUANTUM \in Int
    BY QUANTUMAssumption
  <2> QED BY <2>1, <2>2, PlainStep
<1>2. CASE preempt - 1 # 0
  <2>1. Idles
    BY <1>2 DEF CountDown, Idles, SleepersSame, Deferral
  <2> QED BY <2>1 DEF Sorted
<1> QED BY <1>1, <1>2

(* A semaphore call. *)
LEMMA SemSorted ==
    ASSUME IInv, SemStep
    PROVE  Sorted
<1>1. ASSUME NEW s \in Sem, Wait(s) PROVE Sorted
  <2>1. Interruptible /\ currpid # NULLPROC /\ sleepq' = sleepq /\ remain' = remain
    BY <1>1 DEF Wait, Calling
  <2>2. CASE UNCHANGED sched
    BY <2>1, <2>2, IdleStep
  <2>3. CASE Block("WAIT")
    <3>1. Leaves("WAIT")
      BY <2>1, <2>3, UserMode DEF Leaves, Block, Resched, Put, SleepersSame
    <3> QED BY <3>1 DEF Sorted
  <2> QED BY <1>1, <2>2, <2>3 DEF Wait
<1>2. ASSUME NEW s \in Sem, Signal(s) PROVE Sorted
  <2>1. Interruptible /\ SignalOnce(s) /\ sleepq' = sleepq /\ remain' = remain
    BY <1>2 DEF Signal, Signalling
  <2>2. ~InReset(s)
    BY <2>1, UserMode, NoLoop
  <2> QED BY <2>1, <2>2, IdleStep, SignalSorted DEF SignalOnce
<1>3. ASSUME NEW s \in Sem, SemDelete(s) PROVE Sorted
  BY <1>3, StartStep DEF SemDelete, Calling
<1>4. ASSUME NEW s \in Sem, NEW n \in Counts, SignalN(s, n) PROVE Sorted
  BY <1>4, StartStep DEF SignalN, Signalling
<1>5. ASSUME NEW s \in Sem, NEW n \in Counts, SemReset(s, n) PROVE Sorted
  BY <1>5, StartStep DEF SemReset, Calling
<1>6. ASSUME NEW n \in Counts, SemCreate(n) PROVE Sorted
  BY <1>6, IdleStep DEF SemCreate
<1> QED BY <1>1, <1>2, <1>3, <1>4, <1>5, <1>6 DEF SemStep

(* The current process gives up the processor. *)
LEMMA LeaveSorted ==
    ASSUME IInv, cont[currpid] \notin Deferring, currpid # NULLPROC,
           NEW st \in {"WAIT", "RECV", "SUSP"}, Block(st), sleepq' = sleepq, remain' = remain
    PROVE  Sorted
<1>1. Leaves(st)
  BY NoLoop DEF Leaves, Block, Resched, Put, SleepersSame
<1> QED BY <1>1 DEF Sorted

(* It goes to sleep. *)
LEMMA SleepSorted ==
    ASSUME IInv, Interruptible, currpid # NULLPROC, NEW delay \in Int, NEW asked \in Int,
           NEW st \in {"SLEEP", "RECTIM"}, SleepFor(delay, st), Asks(delay, asked, st),
           remain' = [remain EXCEPT ![currpid] = asked]
    PROVE  Sorted
<1>1. FallsAsleep(delay, asked, st)
  BY UserMode DEF FallsAsleep
<1> QED BY <1>1 DEF Sorted

(* A delay is an integer for sleepms, too. *)
LEMMA AsInt32Type ==
    ASSUME NEW d \in Delays
    PROVE  d \in Int /\ AsInt32(d) \in Int
<1>1. d \in Int
  BY DelaysAssumption
<1>2. 2^IntBits \in Int
  BY IntBitsAssumption
<1> QED BY <1>1, <1>2 DEF AsInt32

(* A call about processes or messages. *)
LEMMA ProcSorted ==
    ASSUME IInv, ProcStep
    PROVE  Sorted
<1>1. ASSUME NEW p \in Pid, Send(p) PROVE Sorted
  BY <1>1, SendSorted DEF Send
<1>2. ASSUME NEW p \in Pid, Suspend(p) PROVE Sorted
  <2>1. /\ Interruptible /\ currpid # NULLPROC /\ sleepq' = sleepq /\ remain' = remain
        /\ cont' = cont
    BY <1>2 DEF Suspend, Calling, kvars
  <2>2. CASE prstate[p] = "READY"
    <3>1. p # currpid
      BY <2>2, Types
    <3>2. /\ readylist' = GetItem(readylist, p) /\ prstate' = Put(prstate, p, "SUSP")
          /\ UNCHANGED <<currpid, qkey, ndefers, attempt>>
      BY <1>2, <2>2 DEF Suspend, Put
    <3>3. Retires(p, "SUSP")
      BY <2>1, <2>2, <3>1, <3>2 DEF Retires, SleepersSame
    <3> QED BY <3>3 DEF Sorted
  <2>3. CASE prstate[p] = "CURR"
    <3>1. p = currpid
      BY <2>3, Types
    <3>2. Block("SUSP")
      BY <1>2, <2>3, <3>1 DEF Suspend, Block
    <3> QED BY <2>1, <3>2, UserMode, LeaveSorted
  <2> QED BY <1>2, <2>2, <2>3 DEF Suspend
<1>3. ASSUME NEW p \in Pid, Resume(p) PROVE Sorted
  <2>1. Wakes(p)
    BY <1>3 DEF Resume, Wakes, SleepersSame
  <2> QED BY <2>1 DEF Sorted
<1>4. ASSUME NEW p \in Pid, Kill(p) PROVE Sorted
  <2>1. CASE UNCHANGED <<sched, sleepq, remain>>
    BY <2>1, IdleStep
  <2>2. CASE SendTo(prparent[p])
    <3>1. prparent[p] \in Pid
      BY TakeApart DEF OtherTypes
    <3> QED BY <2>2, <3>1, SendSorted
  <2> QED BY <1>4, <2>1, <2>2 DEF Kill
<1>5. ASSUME NEW p \in Pid, NEW prio \in Prios, ChPrio(p, prio) PROVE Sorted
  BY <1>5, IdleStep DEF ChPrio
<1>6. ASSUME NEW prio \in Prios, Create(prio) PROVE Sorted
  <2>1. NewPid \in Pid /\ prstate[NewPid] = "FREE"
    BY <1>6, NewPidFree DEF Create
  <2>2. /\ UNCHANGED <<currpid, readylist, qkey, ndefers, attempt, cont>>
        /\ sleepq' = sleepq /\ remain' = remain
    BY <1>6 DEF Create, kvars
  <2>3. CASE prstate' = prstate
    <3>1. Idles
      BY <2>2, <2>3 DEF Idles, SleepersSame, Deferral
    <3> QED BY <3>1 DEF Sorted
  <2>4. CASE prstate' = [prstate EXCEPT ![NewPid] = "SUSP"]
    <3>1. NewPid # currpid
      BY <2>1, Types
    <3>2. prstate' = Put(prstate, NewPid, "SUSP")
      BY <2>4 DEF Put
    <3>3. Retires(NewPid, "SUSP")
      BY <2>1, <2>2, <3>1, <3>2 DEF Retires, SleepersSame
    <3> QED BY <2>1, <3>3 DEF Sorted
  <2> QED BY <1>6, <2>3, <2>4 DEF Create
<1>7. CASE Receive
  <2>1. /\ Interruptible /\ currpid # NULLPROC /\ sleepq' = sleepq /\ remain' = remain
    BY <1>7 DEF Receive, Calling
  <2>2. CASE UNCHANGED sched
    BY <2>1, <2>2, IdleStep
  <2>3. CASE Block("RECV")
    BY <2>1, <2>3, UserMode, LeaveSorted
  <2> QED BY <1>7, <2>2, <2>3 DEF Receive
<1>8. CASE RecvClr
  BY <1>8, IdleStep DEF RecvClr
<1>9. CASE Yield
  BY <1>9, PlainStep, Types DEF Yield, Resched
<1>10. ASSUME NEW w \in Waits, ReceiveTimed(w) PROVE Sorted
  <2>1. Interruptible /\ currpid # NULLPROC /\ w >= 0 /\ w \in Int
    BY <1>10, WaitsAssumption DEF ReceiveTimed, Calling
  <2>2. CASE UNCHANGED <<sched, sleepq, remain>>
    BY <2>2, IdleStep
  <2>3. CASE SleepFor(w, "RECTIM") /\ remain' = [remain EXCEPT ![currpid] = w]
    <3>1. Asks(w, w, "RECTIM")
      BY <2>1 DEF Asks
    <3> QED BY <2>1, <2>3, <3>1, SleepSorted
  <2> QED BY <1>10, <2>2, <2>3 DEF ReceiveTimed
<1>11. ASSUME NEW d \in Delays, SleepMs(d) PROVE Sorted
  <2>1. Interruptible /\ currpid # NULLPROC
    BY <1>11 DEF SleepMs, Calling
  <2>2. CASE d = 0
    BY <1>11, <2>2, PlainStep, Types DEF SleepMs, Resched
  <2>3. CASE d # 0
    <3>1. SleepFor(AsInt32(d), "SLEEP") /\ remain' = [remain EXCEPT ![currpid] = d]
      BY <1>11, <2>3 DEF SleepMs
    <3>2. Asks(AsInt32(d), d, "SLEEP")
      BY <1>11, <2>3 DEF Asks
    <3> QED BY <2>1, <3>1, <3>2, SleepSorted, AsInt32Type
  <2> QED BY <2>2, <2>3
<1> QED BY <1>1, <1>2, <1>3, <1>4, <1>5, <1>6, <1>7, <1>8, <1>9, <1>10, <1>11 DEF ProcStep

(* The end of kill. *)
LEMMA KillEndSorted ==
    ASSUME IInv, KillEnd
    PROVE  Sorted
<1> DEFINE p == karg[currpid]
<1>1. /\ cont[currpid] = "kill" /\ p \in Pid /\ p # NULLPROC
  BY Types DEF KillEnd, Continuing, IInv, PendingCalls
<1>2. cont'[p] = "user" /\ \A x \in Pid : x # p => remain'[x] = remain[x]
  BY <1>1, Types DEF KillEnd
<1>3. CASE prstate[p] = "CURR"
  <2>1. p = currpid
    BY <1>1, <1>3, Types
  <2>2. KillSelf(p)
    BY <1>3 DEF KillEnd
  <2>3. ReschedWith(preempt, ndefers, readylist, Put(prstate, currpid, "FREE"), qkey) /\ sleepq' = sleepq
    BY <2>1, <2>2 DEF KillSelf, Resched, Put
  <2>4. ndefers = 0
    BY <1>1, NoLoop DEF Deferring
  <2>5. SleepersSame
    BY <1>2, <1>3, <2>3 DEF SleepersSame, SleepProcs
  <2>6. Leaves("FREE")
    BY <1>1, <1>2, <2>1, <2>3, <2>4, <2>5 DEF Leaves
  <2> QED BY <2>6 DEF Sorted
<1>4. CASE prstate[p] \in {"SLEEP", "RECTIM"}
  <2>1. KillAsleep(p)
    BY <1>4 DEF KillEnd
  <2>2. DiesAsleep(p)
    BY <1>2, <1>4, <2>1 DEF KillAsleep, DiesAsleep, Freed, StaysOn, Put, SleepProcs
  <2> QED BY <1>1, <2>2 DEF Sorted
<1>5. CASE prstate[p] \in {"FREE", "READY", "RECV", "SUSP", "WAIT"}
  <2>1. p # currpid
    BY <1>5, Types
  <2>2. /\ prstate' = Put(prstate, p, "FREE") /\ sleepq' = sleepq
        /\ UNCHANGED <<currpid, qkey, ndefers, attempt>>
        /\ readylist' = IF prstate[p] = "READY" THEN GetItem(readylist, p) ELSE readylist
    <3>1. CASE prstate[p] = "WAIT"
      <4>1. KillWaiting(p)
        BY <3>1 DEF KillEnd
      <4> QED BY <3>1, <4>1 DEF KillWaiting, Freed, StaysOn, Put
    <3>2. CASE prstate[p] = "READY"
      <4>1. KillReady(p)
        BY <3>2 DEF KillEnd
      <4> QED BY <3>2, <4>1 DEF KillReady, Freed, StaysOn, Put
    <3>3. CASE prstate[p] \in {"FREE", "RECV", "SUSP"}
      <4>1. KillUnqueued(p)
        BY <3>3 DEF KillEnd
      <4> QED BY <3>3, <4>1 DEF KillUnqueued, Freed, StaysOn, Put
    <3> QED BY <1>5, <3>1, <3>2, <3>3
  <2>3. SleepersSame
    BY <1>2, <1>5, <2>2 DEF SleepersSame, SleepProcs
  <2>4. Retires(p, "FREE")
    BY <1>2, <1>5, <2>1, <2>2, <2>3 DEF Retires
  <2> QED BY <1>1, <2>4 DEF Sorted
<1>6. prstate[p] \in States
  BY <1>1, Types
<1> QED BY <1>3, <1>4, <1>5, <1>6 DEF States

(* A step inside the kernel. *)
LEMMA KernelSorted ==
    ASSUME IInv, KernelStep
    PROVE  Sorted
<1>0. cont[currpid] \in {"signaln", "semdelete", "semreset"} => karg[currpid] \in Sem
  BY Types DEF IInv, PendingCalls
<1>1. CASE SignalNLoop
  <2>1. /\ cont[currpid] = "signaln" /\ SignalOnce(karg[currpid]) /\ sleepq' = sleepq
        /\ remain' = remain
    BY <1>1 DEF SignalNLoop, Continuing
  <2>2. karg[currpid] \in Sem /\ ~InReset(karg[currpid])
    BY <1>0, <2>1 DEF InReset
  <2> QED BY <2>1, <2>2, IdleStep, SignalSorted DEF SignalOnce
<1>2. CASE SignalNEnd
  BY <1>2, StopStep DEF SignalNEnd, Continuing, Deferring
<1>3. CASE SemDeleteLoop
  <2>1. /\ cont[currpid] = "semdelete" /\ SignalOnce(karg[currpid]) /\ sleepq' = sleepq
        /\ remain' = remain
    BY <1>3 DEF SemDeleteLoop, Continuing
  <2>2. karg[currpid] \in Sem /\ ~InReset(karg[currpid])
    BY <1>0, <2>1 DEF InReset
  <2> QED BY <2>1, <2>2, IdleStep, SignalSorted DEF SignalOnce
<1>4. CASE SemDeleteEnd
  BY <1>4, StopStep DEF SemDeleteEnd, Continuing, Deferring
<1>5. CASE SemResetLoop
  <2>1. karg[currpid] \in Sem
    BY <1>0, <1>5 DEF SemResetLoop, Continuing
  <2> QED BY <1>5, <2>1, SignalSorted DEF SemResetLoop
<1>6. CASE SemResetEnd
  BY <1>6, StopStep DEF SemResetEnd, Continuing, Deferring
<1>7. CASE ReceiveEnd
  BY <1>7, IdleStep DEF ReceiveEnd
<1>8. CASE KillEnd
  BY <1>8, KillEndSorted
<1>9. CASE WakeupLoop
  <2>1. /\ Expired /\ sleepq' = Tail(sleepq) /\ Ready(Head(sleepq), readylist, prstate, qkey)
        /\ remain' = [remain EXCEPT ![Head(sleepq)] = 0]
        /\ cont[currpid] = "wakeup" /\ cont' = cont
    BY <1>9 DEF WakeupLoop, Continuing, kvars
  <2>2. \A x \in SleepProcs(prstate) : x # Head(sleepq) => remain'[x] = remain[x]
    BY <2>1, Types DEF SleepProcs
  <2> QED BY <2>1, <2>2 DEF Sorted, TimesOut
<1>10. CASE WakeupEnd
  BY <1>10, StopStep DEF WakeupEnd, Continuing, Deferring
<1>11. CASE ClkHandlerEnd
  BY <1>11, CountDownSorted DEF ClkHandlerEnd
<1> QED BY <1>1, <1>2, <1>3, <1>4, <1>5, <1>6, <1>7, <1>8, <1>9, <1>10, <1>11 DEF KernelStep

(* The clock interrupt. *)
LEMMA ClockSorted ==
    ASSUME IInv, ClockStep
    PROVE  Sorted
<1>1. CASE Tick
  <2>1. Interruptible /\ ~WakesUp /\ sleepq' = sleepq /\ remain' = TickedRemain
    BY <1>1 DEF Tick
  <2>2. CASE Platform = "arm-qemu"
    <3>1. ReschedWith(preempt, ndefers, readylist, prstate, TickedKeys) /\ preempt \in Int
      BY <1>1, <2>2, Types DEF Tick, Resched
    <3>2. Ticks
      BY <2>1, <3>1 DEF Ticks
    <3> QED BY <3>2 DEF Sorted
  <2>3. CASE Platform # "arm-qemu" /\ preempt - 1 = 0
    <3>1. ReschedWith(QUANTUM, ndefers, readylist, prstate, TickedKeys) /\ QUANTUM \in Int
      BY <1>1, <2>3, QUANTUMAssumption DEF Tick, CountDown
    <3>2. Ticks
      BY <2>1, <3>1 DEF Ticks
    <3> QED BY <3>2 DEF Sorted
  <2>4. CASE Platform # "arm-qemu" /\ preempt - 1 # 0
    <3>1. Ticks
      BY <1>1, <2>1, <2>4 DEF Ticks, Tick, CountDown, Deferral
    <3> QED BY <3>1 DEF Sorted
  <2> QED BY <2>2, <2>3, <2>4
<1>2. CASE TickWakeup
  <2>1. /\ Interruptible /\ ndefers' = ndefers + 1 /\ attempt' = (attempt /\ ndefers # 0)
        /\ UNCHANGED <<currpid, prstate, readylist>> /\ qkey' = TickedKeys
        /\ sleepq' = sleepq /\ remain' = TickedRemain
        /\ cont' = [cont EXCEPT ![currpid] = "wakeup"]
    BY <1>2 DEF TickWakeup, Then
  <2>2. ndefers = 0
    BY <2>1, UserMode
  <2>3. ~attempt'
    BY <2>1, <2>2, Zenon
  <2>4. ndefers' = 1 /\ cont'[currpid] = "wakeup"
    BY <2>1, <2>2, Types
  <2>5. Ticks
    BY <2>1, <2>2, <2>3, <2>4 DEF Ticks, Deferral
  <2> QED BY <2>5 DEF Sorted
<1> QED BY <1>1, <1>2 DEF ClockStep

(* Every step is of one of the sorts. *)
LEMMA NextSorted ==
    ASSUME IInv, [Next]_vars
    PROVE  Sorted
<1>1. CASE UNCHANGED vars
  BY <1>1, IdleStep DEF vars
<1> QED BY <1>1, SemSorted, ProcSorted, KernelSorted, ClockSorted DEF Next, Halt

-----------------------------------------------------------------------------
(***************************************************************************)
(* The ready list in the order of priorities.                              *)
(***************************************************************************)
(* The keys on the list are the priorities, and they do not go up. *)
Ranked(rl, k, pr) ==
    /\ \A i \in 1 .. Len(rl) : k[rl[i]] = pr[rl[i]]
    /\ \A i, j \in 1 .. Len(rl) : i < j => pr[rl[i]] >= pr[rl[j]]

(* Only the keys and priorities of the members matter. *)
LEMMA RankedSame ==
    ASSUME NEW P, NEW rl \in Seq(P), NEW S, OnQueue(rl, S),
           NEW k, NEW pr, Ranked(rl, k, pr), NEW l, NEW qr,
           \A x \in S : l[x] = k[x] /\ qr[x] = pr[x]
    PROVE  Ranked(rl, l, qr)
<1>1. \A i \in 1 .. Len(rl) : rl[i] \in S
  BY DEF OnQueue, ToSet
<1> QED BY <1>1 DEF Ranked

(* The head outranks the others, which stay in order. *)
LEMMA RankedTail ==
    ASSUME NEW P, NEW rl \in Seq(P), NEW S, OnQueue(rl, S), rl # <<>>,
           NEW k, NEW pr \in [P -> Int], Ranked(rl, k, pr)
    PROVE  /\ Ranked(Tail(rl), k, pr)
           /\ k[Head(rl)] = pr[Head(rl)]
           /\ \A x \in S : pr[x] <= pr[Head(rl)]
<1>1. Len(rl) \in Nat \ {0} /\ Head(rl) = rl[1] /\ \A i \in 1 .. Len(rl) : rl[i] \in P
  OBVIOUS
<1>2. Len(Tail(rl)) = Len(rl) - 1 /\ \A i \in 1 .. Len(rl) - 1 : Tail(rl)[i] = rl[i+1]
  BY HeadTailProperties
<1>3. Ranked(Tail(rl), k, pr)
  BY <1>1, <1>2 DEF Ranked
<1>4. \A x \in S : pr[x] <= pr[Head(rl)]
  <2>1. TAKE x \in S
  <2>2. PICK i \in 1 .. Len(rl) : rl[i] = x
    BY DEF OnQueue, ToSet
  <2>3. CASE i = 1
    BY <1>1, <2>2, <2>3
  <2>4. CASE i # 1
    BY <1>1, <2>2, <2>4 DEF Ranked
  <2> QED BY <2>3, <2>4
<1> QED BY <1>1, <1>3, <1>4 DEF Ranked

(* insert with the process's priority as its key keeps the order. *)
LEMMA RankedInsert ==
    ASSUME NEW P, NEW rl \in Seq(P), NEW S, OnQueue(rl, S), NEW p \in P, p \notin S,
           NEW k \in [P -> Int], NEW pr \in [P -> Int], Ranked(rl, k, pr)
    PROVE  Ranked(Insert(rl, k, p, pr[p]), [k EXCEPT ![p] = pr[p]], pr)
<1> DEFINE L == Len(rl)
           pos == InsertPos(rl, k, pr[p])
           r == Insert(rl, k, p, pr[p])
           l == [k EXCEPT ![p] = pr[p]]
           T == {i \in 1 .. L + 1 : i = L + 1 \/ k[rl[i]] < pr[p]}
<1>1. L \in Nat /\ \A i \in 1 .. L : rl[i] \in P /\ rl[i] \in S /\ rl[i] # p
  BY DEF OnQueue, ToSet
<1>2. T \in SUBSET Nat /\ L + 1 \in T
  BY <1>1
<1>3. pos \in T /\ \A y \in T : pos <= y
  BY <1>2, MinOfNats DEF InsertPos
<1>4. pos \in 1 .. L + 1 /\ (pos = L + 1 \/ k[rl[pos]] < pr[p])
  BY <1>3
<1>5. \A i \in 1 .. L : i < pos => k[rl[i]] >= pr[p]
  <2>1. TAKE i \in 1 .. L
  <2>2. HAVE i < pos
  <2> HIDE DEF pos
  <2>3. i \notin T
    BY <1>1, <1>3, <1>4, <2>2
  <2>4. k[rl[i]] \in Int /\ pr[p] \in Int /\ i \in 1 .. L + 1
    BY <1>1
  <2> QED BY <2>3, <2>4
<1>0. r = InsertAt(rl, pos, p)
  BY DEF Insert
<1> HIDE DEF pos, T, L, r
<1>6. Len(r) = L + 1 /\ \A j \in 1 .. L + 1 : r[j] = IF j < pos THEN rl[j] ELSE IF j = pos THEN p ELSE rl[j-1]
  <2>1. pos \in 1 .. Len(rl) + 1
    BY <1>4 DEF L
  <2>2. /\ Len(InsertAt(rl, pos, p)) = Len(rl) + 1
        /\ \A j \in 1 .. Len(rl) + 1 :
              InsertAt(rl, pos, p)[j] = IF j < pos THEN rl[j] ELSE IF j = pos THEN p ELSE rl[j-1]
    BY <2>1, InsertAtProp
  <2> QED BY <1>0, <2>2 DEF L
<1>7. l[p] = pr[p] /\ \A i \in 1 .. L : l[rl[i]] = k[rl[i]]
  BY <1>1
<1>8. /\ \A i \in 1 .. L : k[rl[i]] = pr[rl[i]]
      /\ \A i, j \in 1 .. L : i < j => pr[rl[i]] >= pr[rl[j]]
  BY DEF Ranked, L
<1> HIDE DEF l
<1>9. \A i \in 1 .. L : i >= pos => pr[rl[i]] < pr[p]
  <2>1. TAKE i \in 1 .. L
  <2>2. HAVE i >= pos
  <2>3. pos \in 1 .. L /\ pr[rl[pos]] < pr[p]
    BY <1>1, <1>4, <1>8, <2>2
  <2>4. pr[rl[i]] <= pr[rl[pos]] /\ pr[rl[i]] \in Int /\ pr[rl[pos]] \in Int
    BY <1>1, <1>4, <1>8, <2>2, <2>3
  <2> QED BY <2>3, <2>4
<1>10. \A i \in 1 .. L + 1 : l[r[i]] = pr[r[i]]
  <2>1. TAKE i \in 1 .. L + 1
  <2>2. CASE i < pos
    BY <1>1, <1>4, <1>6, <1>7, <1>8, <2>2
  <2>3. CASE i = pos
    BY <1>6, <1>7, <2>3
  <2>4. CASE i > pos
    <3>1. i - 1 \in 1 .. L /\ r[i] = rl[i-1]
      BY <1>1, <1>4, <1>6, <2>4
    <3> QED BY <1>7, <1>8, <3>1
  <2> QED BY <1>1, <1>4, <2>2, <2>3, <2>4
<1>11. \A i, j \in 1 .. L + 1 : i < j => pr[r[i]] >= pr[r[j]]
  <2>1. TAKE i, j \in 1 .. L + 1
  <2>2. HAVE i < j
  <2>3. CASE j < pos
    BY <1>1, <1>4, <1>6, <1>8, <2>2, <2>3
  <2>4. CASE j = pos
    <3>1. i \in 1 .. L /\ r[i] = rl[i] /\ r[j] = p
      BY <1>1, <1>4, <1>6, <2>2, <2>4
    <3> QED BY <1>5, <1>8, <2>2, <2>4, <3>1
  <2>5. CASE j > pos
    <3>1. j - 1 \in 1 .. L /\ r[j] = rl[j-1] /\ j - 1 >= pos
      BY <1>1, <1>4, <1>6, <2>5
    <3>2. pr[rl[j-1]] < pr[p] /\ pr[rl[j-1]] \in Int
      BY <1>1, <1>9, <3>1
    <3>3. CASE i = pos
      <4>1. r[i] = p
        BY <1>6, <3>3
      <4> QED BY <3>1, <3>2, <4>1
    <3>4. CASE i < pos
      <4>1. i \in 1 .. L /\ r[i] = rl[i] /\ i < j - 1
        BY <1>1, <1>4, <1>6, <2>2, <2>5, <3>4
      <4> QED BY <1>8, <3>1, <4>1
    <3>5. CASE i > pos
      <4>1. i - 1 \in 1 .. L /\ r[i] = rl[i-1] /\ i - 1 < j - 1
        BY <1>1, <1>4, <1>6, <2>2, <2>5, <3>5
      <4> QED BY <1>8, <3>1, <4>1
    <3> QED BY <1>4, <3>3, <3>4, <3>5
  <2> QED BY <1>4, <2>3, <2>4, <2>5
<1>12. Ranked(r, l, pr)
  BY <1>6, <1>10, <1>11 DEF Ranked
<1> QED BY <1>12 DEF r, l

(* getitem keeps the order. *)
LEMMA RankedRemove ==
    ASSUME NEW P, NEW rl \in Seq(P), NEW S, OnQueue(rl, S), NEW p \in S,
           NEW k, NEW pr \in [P -> Int], Ranked(rl, k, pr)
    PROVE  Ranked(GetItem(rl, p), k, pr)
<1> DEFINE pos == PosOf(rl, p)
           r == GetItem(rl, p)
<1>1. pos \in 1 .. Len(rl) /\ Len(rl) \in Nat
  <2>1. PosOf(rl, p) \in 1 .. Len(rl)
    BY GetItemOnQueue
  <2> QED BY <2>1
<1> HIDE DEF pos
<1>2. Len(r) = Len(rl) - 1 /\ \A j \in 1 .. Len(rl) - 1 : r[j] = IF j < pos THEN rl[j] ELSE rl[j+1]
  BY <1>1, RemoveAtProp DEF GetItem, pos
<1> HIDE DEF r
<1>3. \A j \in 1 .. Len(rl) - 1 :
         LET u == IF j < pos THEN j ELSE j + 1 IN u \in 1 .. Len(rl) /\ r[j] = rl[u]
  BY <1>1, <1>2
<1>4. \A i, j \in 1 .. Len(rl) - 1 : i < j => pr[r[i]] >= pr[r[j]]
  <2>1. TAKE i, j \in 1 .. Len(rl) - 1
  <2>2. HAVE i < j
  <2> DEFINE u == IF i < pos THEN i ELSE i + 1
             v == IF j < pos THEN j ELSE j + 1
  <2>3. u \in 1 .. Len(rl) /\ v \in 1 .. Len(rl) /\ u < v /\ r[i] = rl[u] /\ r[j] = rl[v]
    BY <1>1, <1>2, <2>2, SMTT(30)
  <2> HIDE DEF u, v
  <2> QED BY <2>3 DEF Ranked
<1>5. \A i \in 1 .. Len(rl) - 1 : k[r[i]] = pr[r[i]]
  BY <1>3 DEF Ranked
<1> QED BY <1>2, <1>4, <1>5 DEF Ranked, r

-----------------------------------------------------------------------------
(***************************************************************************)
(* What resched does with the states, the keys and the order it is given.  *)
(***************************************************************************)
(* resched may be called with these states and this ready list. *)
Fit(rl, ps, k) ==
    /\ rl \in Seq(Pid) /\ ps \in [Pid -> States] /\ k \in [Pid -> Int]
    /\ OnQueue(rl, ReadyProcs(ps))
    /\ ps[NULLPROC] \in {"CURR", "READY"}
    /\ \A x \in Pid : ps[x] = "CURR" => x = currpid
    /\ ps[currpid] # "READY"

(* A process that is not dispatched or preempted keeps its state and key. *)
Frame(ps, k) ==
    /\ \A x \in Pid : ps[x] # "CURR" => qkey'[x] = k[x]
    /\ \A x \in Pid : prstate'[x] = ps[x] \/ {ps[x], prstate'[x]} \subseteq {"CURR", "READY"}

(* After a switch, the process that was first in line runs. *)
LEMMA SwitchFrame ==
    ASSUME NEW rl \in Seq(Pid), NEW ps \in [Pid -> States], NEW k \in [Pid -> Int],
           OnQueue(rl, ReadyProcs(ps)), rl # <<>>, SwitchTo(rl, ps, k)
    PROVE  /\ qkey' = k
           /\ \A x \in Pid : prstate'[x] = ps[x] \/ (ps[x] = "READY" /\ prstate'[x] = "CURR")
           /\ currpid' = Head(rl) /\ readylist' = Tail(rl) /\ Head(rl) \in ReadyProcs(ps)
<1>1. Head(rl) \in ReadyProcs(ps) /\ Head(rl) \in Pid
  BY TailOnQueue
<1>2. /\ currpid' = Head(rl) /\ readylist' = Tail(rl) /\ qkey' = k
      /\ prstate' = [ps EXCEPT ![Head(rl)] = "CURR"]
  BY DEF SwitchTo
<1>3. ps[Head(rl)] = "READY"
  BY <1>1 DEF ReadyProcs
<1> QED BY <1>1, <1>2, <1>3

(* The current process, put back on the ready list before a switch. *)
LEMMA Requeue ==
    ASSUME IInv, NEW rl, NEW ps, NEW k, Fit(rl, ps, k), ps[currpid] = "CURR"
    PROVE  LET r == Insert(rl, k, currpid, prprio[currpid])
               s == [ps EXCEPT ![currpid] = "READY"]
               l == [k EXCEPT ![currpid] = prprio[currpid]]
           IN  /\ r \in Seq(Pid) /\ s \in [Pid -> States] /\ l \in [Pid -> Int]
               /\ OnQueue(r, ReadyProcs(s)) /\ r # <<>>
<1>1. /\ rl \in Seq(Pid) /\ ps \in [Pid -> States] /\ k \in [Pid -> Int]
      /\ OnQueue(rl, ReadyProcs(ps)) /\ currpid \in Pid /\ prprio \in [Pid -> Int]
  BY Types DEF Fit
<1>2. currpid \notin ReadyProcs(ps)
  BY DEF ReadyProcs
<1> DEFINE r == Insert(rl, k, currpid, prprio[currpid])
           s == [ps EXCEPT ![currpid] = "READY"]
           l == [k EXCEPT ![currpid] = prprio[currpid]]
<1>3. r \in Seq(Pid) /\ r # <<>> /\ OnQueue(r, ReadyProcs(ps) \cup {currpid})
  BY <1>1, <1>2, InsertOnQueue
<1>4. s \in [Pid -> States] /\ l \in [Pid -> Int]
  BY <1>1 DEF States
<1>5. ReadyProcs(s) = ReadyProcs(ps) \cup {currpid}
  BY <1>1 DEF ReadyProcs
<1> HIDE DEF r, s, l
<1>6. /\ r \in Seq(Pid) /\ s \in [Pid -> States] /\ l \in [Pid -> Int]
      /\ OnQueue(r, ReadyProcs(s)) /\ r # <<>>
  BY <1>3, <1>4, <1>5
<1> QED BY <1>6 DEF r, s, l

(* A list with a ready process on it is not empty. *)
LEMMA NotEmpty ==
    ASSUME IInv, NEW rl, NEW ps, NEW k, Fit(rl, ps, k), ps[currpid] # "CURR"
    PROVE  rl # <<>>
<1>1. NULLPROC \in ReadyProcs(ps)
  BY Types DEF Fit, ReadyProcs
<1> QED BY <1>1 DEF Fit, OnQueue, ToSet

(* resched changes no more than the frame allows. *)
LEMMA ReschedFrame ==
    ASSUME IInv, NEW slice, NEW nd \in Nat, NEW rl, NEW ps, NEW k, Fit(rl, ps, k),
           ReschedWith(slice, nd, rl, ps, k)
    PROVE  /\ Frame(ps, k) /\ ndefers' = nd
           /\ nd > 0 => currpid' = currpid
<1> DEFINE eligible == ps[currpid] = "CURR"
           stays == nd > 0 \/ (eligible /\ ~Outranked(prprio[currpid], rl, k))
<1>0. ndefers' = nd
  BY DEF ReschedWith
<1>1. /\ rl \in Seq(Pid) /\ ps \in [Pid -> States] /\ k \in [Pid -> Int]
      /\ OnQueue(rl, ReadyProcs(ps)) /\ currpid \in Pid
  BY Types DEF Fit
<1>2. CASE stays
  <2>1. prstate' = ps /\ qkey' = k /\ currpid' = currpid
    BY <1>2 DEF ReschedWith, NoSwitch
  <2> QED BY <1>0, <2>1 DEF Frame
<1>3. CASE ~stays /\ eligible
  <2> DEFINE r == Insert(rl, k, currpid, prprio[currpid])
             s == [ps EXCEPT ![currpid] = "READY"]
             l == [k EXCEPT ![currpid] = prprio[currpid]]
  <2>1. SwitchTo(r, s, l)
    BY <1>3 DEF ReschedWith
  <2>2. /\ r \in Seq(Pid) /\ s \in [Pid -> States] /\ l \in [Pid -> Int]
        /\ OnQueue(r, ReadyProcs(s)) /\ r # <<>>
    BY <1>3, Requeue
  <2>3. /\ \A x \in Pid : s[x] = IF x = currpid THEN "READY" ELSE ps[x]
        /\ \A x \in Pid : x # currpid => l[x] = k[x]
    BY <1>1
  <2> HIDE DEF r, s, l
  <2>4. /\ qkey' = l
        /\ \A x \in Pid : prstate'[x] = s[x] \/ (s[x] = "READY" /\ prstate'[x] = "CURR")
    BY <2>1, <2>2, SwitchFrame
  <2> QED BY <1>0, <1>3, <2>3, <2>4 DEF Frame
<1>4. CASE ~stays /\ ~eligible
  <2>1. SwitchTo(rl, ps, k)
    BY <1>4 DEF ReschedWith
  <2>2. rl # <<>>
    BY <1>4, NotEmpty
  <2>3. /\ qkey' = k
        /\ \A x \in Pid : prstate'[x] = ps[x] \/ (ps[x] = "READY" /\ prstate'[x] = "CURR")
    BY <1>1, <2>1, <2>2, SwitchFrame
  <2> QED BY <1>0, <1>4, <2>3 DEF Frame
<1> QED BY <1>2, <1>3, <1>4

(* Nobody on the ready list outranks the current process. *)
Highest == \A p \in Pid : prstate[p] = "READY" => prprio[p] <= prprio[currpid]

(* Unless rescheduling is deferred, resched dispatches the highest. *)
LEMMA ReschedRanks ==
    ASSUME IInv, NEW slice, NEW nd \in Nat, NEW rl, NEW ps, NEW k, Fit(rl, ps, k),
           Ranked(rl, k, prprio), ReschedWith(slice, nd, rl, ps, k)
    PROVE  /\ Ranked(readylist', qkey', prprio)
           /\ nd = 0 => \A p \in Pid : prstate'[p] = "READY" => prprio[p] <= prprio[currpid']
           /\ nd > 0 => attempt'
           /\ currpid' \in Pid
<1> DEFINE eligible == ps[currpid] = "CURR"
           stays == nd > 0 \/ (eligible /\ ~Outranked(prprio[currpid], rl, k))
<1>0. nd > 0 => attempt'
  BY DEF ReschedWith
<1>1. /\ rl \in Seq(Pid) /\ ps \in [Pid -> States] /\ k \in [Pid -> Int]
      /\ OnQueue(rl, ReadyProcs(ps)) /\ currpid \in Pid /\ prprio \in [Pid -> Int]
  BY Types DEF Fit
<1>2. CASE stays
  <2>1. prstate' = ps /\ qkey' = k /\ currpid' = currpid /\ readylist' = rl
    BY <1>2 DEF ReschedWith, NoSwitch
  <2>2. ASSUME nd = 0, NEW p \in Pid, ps[p] = "READY" PROVE prprio[p] <= prprio[currpid]
    <3>1. p \in ReadyProcs(ps)
      BY <2>2 DEF ReadyProcs
    <3>2. rl # <<>>
      BY <1>1, <3>1 DEF OnQueue, ToSet
    <3>3. ~(prprio[currpid] <= k[Head(rl)])
      BY <1>2, <2>2, <3>2 DEF Outranked
    <3>4. k[Head(rl)] = prprio[Head(rl)] /\ prprio[p] <= prprio[Head(rl)] /\ Head(rl) \in Pid
      BY <1>1, <3>1, <3>2, RankedTail
    <3>5. prprio[Head(rl)] \in Int /\ prprio[p] \in Int /\ prprio[currpid] \in Int
      BY <1>1, <3>4
    <3> QED BY <3>3, <3>4, <3>5
  <2> QED BY <1>0, <1>1, <2>1, <2>2
<1>3. CASE ~stays /\ eligible
  <2> DEFINE r == Insert(rl, k, currpid, prprio[currpid])
             s == [ps EXCEPT ![currpid] = "READY"]
             l == [k EXCEPT ![currpid] = prprio[currpid]]
  <2>1. SwitchTo(r, s, l)
    BY <1>3 DEF ReschedWith
  <2>2. /\ r \in Seq(Pid) /\ s \in [Pid -> States] /\ l \in [Pid -> Int]
        /\ OnQueue(r, ReadyProcs(s)) /\ r # <<>>
    BY <1>3, Requeue
  <2>3. currpid \notin ReadyProcs(ps)
    BY <1>3 DEF ReadyProcs
  <2>4. Ranked(r, l, prprio)
    BY <1>1, <2>3, RankedInsert
  <2> HIDE DEF r, s, l
  <2>5. /\ qkey' = l /\ readylist' = Tail(r) /\ currpid' = Head(r) /\ Head(r) \in ReadyProcs(s)
        /\ \A x \in Pid : prstate'[x] = s[x] \/ (s[x] = "READY" /\ prstate'[x] = "CURR")
    BY <2>1, <2>2, SwitchFrame
  <2>6. Ranked(Tail(r), l, prprio) /\ \A x \in ReadyProcs(s) : prprio[x] <= prprio[Head(r)]
    BY <1>1, <2>2, <2>4, RankedTail
  <2>7. \A p \in Pid : prstate'[p] = "READY" => p \in ReadyProcs(s)
    BY <2>5 DEF ReadyProcs
  <2>8. Head(r) \in Pid
    BY <2>5 DEF ReadyProcs
  <2> QED BY <1>0, <2>5, <2>6, <2>7, <2>8
<1>4. CASE ~stays /\ ~eligible
  <2>1. SwitchTo(rl, ps, k)
    BY <1>4 DEF ReschedWith
  <2>2. rl # <<>>
    BY <1>4, NotEmpty
  <2>3. /\ qkey' = k /\ readylist' = Tail(rl) /\ currpid' = Head(rl) /\ Head(rl) \in ReadyProcs(ps)
        /\ \A x \in Pid : prstate'[x] = ps[x] \/ (ps[x] = "READY" /\ prstate'[x] = "CURR")
    BY <1>1, <2>1, <2>2, SwitchFrame
  <2>4. Ranked(Tail(rl), k, prprio) /\ \A x \in ReadyProcs(ps) : prprio[x] <= prprio[Head(rl)]
    BY <1>1, <2>2, RankedTail
  <2>5. \A p \in Pid : prstate'[p] = "READY" => p \in ReadyProcs(ps)
    BY <2>3 DEF ReadyProcs
  <2>6. Head(rl) \in Pid
    BY <2>3 DEF ReadyProcs
  <2> QED BY <1>0, <2>3, <2>4, <2>5, <2>6
<1> QED BY <1>2, <1>3, <1>4

(* The calls of resched that the sorts of steps make. *)
LEMMA FitSame ==
    ASSUME IInv, NEW k \in [Pid -> Int]
    PROVE  Fit(readylist, prstate, k)
BY Types DEF Fit

(* The current process is about to leave the processor. *)
LEMMA FitLeave ==
    ASSUME IInv, currpid # NULLPROC, NEW st \in States \ {"CURR", "READY"},
           NEW k \in [Pid -> Int]
    PROVE  Fit(readylist, Put(prstate, currpid, st), k)
<1> DEFINE ps == Put(prstate, currpid, st)
<1>1. ps \in [Pid -> States] /\ \A x \in Pid : ps[x] = IF x = currpid THEN st ELSE prstate[x]
  BY Types DEF Put
<1> HIDE DEF ps
<1>2. ReadyProcs(ps) = ReadyProcs(prstate)
  BY <1>1, Types DEF ReadyProcs
<1>3. Fit(readylist, ps, k)
  BY <1>1, <1>2, Types DEF Fit
<1> QED BY <1>3 DEF ps

(* Another process joins the ready list. *)
LEMMA FitReady ==
    ASSUME IInv, NEW p \in Pid, prstate[p] \notin {"CURR", "READY"}, NEW k \in [Pid -> Int],
           Ready(p, readylist, prstate, k)
    PROVE  LET rl == Insert(readylist, k, p, prprio[p])
               ps == Put(prstate, p, "READY")
               l == Put(k, p, prprio[p])
           IN  Fit(rl, ps, l) /\ ReschedWith(preempt, ndefers, rl, ps, l)
<1> DEFINE rl == Insert(readylist, k, p, prprio[p])
           ps == Put(prstate, p, "READY")
           l == Put(k, p, prprio[p])
<1>1. ReschedWith(preempt, ndefers, rl, ps, l)
  BY DEF Ready, Resched, Put
<1>2. /\ ps \in [Pid -> States] /\ \A x \in Pid : ps[x] = IF x = p THEN "READY" ELSE prstate[x]
      /\ l \in [Pid -> Int]
  BY Types DEF Put, States
<1>3. p \notin ReadyProcs(prstate)
  BY DEF ReadyProcs
<1>4. rl \in Seq(Pid) /\ OnQueue(rl, ReadyProcs(prstate) \cup {p})
  BY <1>3, Types, InsertOnQueue
<1> HIDE DEF rl, ps, l
<1>5. ReadyProcs(ps) = ReadyProcs(prstate) \cup {p}
  BY <1>2 DEF ReadyProcs
<1>6. Fit(rl, ps, l)
  BY <1>2, <1>4, <1>5, Types DEF Fit
<1> QED BY <1>1, <1>6 DEF rl, ps, l

-----------------------------------------------------------------------------
(***************************************************************************)
(* The current process is the highest.                                     *)
(***************************************************************************)
(* While rescheduling is deferred, a process that has been released makes  *)
(* attempt true, and the highest runs only after DEFER_STOP.               *)
RankInv ==
    /\ Ranked(readylist, qkey, prprio)
    /\ ndefers = 0 \/ ~attempt => Highest

(* The same after the step, seen with the priorities before it. *)
RankNext ==
    /\ Ranked(readylist', qkey', prprio)
    /\ ndefers' = 0 \/ ~attempt' =>
          \A p \in Pid : prstate'[p] = "READY" => prprio[p] <= prprio[currpid']

(* A call of resched. *)
LEMMA RankResched ==
    ASSUME IInv, NEW slice, NEW nd \in Nat, NEW rl, NEW ps, NEW k, Fit(rl, ps, k),
           Ranked(rl, k, prprio), ReschedWith(slice, nd, rl, ps, k)
    PROVE  RankNext
<1>1. /\ Ranked(readylist', qkey', prprio)
      /\ nd = 0 => \A p \in Pid : prstate'[p] = "READY" => prprio[p] <= prprio[currpid']
      /\ nd > 0 => attempt'
  BY ReschedRanks
<1>2. ndefers' = nd
  BY DEF ReschedWith
<1> QED BY <1>1, <1>2 DEF RankNext

(* Keys of processes that are not ready do not matter. *)
LEMMA RankKeys ==
    ASSUME IInv, RankInv, NEW k, \A x \in ReadyProcs(prstate) : k[x] = qkey[x]
    PROVE  Ranked(readylist, k, prprio)
<1>1. Ranked(readylist, qkey, prprio) /\ readylist \in Seq(Pid) /\ OnQueue(readylist, ReadyProcs(prstate))
  BY Types DEF RankInv
<1>2. \A x \in ReadyProcs(prstate) : k[x] = qkey[x] /\ prprio[x] = prprio[x]
  OBVIOUS
<1> QED BY <1>1, <1>2, RankedSame

(* A step that leaves the states alone. *)
LEMMA RankIdle ==
    ASSUME IInv, RankInv, UNCHANGED <<currpid, prstate, readylist>>, Deferral,
           \A x \in ReadyProcs(prstate) : qkey'[x] = qkey[x]
    PROVE  RankNext
<1>1. Ranked(readylist', qkey', prprio)
  BY RankKeys
<1>2. ndefers' = 0 \/ ~attempt' => ndefers = 0 \/ ~attempt
  BY DEF Deferral
<1> QED BY <1>1, <1>2 DEF RankNext, RankInv, Highest

(* ready. *)
LEMMA RankReady ==
    ASSUME IInv, RankInv, NEW p \in Pid, prstate[p] \notin {"CURR", "READY"},
           NEW k \in [Pid -> Int], \A x \in ReadyProcs(prstate) : k[x] = qkey[x],
           Ready(p, readylist, prstate, k)
    PROVE  RankNext
<1> DEFINE rl == Insert(readylist, k, p, prprio[p])
           ps == Put(prstate, p, "READY")
           l == Put(k, p, prprio[p])
<1>1. Fit(rl, ps, l) /\ ReschedWith(preempt, ndefers, rl, ps, l)
  BY FitReady
<1>2. Ranked(readylist, k, prprio)
  BY RankKeys
<1>3. p \notin ReadyProcs(prstate)
  BY DEF ReadyProcs
<1>4. Ranked(rl, l, prprio)
  BY <1>2, <1>3, Types, RankedInsert DEF Put
<1> HIDE DEF rl, ps, l
<1> QED BY <1>1, <1>4, Types, RankResched

(* The keys that a tick and unsleep change are those of sleepers. *)
LEMMA SleepKeys ==
    ASSUME IInv
    PROVE  /\ TickedKeys \in [Pid -> Int]
           /\ \A x \in Pid : prstate[x] \notin {"SLEEP", "RECTIM"} => TickedKeys[x] = qkey[x]
<1>1. CASE sleepq = <<>>
  BY <1>1, Types DEF TickedKeys
<1>2. CASE sleepq # <<>>
  <2>1. Head(sleepq) \in SleepProcs(prstate) /\ Head(sleepq) \in Pid
    BY <1>2, Types, TailOnQueue
  <2>2. prstate[Head(sleepq)] \in {"SLEEP", "RECTIM"}
    BY <2>1 DEF SleepProcs
  <2>3. TickedKeys = [qkey EXCEPT ![Head(sleepq)] = @ - 1]
    BY <1>2 DEF TickedKeys
  <2> QED BY <2>1, <2>2, <2>3, Types, SMTT(30)
<1> QED BY <1>1, <1>2

(* unsleep gives the delta of the process to its successor only. *)
LEMMA UnsleepOthers ==
    ASSUME IInv, NEW p \in Pid, prstate[p] \in {"SLEEP", "RECTIM"}
    PROVE  /\ UnsleepKeys(sleepq, qkey, p) \in [Pid -> Int]
           /\ \A x \in Pid : prstate[x] \notin {"SLEEP", "RECTIM"} =>
                 UnsleepKeys(sleepq, qkey, p)[x] = qkey[x]
<1> DEFINE i == PosOf(sleepq, p)
<1>1. p \in SleepProcs(prstate)
  BY DEF SleepProcs
<1>2. UnsleepKeys(sleepq, qkey, p) \in [Pid -> Int]
  BY <1>1, Types, UnsleepKeysType
<1>3. i \in 1 .. Len(sleepq) /\ Len(sleepq) \in Nat
  <2>1. PosOf(sleepq, p) \in 1 .. Len(sleepq)
    BY <1>1, Types, GetItemOnQueue
  <2> QED BY <2>1, Types
<1>4. CASE i = Len(sleepq)
  <2>1. UnsleepKeys(sleepq, qkey, p) = qkey
    BY <1>4 DEF UnsleepKeys
  <2> QED BY <1>2, <2>1
<1>5. CASE i # Len(sleepq)
  <2>1. UnsleepKeys(sleepq, qkey, p) = [qkey EXCEPT ![sleepq[i+1]] = @ + qkey[p]]
    BY <1>5 DEF UnsleepKeys
  <2> HIDE DEF i
  <2>2. i + 1 \in 1 .. Len(sleepq)
    BY <1>3, <1>5
  <2>3. sleepq[i+1] \in SleepProcs(prstate)
    BY <2>2, Types, OnQueueMember
  <2>4. prstate[sleepq[i+1]] \in {"SLEEP", "RECTIM"}
    BY <2>3 DEF SleepProcs
  <2> QED BY <1>2, <2>1, <2>4, Types
<1> QED BY <1>4, <1>5

(* insertd changes the keys of the process and of its successor only. *)
LEMMA InsertdOthers ==
    ASSUME IInv, NEW delay \in Int
    PROVE  /\ InsertdKeys(sleepq, qkey, currpid, delay) \in [Pid -> Int]
           /\ \A x \in Pid : prstate[x] \notin {"SLEEP", "RECTIM", "CURR"} =>
                 InsertdKeys(sleepq, qkey, currpid, delay)[x] = qkey[x]
<1> DEFINE pos == InsertdPos(sleepq, qkey, delay)
           left == delay - DeltaSum(sleepq, qkey)[pos - 1]
<1>1. InsertdKeys(sleepq, qkey, currpid, delay) \in [Pid -> Int]
  BY Types, InsertdKeysType
<1>2. pos \in 1 .. Len(sleepq) + 1
  BY Types, InsertdPosRange
<1>3. \A x \in Pid : InsertdKeys(sleepq, qkey, currpid, delay)[x] =
          IF x = currpid THEN left
          ELSE IF pos <= Len(sleepq) /\ x = sleepq[pos] THEN qkey[x] - left ELSE qkey[x]
  BY Types DEF InsertdKeys
<1> HIDE DEF pos, left
<1>4. ASSUME pos <= Len(sleepq) PROVE sleepq[pos] \in SleepProcs(prstate)
  <2>1. pos \in 1 .. Len(sleepq)
    BY <1>2, <1>4, Types
  <2> QED BY <2>1, Types, OnQueueMember
<1>5. pos <= Len(sleepq) => prstate[sleepq[pos]] \in {"SLEEP", "RECTIM"}
  BY <1>4 DEF SleepProcs
<1> QED BY <1>1, <1>3, <1>5, Types

(* Every sort of step keeps the order and has the highest run. *)
LEMMA RankSorted ==
    ASSUME IInv, RankInv, Sorted
    PROVE  RankNext
<1>0. /\ ndefers \in Nat /\ qkey \in [Pid -> Int] /\ Ranked(readylist, qkey, prprio)
      /\ \A x \in ReadyProcs(prstate) : x \in Pid /\ prstate[x] = "READY"
  BY Types DEF RankInv, ReadyProcs
<1>1. CASE Idles
  BY <1>1, RankIdle DEF Idles
<1>2. ASSUME NEW slice \in Int, NEW nd \in Nat, Rescheds(slice, nd) PROVE RankNext
  <2>1. Fit(readylist, prstate, qkey)
    BY <1>0, FitSame
  <2> QED BY <1>0, <1>2, <2>1, RankResched DEF Rescheds
<1>3. ASSUME NEW st \in {"WAIT", "RECV", "SUSP", "FREE"}, Leaves(st) PROVE RankNext
  <2>1. st \in States \ {"CURR", "READY"} /\ currpid # NULLPROC
    BY <1>3 DEF States, Leaves
  <2>2. Fit(readylist, Put(prstate, currpid, st), qkey)
    BY <1>0, <2>1, FitLeave
  <2> QED BY <1>0, <1>3, <2>2, RankResched DEF Leaves
<1>4. ASSUME NEW delay \in Int, NEW asked \in Int, NEW st \in {"SLEEP", "RECTIM"},
             FallsAsleep(delay, asked, st)
      PROVE  RankNext
  <2> DEFINE k == InsertdKeys(sleepq, qkey, currpid, delay)
  <2>1. st \in States \ {"CURR", "READY"} /\ currpid # NULLPROC
    BY <1>4 DEF States, FallsAsleep
  <2>2. k \in [Pid -> Int] /\ \A x \in ReadyProcs(prstate) : k[x] = qkey[x]
    BY <1>0, InsertdOthers
  <2>3. ReschedWith(preempt, ndefers, readylist, Put(prstate, currpid, st), k)
    BY <1>4 DEF FallsAsleep, SleepFor, Resched, Put
  <2> HIDE DEF k
  <2>4. Fit(readylist, Put(prstate, currpid, st), k)
    BY <2>1, <2>2, FitLeave
  <2>5. Ranked(readylist, k, prprio)
    BY <2>2, RankKeys
  <2> QED BY <1>0, <2>3, <2>4, <2>5, RankResched
<1>5. ASSUME NEW p \in Pid, Wakes(p) PROVE RankNext
  <2>1. prstate[p] \notin {"CURR", "READY"} /\ Ready(p, readylist, prstate, qkey)
    BY <1>5 DEF Wakes
  <2> QED BY <1>0, <2>1, RankReady
<1>6. CASE TimesOut
  <2>1. sleepq # <<>> /\ Ready(Head(sleepq), readylist, prstate, qkey)
    BY <1>6 DEF TimesOut, Expired
  <2>2. Head(sleepq) \in SleepProcs(prstate)
    BY <2>1, Types, TailOnQueue
  <2>3. Head(sleepq) \in Pid /\ prstate[Head(sleepq)] \notin {"CURR", "READY"}
    BY <2>2 DEF SleepProcs
  <2> QED BY <1>0, <2>1, <2>3, RankReady
<1>7. ASSUME NEW p \in Pid, GetsMessage(p) PROVE RankNext
  <2> DEFINE k == UnsleepKeys(sleepq, qkey, p)
  <2>1. prstate[p] = "RECTIM" /\ Ready(p, readylist, prstate, k)
    BY <1>7 DEF GetsMessage
  <2>2. k \in [Pid -> Int] /\ \A x \in ReadyProcs(prstate) : k[x] = qkey[x]
    BY <1>0, <2>1, UnsleepOthers
  <2> HIDE DEF k
  <2> QED BY <2>1, <2>2, RankReady
<1>8. ASSUME NEW p \in Pid, NEW st \in {"SUSP", "FREE"}, Retires(p, st) PROVE RankNext
  <2>1. Ranked(readylist', qkey, prprio)
    <3>1. CASE prstate[p] = "READY"
      <4>1. p \in ReadyProcs(prstate)
        BY <3>1 DEF ReadyProcs
      <4>2. readylist' = GetItem(readylist, p)
        BY <1>8, <3>1 DEF Retires
      <4> QED BY <1>0, <4>1, <4>2, Types, RankedRemove
    <3>2. CASE prstate[p] # "READY"
      BY <1>0, <1>8, <3>2 DEF Retires
    <3> QED BY <3>1, <3>2
  <2>2. prstate' = Put(prstate, p, st) /\ UNCHANGED <<currpid, qkey, ndefers, attempt>>
    BY <1>8 DEF Retires
  <2>3. \A x \in Pid : prstate'[x] = "READY" => prstate[x] = "READY"
    BY <2>2, Types DEF Put
  <2> QED BY <2>1, <2>2, <2>3 DEF RankNext, RankInv, Highest
<1>9. ASSUME NEW p \in Pid, DiesAsleep(p) PROVE RankNext
  <2> DEFINE k == UnsleepKeys(sleepq, qkey, p)
  <2>1. /\ prstate' = Put(prstate, p, "FREE") /\ UNCHANGED <<currpid, readylist, ndefers, attempt>>
        /\ prstate[p] \in {"SLEEP", "RECTIM"} /\ qkey' = k
    BY <1>9 DEF DiesAsleep
  <2>2. \A x \in ReadyProcs(prstate) : k[x] = qkey[x]
    BY <1>0, <2>1, UnsleepOthers
  <2> HIDE DEF k
  <2>3. \A x \in Pid : prstate'[x] = "READY" => prstate[x] = "READY"
    BY <2>1, Types DEF Put
  <2>4. Ranked(readylist', qkey', prprio)
    BY <2>1, <2>2, RankKeys
  <2> QED BY <2>1, <2>3, <2>4 DEF RankNext, RankInv, Highest
<1>10. CASE Ticks
  <2>1. TickedKeys \in [Pid -> Int] /\ \A x \in ReadyProcs(prstate) : TickedKeys[x] = qkey[x]
    BY <1>0, SleepKeys
  <2>2. CASE UNCHANGED <<currpid, prstate, readylist>> /\ qkey' = TickedKeys /\ Deferral
    BY <2>1, <2>2, RankIdle
  <2>3. ASSUME NEW slice \in Int, ReschedWith(slice, ndefers, readylist, prstate, TickedKeys)
        PROVE  RankNext
    <3>1. Fit(readylist, prstate, TickedKeys) /\ Ranked(readylist, TickedKeys, prprio)
      BY <2>1, FitSame, RankKeys
    <3> QED BY <1>0, <2>3, <3>1, RankResched
  <2> QED BY <1>10, <2>2, <2>3 DEF Ticks
<1> QED BY <1>1, <1>2, <1>3, <1>4, <1>5, <1>6, <1>7, <1>8, <1>9, <1>10 DEF Sorted

(* Without chprio, the priority of a process on the processor or the ready *)
(* list does not change.                                                   *)
LEMMA PriosKept ==
    ASSUME IInv, "chprio" \notin Calls, [Next]_vars
    PROVE  \A x \in Pid : prstate'[x] \in {"CURR", "READY"} => prprio'[x] = prprio[x]
<1>1. CASE SemStep
  BY <1>1 DEF SemStep, Wait, Signal, SemDelete, SignalN, SemReset, SemCreate
<1>2. CASE ProcStep
  <2>1. ASSUME NEW p \in Pid, Send(p) \/ Suspend(p) \/ Resume(p) \/ Kill(p) PROVE prprio' = prprio
    BY <2>1 DEF Send, Suspend, Resume, Kill
  <2>2. ASSUME NEW p \in Pid, NEW prio \in Prios, ChPrio(p, prio) PROVE FALSE
    BY <2>2 DEF ChPrio, Calling
  <2>3. ASSUME NEW prio \in Prios, Create(prio)
        PROVE  \A x \in Pid : prstate'[x] \in {"CURR", "READY"} => prprio'[x] = prprio[x]
    <3>1. NewPid \in Pid /\ prstate[NewPid] = "FREE"
      BY <2>3, NewPidFree DEF Create
    <3>2. CASE prprio' = prprio
      BY <3>2
    <3>3. CASE /\ prprio' = [prprio EXCEPT ![NewPid] = prio]
               /\ prstate' = [prstate EXCEPT ![NewPid] = "SUSP"]
      BY <3>1, <3>3, Types
    <3> QED BY <2>3, <3>2, <3>3 DEF Create
  <2>4. CASE Receive \/ RecvClr \/ Yield
    BY <2>4 DEF Receive, RecvClr, Yield
  <2>5. ASSUME NEW w \in Waits, ReceiveTimed(w) PROVE prprio' = prprio
    BY <2>5 DEF ReceiveTimed
  <2>6. ASSUME NEW d \in Delays, SleepMs(d) PROVE prprio' = prprio
    BY <2>6 DEF SleepMs
  <2> QED BY <1>2, <2>1, <2>2, <2>3, <2>4, <2>5, <2>6 DEF ProcStep
<1>3. CASE KernelStep
  <2>1. prprio' = prprio
    BY <1>3 DEF KernelStep, SignalNLoop, SignalNEnd, SemDeleteLoop, SemDeleteEnd, SemResetLoop,
       SemResetEnd, ReceiveEnd, KillEnd, WakeupLoop, WakeupEnd, ClkHandlerEnd
  <2> QED BY <2>1
<1>4. CASE ClockStep
  BY <1>4 DEF ClockStep, Tick, TickWakeup
<1>5. CASE Halt \/ UNCHANGED vars
  BY <1>5 DEF Halt, vars
<1> QED BY <1>1, <1>2, <1>3, <1>4, <1>5 DEF Next

(* Every step keeps IInv. *)
LEMMA NextIInv ==
    ASSUME IInv, [Next]_vars
    PROVE  IInv'
BY SemStepIInv, ProcStepIInv, KernelStepIInv, TickStep, TickWakeupStep, StutterIInv
   DEF Next, ClockStep, Halt

(* Every step keeps RankInv. *)
LEMMA RankStep ==
    ASSUME IInv, RankInv, "chprio" \notin Calls, [Next]_vars
    PROVE  RankInv'
<1>1. RankNext
  BY NextSorted, RankSorted
<1>2. /\ readylist' \in Seq(Pid) /\ OnQueue(readylist', ReadyProcs(prstate'))
      /\ currpid' \in Pid /\ prstate'[currpid'] = "CURR"
  <2>1. IInv'
    BY NextIInv
  <2>2. /\ readylist' \in Seq(Pid) /\ OnQueue(readylist', ReadyProcs(prstate'))
    BY <2>1 DEF IInv, TypeOK, QueueState, QueuesAgree
  <2>3. currpid' \in Pid /\ prstate'[currpid'] = "CURR"
    BY <2>1 DEF IInv, TypeOK, QueueState
  <2> QED BY <2>2, <2>3
<1>3. \A x \in Pid : prstate'[x] \in {"CURR", "READY"} => prprio'[x] = prprio[x]
  BY PriosKept
<1>4. \A x \in ReadyProcs(prstate') : qkey'[x] = qkey'[x] /\ prprio'[x] = prprio[x]
  BY <1>3 DEF ReadyProcs
<1>5. Ranked(readylist', qkey', prprio')
  BY <1>1, <1>2, <1>4, RankedSame DEF RankNext
<1>6. ndefers' = 0 \/ ~attempt' => Highest'
  BY <1>1, <1>2, <1>3 DEF RankNext, Highest
<1> QED BY <1>5, <1>6 DEF RankInv

(* Of applications that never call chprio, which leaves the ready list in  *)
(* its old order, always one of the highest priority runs: no release of a *)
(* process, under resched_cntl or not, forgets to reschedule.              *)
THEOREM HighestRuns ==
    ASSUME "chprio" \notin Calls
    PROVE  Spec => []CurrentIsHighest
<1>1. Init => RankInv
  <2> SUFFICES ASSUME Init PROVE RankInv
    OBVIOUS
  <2>0. NULLPROC \in Pid /\ MAIN \in Pid /\ NULLPROC # MAIN
    BY NPROCAssumption DEF NULLPROC, MAIN, Pid
  <2>1. PICK prio \in {x \in Prios : x >= 1} : prprio = [p \in Pid |-> IF p = MAIN THEN prio ELSE 0]
    BY DEF Init
  <2>2. prio \in Int /\ prio >= 1
    BY PriosAssumption
  <2>3. prprio[MAIN] = prio /\ prprio[NULLPROC] = 0 /\ qkey[NULLPROC] = 0 /\ readylist = <<NULLPROC>>
    BY <2>0, <2>1 DEF Init
  <2>4. Ranked(readylist, qkey, prprio)
    <3>1. Len(readylist) = 1 /\ readylist[1] = NULLPROC
      BY <2>3
    <3> QED BY <2>3, <3>1 DEF Ranked
  <2>5. Highest
    BY <2>0, <2>2, <2>3 DEF Highest, Init
  <2> QED BY <2>4, <2>5 DEF RankInv
<1>2. IInv /\ RankInv /\ [Next]_vars => RankInv'
  BY RankStep
<1>3. IInv /\ RankInv => CurrentIsHighest
  BY UserMode DEF RankInv, Highest, CurrentIsHighest
<1> QED BY <1>1, <1>2, <1>3, Inductive, PTL DEF Spec

-----------------------------------------------------------------------------
(***************************************************************************)
(* receive() finds a message.                                              *)
(***************************************************************************)
(* A process leaves RECV with its message or for good, and only kill frees *)
(* one, which clears its context.                                          *)
LEMMA ReceiversStay ==
    ASSUME IInv, Sorted
    PROVE  \A x \in Pid :
              /\ prstate[x] = "RECV" => prstate'[x] = "RECV" \/ prhasmsg'[x] \/ cont'[x] = "user"
              /\ prstate'[x] = "FREE" => prstate[x] = "FREE" \/ cont'[x] = "user"
<1> DEFINE Goal == \A x \in Pid :
              /\ prstate[x] = "RECV" => prstate'[x] = "RECV" \/ prhasmsg'[x] \/ cont'[x] = "user"
              /\ prstate'[x] = "FREE" => prstate[x] = "FREE" \/ cont'[x] = "user"
<1>0. ndefers \in Nat /\ qkey \in [Pid -> Int] /\ prstate \in [Pid -> States]
  BY Types
<1>1. CASE prstate' = prstate
  BY <1>1
<1>2. ASSUME NEW slice \in Int, NEW nd \in Nat, NEW k \in [Pid -> Int],
             ReschedWith(slice, nd, readylist, prstate, k)
      PROVE  Goal
  <2>1. Frame(prstate, k)
    BY <1>2, FitSame, ReschedFrame
  <2> QED BY <2>1 DEF Frame
<1>3. ASSUME NEW slice, NEW st \in {"WAIT", "RECV", "SUSP", "FREE", "SLEEP", "RECTIM"},
             NEW k \in [Pid -> Int], currpid # NULLPROC, st = "FREE" => cont'[currpid] = "user",
             ReschedWith(slice, ndefers, readylist, Put(prstate, currpid, st), k)
      PROVE  Goal
  <2>1. st \in States \ {"CURR", "READY"}
    BY <1>3 DEF States
  <2>2. Frame(Put(prstate, currpid, st), k)
    BY <1>0, <1>3, <2>1, FitLeave, ReschedFrame
  <2>3. \A x \in Pid : Put(prstate, currpid, st)[x] = IF x = currpid THEN st ELSE prstate[x]
    BY <1>0 DEF Put
  <2> QED BY <1>3, <2>2, <2>3, Types DEF Frame
<1>4. ASSUME NEW p \in Pid, prstate[p] \notin {"CURR", "READY"},
             prstate[p] = "RECV" => prhasmsg'[p],
             NEW k \in [Pid -> Int], Ready(p, readylist, prstate, k)
      PROVE  Goal
  <2>1. Frame(Put(prstate, p, "READY"), Put(k, p, prprio[p]))
    BY <1>0, <1>4, FitReady, ReschedFrame
  <2>2. \A x \in Pid : Put(prstate, p, "READY")[x] = IF x = p THEN "READY" ELSE prstate[x]
    BY <1>0 DEF Put
  <2> QED BY <1>4, <2>1, <2>2 DEF Frame
<1>5. CASE TimesOut
  <2>1. sleepq # <<>> /\ Ready(Head(sleepq), readylist, prstate, qkey)
    BY <1>5 DEF TimesOut, Expired
  <2>2. Head(sleepq) \in SleepProcs(prstate)
    BY <2>1, Types, TailOnQueue
  <2>3. Head(sleepq) \in Pid /\ prstate[Head(sleepq)] \notin {"CURR", "READY", "RECV"}
    BY <2>2 DEF SleepProcs
  <2> QED BY <1>0, <1>4, <2>1, <2>3
<1>6. ASSUME NEW p \in Pid, GetsMessage(p) PROVE Goal
  <2>1. prstate[p] = "RECTIM" /\ Ready(p, readylist, prstate, UnsleepKeys(sleepq, qkey, p))
    BY <1>6 DEF GetsMessage
  <2>2. UnsleepKeys(sleepq, qkey, p) \in [Pid -> Int]
    BY <2>1, UnsleepOthers
  <2> QED BY <1>4, <2>1, <2>2
<1>7. ASSUME NEW p \in Pid, NEW st \in {"SUSP", "FREE"}, Retires(p, st) PROVE Goal
  <2>1. \A x \in Pid : prstate'[x] = IF x = p THEN st ELSE prstate[x]
    BY <1>0, <1>7 DEF Retires, Put
  <2> QED BY <1>7, <2>1 DEF Retires
<1>8. ASSUME NEW p \in Pid, DiesAsleep(p) PROVE Goal
  <2>1. \A x \in Pid : prstate'[x] = IF x = p THEN "FREE" ELSE prstate[x]
    BY <1>0, <1>8 DEF DiesAsleep, Put
  <2> QED BY <1>8, <2>1 DEF DiesAsleep
<1>9. ASSUME NEW delay \in Int, NEW asked \in Int, NEW st \in {"SLEEP", "RECTIM"},
             FallsAsleep(delay, asked, st)
      PROVE  Goal
  <2> DEFINE k == InsertdKeys(sleepq, qkey, currpid, delay)
  <2>1. k \in [Pid -> Int]
    BY InsertdOthers
  <2>2. ReschedWith(preempt, ndefers, readylist, Put(prstate, currpid, st), k) /\ currpid # NULLPROC
    BY <1>9 DEF FallsAsleep, SleepFor, Resched, Put
  <2> HIDE DEF k
  <2> QED BY <1>3, <2>1, <2>2
<1>10. ASSUME NEW p \in Pid, Wakes(p) PROVE Goal
  BY <1>0, <1>4, <1>10 DEF Wakes
<1>11. ASSUME NEW st \in {"WAIT", "RECV", "SUSP", "FREE"}, Leaves(st) PROVE Goal
  BY <1>0, <1>3, <1>11 DEF Leaves
<1>12. CASE Ticks
  BY <1>0, <1>1, <1>2, <1>12, SleepKeys DEF Ticks
<1>13. ASSUME NEW slice \in Int, NEW nd \in Nat, Rescheds(slice, nd) PROVE Goal
  BY <1>0, <1>2, <1>13 DEF Rescheds
<1>14. CASE Idles
  BY <1>1, <1>14 DEF Idles
<1> QED BY <1>5, <1>6, <1>7, <1>8, <1>9, <1>10, <1>11, <1>12, <1>13, <1>14 DEF Sorted

(* A free entry of the process table has no pending call. *)
MessageInv ==
    /\ MessagePresent
    /\ \A p \in Pid : prstate[p] = "FREE" => cont[p] = "user"

(* How the contexts and the message slots change. *)
SlotsKept ==
    \A x \in Pid :
        /\ x # currpid => cont'[x] = cont[x] \/ cont'[x] = "user"
        /\ cont'[x] = "receive" => cont[x] = "receive" \/ prstate'[x] = "RECV"
        /\ prhasmsg[x] => prhasmsg'[x] \/ cont'[x] = "user" \/ prstate[x] = "FREE"

(* A step that leaves the slots alone and starts no receive(). *)
LEMMA SlotsSame ==
    ASSUME IInv, NEW c \in Conts \ {"receive"},
           prhasmsg' = prhasmsg, cont' = cont \/ cont' = [cont EXCEPT ![currpid] = c]
    PROVE  SlotsKept
BY Types DEF SlotsKept

(* send fills a slot and empties none. *)
LEMMA SlotsSend ==
    ASSUME IInv, NEW c \in Conts \ {"receive"}, NEW r \in Pid, SendTo(r),
           cont' = cont \/ cont' = [cont EXCEPT ![currpid] = c]
    PROVE  SlotsKept
<1>1. prhasmsg' = prhasmsg \/ prhasmsg' = [prhasmsg EXCEPT ![r] = TRUE]
  BY DEF SendTo
<1> QED BY <1>1, Types DEF SlotsKept

(* Every step. *)
LEMMA NextSlots ==
    ASSUME IInv, MessageInv, [Next]_vars
    PROVE  SlotsKept
<1>0. {"user", "signaln", "semdelete", "semreset", "wakeup", "clkhandler", "kill", "recvtime"}
          \subseteq Conts \ {"receive"}
  BY DEF Conts
<1>1. CASE SemStep
  <2>1. prhasmsg' = prhasmsg
    BY <1>1 DEF SemStep, Wait, Signal, SemDelete, SignalN, SemReset, SemCreate
  <2>2. \/ cont' = cont
        \/ \E c \in {"signaln", "semdelete", "semreset"} : cont' = [cont EXCEPT ![currpid] = c]
    BY <1>1 DEF SemStep, Wait, Signal, SemDelete, SignalN, SemReset, SemCreate, Then, kvars
  <2> QED BY <1>0, <2>1, <2>2, SlotsSame
<1>2. CASE ProcStep
  <2>1. ASSUME NEW p \in Pid, Send(p) PROVE SlotsKept
    BY <1>0, <2>1, SlotsSend DEF Send, kvars
  <2>2. ASSUME NEW p \in Pid, Suspend(p) \/ Resume(p) PROVE SlotsKept
    BY <1>0, <2>2, SlotsSame DEF Suspend, Resume, kvars
  <2>3. ASSUME NEW p \in Pid, Kill(p) PROVE SlotsKept
    <3>1. prparent[p] \in Pid
      BY TakeApart DEF OtherTypes
    <3>2. CASE LastUser(prcount - 1)
      BY <1>0, <2>3, <3>2, SlotsSame DEF Kill, kvars
    <3>3. CASE ~LastUser(prcount - 1)
      <4>1. SendTo(prparent[p]) /\ cont' = [cont EXCEPT ![currpid] = "kill"]
        BY <2>3, <3>3 DEF Kill, Then
      <4> QED BY <1>0, <3>1, <4>1, SlotsSend
    <3> QED BY <3>2, <3>3
  <2>4. ASSUME NEW p \in Pid, NEW prio \in Prios, ChPrio(p, prio) PROVE SlotsKept
    BY <1>0, <2>4, SlotsSame DEF ChPrio, kvars
  <2>5. ASSUME NEW prio \in Prios, Create(prio) PROVE SlotsKept
    <3>1. NewPid \in Pid /\ prstate[NewPid] = "FREE" /\ cont' = cont
      BY <2>5, NewPidFree DEF Create, kvars
    <3>2. prhasmsg' = prhasmsg \/ prhasmsg' = [prhasmsg EXCEPT ![NewPid] = FALSE]
      BY <2>5 DEF Create
    <3> QED BY <3>1, <3>2, Types DEF SlotsKept
  <2>6. CASE Receive
    <3>1. Interruptible /\ cont[currpid] = "user" /\ currpid # NULLPROC /\ ndefers = 0
      BY <2>6, UserMode DEF Receive, Calling
    <3>2. CASE prhasmsg[currpid]
      <4>1. cont' = cont /\ prhasmsg' = [prhasmsg EXCEPT ![currpid] = FALSE]
        BY <2>6, <3>2 DEF Receive, kvars
      <4> QED BY <3>1, <4>1, Types DEF SlotsKept
    <3>3. CASE ~prhasmsg[currpid]
      <4>1. /\ cont' = [cont EXCEPT ![currpid] = "receive"] /\ prhasmsg' = prhasmsg
            /\ ReschedWith(preempt, ndefers, readylist, Put(prstate, currpid, "RECV"), qkey)
        BY <2>6, <3>3 DEF Receive, Then, Block, Resched, Put
      <4>2. Frame(Put(prstate, currpid, "RECV"), qkey)
        <5>1. Fit(readylist, Put(prstate, currpid, "RECV"), qkey)
          BY <3>1, Types, FitLeave DEF States
        <5> QED BY <4>1, <5>1, Types, ReschedFrame
      <4>3. Put(prstate, currpid, "RECV")[currpid] = "RECV"
        BY Types DEF Put
      <4>4. prstate'[currpid] = "RECV"
        BY <4>2, <4>3, Types DEF Frame
      <4> QED BY <4>1, <4>4, Types DEF SlotsKept
    <3> QED BY <3>2, <3>3
  <2>7. CASE RecvClr
    <3>1. cont[currpid] = "user" /\ cont' = cont /\ prhasmsg' = [prhasmsg EXCEPT ![currpid] = FALSE]
      BY <2>7, UserMode DEF RecvClr, Calling, kvars
    <3> QED BY <3>1, Types DEF SlotsKept
  <2>8. CASE Yield
    BY <1>0, <2>8, SlotsSame DEF Yield, kvars
  <2>9. ASSUME NEW w \in Waits, ReceiveTimed(w) PROVE SlotsKept
    <3>1. cont[currpid] = "user"
      BY <2>9, UserMode DEF ReceiveTimed, Calling
    <3>2. CASE prhasmsg[currpid]
      <4>1. cont' = cont /\ prhasmsg' = [prhasmsg EXCEPT ![currpid] = FALSE]
        BY <2>9, <3>2 DEF ReceiveTimed, kvars
      <4> QED BY <3>1, <4>1, Types DEF SlotsKept
    <3>3. CASE ~prhasmsg[currpid]
      <4>1. cont' = [cont EXCEPT ![currpid] = "recvtime"] /\ prhasmsg' = prhasmsg
        BY <2>9, <3>3 DEF ReceiveTimed, Then
      <4> QED BY <1>0, <4>1, SlotsSame
    <3> QED BY <3>2, <3>3
  <2>10. ASSUME NEW d \in Delays, SleepMs(d) PROVE SlotsKept
    BY <1>0, <2>10, SlotsSame DEF SleepMs, kvars
  <2> QED BY <1>2, <2>1, <2>2, <2>3, <2>4, <2>5, <2>6, <2>7, <2>8, <2>9, <2>10 DEF ProcStep
<1>3. CASE KernelStep
  <2>1. CASE ReceiveEnd
    <3>1. cont' = [cont EXCEPT ![currpid] = "user"] /\ prhasmsg' = [prhasmsg EXCEPT ![currpid] = FALSE]
      BY <2>1 DEF ReceiveEnd, Return
    <3> QED BY <3>1, Types DEF SlotsKept
  <2>2. CASE KillEnd
    <3>1. /\ prhasmsg' = prhasmsg
          /\ \A x \in Pid : cont'[x] = IF x \in {karg[currpid], currpid} THEN "user" ELSE cont[x]
      BY <2>2 DEF KillEnd
    <3> QED BY <3>1, Types DEF SlotsKept
  <2>3. CASE SignalNLoop \/ SemDeleteLoop \/ SemResetLoop \/ WakeupLoop
    BY <1>0, <2>3, SlotsSame DEF SignalNLoop, SemDeleteLoop, SemResetLoop, WakeupLoop, kvars
  <2>4. CASE SignalNEnd \/ SemDeleteEnd \/ SemResetEnd \/ ClkHandlerEnd
    <3>1. prhasmsg' = prhasmsg /\ cont' = [cont EXCEPT ![currpid] = "user"]
      BY <2>4 DEF SignalNEnd, SemDeleteEnd, SemResetEnd, ClkHandlerEnd, Return
    <3> QED BY <1>0, <3>1, SlotsSame
  <2>5. CASE WakeupEnd
    <3>1. prhasmsg' = prhasmsg /\ \E c \in {"user", "clkhandler"} : cont' = [cont EXCEPT ![currpid] = c]
      BY <2>5 DEF WakeupEnd, Then
    <3> QED BY <1>0, <3>1, SlotsSame
  <2> QED BY <1>3, <2>1, <2>2, <2>3, <2>4, <2>5 DEF KernelStep
<1>4. CASE ClockStep
  <2>1. CASE Tick
    BY <1>0, <2>1, SlotsSame DEF Tick, kvars
  <2>2. CASE TickWakeup
    BY <1>0, <2>2, SlotsSame DEF TickWakeup, Then
  <2> QED BY <1>4, <2>1, <2>2 DEF ClockStep
<1>5. CASE Halt \/ UNCHANGED vars
  BY <1>0, <1>5, SlotsSame DEF Halt, vars, kvars
<1> QED BY <1>1, <1>2, <1>3, <1>4, <1>5 DEF Next

(* A process that comes back from blocking in receive() finds a message,   *)
(* though it may have been suspended and resumed meanwhile, and though the *)
(* slot of a new process starts out empty.                                 *)
THEOREM ReceiverFindsMessage == Spec => []MessagePresent
<1>1. Init => MessageInv
  BY DEF Init, MessageInv, MessagePresent
<1>2. IInv /\ MessageInv /\ [Next]_vars => MessageInv'
  <2> SUFFICES ASSUME IInv, MessageInv, [Next]_vars PROVE MessageInv'
    OBVIOUS
  <2>1. SlotsKept
    BY NextSlots
  <2>2. \A x \in Pid :
           /\ prstate[x] = "RECV" => prstate'[x] = "RECV" \/ prhasmsg'[x] \/ cont'[x] = "user"
           /\ prstate'[x] = "FREE" => prstate[x] = "FREE" \/ cont'[x] = "user"
    BY NextSorted, ReceiversStay
  <2>3. \A x \in Pid : prstate'[x] = "FREE" => cont'[x] = "user"
    BY <2>1, <2>2, Types DEF SlotsKept, MessageInv
  <2>4. ASSUME NEW p \in Pid, cont'[p] = "receive", prstate'[p] # "RECV" PROVE prhasmsg'[p]
    <3>1. cont[p] = "receive"
      BY <2>1, <2>4 DEF SlotsKept
    <3>2. CASE prstate[p] = "RECV"
      BY <2>2, <2>4, <3>2
    <3>3. CASE prstate[p] # "RECV"
      BY <2>1, <2>4, <3>1, <3>3 DEF SlotsKept, MessageInv, MessagePresent
    <3> QED BY <3>2, <3>3
  <2> QED BY <2>3, <2>4 DEF MessageInv, MessagePresent
<1> QED BY <1>1, <1>2, Inductive, PTL DEF Spec, MessageInv

-----------------------------------------------------------------------------
(***************************************************************************)
(* Delays.  Seen from the sleep queue, a step is one of five moves: it     *)
(* changes the time until each place of the queue is due, and what is left *)
(* of the delay that the process at this place asked for.                  *)
(***************************************************************************)
Dues == DeltaSum(sleepq, qkey)
Lefts == [i \in 1 .. Len(sleepq) |-> remain[sleepq[i]]]

SameMove ==
    /\ Len(sleepq') = Len(sleepq)
    /\ \A i \in 1 .. Len(sleepq) : Dues'[i] = Dues[i] /\ Lefts'[i] = Lefts[i]

TickMove ==
    /\ Len(sleepq') = Len(sleepq)
    /\ \A i \in 1 .. Len(sleepq) :
          /\ Dues'[i] = Dues[i] - 1
          /\ Lefts'[i] = IF Lefts[i] >= 0 THEN Lefts[i] - 1 ELSE Lefts[i]

JoinMove(pos, delay, asked) ==
    /\ Len(sleepq') = Len(sleepq) + 1
    /\ \A i \in 1 .. Len(sleepq) + 1 :
          /\ Dues'[i] = IF i < pos THEN Dues[i] ELSE IF i = pos THEN delay ELSE Dues[i-1]
          /\ Lefts'[i] = IF i < pos THEN Lefts[i] ELSE IF i = pos THEN asked ELSE Lefts[i-1]
    /\ \A i \in 1 .. Len(sleepq) : (i < pos => Dues[i] <= delay) /\ (i = pos => Dues[i] > delay)

WakeMove ==
    /\ Len(sleepq') = Len(sleepq) - 1
    /\ Dues[1] <= 0
    /\ \A i \in 1 .. Len(sleepq) - 1 : Dues'[i] = Dues[i+1] - Dues[1] /\ Lefts'[i] = Lefts[i+1]

QuitMove(pos) ==
    /\ Len(sleepq') = Len(sleepq) - 1
    /\ \A i \in 1 .. Len(sleepq) - 1 :
          LET j == IF i < pos THEN i ELSE i + 1 IN Dues'[i] = Dues[j] /\ Lefts'[i] = Lefts[j]

(* The types of both, and how the keys add up to the dues. *)
LEMMA DueTypes ==
    ASSUME IInv
    PROVE  /\ Len(sleepq) \in Nat
           /\ Dues[0] = 0
           /\ \A i \in 1 .. Len(sleepq) :
                 /\ Dues[i] \in Int /\ Dues[i-1] \in Int /\ Lefts[i] \in Int
                 /\ Dues[i] = Dues[i-1] + qkey[sleepq[i]]
                 /\ Lefts[i] = remain[sleepq[i]]
                 /\ sleepq[i] \in SleepProcs(prstate) /\ sleepq[i] \in Pid
                 /\ prstate[sleepq[i]] \in {"SLEEP", "RECTIM"}
<1>1. Sums(sleepq, qkey, Dues)
  BY Types, DeltaSumRec DEF Dues
<1>2. /\ Dues \in [0 .. Len(sleepq) -> Int] /\ Dues[0] = 0
      /\ \A i \in 1 .. Len(sleepq) : Dues[i] = Dues[i-1] + qkey[sleepq[i]]
  BY <1>1 DEF Sums
<1>3. Len(sleepq) \in Nat
  BY Types
<1>4. \A i \in 1 .. Len(sleepq) : sleepq[i] \in SleepProcs(prstate) /\ sleepq[i] \in Pid
  BY Types, OnQueueMember
<1>5. \A i \in 1 .. Len(sleepq) : prstate[sleepq[i]] \in {"SLEEP", "RECTIM"}
  BY <1>4 DEF SleepProcs
<1>6. \A i \in 1 .. Len(sleepq) : Lefts[i] = remain[sleepq[i]] /\ Lefts[i] \in Int
  BY <1>4, Types DEF Lefts
<1>7. \A i \in 1 .. Len(sleepq) : Dues[i] \in Int /\ Dues[i-1] \in Int
  BY <1>2, <1>3
<1> QED BY <1>2, <1>3, <1>4, <1>5, <1>6, <1>7

(* The queue keeps its keys. *)
LEMMA SameMoves ==
    ASSUME IInv, sleepq' = sleepq, qkey' \in [Pid -> Int],
           \A x \in SleepProcs(prstate) : qkey'[x] = qkey[x] /\ remain'[x] = remain[x]
    PROVE  SameMove
<1>1. \A i \in 1 .. Len(sleepq) : sleepq[i] \in SleepProcs(prstate)
  BY DueTypes
<1>2. SameKeys(sleepq, qkey, qkey')
  BY <1>1 DEF SameKeys
<1>3. DeltaSum(sleepq, qkey') = DeltaSum(sleepq, qkey)
  <2>1. sleepq \in Seq(Pid) /\ qkey \in [Pid -> Int]
    BY Types
  <2> QED BY <1>2, <2>1, DeltaSumOther
<1>4. Dues' = Dues
  BY <1>3 DEF Dues
<1>5. \A i \in 1 .. Len(sleepq) : Lefts'[i] = Lefts[i]
  BY <1>1 DEF Lefts
<1> QED BY <1>4, <1>5 DEF SameMove

(* The first key goes down by one. *)
LEMMA TickMoves ==
    ASSUME IInv, sleepq' = sleepq, qkey' \in [Pid -> Int], remain' = TickedRemain,
           \A x \in SleepProcs(prstate) : qkey'[x] = TickedKeys[x]
    PROVE  TickMove
<1>1. CASE sleepq = <<>>
  <2>1. Len(sleepq) = 0
    BY <1>1
  <2> QED BY <2>1 DEF TickMove
<1>2. CASE sleepq # <<>>
  <2>0. /\ sleepq \in Seq(Pid) /\ OnQueue(sleepq, SleepProcs(prstate))
        /\ qkey \in [Pid -> Int] /\ TickedKeys \in [Pid -> Int]
    BY Types, SleepKeys
  <2>1. \A i \in 1 .. Len(sleepq) : sleepq[i] \in SleepProcs(prstate) /\ sleepq[i] \in Pid
    BY DueTypes
  <2>2. SameKeys(sleepq, TickedKeys, qkey')
    BY <2>1 DEF SameKeys
  <2>3. DeltaSum(sleepq, qkey') = DeltaSum(sleepq, TickedKeys)
    BY <2>0, <2>2, DeltaSumOther
  <2>4. FirstLess(sleepq, qkey, TickedKeys)
    BY <1>2 DEF TickedKeys, FirstLess
  <2>5. \A i \in 1 .. Len(sleepq) : DeltaSum(sleepq, TickedKeys)[i] = DeltaSum(sleepq, qkey)[i] - 1
    BY <1>2, <2>0, <2>4, DeltaSumTick, SMTT(30)
  <2>6. \A i \in 1 .. Len(sleepq) : Dues'[i] = Dues[i] - 1
    BY <2>3, <2>5 DEF Dues
  <2>7. \A i \in 1 .. Len(sleepq) : sleepq[i] \in ToSet(sleepq)
    <3>1. DOMAIN sleepq = 1 .. Len(sleepq)
      BY <2>0
    <3> QED BY <3>1 DEF ToSet
  <2>8. \A i \in 1 .. Len(sleepq) :
           remain'[sleepq[i]] = IF remain[sleepq[i]] >= 0 THEN remain[sleepq[i]] - 1 ELSE remain[sleepq[i]]
    BY <2>1, <2>7 DEF TickedRemain
  <2>9. \A i \in 1 .. Len(sleepq) :
           Lefts'[i] = remain'[sleepq[i]] /\ Lefts[i] = remain[sleepq[i]]
    BY DEF Lefts
  <2> QED BY <2>6, <2>8, <2>9 DEF TickMove
<1> QED BY <1>1, <1>2

(* insertd: what comes before the process is due before it, and what comes *)
(* after it is due later.                                                  *)
LEMMA InsertdOrder ==
    ASSUME IInv, NEW delay \in Int
    PROVE  LET pos == InsertdPos(sleepq, qkey, delay)
           IN  \A i \in 1 .. Len(sleepq) : (i < pos => Dues[i] <= delay) /\ (i = pos => Dues[i] > delay)
<1> DEFINE pos == InsertdPos(sleepq, qkey, delay)
           T == {i \in 1 .. Len(sleepq) + 1 :
                    i = Len(sleepq) + 1 \/ qkey[sleepq[i]] > delay - Dues[i-1]}
<1>1. Len(sleepq) \in Nat
  BY DueTypes
<1>2. pos = Min(T)
  BY DEF InsertdPos, Dues
<1>3. T \in SUBSET Nat /\ Len(sleepq) + 1 \in T
  BY <1>1
<1> HIDE DEF pos
<1>4. pos \in T /\ \A y \in T : pos <= y
  BY <1>2, <1>3, MinOfNats
<1> SUFFICES ASSUME NEW i \in 1 .. Len(sleepq)
             PROVE  (i < pos => Dues[i] <= delay) /\ (i = pos => Dues[i] > delay)
  BY DEF pos
<1>6. /\ Dues[i] \in Int /\ Dues[i-1] \in Int /\ Dues[i] = Dues[i-1] + qkey[sleepq[i]]
      /\ qkey[sleepq[i]] \in Int /\ i \in 1 .. Len(sleepq) + 1
  <2>1. /\ Dues[i] \in Int /\ Dues[i-1] \in Int /\ Dues[i] = Dues[i-1] + qkey[sleepq[i]]
        /\ sleepq[i] \in Pid
    BY DueTypes
  <2>2. qkey[sleepq[i]] \in Int
    BY <2>1, Types
  <2> QED BY <1>1, <2>1, <2>2
<1>7. ASSUME i < pos PROVE Dues[i] <= delay
  <2>1. i \notin T
    BY <1>1, <1>4, <1>7
  <2>2. ~(qkey[sleepq[i]] > delay - Dues[i-1])
    BY <1>6, <2>1
  <2> QED BY <1>6, <2>2
<1>8. ASSUME i = pos PROVE Dues[i] > delay
  <2>1. i \in T /\ i # Len(sleepq) + 1
    BY <1>1, <1>4, <1>8
  <2>2. qkey[sleepq[i]] > delay - Dues[i-1]
    BY <2>1
  <2> QED BY <1>6, <2>2
<1> QED BY <1>7, <1>8

(* The current process joins the queue. *)
LEMMA JoinMoves ==
    ASSUME IInv, NEW delay \in Int, NEW asked \in Int, qkey' \in [Pid -> Int],
           sleepq' = Insertd(sleepq, qkey, currpid, delay),
           remain' = [remain EXCEPT ![currpid] = asked],
           \A x \in Pid : x = currpid \/ x \in SleepProcs(prstate) =>
              qkey'[x] = InsertdKeys(sleepq, qkey, currpid, delay)[x]
    PROVE  \E pos \in 1 .. Len(sleepq) + 1 : JoinMove(pos, delay, asked)
<1> DEFINE pos == InsertdPos(sleepq, qkey, delay)
           l == InsertdKeys(sleepq, qkey, currpid, delay)
           r == Insertd(sleepq, qkey, currpid, delay)
<1>1. pos \in 1 .. Len(sleepq) + 1
  BY Types, InsertdPosRange
<1>2. currpid \notin SleepProcs(prstate)
  BY Types DEF SleepProcs
<1>3. \A i \in 1 .. Len(sleepq) : (i < pos => Dues[i] <= delay) /\ (i = pos => Dues[i] > delay)
  BY InsertdOrder
<1>4. r \in Seq(Pid) /\ OnQueue(r, SleepProcs(prstate) \cup {currpid})
  BY <1>2, Types, InsertdOnQueue
<1>5. \A i \in 1 .. Len(sleepq) + 1 :
         DeltaSum(r, l)[i] = IF i < pos THEN Dues[i] ELSE IF i = pos THEN delay ELSE Dues[i-1]
  <2>1. /\ sleepq \in Seq(Pid) /\ OnQueue(sleepq, SleepProcs(prstate)) /\ qkey \in [Pid -> Int]
        /\ currpid \in Pid
    BY Types
  <2>2. JoinedSums(Dues, DeltaSum(r, l), Len(sleepq), pos, delay)
    BY <1>2, <2>1, DeltaSumInsertd DEF Dues
  <2> HIDE DEF pos, l, r
  <2> QED BY <2>2 DEF JoinedSums
<1>6. l \in [Pid -> Int]
  BY InsertdOthers
<1>7. r = InsertAt(sleepq, pos, currpid) /\ sleepq' = r
  BY DEF Insertd
<1> HIDE DEF pos, l, r
<1>8. SameKeys(r, l, qkey')
  <2>1. \A i \in 1 .. Len(r) : r[i] \in SleepProcs(prstate) \cup {currpid} /\ r[i] \in Pid
    BY <1>4, OnQueueMember
  <2> QED BY <2>1 DEF l, SameKeys
<1>9. Dues' = DeltaSum(r, l)
  <2>1. DeltaSum(r, qkey') = DeltaSum(r, l)
    BY <1>4, <1>6, <1>8, DeltaSumOther
  <2> QED BY <1>7, <2>1 DEF Dues
<1>10. /\ Len(sleepq') = Len(sleepq) + 1
       /\ \A j \in 1 .. Len(sleepq) + 1 :
             sleepq'[j] = IF j < pos THEN sleepq[j] ELSE IF j = pos THEN currpid ELSE sleepq[j-1]
  <2>1. sleepq \in Seq(Pid) /\ currpid \in Pid
    BY Types
  <2>2. /\ Len(InsertAt(sleepq, pos, currpid)) = Len(sleepq) + 1
        /\ \A j \in 1 .. Len(sleepq) + 1 :
              InsertAt(sleepq, pos, currpid)[j] =
                 IF j < pos THEN sleepq[j] ELSE IF j = pos THEN currpid ELSE sleepq[j-1]
    BY <1>1, <2>1, InsertAtProp
  <2> QED BY <1>7, <2>2
<1>11. /\ Len(sleepq) \in Nat
       /\ \A i \in 1 .. Len(sleepq) : sleepq[i] \in Pid /\ sleepq[i] # currpid /\ Lefts[i] = remain[sleepq[i]]
  BY <1>2, DueTypes
<1>12. \A i \in 1 .. Len(sleepq) + 1 : Lefts'[i] = remain'[sleepq'[i]]
  BY <1>10 DEF Lefts
<1>0. remain'[currpid] = asked /\ \A x \in Pid : x # currpid => remain'[x] = remain[x]
  BY Types
<1>13. \A i \in 1 .. Len(sleepq) + 1 :
          Lefts'[i] = IF i < pos THEN Lefts[i] ELSE IF i = pos THEN asked ELSE Lefts[i-1]
  <2>1. TAKE i \in 1 .. Len(sleepq) + 1
  <2>2. CASE i < pos
    <3>1. i \in 1 .. Len(sleepq) /\ sleepq'[i] = sleepq[i]
      BY <1>1, <1>10, <1>11, <2>2
    <3>2. Lefts'[i] = Lefts[i]
      BY <1>0, <1>11, <1>12, <3>1
    <3> QED BY <2>2, <3>2
  <2>3. CASE i = pos
    BY <1>0, <1>10, <1>12, <2>3
  <2>4. CASE i > pos
    <3>1. i - 1 \in 1 .. Len(sleepq) /\ sleepq'[i] = sleepq[i-1] /\ ~(i < pos) /\ i # pos
      BY <1>1, <1>10, <1>11, <2>4
    <3>2. Lefts'[i] = Lefts[i-1]
      BY <1>0, <1>11, <1>12, <3>1
    <3> QED BY <3>1, <3>2
  <2> QED BY <1>1, <2>2, <2>3, <2>4
<1>14. JoinMove(pos, delay, asked)
  BY <1>3, <1>5, <1>9, <1>10, <1>13 DEF JoinMove
<1> QED BY <1>1, <1>14

(* The first sleeper wakes up. *)
LEMMA WakeMoves ==
    ASSUME IInv, Expired, sleepq' = Tail(sleepq), qkey' \in [Pid -> Int],
           \A x \in SleepProcs(prstate) :
              x # Head(sleepq) => qkey'[x] = qkey[x] /\ remain'[x] = remain[x]
    PROVE  WakeMove /\ Len(sleepq) >= 1
<1>1. sleepq # <<>> /\ qkey[Head(sleepq)] <= 0
  BY DEF Expired
<1>2. Len(sleepq) \in Nat /\ Len(sleepq) >= 1 /\ Head(sleepq) = sleepq[1]
  <2>1. sleepq \in Seq(Pid)
    BY Types
  <2> QED BY <1>1, <2>1
<1>3. Dues[1] = qkey[Head(sleepq)]
  <2>1. Dues[1] = Dues[0] + qkey[sleepq[1]] /\ Dues[0] = 0 /\ sleepq[1] \in Pid
    <3>1. 1 \in 1 .. Len(sleepq)
      BY <1>2
    <3>2. Dues[1] = Dues[1-1] + qkey[sleepq[1]] /\ Dues[0] = 0 /\ sleepq[1] \in Pid
      BY <3>1, DueTypes
    <3> QED BY <3>2
  <2>2. qkey[sleepq[1]] \in Int
    BY <2>1, Types
  <2> DEFINE d0 == Dues[0]
             d1 == Dues[1]
             k1 == qkey[sleepq[1]]
  <2>3. d1 = d0 + k1 /\ d0 = 0 /\ k1 \in Int
    BY <2>1, <2>2
  <2> HIDE DEF d0, d1, k1
  <2>4. d1 = k1
    BY <2>3
  <2> QED BY <1>2, <2>4 DEF d1, k1
<1>4. /\ Tail(sleepq) \in Seq(Pid) /\ Len(Tail(sleepq)) = Len(sleepq) - 1
      /\ OnQueue(Tail(sleepq), SleepProcs(prstate) \ {Head(sleepq)})
  BY <1>1, Types, TailOnQueue
<1>5. \A i \in 1 .. Len(sleepq) - 1 : Tail(sleepq)[i] = sleepq[i+1]
  BY <1>1, Types, HeadTailProperties
<1>6. \A i \in 1 .. Len(sleepq) - 1 : DeltaSum(Tail(sleepq), qkey)[i] = Dues[i+1] - Dues[1]
  <2>1. sleepq \in Seq(Pid) /\ qkey \in [Pid -> Int]
    BY Types
  <2>2. \A i \in 1 .. Len(sleepq) - 1 :
           DeltaSum(Tail(sleepq), qkey)[i] = DeltaSum(sleepq, qkey)[i+1] - qkey[Head(sleepq)]
    BY <1>1, <2>1, DeltaSumTail
  <2> QED BY <1>3, <2>2 DEF Dues
<1>7. \A i \in 1 .. Len(sleepq) - 1 : Tail(sleepq)[i] \in SleepProcs(prstate) \ {Head(sleepq)}
  BY <1>4, OnQueueMember
<1>8. SameKeys(Tail(sleepq), qkey, qkey')
  BY <1>4, <1>7 DEF SameKeys
<1>9. Dues' = DeltaSum(Tail(sleepq), qkey)
  <2>1. qkey \in [Pid -> Int]
    BY Types
  <2>2. DeltaSum(Tail(sleepq), qkey') = DeltaSum(Tail(sleepq), qkey)
    BY <1>4, <1>8, <2>1, DeltaSumOther, ZenonT(40)
  <2> QED BY <2>2 DEF Dues
<1>10. \A i \in 1 .. Len(sleepq) - 1 : Lefts'[i] = remain'[Tail(sleepq)[i]]
  BY <1>4 DEF Lefts
<1>11. \A i \in 1 .. Len(sleepq) - 1 : Lefts'[i] = Lefts[i+1]
  <2>1. TAKE i \in 1 .. Len(sleepq) - 1
  <2>2. i + 1 \in 1 .. Len(sleepq)
    BY <1>2
  <2>3. Lefts[i+1] = remain[sleepq[i+1]]
    BY <2>2, DueTypes
  <2> QED BY <1>5, <1>7, <1>10, <2>3
<1> QED BY <1>1, <1>2, <1>3, <1>4, <1>6, <1>9, <1>11 DEF WakeMove

(* A sleeper leaves before it is due. *)
LEMMA QuitMoves ==
    ASSUME IInv, NEW p \in Pid, prstate[p] \in {"SLEEP", "RECTIM"},
           sleepq' = GetItem(sleepq, p), qkey' \in [Pid -> Int],
           \A x \in SleepProcs(prstate) : x # p =>
              qkey'[x] = UnsleepKeys(sleepq, qkey, p)[x] /\ remain'[x] = remain[x]
    PROVE  \E pos \in 1 .. Len(sleepq) : QuitMove(pos)
<1> DEFINE pos == PosOf(sleepq, p)
           l == UnsleepKeys(sleepq, qkey, p)
           r == GetItem(sleepq, p)
<1>1. p \in SleepProcs(prstate)
  BY DEF SleepProcs
<1>2. /\ r \in Seq(Pid) /\ Len(r) = Len(sleepq) - 1 /\ OnQueue(r, SleepProcs(prstate) \ {p})
      /\ pos \in 1 .. Len(sleepq)
  BY <1>1, Types, GetItemOnQueue, ZenonT(40)
<1>3. l \in [Pid -> Int]
  BY UnsleepOthers
<1>4. \A i \in 1 .. Len(sleepq) - 1 :
         DeltaSum(r, l)[i] = IF i < pos THEN Dues[i] ELSE Dues[i+1]
  <2>1. sleepq \in Seq(Pid) /\ OnQueue(sleepq, SleepProcs(prstate)) /\ qkey \in [Pid -> Int]
    BY Types
  <2>2. LeftSums(Dues, DeltaSum(r, l), Len(sleepq), pos)
    BY <1>1, <2>1, DeltaSumUnsleep DEF Dues
  <2> HIDE DEF pos, l, r
  <2> QED BY <2>2 DEF LeftSums
<1>5. r = RemoveAt(sleepq, pos)
  BY DEF GetItem
<1> HIDE DEF pos
<1>6. \A j \in 1 .. Len(sleepq) - 1 : r[j] = IF j < pos THEN sleepq[j] ELSE sleepq[j+1]
  BY <1>2, <1>5, Types, RemoveAtProp
<1> HIDE DEF l, r
<1>7. \A i \in 1 .. Len(sleepq) - 1 : r[i] \in SleepProcs(prstate) \ {p}
  BY <1>2, OnQueueMember
<1>8. SameKeys(r, l, qkey')
  BY <1>2, <1>7 DEF l, SameKeys
<1>9. sleepq' = r
  BY DEF r
<1>10. Dues' = DeltaSum(r, l)
  <2>1. DeltaSum(r, qkey') = DeltaSum(r, l)
    BY <1>2, <1>3, <1>8, DeltaSumOther
  <2> QED BY <1>9, <2>1 DEF Dues
<1>11. \A i \in 1 .. Len(sleepq) - 1 : Lefts'[i] = remain'[r[i]]
  BY <1>2, <1>9 DEF Lefts
<1>12. \A i \in 1 .. Len(sleepq) - 1 : Lefts'[i] = Lefts[IF i < pos THEN i ELSE i + 1]
  <2>1. TAKE i \in 1 .. Len(sleepq) - 1
  <2> DEFINE j == IF i < pos THEN i ELSE i + 1
  <2>2. j \in 1 .. Len(sleepq) /\ r[i] = sleepq[j]
    <3>1. Len(sleepq) \in Nat
      BY Types
    <3> QED BY <1>2, <1>6, <3>1
  <2> HIDE DEF j
  <2>3. Lefts[j] = remain[sleepq[j]]
    BY <2>2, DueTypes
  <2>4. Lefts'[i] = Lefts[j]
    BY <1>7, <1>11, <2>2, <2>3
  <2> QED BY <2>4 DEF j
<1>13. QuitMove(pos)
  <2>1. \A i \in 1 .. Len(sleepq) - 1 : Dues'[i] = Dues[IF i < pos THEN i ELSE i + 1]
    BY <1>4, <1>10
  <2> QED BY <1>2, <1>9, <1>12, <2>1 DEF QuitMove
<1> QED BY <1>2, <1>13

(* Every step is one of the moves, *)
Moves ==
    \/ SameMove
    \/ TickMove /\ Ticks
    \/ \E delay \in Int, asked \in Int, st \in {"SLEEP", "RECTIM"}, pos \in 1 .. Len(sleepq) + 1 :
          JoinMove(pos, delay, asked) /\ Asks(delay, asked, st)
    \/ WakeMove /\ TimesOut /\ Len(sleepq) >= 1
    \/ \E pos \in 1 .. Len(sleepq) : QuitMove(pos)

(* and wakes at most the first sleeper or one that gets a message. *)
Woken ==
    \A p \in Pid :
        prstate[p] \in {"SLEEP", "RECTIM"} /\ prstate'[p] \in {"READY", "CURR"} =>
            \/ TimesOut /\ p = Head(sleepq)
            \/ prstate[p] = "RECTIM" /\ prhasmsg'[p]

(* Sleepers are neither current nor ready, so resched leaves them alone. *)
LEMMA SleepersFramed ==
    ASSUME IInv, NEW slice, NEW nd \in Nat, NEW rl, NEW ps, NEW k, Fit(rl, ps, k),
           ReschedWith(slice, nd, rl, ps, k)
    PROVE  \A x \in Pid : ps[x] \in {"SLEEP", "RECTIM"} => qkey'[x] = k[x] /\ prstate'[x] = ps[x]
<1>1. Frame(ps, k)
  BY ReschedFrame
<1> QED BY <1>1 DEF Frame

(* A step whose sleepers all sleep on wakes nobody. *)
LEMMA NoneWoken ==
    ASSUME \A x \in SleepProcs(prstate) : prstate'[x] = prstate[x]
    PROVE  Woken
BY DEF Woken, SleepProcs

(* Every sort of step is one of the moves. *)
LEMMA SleepMoves ==
    ASSUME IInv, qkey' \in [Pid -> Int], Sorted
    PROVE  Moves /\ Woken
<1>0. /\ ndefers \in Nat /\ qkey \in [Pid -> Int] /\ prstate \in [Pid -> States] /\ currpid \in Pid
      /\ prstate[currpid] = "CURR"
      /\ \A x \in SleepProcs(prstate) : x \in Pid /\ prstate[x] \in {"SLEEP", "RECTIM"}
  BY Types DEF SleepProcs
<1>1. ASSUME sleepq' = sleepq,
             \A x \in SleepProcs(prstate) :
                qkey'[x] = qkey[x] /\ remain'[x] = remain[x] /\ prstate'[x] = prstate[x]
      PROVE  Moves /\ Woken
  BY <1>1, SameMoves, NoneWoken DEF Moves
<1>2. CASE Idles
  BY <1>1, <1>2 DEF Idles, SleepersSame
<1>3. ASSUME NEW slice \in Int, NEW nd \in Nat, Rescheds(slice, nd) PROVE Moves /\ Woken
  <2>1. Fit(readylist, prstate, qkey) /\ ReschedWith(slice, nd, readylist, prstate, qkey) /\ SleepersSame
    BY <1>0, <1>3, FitSame DEF Rescheds
  <2>2. \A x \in SleepProcs(prstate) : qkey'[x] = qkey[x] /\ prstate'[x] = prstate[x]
    BY <1>0, <2>1, SleepersFramed
  <2> QED BY <1>1, <2>1, <2>2 DEF SleepersSame
<1>4. ASSUME NEW st \in {"WAIT", "RECV", "SUSP", "FREE"}, Leaves(st) PROVE Moves /\ Woken
  <2> DEFINE ps == Put(prstate, currpid, st)
  <2>1. st \in States \ {"CURR", "READY"} /\ currpid # NULLPROC
    BY <1>4 DEF States, Leaves
  <2>2. Fit(readylist, ps, qkey) /\ ReschedWith(preempt, ndefers, readylist, ps, qkey) /\ SleepersSame
    BY <1>0, <1>4, <2>1, FitLeave DEF Leaves
  <2>3. \A x \in SleepProcs(prstate) : ps[x] = prstate[x]
    BY <1>0 DEF Put
  <2> HIDE DEF ps
  <2>4. \A x \in Pid : ps[x] \in {"SLEEP", "RECTIM"} => qkey'[x] = qkey[x] /\ prstate'[x] = ps[x]
    BY <1>0, <2>2, SleepersFramed
  <2>5. \A x \in SleepProcs(prstate) : qkey'[x] = qkey[x] /\ prstate'[x] = prstate[x]
    BY <1>0, <2>3, <2>4
  <2> QED BY <1>1, <2>2, <2>5 DEF SleepersSame
<1>5. ASSUME NEW delay \in Int, NEW asked \in Int, NEW st \in {"SLEEP", "RECTIM"},
             FallsAsleep(delay, asked, st)
      PROVE  Moves /\ Woken
  <2> DEFINE ps == Put(prstate, currpid, st)
             k == InsertdKeys(sleepq, qkey, currpid, delay)
  <2>1. st \in States \ {"CURR", "READY"} /\ currpid # NULLPROC
    BY <1>5 DEF States, FallsAsleep
  <2>2. /\ k \in [Pid -> Int] /\ ReschedWith(preempt, ndefers, readylist, ps, k)
        /\ sleepq' = Insertd(sleepq, qkey, currpid, delay)
        /\ remain' = [remain EXCEPT ![currpid] = asked]
    BY <1>5, InsertdOthers DEF FallsAsleep, SleepFor, Resched, Put
  <2>3. /\ \A x \in SleepProcs(prstate) : ps[x] = prstate[x]
        /\ ps[currpid] = st
    BY <1>0 DEF Put
  <2> HIDE DEF ps, k
  <2>4. Fit(readylist, ps, k)
    BY <2>1, <2>2, FitLeave DEF ps
  <2>5. \A x \in Pid : ps[x] \in {"SLEEP", "RECTIM"} => qkey'[x] = k[x] /\ prstate'[x] = ps[x]
    BY <1>0, <2>2, <2>4, SleepersFramed
  <2>6. \A x \in Pid : x = currpid \/ x \in SleepProcs(prstate) => qkey'[x] = k[x]
    BY <1>0, <2>3, <2>5
  <2>7. \E pos \in 1 .. Len(sleepq) + 1 : JoinMove(pos, delay, asked)
    BY <2>2, <2>6, JoinMoves DEF k
  <2>8. Woken
    BY <1>0, <2>3, <2>5, NoneWoken
  <2>9. Asks(delay, asked, st)
    BY <1>5 DEF FallsAsleep
  <2>10. Moves
    BY <2>7, <2>9 DEF Moves
  <2> QED BY <2>8, <2>10
<1>6. ASSUME NEW p \in Pid, prstate[p] \notin {"CURR", "READY"}, NEW k \in [Pid -> Int],
             Ready(p, readylist, prstate, k)
      PROVE  \A x \in SleepProcs(prstate) : x # p => qkey'[x] = k[x] /\ prstate'[x] = prstate[x]
  <2> DEFINE rl == Insert(readylist, k, p, prprio[p])
             ps == Put(prstate, p, "READY")
             l == Put(k, p, prprio[p])
  <2>1. Fit(rl, ps, l) /\ ReschedWith(preempt, ndefers, rl, ps, l)
    BY <1>6, FitReady
  <2>2. \A x \in Pid : x # p => ps[x] = prstate[x] /\ l[x] = k[x]
    BY <1>0 DEF Put
  <2> HIDE DEF rl, ps, l
  <2>3. \A x \in Pid : ps[x] \in {"SLEEP", "RECTIM"} => qkey'[x] = l[x] /\ prstate'[x] = ps[x]
    BY <1>0, <2>1, SleepersFramed
  <2> QED BY <1>0, <2>2, <2>3
<1>7. ASSUME NEW p \in Pid, Wakes(p) PROVE Moves /\ Woken
  <2>1. prstate[p] \notin {"CURR", "READY"} /\ Ready(p, readylist, prstate, qkey) /\ SleepersSame
        /\ prstate[p] \notin {"SLEEP", "RECTIM"}
    BY <1>7 DEF Wakes
  <2>2. \A x \in SleepProcs(prstate) : qkey'[x] = qkey[x] /\ prstate'[x] = prstate[x]
    BY <1>0, <1>6, <2>1
  <2> QED BY <1>1, <2>1, <2>2 DEF SleepersSame
<1>8. CASE TimesOut
  <2>1. /\ sleepq # <<>> /\ Expired /\ Ready(Head(sleepq), readylist, prstate, qkey)
        /\ sleepq' = Tail(sleepq)
        /\ \A x \in SleepProcs(prstate) : x # Head(sleepq) => remain'[x] = remain[x]
    BY <1>8 DEF TimesOut, Expired
  <2>2. Head(sleepq) \in SleepProcs(prstate)
    BY <2>1, Types, TailOnQueue
  <2>3. Head(sleepq) \in Pid /\ prstate[Head(sleepq)] \notin {"CURR", "READY"}
    BY <1>0, <2>2
  <2>4. \A x \in SleepProcs(prstate) :
           x # Head(sleepq) => qkey'[x] = qkey[x] /\ prstate'[x] = prstate[x]
    BY <1>0, <1>6, <2>1, <2>3
  <2>5. WakeMove /\ Len(sleepq) >= 1
    BY <2>1, <2>4, WakeMoves
  <2>6. Woken
    BY <1>8, <2>4 DEF Woken, SleepProcs
  <2> QED BY <1>8, <2>5, <2>6 DEF Moves
<1>9. ASSUME NEW p \in Pid, GetsMessage(p) PROVE Moves /\ Woken
  <2> DEFINE k == UnsleepKeys(sleepq, qkey, p)
  <2>1. /\ prstate[p] = "RECTIM" /\ prhasmsg'[p] /\ Ready(p, readylist, prstate, k)
        /\ sleepq' = GetItem(sleepq, p)
        /\ \A x \in SleepProcs(prstate) : x # p => remain'[x] = remain[x]
    BY <1>9 DEF GetsMessage
  <2>2. k \in [Pid -> Int]
    BY <2>1, UnsleepOthers
  <2> HIDE DEF k
  <2>3. \A x \in SleepProcs(prstate) : x # p => qkey'[x] = k[x] /\ prstate'[x] = prstate[x]
    BY <1>6, <2>1, <2>2
  <2>4. \E pos \in 1 .. Len(sleepq) : QuitMove(pos)
    BY <2>1, <2>3, QuitMoves DEF k
  <2>5. Woken
    BY <2>1, <2>3 DEF Woken, SleepProcs
  <2> QED BY <2>4, <2>5 DEF Moves
<1>10. ASSUME NEW p \in Pid, NEW st \in {"SUSP", "FREE"}, Retires(p, st) PROVE Moves /\ Woken
  <2>1. /\ SleepersSame /\ qkey' = qkey /\ prstate[p] \notin {"SLEEP", "RECTIM"}
        /\ prstate' = Put(prstate, p, st)
    BY <1>10 DEF Retires
  <2>2. \A x \in SleepProcs(prstate) : prstate'[x] = prstate[x]
    BY <1>0, <2>1 DEF Put
  <2> QED BY <1>1, <2>1, <2>2 DEF SleepersSame
<1>11. ASSUME NEW p \in Pid, DiesAsleep(p) PROVE Moves /\ Woken
  <2>1. /\ prstate[p] \in {"SLEEP", "RECTIM"} /\ sleepq' = GetItem(sleepq, p)
        /\ qkey' = UnsleepKeys(sleepq, qkey, p) /\ prstate' = Put(prstate, p, "FREE")
        /\ \A x \in SleepProcs(prstate) : x # p => remain'[x] = remain[x]
    BY <1>11 DEF DiesAsleep
  <2>2. \A x \in Pid : prstate'[x] = IF x = p THEN "FREE" ELSE prstate[x]
    BY <1>0, <2>1 DEF Put
  <2>3. \E pos \in 1 .. Len(sleepq) : QuitMove(pos)
    BY <2>1, QuitMoves
  <2>4. Woken
    BY <2>2 DEF Woken
  <2> QED BY <2>3, <2>4 DEF Moves
<1>12. CASE Ticks
  <2>0. TickedKeys \in [Pid -> Int] /\ sleepq' = sleepq /\ remain' = TickedRemain
    BY <1>12, SleepKeys DEF Ticks
  <2>1. \A x \in SleepProcs(prstate) : qkey'[x] = TickedKeys[x] /\ prstate'[x] = prstate[x]
    <3>1. CASE prstate' = prstate /\ qkey' = TickedKeys
      BY <3>1
    <3>2. ASSUME NEW slice \in Int, ReschedWith(slice, ndefers, readylist, prstate, TickedKeys)
          PROVE  \A x \in SleepProcs(prstate) : qkey'[x] = TickedKeys[x] /\ prstate'[x] = prstate[x]
      <4>1. Fit(readylist, prstate, TickedKeys)
        BY <2>0, FitSame
      <4> QED BY <1>0, <3>2, <4>1, SleepersFramed
    <3> QED BY <1>12, <3>1, <3>2 DEF Ticks
  <2>2. TickMove
    BY <2>0, <2>1, TickMoves
  <2> QED BY <1>12, <2>1, <2>2, NoneWoken DEF Moves
<1> QED BY <1>2, <1>3, <1>4, <1>5, <1>7, <1>8, <1>9, <1>10, <1>11, <1>12 DEF Sorted

(* The same for a step of the kernel. *)
LEMMA NextMoves ==
    ASSUME IInv, [Next]_vars
    PROVE  Moves /\ Woken
<1>1. IInv'
  BY NextIInv
<1>2. qkey' \in [Pid -> Int]
  BY <1>1 DEF IInv, TypeOK
<1> QED BY <1>2, NextSorted, SleepMoves

-----------------------------------------------------------------------------
(***************************************************************************)
(* No delay is cut short.                                                  *)
(***************************************************************************)
(* No place of the queue is due before the delay asked for has passed. *)
NotAhead == \A i \in 1 .. Len(sleepq) : Lefts[i] <= 0 \/ Lefts[i] <= Dues[i]

(* The delays that sleepms takes for what they are. *)
ShortDelays == \A d \in Delays : d < 2^(IntBits - 1)

(* Such a delay is the one insertd is given. *)
LEMMA ShortAsks ==
    ASSUME ShortDelays, NEW delay, NEW asked, NEW st, Asks(delay, asked, st)
    PROVE  asked = delay
BY DEF Asks, AsInt32, ShortDelays

(* Every move keeps it. *)
LEMMA NotAheadStep ==
    ASSUME IInv, NotAhead, ShortDelays, Moves
    PROVE  NotAhead'
<1>0. /\ Len(sleepq) \in Nat
      /\ \A i \in 1 .. Len(sleepq) : Dues[i] \in Int /\ Lefts[i] \in Int
  BY DueTypes
<1>1. CASE SameMove
  BY <1>1 DEF SameMove, NotAhead
<1>2. CASE TickMove
  <2>1. ASSUME NEW i \in 1 .. Len(sleepq) PROVE Lefts'[i] <= 0 \/ Lefts'[i] <= Dues'[i]
    <3>1. Dues'[i] = Dues[i] - 1 /\ Lefts'[i] = IF Lefts[i] >= 0 THEN Lefts[i] - 1 ELSE Lefts[i]
      BY <1>2 DEF TickMove
    <3>2. Dues[i] \in Int /\ Lefts[i] \in Int /\ (Lefts[i] <= 0 \/ Lefts[i] <= Dues[i])
      BY <1>0 DEF NotAhead
    <3> QED BY <3>1, <3>2
  <2> QED BY <1>2, <2>1 DEF TickMove, NotAhead
<1>3. ASSUME NEW delay \in Int, NEW asked \in Int, NEW st \in {"SLEEP", "RECTIM"},
             NEW pos \in 1 .. Len(sleepq) + 1, JoinMove(pos, delay, asked), Asks(delay, asked, st)
      PROVE  NotAhead'
  <2>1. asked = delay
    BY <1>3, ShortAsks
  <2>2. ASSUME NEW i \in 1 .. Len(sleepq) + 1 PROVE Lefts'[i] <= 0 \/ Lefts'[i] <= Dues'[i]
    <3>1. /\ Dues'[i] = IF i < pos THEN Dues[i] ELSE IF i = pos THEN delay ELSE Dues[i-1]
          /\ Lefts'[i] = IF i < pos THEN Lefts[i] ELSE IF i = pos THEN asked ELSE Lefts[i-1]
      BY <1>3 DEF JoinMove
    <3>2. CASE i < pos
      <4>1. i \in 1 .. Len(sleepq)
        BY <1>0, <3>2
      <4> QED BY <3>1, <3>2, <4>1 DEF NotAhead
    <3>3. CASE i = pos
      BY <2>1, <3>1, <3>3
    <3>4. CASE i > pos
      <4>1. i - 1 \in 1 .. Len(sleepq) /\ ~(i < pos) /\ i # pos
        BY <1>0, <3>4
      <4>2. Dues'[i] = Dues[i-1] /\ Lefts'[i] = Lefts[i-1]
        BY <3>1, <4>1
      <4> QED BY <4>1, <4>2 DEF NotAhead
    <3> QED BY <3>2, <3>3, <3>4
  <2> QED BY <1>3, <2>2 DEF JoinMove, NotAhead
<1>4. CASE WakeMove /\ Len(sleepq) >= 1
  <2>1. ASSUME NEW i \in 1 .. Len(sleepq) - 1 PROVE Lefts'[i] <= 0 \/ Lefts'[i] <= Dues'[i]
    <3>1. i + 1 \in 1 .. Len(sleepq) /\ 1 \in 1 .. Len(sleepq)
      BY <1>0
    <3>2. Dues'[i] = Dues[i+1] - Dues[1] /\ Lefts'[i] = Lefts[i+1] /\ Dues[1] <= 0
      BY <1>4 DEF WakeMove
    <3>3. /\ Dues[i+1] \in Int /\ Lefts[i+1] \in Int /\ Dues[1] \in Int
          /\ Lefts[i+1] <= 0 \/ Lefts[i+1] <= Dues[i+1]
      BY <1>0, <3>1 DEF NotAhead
    <3> QED BY <3>2, <3>3
  <2> QED BY <1>4, <2>1 DEF WakeMove, NotAhead
<1>5. ASSUME NEW pos \in 1 .. Len(sleepq), QuitMove(pos) PROVE NotAhead'
  <2>1. ASSUME NEW i \in 1 .. Len(sleepq) - 1 PROVE Lefts'[i] <= 0 \/ Lefts'[i] <= Dues'[i]
    <3> DEFINE j == IF i < pos THEN i ELSE i + 1
    <3>1. j \in 1 .. Len(sleepq)
      BY <1>0
    <3>2. Dues'[i] = Dues[j] /\ Lefts'[i] = Lefts[j]
      BY <1>5 DEF QuitMove
    <3> HIDE DEF j
    <3> QED BY <3>1, <3>2 DEF NotAhead
  <2> QED BY <1>5, <2>1 DEF QuitMove, NotAhead
<1> QED BY <1>1, <1>2, <1>3, <1>4, <1>5 DEF Moves

(* What a step may never do: let a sleeper go on before its time. *)
LEMMA NotWokenEarly ==
    ASSUME IInv, NotAhead, Woken, NEW p \in Pid,
           prstate[p] \in {"SLEEP", "RECTIM"}, prstate'[p] \in {"READY", "CURR"}
    PROVE  remain[p] <= 0 \/ (prstate[p] = "RECTIM" /\ prhasmsg'[p])
<1>1. CASE TimesOut /\ p = Head(sleepq)
  <2>1. sleepq # <<>> /\ qkey[Head(sleepq)] <= 0
    BY <1>1 DEF TimesOut, Expired
  <2>2. 1 \in 1 .. Len(sleepq) /\ Head(sleepq) = sleepq[1]
    <3>1. sleepq \in Seq(Pid)
      BY Types
    <3> QED BY <2>1, <3>1
  <2>3. /\ Dues[1] = Dues[1-1] + qkey[sleepq[1]] /\ Dues[0] = 0 /\ Lefts[1] = remain[sleepq[1]]
        /\ Lefts[1] \in Int /\ sleepq[1] \in Pid /\ Dues[1] \in Int
    BY <2>2, DueTypes
  <2>4. qkey[sleepq[1]] \in Int
    BY <2>3, Types
  <2>5. Lefts[1] <= 0 \/ Lefts[1] <= Dues[1]
    BY <2>2 DEF NotAhead
  <2>6. Dues[1] <= 0
    BY <2>1, <2>2, <2>3, <2>4
  <2>7. Lefts[1] <= 0
    BY <2>3, <2>5, <2>6
  <2> QED BY <1>1, <2>2, <2>3, <2>7
<1> QED BY <1>1 DEF Woken

(* A delay is never cut short: sleepms ends when its time has passed, and  *)
(* recvtime then or because there is a message, whoever else joins, leaves *)
(* or is killed on the delta queue meanwhile.  A sleepms delay of 2^31 or  *)
(* more, which sleepms passes on as a negative int32, is excluded.         *)
THEOREM SleepersNotWokenEarly ==
    ASSUME ShortDelays
    PROVE  Spec => NoEarlyWake
<1>1. Init => NotAhead
  <2> SUFFICES ASSUME Init PROVE NotAhead
    OBVIOUS
  <2>1. Len(sleepq) = 0
    BY DEF Init
  <2> QED BY <2>1 DEF NotAhead
<1>2. IInv /\ NotAhead /\ [Next]_vars => NotAhead'
  BY NextMoves, NotAheadStep
<1>3. IInv /\ NotAhead /\ [Next]_vars =>
         [\A p \in Pid :
             /\ prstate[p] \in {"SLEEP", "RECTIM"}
             /\ prstate'[p] \in {"READY", "CURR"}
             => remain[p] <= 0 \/ (prstate[p] = "RECTIM" /\ prhasmsg'[p])]_vars
  BY NextMoves, NotWokenEarly
<1> QED BY <1>1, <1>2, <1>3, Inductive, PTL DEF Spec, NoEarlyWake

-----------------------------------------------------------------------------
(***************************************************************************)
(* No delay is lengthened either.  Every place of the queue is due exactly *)
(* when the delay has passed, the queue is in the order of the dues, and   *)
(* outside wakeup nobody on it is due: this last part is what recvtime(0)  *)
(* would break, whose caller the clock finds with a key of 0.              *)
(***************************************************************************)
Exact == \A i \in 1 .. Len(sleepq) : Lefts[i] = Dues[i] /\ Dues[i] >= 0
InOrder == \A i, j \in 1 .. Len(sleepq) : i <= j => Dues[i] <= Dues[j]
NotDue == Len(sleepq) = 0 \/ Dues[1] > 0

DelayInv == Exact /\ InOrder /\ (cont[currpid] # "wakeup" => NotDue)

(* The first due is the first key. *)
LEMMA FirstDue ==
    ASSUME IInv, Len(sleepq) # 0
    PROVE  /\ sleepq # <<>> /\ 1 \in 1 .. Len(sleepq)
           /\ Dues[1] = qkey[Head(sleepq)] /\ Dues[1] \in Int
<1>1. sleepq \in Seq(Pid) /\ qkey \in [Pid -> Int]
  BY Types
<1>2. sleepq # <<>> /\ 1 \in 1 .. Len(sleepq) /\ Head(sleepq) = sleepq[1]
  BY <1>1
<1>3. Dues[1] = Dues[1-1] + qkey[sleepq[1]] /\ Dues[0] = 0 /\ sleepq[1] \in Pid /\ Dues[1] \in Int
  BY <1>2, DueTypes
<1>4. qkey[sleepq[1]] \in Int
  BY <1>1, <1>3
<1> QED BY <1>2, <1>3, <1>4

(* The processor does not leave wakeup before nobody is due. *)
LEMMA WakeupRunsOut ==
    ASSUME IInv, [Next]_vars, cont[currpid] = "wakeup", cont'[currpid'] # "wakeup"
    PROVE  NotDue
<1>1. cont[currpid] # "user"
  OBVIOUS
<1>2. ~SemStep /\ ~ProcStep /\ ~ClockStep
  BY <1>1 DEF SemStep, Wait, Signal, SemDelete, SignalN, SemReset, SemCreate,
              ProcStep, Send, Suspend, Resume, Kill, ChPrio, Create, Receive, RecvClr, Yield,
              ReceiveTimed, SleepMs, ClockStep, Tick, TickWakeup, Calling, Signalling, Interruptible
<1>3. CASE Halt \/ UNCHANGED vars
  <2>1. cont' = cont /\ currpid' = currpid
    BY <1>3 DEF Halt, vars, kvars, sched
  <2> QED BY <2>1
<1>4. CASE WakeupLoop
  <2>1. cont' = cont /\ IInv' /\ currpid \in Pid
    BY <1>4, WakeupLoopStep, Types DEF WakeupLoop, kvars
  <2>2. \A p \in Pid : cont'[p] \in Deferring => p = currpid'
    BY <2>1 DEF IInv, PendingCalls
  <2>3. currpid' = currpid
    BY <2>1, <2>2 DEF Deferring
  <2> QED BY <2>1, <2>3
<1>5. CASE WakeupEnd
  <2>1. ~Expired
    BY <1>5 DEF WakeupEnd
  <2>2. CASE Len(sleepq) # 0
    <3>1. sleepq # <<>> /\ Dues[1] = qkey[Head(sleepq)] /\ Dues[1] \in Int
      BY <2>2, FirstDue
    <3> QED BY <2>1, <3>1 DEF Expired, NotDue
  <2> QED BY <2>2 DEF NotDue
<1>6. KernelStep => WakeupLoop \/ WakeupEnd
  BY DEF KernelStep, SignalNLoop, SignalNEnd, SemDeleteLoop, SemDeleteEnd, SemResetLoop,
         SemResetEnd, ReceiveEnd, KillEnd, ClkHandlerEnd, Continuing
<1> QED BY <1>2, <1>3, <1>4, <1>5, <1>6 DEF Next

(* Every move keeps it. *)
LEMMA DelayStep ==
    ASSUME IInv, DelayInv, ShortDelays, 0 \notin Waits, Moves, IInv',
           cont'[currpid'] # "wakeup" => cont[currpid] # "wakeup" \/ NotDue
    PROVE  DelayInv'
<1>0. /\ Len(sleepq) \in Nat
      /\ \A i \in 1 .. Len(sleepq) : Dues[i] \in Int /\ Lefts[i] \in Int
  BY DueTypes
<1>a. cont'[currpid'] # "wakeup" => NotDue
  BY DEF DelayInv
<1>b. \A i \in 1 .. Len(sleepq) : Lefts[i] = Dues[i] /\ Dues[i] >= 0
  BY DEF DelayInv, Exact
<1>c. \A i, j \in 1 .. Len(sleepq) : i <= j => Dues[i] <= Dues[j]
  BY DEF DelayInv, InOrder
<1>1. CASE SameMove
  <2>1. /\ Len(sleepq') = Len(sleepq)
        /\ \A i \in 1 .. Len(sleepq) : Dues'[i] = Dues[i] /\ Lefts'[i] = Lefts[i]
    BY <1>1 DEF SameMove
  <2>2. Exact' /\ InOrder'
    BY <1>b, <1>c, <2>1 DEF Exact, InOrder
  <2>3. NotDue => NotDue'
    BY <1>0, <2>1 DEF NotDue
  <2> QED BY <1>a, <2>2, <2>3 DEF DelayInv
<1>2. CASE TickMove /\ Ticks
  <2>1. /\ Len(sleepq') = Len(sleepq)
        /\ \A i \in 1 .. Len(sleepq) :
              /\ Dues'[i] = Dues[i] - 1
              /\ Lefts'[i] = IF Lefts[i] >= 0 THEN Lefts[i] - 1 ELSE Lefts[i]
    BY <1>2 DEF TickMove
  <2>2. Interruptible /\ (~WakesUp \/ cont'[currpid'] = "wakeup")
    BY <1>2 DEF Ticks
  <2>3. NotDue
    BY <2>2 DEF Interruptible, DelayInv
  <2>4. \A i \in 1 .. Len(sleepq) : Dues[i] > 0
    <3>1. TAKE i \in 1 .. Len(sleepq)
    <3>2. 1 \in 1 .. Len(sleepq) /\ 1 <= i /\ Len(sleepq) # 0
      BY <1>0
    <3>3. Dues[1] <= Dues[i] /\ Dues[1] > 0 /\ Dues[1] \in Int /\ Dues[i] \in Int
      BY <1>0, <1>c, <2>3, <3>2 DEF NotDue
    <3> QED BY <3>3
  <2>5. Exact'
    BY <1>0, <1>b, <2>1, <2>4 DEF Exact
  <2>6. InOrder'
    BY <1>0, <1>c, <2>1 DEF InOrder
  <2>7. ASSUME cont'[currpid'] # "wakeup" PROVE NotDue'
    <3>1. CASE Len(sleepq) # 0
      <4>1. sleepq # <<>> /\ 1 \in 1 .. Len(sleepq) /\ Dues[1] = qkey[Head(sleepq)] /\ Dues[1] \in Int
        BY <3>1, FirstDue
      <4>2. Dues[1] - 1 # 0
        BY <2>2, <2>7, <4>1 DEF WakesUp
      <4>3. Dues[1] > 0 /\ Dues'[1] = Dues[1] - 1
        BY <2>1, <2>4, <4>1
      <4>4. Dues'[1] > 0
        BY <4>1, <4>2, <4>3
      <4> QED BY <4>4 DEF NotDue
    <3> QED BY <2>1, <3>1 DEF NotDue
  <2> QED BY <2>5, <2>6, <2>7 DEF DelayInv
<1>3. ASSUME NEW delay \in Int, NEW asked \in Int, NEW st \in {"SLEEP", "RECTIM"},
             NEW pos \in 1 .. Len(sleepq) + 1, JoinMove(pos, delay, asked), Asks(delay, asked, st)
      PROVE  DelayInv'
  <2>1. asked = delay
    BY <1>3, ShortAsks
  <2>2. delay > 0
    BY <1>3, <2>1, DelaysAssumption DEF Asks
  <2>3. /\ Len(sleepq') = Len(sleepq) + 1
        /\ \A i \in 1 .. Len(sleepq) + 1 :
              /\ Dues'[i] = IF i < pos THEN Dues[i] ELSE IF i = pos THEN delay ELSE Dues[i-1]
              /\ Lefts'[i] = IF i < pos THEN Lefts[i] ELSE IF i = pos THEN asked ELSE Lefts[i-1]
        /\ \A i \in 1 .. Len(sleepq) : (i < pos => Dues[i] <= delay) /\ (i = pos => Dues[i] > delay)
    BY <1>3 DEF JoinMove
  <2>4. \A i \in 1 .. Len(sleepq) + 1 :
           /\ i < pos => i \in 1 .. Len(sleepq)
           /\ i > pos => i - 1 \in 1 .. Len(sleepq) /\ pos \in 1 .. Len(sleepq) /\ pos <= i - 1
    BY <1>0
  <2>5. \A i \in 1 .. Len(sleepq) + 1 : i > pos => delay < Dues[i-1]
    <3>1. TAKE i \in 1 .. Len(sleepq) + 1
    <3>2. HAVE i > pos
    <3>3. i - 1 \in 1 .. Len(sleepq) /\ pos \in 1 .. Len(sleepq) /\ pos <= i - 1
      BY <2>4, <3>2
    <3>4. Dues[pos] > delay /\ Dues[pos] <= Dues[i-1] /\ Dues[pos] \in Int /\ Dues[i-1] \in Int
      BY <1>0, <1>c, <2>3, <3>3
    <3> QED BY <3>4
  <2>6. Exact'
    <3>1. ASSUME NEW i \in 1 .. Len(sleepq) + 1 PROVE Lefts'[i] = Dues'[i] /\ Dues'[i] >= 0
      <4>1. CASE i < pos
        <5>1. i \in 1 .. Len(sleepq) /\ Dues'[i] = Dues[i] /\ Lefts'[i] = Lefts[i]
          BY <2>3, <2>4, <4>1
        <5> QED BY <1>b, <5>1
      <4>2. CASE i = pos
        BY <2>1, <2>2, <2>3, <4>2
      <4>3. CASE i > pos
        <5>1. i - 1 \in 1 .. Len(sleepq) /\ ~(i < pos) /\ i # pos
          BY <2>4, <4>3
        <5>2. Dues'[i] = Dues[i-1] /\ Lefts'[i] = Lefts[i-1]
          BY <2>3, <5>1
        <5> QED BY <1>b, <5>1, <5>2
      <4> QED BY <4>1, <4>2, <4>3
    <3> QED BY <2>3, <3>1 DEF Exact
  <2>7. InOrder'
    <3>1. ASSUME NEW i \in 1 .. Len(sleepq) + 1, NEW j \in 1 .. Len(sleepq) + 1, i <= j
          PROVE  Dues'[i] <= Dues'[j]
      <4>1. CASE i < pos
        <5>1. i \in 1 .. Len(sleepq) /\ Dues'[i] = Dues[i] /\ Dues[i] <= delay /\ Dues[i] \in Int
          BY <1>0, <2>3, <2>4, <4>1
        <5>2. CASE j < pos
          <6>1. j \in 1 .. Len(sleepq) /\ Dues'[j] = Dues[j]
            BY <2>3, <2>4, <5>2
          <6> QED BY <1>c, <3>1, <5>1, <6>1
        <5>3. CASE j = pos
          BY <2>3, <5>1, <5>3
        <5>4. CASE j > pos
          <6>1. j - 1 \in 1 .. Len(sleepq) /\ Dues'[j] = Dues[j-1] /\ delay < Dues[j-1]
            BY <2>3, <2>4, <2>5, <5>4
          <6>2. Dues[j-1] \in Int
            BY <1>0, <6>1
          <6> QED BY <5>1, <6>1, <6>2
        <5> QED BY <5>2, <5>3, <5>4
      <4>2. CASE i = pos
        <5>1. Dues'[i] = delay
          BY <2>3, <4>2
        <5>2. CASE j = pos
          BY <4>2, <5>1, <5>2
        <5>3. CASE j > pos
          <6>1. j - 1 \in 1 .. Len(sleepq) /\ Dues'[j] = Dues[j-1] /\ delay < Dues[j-1]
            BY <2>3, <2>4, <2>5, <5>3
          <6>2. Dues[j-1] \in Int
            BY <1>0, <6>1
          <6> QED BY <5>1, <6>1, <6>2
        <5> QED BY <3>1, <4>2, <5>2, <5>3
      <4>3. CASE i > pos
        <5>1. /\ i - 1 \in 1 .. Len(sleepq) /\ ~(i < pos) /\ i # pos
              /\ j - 1 \in 1 .. Len(sleepq) /\ ~(j < pos) /\ j # pos /\ i - 1 <= j - 1
          BY <2>4, <3>1, <4>3
        <5>2. Dues'[i] = Dues[i-1] /\ Dues'[j] = Dues[j-1]
          BY <2>3, <5>1
        <5> QED BY <1>c, <5>1, <5>2
      <4> QED BY <4>1, <4>2, <4>3
    <3> QED BY <2>3, <3>1 DEF InOrder
  <2>8. NotDue => NotDue'
    <3>1. 1 \in 1 .. Len(sleepq) + 1
      BY <1>0
    <3>2. CASE pos = 1
      <4>1. Dues'[1] = delay
        BY <2>3, <3>1, <3>2
      <4> QED BY <2>2, <4>1 DEF NotDue
    <3>3. CASE 1 < pos
      <4>1. Dues'[1] = Dues[1] /\ Len(sleepq) # 0
        BY <1>0, <2>3, <3>1, <3>3
      <4> QED BY <4>1 DEF NotDue
    <3> QED BY <3>2, <3>3
  <2> QED BY <1>a, <2>6, <2>7, <2>8 DEF DelayInv
<1>4. CASE WakeMove /\ TimesOut /\ Len(sleepq) >= 1
  <2>0. 1 \in 1 .. Len(sleepq) /\ Dues[1] \in Int
    BY <1>0, <1>4
  <2>1. Dues[1] = 0
    BY <1>4, <1>b, <2>0 DEF WakeMove
  <2>2. /\ Len(sleepq') = Len(sleepq) - 1
        /\ \A i \in 1 .. Len(sleepq) - 1 :
              i + 1 \in 1 .. Len(sleepq) /\ Dues'[i] = Dues[i+1] /\ Lefts'[i] = Lefts[i+1]
    <3>1. \A i \in 1 .. Len(sleepq) - 1 : i + 1 \in 1 .. Len(sleepq)
      BY <1>0
    <3>2. \A i \in 1 .. Len(sleepq) - 1 : Dues'[i] = Dues[i+1] - Dues[1] /\ Lefts'[i] = Lefts[i+1]
      BY <1>4 DEF WakeMove
    <3>3. \A i \in 1 .. Len(sleepq) - 1 : Dues'[i] = Dues[i+1]
      BY <1>0, <2>1, <3>1, <3>2
    <3> QED BY <1>4, <3>1, <3>2, <3>3 DEF WakeMove
  <2>3. Exact'
    BY <1>b, <2>2 DEF Exact
  <2>4. InOrder'
    <3>1. ASSUME NEW i \in 1 .. Len(sleepq) - 1, NEW j \in 1 .. Len(sleepq) - 1, i <= j
          PROVE  Dues'[i] <= Dues'[j]
      <4>1. i + 1 \in 1 .. Len(sleepq) /\ j + 1 \in 1 .. Len(sleepq) /\ i + 1 <= j + 1
        BY <2>2, <3>1
      <4>2. Dues[i+1] <= Dues[j+1]
        BY <1>c, <4>1
      <4> QED BY <2>2, <4>2
    <3> QED BY <2>2, <3>1 DEF InOrder
  <2>5. ~NotDue
    BY <1>0, <1>4, <2>1 DEF NotDue
  <2> QED BY <1>a, <2>3, <2>4, <2>5 DEF DelayInv
<1>5. ASSUME NEW pos \in 1 .. Len(sleepq), QuitMove(pos) PROVE DelayInv'
  <2> DEFINE j(i) == IF i < pos THEN i ELSE i + 1
  <2>1. \A i \in 1 .. Len(sleepq) - 1 : Dues'[i] = Dues[j(i)] /\ Lefts'[i] = Lefts[j(i)]
    BY <1>5 DEF QuitMove
  <2>2. \A i \in 1 .. Len(sleepq) - 1 : j(i) \in 1 .. Len(sleepq)
    BY <1>0
  <2>3. \A a, b \in 1 .. Len(sleepq) - 1 : a <= b => j(a) <= j(b)
    BY <1>0
  <2>4. Len(sleepq') = Len(sleepq) - 1
    BY <1>5 DEF QuitMove
  <2> HIDE DEF j
  <2>5. Exact'
    BY <1>b, <2>1, <2>2, <2>4 DEF Exact
  <2>6. InOrder'
    <3>1. ASSUME NEW a \in 1 .. Len(sleepq) - 1, NEW b \in 1 .. Len(sleepq) - 1, a <= b
          PROVE  Dues'[a] <= Dues'[b]
      <4>1. Dues[j(a)] <= Dues[j(b)]
        BY <1>c, <2>2, <2>3, <3>1
      <4> QED BY <2>1, <4>1
    <3> QED BY <2>4, <3>1 DEF InOrder
  <2>7. NotDue => NotDue'
    <3>1. CASE Len(sleepq) - 1 # 0
      <4>1. 1 \in 1 .. Len(sleepq) - 1 /\ 1 \in 1 .. Len(sleepq) /\ Len(sleepq) # 0
        <5>1. Len(sleepq) \in Nat /\ pos \in Nat /\ 1 <= pos /\ pos <= Len(sleepq)
          BY <1>0
        <5>2. \A n \in Nat : 1 <= n /\ n - 1 # 0 => 1 \in 1 .. n - 1 /\ 1 \in 1 .. n /\ n # 0
          OBVIOUS
        <5>3. 1 <= Len(sleepq)
          BY <5>1
        <5> QED BY <3>1, <5>1, <5>2, <5>3
      <4>2. j(1) \in 1 .. Len(sleepq) /\ 1 <= j(1)
        BY <2>2, <4>1
      <4>3. Dues'[1] = Dues[j(1)] /\ Dues[1] <= Dues[j(1)] /\ Dues[1] \in Int /\ Dues[j(1)] \in Int
        BY <1>0, <1>c, <2>1, <4>1, <4>2
      <4> QED BY <4>1, <4>3 DEF NotDue
    <3>2. CASE Len(sleepq) - 1 = 0
      BY <2>4, <3>2 DEF NotDue
    <3> QED BY <3>1, <3>2
  <2> QED BY <1>a, <2>5, <2>6, <2>7 DEF DelayInv
<1> QED BY <1>1, <1>2, <1>3, <1>4, <1>5 DEF Moves

(* The deltas on the sleep queue add up to what is left of each delay: the *)
(* key insertd takes off the next sleeper, the one unsleep gives back and  *)
(* the one the clock decrements balance, so that no delay grows because    *)
(* another process joined or left the queue.  recvtime(0), whose caller is *)
(* queued with a key of 0 that the next tick makes -1, is excluded, and so *)
(* are delays that sleepms passes on as a negative int32.                  *)
THEOREM DelaysAreKept ==
    ASSUME ShortDelays, 0 \notin Waits
    PROVE  Spec => []DelayKept
<1>1. Init => DelayInv
  <2> SUFFICES ASSUME Init PROVE DelayInv
    OBVIOUS
  <2>1. Len(sleepq) = 0
    BY DEF Init
  <2> QED BY <2>1 DEF DelayInv, Exact, InOrder, NotDue
<1>2. IInv /\ DelayInv /\ [Next]_vars => DelayInv'
  <2> SUFFICES ASSUME IInv, DelayInv, [Next]_vars PROVE DelayInv'
    OBVIOUS
  <2>1. IInv'
    BY NextIInv
  <2>2. cont'[currpid'] # "wakeup" => cont[currpid] # "wakeup" \/ NotDue
    BY WakeupRunsOut
  <2>3. Moves
    BY NextMoves
  <2> QED BY <2>1, <2>2, <2>3, DelayStep
<1>3. IInv /\ DelayInv => DelayKept
  <2> SUFFICES ASSUME IInv, DelayInv, NEW i \in DOMAIN sleepq
               PROVE  DeltaSum(sleepq, qkey)[i] = remain[sleepq[i]]
    BY DEF DelayKept
  <2>1. i \in 1 .. Len(sleepq)
    BY Types, SMTT(30)
  <2>2. Lefts[i] = Dues[i] /\ Lefts[i] = remain[sleepq[i]]
    BY <2>1, DueTypes DEF DelayInv, Exact
  <2> QED BY <2>2 DEF Dues
<1> QED BY <1>1, <1>2, <1>3, Inductive, PTL DEF Spec

-----------------------------------------------------------------------------
(***************************************************************************)
(* 4. What the calls of the process manager do to the counts and to who    *)
(* waits on which semaphore.                                               *)
(***************************************************************************)
(* The semaphore that a process waits on, or none. *)
Parked == [p \in Pid |-> IF prstate[p] = "WAIT" THEN prsem[p] ELSE NoSem]

(* Processes are released from s, and from no other semaphore. *)
Released(s) ==
    \A x \in Pid : Parked'[x] = Parked[x] \/ (Parked[x] = s /\ Parked'[x] = NoSem)

(* Nobody starts or stops waiting, and no semaphore changes. *)
NoEffect == Parked' = Parked /\ scount' = scount /\ sstate' = sstate

(* The current process does not wait; a process waits on a semaphore. *)
LEMMA ParkedTypes ==
    ASSUME IInv
    PROVE  /\ currpid \in Pid /\ Parked[currpid] = NoSem
           /\ scount \in [Sem -> Int] /\ sstate \in [Sem -> {"FREE", "USED"}]
           /\ cont \in [Pid -> Conts] /\ karg \in [Pid -> Int] /\ kcount \in [Pid -> Nat]
           /\ \A p \in Pid : Parked[p] # NoSem => Parked[p] \in Sem /\ prstate[p] = "WAIT"
           /\ \A p \in Pid : prstate[p] = "WAIT" => Parked[p] = prsem[p] /\ prsem[p] \in Sem
<1>1. /\ currpid \in Pid /\ prstate[currpid] = "CURR" /\ prsem \in [Pid -> Sem \cup {-1}]
      /\ \A p \in Pid : prstate[p] = "WAIT" => prsem[p] \in Sem
  BY TakeApart DEF Queues, QueuesAgree
<1>2. scount \in [Sem -> Int] /\ sstate \in [Sem -> {"FREE", "USED"}]
      /\ cont \in [Pid -> Conts] /\ karg \in [Pid -> Int] /\ kcount \in [Pid -> Nat]
  BY TakeApart DEF OtherTypes
<1> QED BY <1>1, <1>2 DEF Parked

(* A semaphore is a number, NoSem is not one. *)
LEMMA NoSemIsNone == NoSem \notin Sem
BY NSEMAssumption DEF NoSem, Sem

(* The waiting processes after resched. *)
LEMMA ParkedFrame ==
    ASSUME NEW ps \in [Pid -> States], NEW k, Frame(ps, k)
    PROVE  \A x \in Pid : Parked'[x] = IF ps[x] = "WAIT" THEN prsem'[x] ELSE NoSem
<1>1. \A x \in Pid : prstate'[x] = ps[x] \/ {ps[x], prstate'[x]} \subseteq {"CURR", "READY"}
  BY DEF Frame
<1>2. \A x \in Pid : prstate'[x] = "WAIT" <=> ps[x] = "WAIT"
  BY <1>1
<1> QED BY <1>2 DEF Parked

(* resched alone. *)
LEMMA ReschedParks ==
    ASSUME IInv, NEW slice, NEW nd \in Nat, NEW k \in [Pid -> Int],
           ReschedWith(slice, nd, readylist, prstate, k), prsem' = prsem
    PROVE  Parked' = Parked
<1>1. Frame(prstate, k) /\ prstate \in [Pid -> States]
  BY FitSame, ReschedFrame, Types
<1>2. \A x \in Pid : Parked'[x] = Parked[x]
  BY <1>1, ParkedFrame DEF Parked
<1> QED BY <1>2 DEF Parked

(* A process that was waiting, or was not, becomes ready. *)
LEMMA ReadyParks ==
    ASSUME IInv, NEW p \in Pid, prstate[p] \notin {"CURR", "READY"}, NEW k \in [Pid -> Int],
           Ready(p, readylist, prstate, k), prsem' = prsem
    PROVE  \A x \in Pid : Parked'[x] = IF x = p THEN NoSem ELSE Parked[x]
<1> DEFINE rl == Insert(readylist, k, p, prprio[p])
           ps == Put(prstate, p, "READY")
           l == Put(k, p, prprio[p])
<1>1. Fit(rl, ps, l) /\ ReschedWith(preempt, ndefers, rl, ps, l)
  BY FitReady
<1>2. \A x \in Pid : ps[x] = IF x = p THEN "READY" ELSE prstate[x]
  BY Types DEF Put
<1> HIDE DEF rl, ps, l
<1>3. Frame(ps, l) /\ ps \in [Pid -> States]
  BY <1>1, Types, ReschedFrame DEF Fit
<1>4. \A x \in Pid : Parked'[x] = IF ps[x] = "WAIT" THEN prsem[x] ELSE NoSem
  BY <1>3, ParkedFrame
<1> QED BY <1>2, <1>4 DEF Parked

(* The current process leaves for state st. *)
LEMMA LeaveParks ==
    ASSUME IInv, currpid # NULLPROC, NEW st \in States \ {"CURR", "READY"},
           ReschedWith(preempt, ndefers, readylist, Put(prstate, currpid, st), qkey)
    PROVE  \A x \in Pid : Parked'[x] = IF x = currpid
                                       THEN IF st = "WAIT" THEN prsem'[x] ELSE NoSem
                                       ELSE IF prstate[x] = "WAIT" THEN prsem'[x] ELSE NoSem
<1> DEFINE ps == Put(prstate, currpid, st)
<1>1. Fit(readylist, ps, qkey) /\ ps \in [Pid -> States]
  BY Types, FitLeave DEF Fit
<1>2. \A x \in Pid : ps[x] = IF x = currpid THEN st ELSE prstate[x]
  BY Types DEF Put
<1> HIDE DEF ps
<1>3. Frame(ps, qkey)
  BY <1>1, Types, ReschedFrame DEF ps
<1>4. \A x \in Pid : Parked'[x] = IF ps[x] = "WAIT" THEN prsem'[x] ELSE NoSem
  BY <1>1, <1>3, ParkedFrame
<1> QED BY <1>2, <1>4

(* wait: the count goes down, and the caller may have to wait. *)
LEMMA WaitEffect ==
    ASSUME IInv, NEW s \in Sem, Wait(s)
    PROVE  /\ IInv' /\ sstate' = sstate /\ UNCHANGED <<cont, karg, kcount, halted>>
           /\ scount' = [scount EXCEPT ![s] = @ - 1]
           /\ \A x \in Pid : Parked'[x] = Parked[x] \/ (x = currpid /\ Parked'[x] = s)
<1>1. /\ sstate' = sstate /\ UNCHANGED <<cont, karg, kcount, halted>>
      /\ scount' = [scount EXCEPT ![s] = @ - 1] /\ currpid # NULLPROC
  BY DEF Wait, kvars, Calling
<1>2. CASE UNCHANGED <<sched, prsem, squeue>>
  <2>1. prstate' = prstate /\ prsem' = prsem
    BY <1>2 DEF sched
  <2>2. \A x \in Pid : Parked'[x] = Parked[x]
    BY <2>1 DEF Parked
  <2> QED BY <1>1, <2>2, WaitStep
<1>3. CASE Block("WAIT") /\ prsem' = [prsem EXCEPT ![currpid] = s]
  <2>1. ReschedWith(preempt, ndefers, readylist, Put(prstate, currpid, "WAIT"), qkey)
    BY <1>3 DEF Block, Resched, Put
  <2>2. "WAIT" \in States \ {"CURR", "READY"}
    BY DEF States
  <2>3. \A x \in Pid : Parked'[x] = IF x = currpid
                                    THEN IF "WAIT" = "WAIT" THEN prsem'[x] ELSE NoSem
                                    ELSE IF prstate[x] = "WAIT" THEN prsem'[x] ELSE NoSem
    BY <1>1, <2>1, <2>2, LeaveParks
  <2>4. \A x \in Pid : prsem'[x] = IF x = currpid THEN s ELSE prsem[x]
    BY <1>3, TakeApart DEF Queues
  <2>5. \A x \in Pid : Parked'[x] = Parked[x] \/ (x = currpid /\ Parked'[x] = s)
    BY <2>3, <2>4 DEF Parked
  <2> QED BY <1>1, <2>5, WaitStep
<1> QED BY <1>2, <1>3 DEF Wait

(* The process at the head of a semaphore's queue is released. *)
LEMMA HeadReleased ==
    ASSUME IInv, NEW s \in Sem, squeue[s] # <<>>,
           Ready(Head(squeue[s]), readylist, prstate, qkey), prsem' = prsem
    PROVE  Released(s)
<1>1. squeue[s] \in Seq(Pid) /\ OnQueue(squeue[s], WaitProcs(prstate, prsem, s))
  BY TakeApart DEF Queues, QueuesAgree
<1> DEFINE h == Head(squeue[s])
<1>2. h \in WaitProcs(prstate, prsem, s) /\ h \in Pid
  BY <1>1, TailOnQueue
<1>3. prstate[h] = "WAIT" /\ prsem[h] = s
  BY <1>2 DEF WaitProcs
<1> HIDE DEF h
<1>4. \A x \in Pid : Parked'[x] = IF x = h THEN NoSem ELSE Parked[x]
  BY <1>2, <1>3, Types, ReadyParks DEF h
<1> QED BY <1>2, <1>3, <1>4 DEF Released, Parked

(* A signal, also one of the turns of semdelete's loop. *)
LEMMA SignalOnceEffect ==
    ASSUME IInv, NEW s \in Sem, ~InReset(s), SignalOnce(s), prsem' = prsem
    PROVE  Released(s) /\ sstate' = sstate /\ scount' = [scount EXCEPT ![s] = @ + 1]
<1>1. sstate' = sstate /\ scount' = [scount EXCEPT ![s] = @ + 1]
  BY DEF SignalOnce
<1>2. CASE scount[s] < 0
  <2>1. Len(squeue[s]) = -scount[s]
    BY <1>2 DEF IInv, SemCount
  <2>2. scount[s] \in Int
    BY ParkedTypes
  <2>3. Len(squeue[s]) # 0
    BY <1>2, <2>1, <2>2
  <2>4. squeue[s] # <<>>
    BY <2>3
  <2>5. Ready(Head(squeue[s]), readylist, prstate, qkey)
    BY <1>2 DEF SignalOnce
  <2> QED BY <1>1, <2>4, <2>5, HeadReleased
<1>3. CASE ~(scount[s] < 0)
  <2>1. prstate' = prstate
    BY <1>3 DEF SignalOnce, sched
  <2> QED BY <1>1, <2>1 DEF Released, Parked
<1> QED BY <1>2, <1>3

LEMMA SignalEffect ==
    ASSUME IInv, NEW s \in Sem, Signal(s)
    PROVE  /\ IInv' /\ sstate' = sstate /\ UNCHANGED <<cont, karg, kcount, halted>>
           /\ scount' = [scount EXCEPT ![s] = @ + 1]
           /\ Released(s)
<1>1. Interruptible /\ SignalOnce(s) /\ prsem' = prsem /\ UNCHANGED <<cont, karg, kcount, halted>>
  BY DEF Signal, Signalling, kvars
<1>2. ~InReset(s)
  BY <1>1, UserMode, NoLoop
<1> QED BY <1>1, <1>2, SignalOnceEffect, SignalStep

(* semcreate: the first free semaphore gets its count; nobody waits on it. *)
LEMMA SemCreateEffect ==
    ASSUME IInv, NEW n \in Int, SemCreate(n)
    PROVE  /\ IInv' /\ Parked' = Parked /\ UNCHANGED <<currpid, cont, karg, kcount, halted>>
           /\ n >= 0 /\ NewSem \in Sem /\ sstate[NewSem] = "FREE"
           /\ sstate' = [sstate EXCEPT ![NewSem] = "USED"]
           /\ scount' = [scount EXCEPT ![NewSem] = n]
           /\ \A p \in Pid : Parked[p] # NewSem
<1>1. /\ prstate' = prstate /\ prsem' = prsem /\ UNCHANGED <<currpid, cont, karg, kcount, halted>>
      /\ sstate' = [sstate EXCEPT ![NewSem] = "USED"] /\ Interruptible
      /\ scount' = [scount EXCEPT ![NewSem] = n] /\ n >= 0 /\ SemsFrom # {}
  BY DEF SemCreate, sched, kvars, Calling
<1>2. NewSem \in Sem /\ sstate[NewSem] = "FREE"
  BY <1>1, NewSemFree
<1> DEFINE s == NewSem
<1>3. s \in Sem /\ sstate[s] = "FREE"
  BY <1>2
<1> HIDE DEF s
<1>4. squeue[s] = <<>>
  <2>1. ~InDelete(s)
    BY <1>1, <1>3, UserMode, NoLoop
  <2> QED BY <1>3, <2>1 DEF IInv, NoWaiterOnFree
<1>5. OnQueue(squeue[s], WaitProcs(prstate, prsem, s))
  BY <1>3, TakeApart DEF Queues, QueuesAgree
<1>6. WaitProcs(prstate, prsem, s) = {}
  BY <1>4, <1>5 DEF OnQueue, ToSet
<1>7. \A p \in Pid : Parked[p] # s
  BY <1>3, <1>6, NoSemIsNone DEF Parked, WaitProcs
<1>8. Parked' = Parked
  BY <1>1 DEF Parked
<1> QED BY <1>1, <1>2, <1>7, <1>8, SemCreateStep DEF s

(* semreset and semdelete, up to their loops. *)
LEMMA SemResetEffect ==
    ASSUME IInv, NEW s \in Sem, NEW n \in Int, SemReset(s, n)
    PROVE  /\ IInv' /\ NoEffect /\ currpid' = currpid
           /\ InReset(s)' /\ kcount'[currpid] = n
<1>1. /\ prstate' = prstate /\ prsem' = prsem /\ scount' = scount /\ sstate' = sstate
      /\ currpid' = currpid /\ cont' = [cont EXCEPT ![currpid] = "semreset"]
      /\ karg' = [karg EXCEPT ![currpid] = s] /\ kcount' = [kcount EXCEPT ![currpid] = n]
  BY DEF SemReset, DeferStart, semvars, Then, With
<1>2. InReset(s)' /\ kcount'[currpid] = n
  BY <1>1, ParkedTypes DEF InReset
<1>3. NoEffect
  BY <1>1 DEF NoEffect, Parked
<1> QED BY <1>1, <1>2, <1>3, SemResetStep

LEMMA SemDeleteEffect ==
    ASSUME IInv, NEW s \in Sem, SemDelete(s)
    PROVE  /\ IInv' /\ Parked' = Parked /\ scount' = scount /\ currpid' = currpid
           /\ sstate' = [sstate EXCEPT ![s] = "FREE"]
           /\ cont'[currpid] = "semdelete" /\ karg'[currpid] = s
<1>1. /\ prstate' = prstate /\ prsem' = prsem /\ scount' = scount
      /\ sstate' = [sstate EXCEPT ![s] = "FREE"]
      /\ currpid' = currpid /\ cont' = [cont EXCEPT ![currpid] = "semdelete"]
      /\ karg' = [karg EXCEPT ![currpid] = s]
  BY DEF SemDelete, DeferStart, Then, With
<1>2. cont'[currpid] = "semdelete" /\ karg'[currpid] = s
  BY <1>1, ParkedTypes
<1>3. Parked' = Parked
  BY <1>1 DEF Parked
<1> QED BY <1>1, <1>2, <1>3, SemDeleteStep

(* The end of a loop. *)
LEMMA DeferStopParks ==
    ASSUME IInv, DeferStop, prsem' = prsem
    PROVE  Parked' = Parked
<1>1. CASE ndefers = 1 /\ attempt
  BY <1>1, Types, ReschedParks DEF DeferStop, Resched
<1>2. CASE ~(ndefers = 1 /\ attempt)
  <2>1. prstate' = prstate
    BY <1>2 DEF DeferStop
  <2> QED BY <2>1 DEF Parked
<1> QED BY <1>1, <1>2

(* The loops: semreset's ends with the new count; semdelete's counts. *)
LEMMA ReleasingEffect ==
    ASSUME IInv, SemResetLoop \/ SemResetEnd \/ SemDeleteLoop \/ SemDeleteEnd,
           NEW s, s = karg[currpid]
    PROVE  /\ IInv' /\ s \in Sem /\ Released(s) /\ sstate' = sstate
           /\ cont[currpid] \in {"semreset", "semdelete"}
           /\ \/ /\ cont[currpid] = "semreset" /\ scount' = scount
                 /\ InReset(s)' /\ kcount'[currpid'] = kcount[currpid]
              \/ /\ cont[currpid] = "semreset" /\ cont'[currpid] = "user"
                 /\ scount' = [scount EXCEPT ![s] = kcount[currpid]]
              \/ /\ cont[currpid] = "semdelete"
                 /\ scount' = [scount EXCEPT ![s] = @ + 1]
<1>1. ASSUME cont[currpid] \in {"semreset", "semdelete"} PROVE s \in Sem
  BY <1>1, ParkedTypes DEF IInv, PendingCalls
<1>2. CASE SemResetLoop
  <2>1. /\ cont[currpid] = "semreset" /\ squeue[s] # <<>> /\ prsem' = prsem
        /\ Ready(Head(squeue[s]), readylist, prstate, qkey)
        /\ UNCHANGED <<cont, karg, kcount, scount, sstate>>
    BY <1>2 DEF SemResetLoop, Continuing, kvars
  <2>2. s \in Sem
    BY <1>1, <2>1
  <2>3. Released(s)
    BY <2>1, <2>2, HeadReleased
  <2>4. currpid' = currpid
    <3> DEFINE h == Head(squeue[s])
    <3>1. squeue[s] \in Seq(Pid) /\ OnQueue(squeue[s], WaitProcs(prstate, prsem, s))
      BY <2>2, TakeApart DEF Queues, QueuesAgree
    <3>2. h \in WaitProcs(prstate, prsem, s) /\ h \in Pid
      BY <2>1, <3>1, TailOnQueue
    <3>3. prstate[h] = "WAIT"
      BY <3>2 DEF WaitProcs
    <3> HIDE DEF h
    <3>4. Ready(h, readylist, prstate, qkey)
      BY <2>1 DEF h
    <3>5. ndefers = 1
      BY <2>1, InLoop DEF Deferring
    <3> DEFINE rl == Insert(readylist, qkey, h, prprio[h])
               ps == Put(prstate, h, "READY")
               l == Put(qkey, h, prprio[h])
    <3>6. Fit(rl, ps, l) /\ ReschedWith(preempt, ndefers, rl, ps, l)
      BY <3>2, <3>3, <3>4, Types, FitReady
    <3> HIDE DEF rl, ps, l
    <3>7. ndefers \in Nat /\ ndefers > 0
      BY <3>5
    <3> QED BY <3>6, <3>7, ReschedFrame
  <2>5. InReset(s)' /\ kcount'[currpid'] = kcount[currpid]
    BY <2>1, <2>4 DEF InReset
  <2> QED BY <1>2, <2>1, <2>2, <2>3, <2>5, SemResetLoopStep
<1>3. CASE SemResetEnd
  <2>1. /\ cont[currpid] = "semreset" /\ prsem' = prsem /\ DeferStop
        /\ scount' = [scount EXCEPT ![s] = kcount[currpid]] /\ sstate' = sstate
        /\ cont'[currpid] = "user"
    BY <1>3, ParkedTypes DEF SemResetEnd, Continuing, Return
  <2>2. Released(s)
    BY <2>1, DeferStopParks DEF Released
  <2> QED BY <1>1, <1>3, <2>1, <2>2, SemResetEndStep
<1>4. CASE SemDeleteLoop
  <2>1. cont[currpid] = "semdelete" /\ prsem' = prsem /\ SignalOnce(s)
    BY <1>4 DEF SemDeleteLoop, Continuing
  <2>2. s \in Sem /\ ~InReset(s)
    BY <1>1, <2>1 DEF InReset
  <2> QED BY <1>4, <2>1, <2>2, SignalOnceEffect, SemDeleteLoopStep
<1>5. CASE SemDeleteEnd
  <2>1. /\ cont[currpid] = "semdelete" /\ prsem' = prsem /\ DeferStop
        /\ scount' = [scount EXCEPT ![s] = @ + 1] /\ sstate' = sstate
    BY <1>5 DEF SemDeleteEnd, Continuing
  <2>2. Released(s)
    BY <2>1, DeferStopParks DEF Released
  <2> QED BY <1>1, <1>5, <2>1, <2>2, SemDeleteEndStep
<1> QED BY <1>2, <1>3, <1>4, <1>5

(* create, resume and the clock. *)
LEMMA CreateEffect ==
    ASSUME IInv, NEW prio \in Prios, Create(prio)
    PROVE  IInv' /\ NoEffect
<1>1. scount' = scount /\ sstate' = sstate
  BY DEF Create, semvars
<1>2. CASE prio < 1
  <2>1. prstate' = prstate /\ prsem' = prsem
    BY <1>2 DEF Create
  <2> QED BY <1>1, <2>1, CreateStep DEF NoEffect, Parked
<1>3. CASE ~(prio < 1)
  <2>1. prstate' = [prstate EXCEPT ![NewPid] = "SUSP"] /\ PidsFrom # {}
        /\ prsem' = [prsem EXCEPT ![NewPid] = -1]
    BY <1>3 DEF Create
  <2> DEFINE n == NewPid
  <2>2. n \in Pid /\ prstate[n] = "FREE"
    BY <2>1, NewPidFree
  <2>3. \A x \in Pid : /\ prstate'[x] = IF x = n THEN "SUSP" ELSE prstate[x]
                       /\ x # n => prsem'[x] = prsem[x]
    BY <2>1, TakeApart DEF Queues
  <2> HIDE DEF n
  <2>4. Parked' = Parked
    BY <2>2, <2>3 DEF Parked
  <2> QED BY <1>1, <2>4, CreateStep DEF NoEffect
<1> QED BY <1>2, <1>3

LEMMA ResumeEffect ==
    ASSUME IInv, NEW p \in Pid, Resume(p)
    PROVE  IInv' /\ NoEffect
<1>1. /\ prstate[p] = "SUSP" /\ Ready(p, readylist, prstate, qkey)
      /\ prsem' = prsem /\ scount' = scount /\ sstate' = sstate
  BY DEF Resume, semvars
<1>2. \A x \in Pid : Parked'[x] = IF x = p THEN NoSem ELSE Parked[x]
  BY <1>1, Types, ReadyParks
<1>3. Parked' = Parked
  BY <1>1, <1>2 DEF Parked
<1> QED BY <1>1, <1>3, ResumeStep DEF NoEffect

LEMMA TickEffect ==
    ASSUME IInv, Tick
    PROVE  IInv' /\ NoEffect
<1>1. prsem' = prsem /\ scount' = scount /\ sstate' = sstate
  BY DEF Tick, semvars
<1>2. \/ \E slice : ReschedWith(slice, ndefers, readylist, prstate, TickedKeys)
      \/ prstate' = prstate
  BY DEF Tick, CountDown, Resched
<1>3. Parked' = Parked
  <2>1. ASSUME NEW slice, ReschedWith(slice, ndefers, readylist, prstate, TickedKeys)
        PROVE  Parked' = Parked
    BY <1>1, <2>1, Types, SleepKeys, ReschedParks
  <2>2. ASSUME prstate' = prstate PROVE Parked' = Parked
    BY <1>1, <2>2 DEF Parked
  <2> QED BY <1>2, <2>1, <2>2
<1> QED BY <1>1, <1>3, TickStep DEF NoEffect

(* kill, up to the message to the parent. *)
LEMMA KillEffect ==
    ASSUME IInv, NEW p \in Pid, Kill(p)
    PROVE  IInv' /\ NoEffect
<1>1. prsem' = prsem /\ scount' = scount /\ sstate' = sstate
  BY DEF Kill, semvars
<1>2. CASE SendTo(prparent[p])
  <2> DEFINE r == prparent[p]
  <2>1. r \in Pid
    BY TakeApart DEF OtherTypes
  <2> HIDE DEF r
  <2>2. SendTo(r)
    BY <1>2 DEF r
  <2>3. ASSUME NEW k \in [Pid -> Int], prstate[r] \in {"RECV", "RECTIM"},
               Ready(r, readylist, prstate, k)
        PROVE  Parked' = Parked
    <3>1. \A x \in Pid : Parked'[x] = IF x = r THEN NoSem ELSE Parked[x]
      BY <1>1, <2>1, <2>3, ReadyParks
    <3> QED BY <2>1, <2>3, <3>1 DEF Parked
  <2>4. ASSUME UNCHANGED sched PROVE Parked' = Parked
    BY <1>1, <2>4 DEF Parked, sched
  <2>5. Parked' = Parked
    <3>1. CASE prstate[r] = "RECV" /\ Ready(r, readylist, prstate, qkey)
      BY <2>3, <3>1, Types
    <3>2. CASE prstate[r] = "RECTIM" /\ Ready(r, readylist, prstate, UnsleepKeys(sleepq, qkey, r))
      <4>1. UnsleepKeys(sleepq, qkey, r) \in [Pid -> Int]
        BY <2>1, <3>2, UnsleepOthers
      <4> QED BY <2>3, <3>2, <4>1
    <3>3. CASE UNCHANGED sched
      BY <2>4, <3>3
    <3> QED BY <2>2, <3>1, <3>2, <3>3 DEF SendTo
  <2> QED BY <1>1, <2>5, KillStep DEF NoEffect
<1>3. CASE UNCHANGED sched
  <2>1. prstate' = prstate
    BY <1>3 DEF sched
  <2> QED BY <1>1, <2>1, KillStep DEF NoEffect, Parked
<1> QED BY <1>2, <1>3 DEF Kill

(* The rest of kill: the process waits no longer, and its semaphore does   *)
(* not count it.                                                           *)
LEMMA KillEndEffect ==
    ASSUME IInv, KillEnd
    PROVE  LET p == karg[currpid]
           IN  /\ IInv' /\ p \in Pid /\ sstate' = sstate /\ cont[currpid] = "kill"
               /\ \A x \in Pid : Parked'[x] = IF x = p THEN NoSem ELSE Parked[x]
               /\ scount' = IF Parked[p] = NoSem THEN scount
                            ELSE [scount EXCEPT ![Parked[p]] = @ + 1]
<1> DEFINE p == karg[currpid]
<1>1. cont[currpid] = "kill" /\ p \in Pid /\ p # NULLPROC /\ prsem' = prsem
  BY ParkedTypes DEF KillEnd, Continuing, IInv, PendingCalls
<1>2. prstate[p] \in States /\ prstate \in [Pid -> States]
  BY <1>1, Types
<1> DEFINE Goal == /\ sstate' = sstate
                   /\ \A x \in Pid : Parked'[x] = IF x = p THEN NoSem ELSE Parked[x]
                   /\ scount' = IF Parked[p] = NoSem THEN scount
                                ELSE [scount EXCEPT ![Parked[p]] = @ + 1]
<1>3. CASE prstate[p] = "CURR"
  <2>1. p = currpid
    BY <1>1, <1>3, Types
  <2>2. KillSelf(p)
    BY <1>3 DEF KillEnd
  <2>3. ReschedWith(preempt, ndefers, readylist, Put(prstate, currpid, "FREE"), qkey)
        /\ scount' = scount /\ sstate' = sstate
    BY <2>1, <2>2 DEF KillSelf, Resched, Put, semvars
  <2>4. "FREE" \in States \ {"CURR", "READY"}
    BY DEF States
  <2>5. \A x \in Pid : Parked'[x] = IF x = currpid
                                    THEN IF "FREE" = "WAIT" THEN prsem'[x] ELSE NoSem
                                    ELSE IF prstate[x] = "WAIT" THEN prsem'[x] ELSE NoSem
    BY <1>1, <2>1, <2>3, <2>4, LeaveParks
  <2>6. Parked[p] = NoSem
    BY <1>1, <1>3 DEF Parked
  <2>7. Goal
    BY <1>1, <2>1, <2>3, <2>5, <2>6 DEF Parked
  <2> QED BY <1>1, <2>7, KillEndStep
<1>4. ASSUME prstate' = [prstate EXCEPT ![p] = "FREE"]
      PROVE  \A x \in Pid : Parked'[x] = IF x = p THEN NoSem ELSE Parked[x]
  BY <1>1, <1>2, <1>4 DEF Parked
<1>5. CASE prstate[p] = "WAIT"
  <2>1. KillWaiting(p)
    BY <1>5 DEF KillEnd
  <2>2. Parked[p] = prsem[p] /\ Parked[p] # NoSem
    BY <1>1, <1>5, ParkedTypes, NoSemIsNone
  <2>3. Goal
    BY <1>4, <2>1, <2>2 DEF KillWaiting, Freed
  <2> QED BY <1>1, <2>3, KillEndStep
<1>6. CASE prstate[p] \notin {"CURR", "WAIT"}
  <2>1. Parked[p] = NoSem
    BY <1>1, <1>6 DEF Parked
  <2>2. KillAsleep(p) \/ KillReady(p) \/ KillUnqueued(p)
    BY <1>6 DEF KillEnd
  <2>3. prstate' = [prstate EXCEPT ![p] = "FREE"] /\ scount' = scount /\ sstate' = sstate
    BY <2>2 DEF KillAsleep, KillReady, KillUnqueued, Freed, semvars
  <2>4. Goal
    BY <1>4, <2>1, <2>3
  <2> QED BY <1>1, <2>4, KillEndStep
<1> QED BY <1>3, <1>5, <1>6

-----------------------------------------------------------------------------
(***************************************************************************)
(* How the account of a semaphore changes.                                 *)
(***************************************************************************)
(* A semaphore s and the calls that made use of it: who waits on s is      *)
(* among them, and they and the count make up the messages, or the places  *)
(* for messages.  A process that is killed after it was released takes its *)
(* share along, after which the account is no longer exact.                *)
UpTo(a, b, exact) == a <= b /\ (exact => a = b)

Book(counted, cnt, s, parked, claims, target, exact) ==
    /\ claims \subseteq Pid
    /\ \A p \in Pid : parked[p] = s => p \in claims
    /\ \A p \in claims : parked[p] \in {s, NoSem}
    /\ counted => UpTo(cnt + Cardinality(claims), target, exact)

(* A set of processes is finite; adding and removing one of them. *)
LEMMA PidSets ==
    ASSUME NEW S, S \subseteq Pid
    PROVE  IsFiniteSet(S) /\ Cardinality(S) \in Nat
<1>1. IsFiniteSet(Pid)
  BY NPROCAssumption, FS_Interval DEF Pid
<1> QED BY <1>1, FS_Subset, FS_CardinalityType

LEMMA OneMore ==
    ASSUME NEW S, S \subseteq Pid, NEW p \in Pid, p \notin S
    PROVE  Cardinality(S \cup {p}) = Cardinality(S) + 1
BY PidSets, FS_AddElement

LEMMA OneLess ==
    ASSUME NEW S, S \subseteq Pid, NEW p \in S
    PROVE  Cardinality(S \ {p}) = Cardinality(S) - 1
BY PidSets, FS_RemoveElement

(* A new semaphore, or one that was reset. *)
LEMMA BookOpen ==
    ASSUME NEW counted, NEW cnt \in Int, NEW s, NEW parked, NEW target, NEW exact,
           \A p \in Pid : parked[p] # s, counted => cnt = target
    PROVE  Book(counted, cnt, s, parked, {}, target, exact)
<1>1. Cardinality({}) = 0
  BY FS_EmptySet
<1>2. cnt + 0 = cnt /\ cnt <= cnt
  OBVIOUS
<1> QED BY <1>1, <1>2 DEF Book, UpTo

(* wait *)
LEMMA BookWait ==
    ASSUME NEW counted, NEW cnt \in Int, NEW s, NEW parked, NEW claims, NEW target \in Int,
           NEW exact, Book(counted, cnt, s, parked, claims, target, exact),
           NEW c \in Pid, c \notin claims,  NEW p2,
           \A x \in Pid : p2[x] = parked[x] \/ (x = c /\ p2[x] = s), parked[c] = NoSem
    PROVE  Book(counted, cnt - 1, s, p2, claims \cup {c}, target, exact)
<1>1. claims \subseteq Pid /\ Cardinality(claims) \in Nat
  BY PidSets DEF Book
<1> DEFINE n == Cardinality(claims)
           m == Cardinality(claims \cup {c})
<1>2. m = n + 1 /\ n \in Nat
  BY <1>1, OneMore
<1>3. counted => UpTo(cnt + n, target, exact)
  BY DEF Book
<1> HIDE DEF n, m
<1>4. (cnt - 1) + m = cnt + n
  BY <1>2
<1>5. counted => UpTo((cnt - 1) + m, target, exact)
  BY <1>3, <1>4
<1>6. \A p \in Pid : p2[p] = s => p \in claims \cup {c}
  BY DEF Book
<1>7. \A p \in claims \cup {c} : p2[p] \in {s, NoSem}
  BY <1>1 DEF Book
<1> QED BY <1>1, <1>5, <1>6, <1>7 DEF Book, m

(* signal: there is one more message, or place. *)
LEMMA BookSignal ==
    ASSUME NEW counted, NEW cnt \in Int, NEW s, NEW parked, NEW claims, NEW target \in Int,
           NEW exact, Book(counted, cnt, s, parked, claims, target, exact), NEW p2,
           \A x \in Pid : p2[x] = parked[x] \/ (parked[x] = s /\ p2[x] = NoSem), s # NoSem
    PROVE  Book(counted, cnt + 1, s, p2, claims, target + 1, exact)
<1>1. claims \subseteq Pid /\ Cardinality(claims) \in Nat
  BY PidSets DEF Book
<1> DEFINE n == Cardinality(claims)
<1>2. counted => UpTo(cnt + n, target, exact)
  BY DEF Book
<1>3. n \in Nat
  BY <1>1
<1> HIDE DEF n
<1>4. (cnt + 1) + n = (cnt + n) + 1 /\ cnt + n \in Int
  BY <1>3
<1>5. counted => UpTo((cnt + 1) + n, target + 1, exact)
  BY <1>2, <1>4 DEF UpTo
<1>6. \A p \in Pid : p2[p] = s => p \in claims
  BY DEF Book
<1>7. \A p \in claims : p2[p] \in {s, NoSem}
  BY <1>1 DEF Book
<1> QED BY <1>1, <1>5, <1>6, <1>7 DEF Book, n

(* A process that got past wait uses up what it was promised. *)
LEMMA BookTake ==
    ASSUME NEW counted, NEW cnt \in Int, NEW s, NEW parked, NEW claims, NEW target \in Int,
           NEW exact, Book(counted, cnt, s, parked, claims, target, exact),
           NEW c \in claims, parked[c] = NoSem, s # NoSem
    PROVE  Book(counted, cnt, s, parked, claims \ {c}, target - 1, exact)
<1>1. claims \subseteq Pid /\ Cardinality(claims) \in Nat
  BY PidSets DEF Book
<1> DEFINE n == Cardinality(claims)
           m == Cardinality(claims \ {c})
<1>2. m = n - 1 /\ n \in Nat
  BY <1>1, OneLess
<1>3. counted => UpTo(cnt + n, target, exact)
  BY DEF Book
<1> HIDE DEF n, m
<1>4. cnt + m = (cnt + n) - 1 /\ cnt + n \in Int
  BY <1>2
<1>5. counted => UpTo(cnt + m, target - 1, exact)
  BY <1>3, <1>4 DEF UpTo
<1>6. \A p \in Pid : parked[p] = s => p \in claims \ {c}
  BY DEF Book
<1> QED BY <1>1, <1>5, <1>6 DEF Book, m

(* A process is killed while it waits, or after it was released. *)
LEMMA BookKillWaiting ==
    ASSUME NEW counted, NEW cnt \in Int, NEW s, NEW parked, NEW claims, NEW target \in Int,
           NEW exact, Book(counted, cnt, s, parked, claims, target, exact), NEW p2,
           NEW c \in claims, s # NoSem, \A x \in Pid : p2[x] = IF x = c THEN NoSem ELSE parked[x]
    PROVE  Book(counted, cnt + 1, s, p2, claims \ {c}, target, exact)
<1>1. claims \subseteq Pid /\ Cardinality(claims) \in Nat
  BY PidSets DEF Book
<1> DEFINE n == Cardinality(claims)
           m == Cardinality(claims \ {c})
<1>2. m = n - 1 /\ n \in Nat
  BY <1>1, OneLess
<1>3. counted => UpTo(cnt + n, target, exact)
  BY DEF Book
<1> HIDE DEF n, m
<1>4. (cnt + 1) + m = cnt + n
  BY <1>2
<1>5. counted => UpTo((cnt + 1) + m, target, exact)
  BY <1>3, <1>4
<1>6. \A p \in Pid : p2[p] = s => p \in claims \ {c}
  BY DEF Book
<1>7. \A p \in claims \ {c} : p2[p] \in {s, NoSem}
  BY <1>1 DEF Book
<1> QED BY <1>1, <1>5, <1>6, <1>7 DEF Book, m

LEMMA BookKillRunning ==
    ASSUME NEW counted, NEW cnt \in Int, NEW s, NEW parked, NEW claims, NEW target \in Int,
           Book(counted, cnt, s, parked, claims, target, FALSE), NEW p2,
           NEW c \in claims, s # NoSem, \A x \in Pid : p2[x] = IF x = c THEN NoSem ELSE parked[x]
    PROVE  Book(counted, cnt, s, p2, claims \ {c}, target, FALSE)
<1>1. claims \subseteq Pid /\ Cardinality(claims) \in Nat
  BY PidSets DEF Book
<1> DEFINE n == Cardinality(claims)
           m == Cardinality(claims \ {c})
<1>2. m = n - 1 /\ n \in Nat
  BY <1>1, OneLess
<1>3. counted => cnt + n <= target
  BY DEF Book, UpTo
<1> HIDE DEF n, m
<1>4. cnt + n <= target => cnt + m <= target
  BY <1>2
<1>5. counted => UpTo(cnt + m, target, FALSE)
  BY <1>3, <1>4 DEF UpTo
<1>6. \A p \in Pid : p2[p] = s => p \in claims \ {c}
  BY DEF Book
<1>7. \A p \in claims \ {c} : p2[p] \in {s, NoSem}
  BY <1>1 DEF Book
<1> QED BY <1>1, <1>5, <1>6, <1>7 DEF Book, m

(* What happens to others does not matter. *)
LEMMA BookOther ==
    ASSUME NEW counted, NEW cnt, NEW s, NEW parked, NEW claims, NEW target,
           NEW exact, Book(counted, cnt, s, parked, claims, target, exact), NEW p2, NEW e2,
           \A x \in Pid : (p2[x] = s => parked[x] = s) /\ (x \in claims => p2[x] \in {parked[x], NoSem}),
           e2 => exact
    PROVE  Book(counted, cnt, s, p2, claims, target, e2)
<1>1. counted => UpTo(cnt + Cardinality(claims), target, e2)
  BY DEF Book, UpTo
<1>2. claims \subseteq Pid /\ \A p \in Pid : p2[p] = s => p \in claims
  BY DEF Book
<1>3. \A p \in claims : p2[p] \in {s, NoSem}
  BY <1>2 DEF Book
<1> QED BY <1>1, <1>2, <1>3 DEF Book

-----------------------------------------------------------------------------
(***************************************************************************)
(* How many processes wait.                                                *)
(***************************************************************************)
(* Two queues, one after the other. *)
LEMMA ConcatOnQueue ==
    ASSUME NEW P, NEW q \in Seq(P), NEW r \in Seq(P), NEW S, NEW T,
           OnQueue(q, S), OnQueue(r, T), S \cap T = {}
    PROVE  q \o r \in Seq(P) /\ OnQueue(q \o r, S \cup T)
<1> DEFINE a == Len(q)
           b == Len(r)
           c == q \o r
<1>1. /\ c \in Seq(P) /\ a \in Nat /\ b \in Nat /\ DOMAIN c = 1 .. a + b
      /\ DOMAIN q = 1 .. a /\ DOMAIN r = 1 .. b
  OBVIOUS
<1>2. \A i \in 1 .. a + b : c[i] = IF i <= a THEN q[i] ELSE r[i - a]
  OBVIOUS
<1>3. S = {q[i] : i \in 1 .. a} /\ T = {r[i] : i \in 1 .. b}
  BY <1>1 DEF OnQueue, ToSet
<1> HIDE DEF a, b, c
<1>4. \A i \in 1 .. a + b : /\ i <= a => c[i] \in S /\ c[i] = q[i] /\ i \in 1 .. a
                            /\ i > a => c[i] \in T /\ c[i] = r[i - a] /\ i - a \in 1 .. b
  BY <1>1, <1>2, <1>3
<1>5. IsInjective(c)
  <2>1. SUFFICES ASSUME NEW i \in 1 .. a + b, NEW j \in 1 .. a + b, c[i] = c[j] PROVE i = j
    BY <1>1 DEF IsInjective
  <2>2. CASE i <= a /\ j <= a
    BY <1>1, <1>4, <2>1, <2>2 DEF OnQueue, IsInjective
  <2>3. CASE i > a /\ j > a
    <3>1. r[i - a] = r[j - a] /\ i - a \in 1 .. b /\ j - a \in 1 .. b
      BY <1>4, <2>1, <2>3
    <3>2. i - a = j - a
      BY <1>1, <3>1 DEF OnQueue, IsInjective
    <3> QED BY <1>1, <3>2
  <2>4. CASE (i <= a /\ j > a) \/ (i > a /\ j <= a)
    BY <1>4, <2>1, <2>4
  <2> QED BY <1>1, <2>2, <2>3, <2>4
<1>6. ToSet(c) = S \cup T
  <2>1. ToSet(c) = {c[i] : i \in 1 .. a + b}
    BY <1>1 DEF ToSet
  <2>2. \A x \in S : \E i \in 1 .. a + b : c[i] = x
    <3>1. \A i \in 1 .. a : i \in 1 .. a + b /\ c[i] = q[i]
      BY <1>1, <1>4
    <3> QED BY <1>3, <3>1
  <2>3. \A x \in T : \E i \in 1 .. a + b : c[i] = x
    <3>1. \A i \in 1 .. b : a + i \in 1 .. a + b /\ c[a + i] = r[i]
      <4>1. \A i \in 1 .. b : a + i \in 1 .. a + b /\ a + i > a /\ (a + i) - a = i
        BY <1>1
      <4> QED BY <1>4, <4>1
    <3> QED BY <1>3, <3>1
  <2>4. \A i \in 1 .. a + b : c[i] \in S \cup T
    BY <1>1, <1>4
  <2> QED BY <2>1, <2>2, <2>3, <2>4
<1> QED BY <1>1, <1>5, <1>6 DEF OnQueue, c

(* The length of a queue is the number of its members. *)
LEMMA QueueSize ==
    ASSUME NEW P, NEW q \in Seq(P), NEW S, OnQueue(q, S)
    PROVE  Cardinality(S) = Len(q) /\ Len(q) \in Nat
<1>1. Len(q) \in Nat /\ DOMAIN q = 1 .. Len(q)
  OBVIOUS
<1>2. S = {q[i] : i \in DOMAIN q}
  BY DEF OnQueue, ToSet
<1>3. q \in [1 .. Len(q) -> S]
  BY <1>1, <1>2
<1>4. q \in Bijection(1 .. Len(q), S)
  BY <1>1, <1>2, <1>3 DEF Bijection, Injection, Surjection, OnQueue, IsInjective
<1>5. ExistsBijection(1 .. Len(q), S)
  BY <1>4 DEF ExistsBijection
<1> QED BY <1>1, <1>5, FS_CountingElements

(* Who waits on semaphore s. *)
Waiters(s) == {p \in Pid : Parked[p] = s}

LEMMA WaitersCounted ==
    ASSUME IInv, NEW s \in Sem, ~InReset(s)
    PROVE  /\ Cardinality(Waiters(s)) = Len(squeue[s]) /\ Len(squeue[s]) \in Nat
           /\ squeue[s] = <<>> <=> Len(squeue[s]) = 0
           /\ scount[s] \in Int
           /\ Len(squeue[s]) = IF scount[s] < 0 THEN -scount[s] ELSE 0
<1>1. squeue[s] \in Seq(Pid) /\ OnQueue(squeue[s], WaitProcs(prstate, prsem, s))
  BY TakeApart DEF Queues, QueuesAgree
<1>2. Waiters(s) = WaitProcs(prstate, prsem, s)
  BY NoSemIsNone DEF Waiters, Parked, WaitProcs
<1>3. Len(squeue[s]) = IF scount[s] < 0 THEN -scount[s] ELSE 0
  BY DEF IInv, SemCount
<1>4. scount[s] \in Int
  BY ParkedTypes
<1>5. squeue[s] = <<>> <=> Len(squeue[s]) = 0
  BY <1>1
<1> QED BY <1>1, <1>2, <1>3, <1>4, <1>5, QueueSize
==============================================================================
