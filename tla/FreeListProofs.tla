---------------------------- MODULE FreeListProofs ----------------------------
(***************************************************************************)
(* The free list, for every heap: blocks stay in order and apart, every    *)
(* word has one owner, and the list implements a set of free words.        *)
(***************************************************************************)
EXTENDS FreeList, SequenceTheorems, TLAPS

Blocks == [addr : Nat, len : Nat]

LEMMA Bounds ==
    /\ SPACE \in Nat /\ minheap \in Nat /\ maxheap \in Nat
    /\ 0 < minheap /\ minheap < maxheap /\ maxheap < SPACE
  BY SpaceAssumption

(* Sums that stay below SPACE do not wrap. *)
LEMMA USmall == \A x \in Nat : x < SPACE => U(x) = x
  BY SpaceAssumption DEF U

(* roundmb gives no less than what is asked for, and wastes less than a    *)
(* memblk.                                                                 *)
LEMMA RoundmbBounds ==
  \A n \in Request : roundmb(n) \in Nat /\ n <= roundmb(n) /\ roundmb(n) < n + MBLK
<1> SUFFICES ASSUME NEW n \in Request
             PROVE  roundmb(n) \in Nat /\ n <= roundmb(n) /\ roundmb(n) < n + MBLK
  OBVIOUS
<1> DEFINE x == MBLK - 1 + n
<1>1. n \in Nat /\ x \in Nat /\ x < SPACE
  BY SpaceAssumption, RequestAssumption
<1>2. U(x) = x
  BY <1>1, USmall
<1>3. x % MBLK \in 0 .. MBLK - 1 /\ x % MBLK <= x
  BY <1>1, SpaceAssumption
<1> QED
  BY <1>1, <1>2, <1>3, SpaceAssumption DEF roundmb

(* A function on 1 .. n is a sequence of length n. *)
LEMMA FunctionIsSeq ==
  ASSUME NEW n \in Nat, NEW S, NEW f \in [1 .. n -> S]
  PROVE  f \in Seq(S) /\ Len(f) = n
  BY SeqDef, LenProperties

(* What the blocks of a list are. *)
LEMMA Fields ==
  ASSUME NEW s \in Seq(Blocks)
  PROVE  \A j \in 1 .. Len(s) : s[j].addr \in Nat /\ s[j].len \in Nat
<1>1. \A b \in Blocks : b.addr \in Nat /\ b.len \in Nat
  BY DEF Blocks
<1> QED
  BY <1>1

(* The words of block i, and what removing, changing and inserting a block *)
(* does to the free words and to the order.                                *)
In(b, w) == b.addr <= w /\ w < b.addr + b.len

LEMMA RemoveType ==
  ASSUME NEW s \in Seq(Blocks), NEW i \in 1 .. Len(s)
  PROVE  /\ Remove(s, i) \in Seq(Blocks) /\ Len(Remove(s, i)) = Len(s) - 1
         /\ \A j \in 1 .. Len(s) - 1 : Remove(s, i)[j] = IF j < i THEN s[j] ELSE s[j + 1]
<1>1. Len(s) - 1 \in Nat /\ \A j \in 1 .. Len(s) : s[j] \in Blocks
  OBVIOUS
<1>2. Remove(s, i) \in [1 .. Len(s) - 1 -> Blocks]
  BY <1>1 DEF Remove
<1> QED
  BY <1>1, <1>2, FunctionIsSeq DEF Remove

LEMMA RemoveFree ==
  ASSUME NEW s \in Seq(Blocks), NEW i \in 1 .. Len(s), InHeap(s), Apart(s)
  PROVE  /\ InHeap(Remove(s, i)) /\ Apart(Remove(s, i))
         /\ \A w \in Nat : FreeIn(Remove(s, i), w) <=> FreeIn(s, w) /\ ~In(s[i], w)
<1> DEFINE t == Remove(s, i)
<1>1. /\ t \in Seq(Blocks) /\ Len(t) = Len(s) - 1
      /\ \A j \in 1 .. Len(s) - 1 : t[j] = IF j < i THEN s[j] ELSE s[j + 1]
  BY RemoveType
<1>2. \A j \in 1 .. Len(s) : s[j].addr \in Nat /\ s[j].len \in Nat
  BY Fields
<1> HIDE DEF t
<1> DEFINE d(j) == IF j < i THEN j ELSE j + 1
<1>7. \A j \in 1 .. Len(t) : d(j) \in 1 .. Len(s) /\ t[j] = s[d(j)]
  BY <1>1
<1>8. \A j, k \in 1 .. Len(t) : j < k => d(j) < d(k)
  OBVIOUS
<1> HIDE DEF d
<1>3. InHeap(t)
  BY <1>7 DEF InHeap
<1>4. Apart(t)
  BY <1>7, <1>8 DEF Apart
<1>5. ASSUME NEW w \in Nat, FreeIn(t, w)
      PROVE  FreeIn(s, w) /\ ~In(s[i], w)
  <2>1. PICK j \in 1 .. Len(t) : In(t[j], w)
    BY <1>5 DEF FreeIn, In
  <2>2. PICK k \in 1 .. Len(s) : k # i /\ t[j] = s[k]
    BY <2>1, <1>1
  <2>3. FreeIn(s, w) /\ In(s[k], w)
    BY <2>1, <2>2 DEF FreeIn, In
  <2>4. k < i \/ i < k
    BY <2>2
  <2>5. s[k].addr + s[k].len < s[i].addr \/ s[i].addr + s[i].len < s[k].addr
    BY <2>2, <2>4 DEF Apart
  <2> QED
    BY <2>3, <2>5, <1>2, SMTT(30) DEF In
<1>6. ASSUME NEW w \in Nat, FreeIn(s, w), ~In(s[i], w)
      PROVE  FreeIn(t, w)
  <2>1. PICK k \in 1 .. Len(s) : In(s[k], w)
    BY <1>6 DEF FreeIn, In
  <2>2. PICK j \in 1 .. Len(t) : t[j] = s[k]
    <3>1. k < i \/ k > i
      BY <2>1, <1>6
    <3>2. CASE k < i
      BY <3>2, <1>1
    <3>3. CASE k > i
      <4>1. k - 1 \in 1 .. Len(t) /\ t[k - 1] = s[k]
        BY <3>3, <1>1
      <4> QED
        BY <4>1
    <3> QED
      BY <3>1, <3>2, <3>3
  <2> QED
    BY <2>1, <2>2 DEF FreeIn, In
<1> QED
  BY <1>3, <1>4, <1>5, <1>6 DEF t

(* Block i becomes b, which touches no other block. *)
LEMMA ChangeFree ==
  ASSUME NEW s \in Seq(Blocks), NEW i \in 1 .. Len(s), NEW b \in Blocks,
         InHeap(s), Apart(s),
         b.len > 0, minheap <= b.addr, b.addr + b.len <= maxheap,
         \A j \in 1 .. Len(s) : /\ j < i => s[j].addr + s[j].len < b.addr
                                /\ j > i => b.addr + b.len < s[j].addr
  PROVE  /\ [s EXCEPT ![i] = b] \in Seq(Blocks) /\ Len([s EXCEPT ![i] = b]) = Len(s)
         /\ InHeap([s EXCEPT ![i] = b]) /\ Apart([s EXCEPT ![i] = b])
         /\ \A w \in Nat : FreeIn([s EXCEPT ![i] = b], w)
                              <=> (FreeIn(s, w) /\ ~In(s[i], w)) \/ In(b, w)
<1> DEFINE t == [s EXCEPT ![i] = b]
<1>1. /\ t \in Seq(Blocks) /\ Len(t) = Len(s) /\ t[i] = b
      /\ \A j \in 1 .. Len(s) : j # i => t[j] = s[j]
  OBVIOUS
<1>2. \A j \in 1 .. Len(s) : s[j].addr \in Nat /\ s[j].len \in Nat
  BY Fields
<1> HIDE DEF t
<1>3. InHeap(t)
  BY <1>1, <1>2 DEF InHeap
<1>4. ASSUME NEW j \in 1 .. Len(t), NEW k \in 1 .. Len(t), j < k
      PROVE  t[j].addr + t[j].len < t[k].addr
  <2>1. CASE j = i
    BY <2>1, <1>1, <1>4
  <2>2. CASE k = i
    BY <2>2, <1>1, <1>4
  <2>3. CASE j # i /\ k # i
    BY <2>3, <1>1, <1>4 DEF Apart
  <2> QED
    BY <2>1, <2>2, <2>3
<1>5. ASSUME NEW w \in Nat, FreeIn(t, w)
      PROVE  (FreeIn(s, w) /\ ~In(s[i], w)) \/ In(b, w)
  <2>1. PICK k \in 1 .. Len(t) : In(t[k], w)
    BY <1>5 DEF FreeIn, In
  <2>2. CASE k = i
    BY <2>1, <2>2, <1>1
  <2>3. CASE k # i
    <3>1. FreeIn(s, w) /\ In(s[k], w)
      BY <2>1, <2>3, <1>1 DEF FreeIn, In
    <3>2. k < i \/ i < k
      BY <2>3, <1>1
    <3> QED
      BY <3>1, <3>2, <1>1, <1>2 DEF In, Apart
  <2> QED
    BY <2>2, <2>3
<1>6. ASSUME NEW w \in Nat, (FreeIn(s, w) /\ ~In(s[i], w)) \/ In(b, w)
      PROVE  FreeIn(t, w)
  BY <1>6, <1>1, <1>2 DEF FreeIn, In
<1> QED
  BY <1>1, <1>3, <1>4, <1>5, <1>6 DEF t, Apart

(* What getmem and getstk leave: the list without the words they take. *)
LEMMA TakeFree ==
  ASSUME memlist \in Seq(Blocks), Separated,
         NEW i \in 1 .. Len(memlist), NEW nb \in Nat, 0 < nb, nb <= memlist[i].len
  PROVE  /\ Take(i, nb) \in Seq(Blocks) /\ InHeap(Take(i, nb)) /\ Apart(Take(i, nb))
         /\ \A w \in Nat : FreeIn(Take(i, nb), w) <=>
               /\ FreeIn(memlist, w)
               /\ ~(memlist[i].addr <= w /\ w < memlist[i].addr + nb)
<1> DEFINE b == Block(U(memlist[i].addr + nb), memlist[i].len - nb)
<1>1. \A j \in 1 .. Len(memlist) : memlist[j].addr \in Nat /\ memlist[j].len \in Nat
  BY Fields
<1>2. /\ minheap <= memlist[i].addr /\ memlist[i].addr + memlist[i].len <= maxheap
      /\ U(memlist[i].addr + nb) = memlist[i].addr + nb
  <2>1. minheap <= memlist[i].addr /\ memlist[i].addr + memlist[i].len <= maxheap
    BY DEF Separated, InHeap
  <2>2. memlist[i].addr + nb \in Nat /\ memlist[i].addr + nb < SPACE
    BY <1>1, <2>1, Bounds
  <2> QED
    BY <2>1, <2>2, USmall
<1>3. CASE memlist[i].len = nb
  <2>1. Take(i, nb) = Remove(memlist, i)
    BY <1>3 DEF Take
  <2> QED
    BY <2>1, <1>3, RemoveType, RemoveFree DEF Separated, In
<1>4. CASE memlist[i].len # nb
  <2>1. Take(i, nb) = [memlist EXCEPT ![i] = b]
    BY <1>4 DEF Take
  <2>2. /\ b \in Blocks /\ b.addr = memlist[i].addr + nb /\ b.len = memlist[i].len - nb
        /\ b.len > 0
    BY <1>1, <1>2, <1>4, SMTT(30) DEF Block, Blocks
  <2> HIDE DEF b
  <2>3. \A j \in 1 .. Len(memlist) :
           /\ j < i => memlist[j].addr + memlist[j].len < b.addr
           /\ j > i => b.addr + b.len < memlist[j].addr
    <3> SUFFICES ASSUME NEW j \in 1 .. Len(memlist)
                 PROVE  /\ j < i => memlist[j].addr + memlist[j].len < b.addr
                        /\ j > i => b.addr + b.len < memlist[j].addr
      OBVIOUS
    <3>1. /\ j < i => memlist[j].addr + memlist[j].len < memlist[i].addr
          /\ j > i => memlist[i].addr + memlist[i].len < memlist[j].addr
      BY DEF Separated, Apart
    <3>2. /\ memlist[j].addr \in Nat /\ memlist[j].len \in Nat
          /\ memlist[i].addr \in Nat /\ memlist[i].len \in Nat
      BY <1>1
    <3> QED
      BY <2>2, <3>1, <3>2, SMTT(30)
  <2>4. minheap <= b.addr /\ b.addr + b.len <= maxheap
    BY <2>2, <1>1, <1>2, Bounds
  <2>5. /\ [memlist EXCEPT ![i] = b] \in Seq(Blocks)
        /\ InHeap([memlist EXCEPT ![i] = b]) /\ Apart([memlist EXCEPT ![i] = b])
        /\ \A w \in Nat : FreeIn([memlist EXCEPT ![i] = b], w)
                            <=> (FreeIn(memlist, w) /\ ~In(memlist[i], w)) \/ In(b, w)
    BY <2>2, <2>3, <2>4, ChangeFree DEF Separated
  <2>6. \A w \in Nat : (FreeIn(memlist, w) /\ ~In(memlist[i], w)) \/ In(b, w)
             <=> /\ FreeIn(memlist, w)
                 /\ ~(memlist[i].addr <= w /\ w < memlist[i].addr + nb)
    BY <2>2, <1>1, SMTT(30) DEF In, FreeIn
  <2> QED
    BY <2>1, <2>5, <2>6
<1> QED
  BY <1>3, <1>4

LEMMA TakeTopFree ==
  ASSUME memlist \in Seq(Blocks), Separated,
         NEW i \in 1 .. Len(memlist), NEW nb \in Nat, 0 < nb, nb <= memlist[i].len
  PROVE  /\ TakeTop(i, nb) \in Seq(Blocks)
         /\ InHeap(TakeTop(i, nb)) /\ Apart(TakeTop(i, nb))
         /\ Section(i, nb) = memlist[i].addr + memlist[i].len - nb
         /\ \A w \in Nat : FreeIn(TakeTop(i, nb), w) <=>
               /\ FreeIn(memlist, w)
               /\ ~(Section(i, nb) <= w /\ w < Section(i, nb) + nb)
<1> DEFINE b == [memlist[i] EXCEPT !.len = memlist[i].len - nb]
<1>1. \A j \in 1 .. Len(memlist) : memlist[j].addr \in Nat /\ memlist[j].len \in Nat
  BY Fields
<1>2. /\ minheap <= memlist[i].addr /\ memlist[i].addr + memlist[i].len <= maxheap
      /\ U(memlist[i].addr + memlist[i].len - nb) = memlist[i].addr + memlist[i].len - nb
  <2>1. minheap <= memlist[i].addr /\ memlist[i].addr + memlist[i].len <= maxheap
    BY DEF Separated, InHeap
  <2>2. /\ memlist[i].addr + memlist[i].len - nb \in Nat
        /\ memlist[i].addr + memlist[i].len - nb < SPACE
    <3>1. memlist[i].addr \in Nat /\ memlist[i].len \in Nat
      BY <1>1
    <3> QED
      BY <3>1, <2>1, Bounds
  <2> QED
    BY <2>1, <2>2, USmall
<1>3. Section(i, nb) = memlist[i].addr + memlist[i].len - nb
  BY <1>1, <1>2 DEF Section
<1>4. CASE memlist[i].len = nb
  <2>1. TakeTop(i, nb) = Remove(memlist, i)
    BY <1>4 DEF TakeTop
  <2>2. Section(i, nb) = memlist[i].addr
    BY <1>4, <1>1, <1>3
  <2>3. \A w \in Nat : In(memlist[i], w) <=> Section(i, nb) <= w /\ w < Section(i, nb) + nb
    BY <2>2, <1>4 DEF In
  <2> QED
    BY <2>1, <2>3, <1>3, RemoveType, RemoveFree DEF Separated
<1>5. CASE memlist[i].len # nb
  <2>1. TakeTop(i, nb) = [memlist EXCEPT ![i] = b]
    BY <1>5 DEF TakeTop
  <2>2. /\ b \in Blocks /\ b.addr = memlist[i].addr /\ b.len = memlist[i].len - nb
        /\ b.len > 0
    <3>1. memlist[i] \in Blocks /\ memlist[i].len - nb \in Nat /\ memlist[i].len - nb > 0
      BY <1>1, <1>5
    <3> QED
      BY <3>1 DEF Blocks
  <2> HIDE DEF b
  <2>3. \A j \in 1 .. Len(memlist) :
           /\ j < i => memlist[j].addr + memlist[j].len < b.addr
           /\ j > i => b.addr + b.len < memlist[j].addr
    <3> SUFFICES ASSUME NEW j \in 1 .. Len(memlist)
                 PROVE  /\ j < i => memlist[j].addr + memlist[j].len < b.addr
                        /\ j > i => b.addr + b.len < memlist[j].addr
      OBVIOUS
    <3>1. /\ j < i => memlist[j].addr + memlist[j].len < memlist[i].addr
          /\ j > i => memlist[i].addr + memlist[i].len < memlist[j].addr
      BY DEF Separated, Apart
    <3>2. /\ memlist[j].addr \in Nat /\ memlist[j].len \in Nat
          /\ memlist[i].addr \in Nat /\ memlist[i].len \in Nat
      BY <1>1
    <3> QED
      BY <2>2, <3>1, <3>2
  <2>4. minheap <= b.addr /\ b.addr + b.len <= maxheap
    BY <2>2, <1>1, <1>2, Bounds
  <2>5. /\ [memlist EXCEPT ![i] = b] \in Seq(Blocks)
        /\ InHeap([memlist EXCEPT ![i] = b]) /\ Apart([memlist EXCEPT ![i] = b])
        /\ \A w \in Nat : FreeIn([memlist EXCEPT ![i] = b], w)
                            <=> (FreeIn(memlist, w) /\ ~In(memlist[i], w)) \/ In(b, w)
    BY <2>2, <2>3, <2>4, ChangeFree DEF Separated
  <2>6. \A w \in Nat : (FreeIn(memlist, w) /\ ~In(memlist[i], w)) \/ In(b, w)
             <=> /\ FreeIn(memlist, w)
                 /\ ~(Section(i, nb) <= w /\ w < Section(i, nb) + nb)
    <3> SUFFICES ASSUME NEW w \in Nat
                 PROVE  (FreeIn(memlist, w) /\ ~In(memlist[i], w)) \/ In(b, w)
                          <=> /\ FreeIn(memlist, w)
                              /\ ~(Section(i, nb) <= w /\ w < Section(i, nb) + nb)
      OBVIOUS
    <3>1. In(memlist[i], w) => FreeIn(memlist, w)
      BY DEF In, FreeIn
    <3>2. In(b, w) <=> In(memlist[i], w) /\ ~(Section(i, nb) <= w /\ w < Section(i, nb) + nb)
      BY <2>2, <1>1, <1>3 DEF In
    <3>3. Section(i, nb) <= w /\ w < Section(i, nb) + nb => In(memlist[i], w)
      BY <1>1, <1>3 DEF In
    <3> QED
      BY <3>1, <3>2, <3>3
  <2> QED
    BY <2>1, <2>5, <2>6, <1>3
<1> QED
  BY <1>4, <1>5

LEMMA InsertType ==
  ASSUME NEW s \in Seq(Blocks), NEW i \in 1 .. Len(s) + 1, NEW b \in Blocks
  PROVE  /\ Insert(s, i, b) \in Seq(Blocks) /\ Len(Insert(s, i, b)) = Len(s) + 1
         /\ \A j \in 1 .. Len(s) + 1 : Insert(s, i, b)[j] =
               IF j < i THEN s[j] ELSE IF j = i THEN b ELSE s[j - 1]
<1>1. Len(s) + 1 \in Nat /\ \A j \in 1 .. Len(s) : s[j] \in Blocks
  OBVIOUS
<1>2. Insert(s, i, b) \in [1 .. Len(s) + 1 -> Blocks]
  BY <1>1 DEF Insert
<1> QED
  BY <1>1, <1>2, FunctionIsSeq DEF Insert

(* While freemem works, node i and the one behind it may touch. *)
MayTouch(s, i) == \A j, k \in 1 .. Len(s) : j < k =>
    /\ s[j].addr + s[j].len <= s[k].addr
    /\ ~(j = i /\ k = i + 1) => s[j].addr + s[j].len < s[k].addr

(* The last step of freemem joins them. *)
LEMMA JoinedFree ==
  ASSUME NEW s \in Seq(Blocks), NEW i \in 1 .. Len(s), InHeap(s), MayTouch(s, i)
  PROVE  /\ Joined(s, i) \in Seq(Blocks) /\ InHeap(Joined(s, i)) /\ Apart(Joined(s, i))
         /\ \A w \in Nat : FreeIn(Joined(s, i), w) <=> FreeIn(s, w)
<1>1. \A j \in 1 .. Len(s) : s[j].addr \in Nat /\ s[j].len \in Nat
  BY Fields
<1>2. End(s[i]) = s[i].addr + s[i].len
  <2>1. s[i].addr + s[i].len \in Nat /\ s[i].addr + s[i].len < SPACE
    BY <1>1, Bounds DEF InHeap
  <2> QED
    BY <2>1, USmall DEF End
<1>3. CASE i < Len(s) /\ End(s[i]) = s[i + 1].addr
  <2> DEFINE b == [s[i] EXCEPT !.len = s[i].len + s[i + 1].len]
             u == [s EXCEPT ![i] = b]
             t == Remove(u, i + 1)
  <2>1. /\ b \in Blocks /\ b.addr = s[i].addr /\ b.len = s[i].len + s[i + 1].len
        /\ b.addr + b.len = s[i + 1].addr + s[i + 1].len
    <3>1. s[i] \in Blocks /\ i + 1 \in 1 .. Len(s) /\ s[i].len + s[i + 1].len \in Nat
      BY <1>1, <1>3
    <3>2. b \in Blocks /\ b.addr = s[i].addr /\ b.len = s[i].len + s[i + 1].len
      BY <3>1 DEF Blocks
    <3> QED
      BY <3>1, <3>2, <1>1, <1>2, <1>3
  <2> HIDE DEF b
  <2>2. /\ u \in Seq(Blocks) /\ Len(u) = Len(s) /\ u[i] = b
        /\ \A j \in 1 .. Len(s) : j # i => u[j] = s[j]
    BY <2>1
  <2> HIDE DEF u
  <2>3. /\ t \in Seq(Blocks) /\ Len(t) = Len(s) - 1
        /\ \A j \in 1 .. Len(s) - 1 : t[j] = IF j < i + 1 THEN u[j] ELSE u[j + 1]
    BY <2>2, <1>3, RemoveType
  <2>4. Joined(s, i) = t
    BY <1>3 DEF Joined, b, u
  <2> HIDE DEF t
  <2>5. /\ t[i] = b
        /\ \A j \in 1 .. Len(t) : /\ j < i => t[j] = s[j]
                                  /\ j > i => t[j] = s[j + 1]
    BY <2>2, <2>3, <1>3
  <2>6. InHeap(t)
    <3> SUFFICES ASSUME NEW j \in 1 .. Len(t)
                 PROVE  t[j].len > 0 /\ minheap <= t[j].addr /\ t[j].addr + t[j].len <= maxheap
      BY DEF InHeap
    <3>1. CASE j = i
      <4>1. i \in 1 .. Len(s) /\ i + 1 \in 1 .. Len(s)
        BY <1>3
      <4>2. /\ s[i].len > 0 /\ minheap <= s[i].addr
            /\ s[i + 1].len > 0 /\ s[i + 1].addr + s[i + 1].len <= maxheap
        BY <4>1 DEF InHeap
      <4> QED
        BY <3>1, <4>1, <4>2, <2>1, <2>5, <1>1
    <3>2. CASE j < i
      BY <3>2, <2>3, <2>5 DEF InHeap
    <3>3. CASE j > i
      BY <3>3, <2>3, <2>5 DEF InHeap
    <3> QED
      BY <3>1, <3>2, <3>3
  <2>7. Apart(t)
    <3> SUFFICES ASSUME NEW j \in 1 .. Len(t), NEW k \in 1 .. Len(t), j < k
                 PROVE  t[j].addr + t[j].len < t[k].addr
      BY DEF Apart
    <3>1. CASE j = i
      <4>1. i + 1 \in 1 .. Len(s) /\ k + 1 \in 1 .. Len(s) /\ t[k] = s[k + 1] /\ i + 1 < k + 1
        BY <3>1, <2>3, <2>5
      <4>2. s[i + 1].addr + s[i + 1].len < s[k + 1].addr
        BY <4>1 DEF MayTouch
      <4> QED
        BY <3>1, <4>1, <4>2, <2>1, <2>5
    <3>2. CASE k = i
      <4>1. t[j] = s[j] /\ j \in 1 .. Len(s) /\ j < i /\ j # i
        BY <3>2, <2>3, <2>5
      <4>2. s[j].addr + s[j].len < s[i].addr
        BY <4>1 DEF MayTouch
      <4> QED
        BY <3>2, <4>1, <4>2, <2>1, <2>5
    <3>3. CASE j # i /\ k # i
      <4> DEFINE d(m) == IF m < i THEN m ELSE m + 1
      <4>1. /\ d(j) \in 1 .. Len(s) /\ d(k) \in 1 .. Len(s) /\ d(j) < d(k) /\ d(j) # i
            /\ t[j] = s[d(j)] /\ t[k] = s[d(k)]
        BY <3>3, <2>3, <2>5
      <4> HIDE DEF d
      <4> QED
        BY <4>1 DEF MayTouch
    <3> QED
      BY <3>1, <3>2, <3>3
  <2>8. \A w \in Nat : In(b, w) <=> In(s[i], w) \/ In(s[i + 1], w)
    <3>1. i \in 1 .. Len(s) /\ i + 1 \in 1 .. Len(s)
      BY <1>3
    <3>2. /\ s[i].addr \in Nat /\ s[i].len \in Nat
          /\ s[i + 1].addr \in Nat /\ s[i + 1].len \in Nat
      BY <3>1, <1>1
    <3> QED
      BY <3>2, <2>1, <1>2, <1>3 DEF In
  <2>9. ASSUME NEW w \in Nat, FreeIn(t, w) PROVE FreeIn(s, w)
    <3>1. PICK j \in 1 .. Len(t) : In(t[j], w)
      BY <2>9 DEF FreeIn, In
    <3>2. \E k \in 1 .. Len(s) : In(s[k], w)
      <4>1. CASE j = i
        BY <4>1, <3>1, <2>5, <2>8, <1>3
      <4>2. CASE j < i
        BY <4>2, <3>1, <2>3, <2>5
      <4>3. CASE j > i
        <5>1. j + 1 \in 1 .. Len(s) /\ t[j] = s[j + 1]
          BY <4>3, <2>3, <2>5
        <5> QED
          BY <5>1, <3>1
      <4> QED
        BY <4>1, <4>2, <4>3
    <3> QED
      BY <3>2 DEF FreeIn, In
  <2>10. ASSUME NEW w \in Nat, FreeIn(s, w) PROVE FreeIn(t, w)
    <3>1. PICK j \in 1 .. Len(s) : In(s[j], w)
      BY <2>10 DEF FreeIn, In
    <3>2. \E k \in 1 .. Len(t) : In(t[k], w)
      <4>1. CASE j = i \/ j = i + 1
        <5>1. i \in 1 .. Len(t) /\ In(t[i], w)
          BY <4>1, <3>1, <2>3, <2>5, <2>8, <1>3
        <5> QED
          BY <5>1
      <4>2. CASE j < i
        BY <4>2, <3>1, <2>3, <2>5
      <4>3. CASE j > i + 1
        <5>1. j - 1 \in 1 .. Len(t) /\ j - 1 > i /\ t[j - 1] = s[(j - 1) + 1] /\ (j - 1) + 1 = j
          BY <4>3, <2>3, <2>5
        <5> QED
          BY <5>1, <3>1
      <4> QED
        BY <4>1, <4>2, <4>3
    <3> QED
      BY <3>2 DEF FreeIn, In
  <2> QED
    BY <2>3, <2>4, <2>6, <2>7, <2>9, <2>10
<1>4. CASE ~(i < Len(s) /\ End(s[i]) = s[i + 1].addr)
  <2>1. Joined(s, i) = s
    BY <1>4 DEF Joined
  <2>2. Apart(s)
    <3> SUFFICES ASSUME NEW j \in 1 .. Len(s), NEW k \in 1 .. Len(s), j < k
                 PROVE  s[j].addr + s[j].len < s[k].addr
      BY DEF Apart
    <3>1. CASE j = i /\ k = i + 1
      <4>1. s[i].addr + s[i].len <= s[i + 1].addr /\ s[i].addr + s[i].len # s[i + 1].addr
        BY <3>1, <1>2, <1>4 DEF MayTouch
      <4>2. s[i].addr \in Nat /\ s[i].len \in Nat /\ s[k].addr \in Nat
        BY <1>1
      <4> QED
        BY <3>1, <4>1, <4>2
    <3>2. CASE ~(j = i /\ k = i + 1)
      BY <3>2 DEF MayTouch
    <3> QED
      BY <3>1, <3>2
  <2> QED
    BY <2>1, <2>2
<1> QED
  BY <1>3, <1>4

(* The first step of freemem adds the block to the list. *)
LEMMA LinkedFree ==
  ASSUME memlist \in Seq(Blocks), Separated,
         NEW block \in Nat, NEW nb \in Nat, 0 < nb, minheap <= block, block + nb <= maxheap,
         NEW k \in Passed(block), ~Overlaps(block, nb, k)
  PROVE  /\ Linked(block, nb, k) \in Seq(Blocks)
         /\ Node(block, k) \in 1 .. Len(Linked(block, nb, k))
         /\ InHeap(Linked(block, nb, k))
         /\ MayTouch(Linked(block, nb, k), Node(block, k))
         /\ \A w \in Nat : FreeIn(Linked(block, nb, k), w)
                              <=> FreeIn(memlist, w) \/ (block <= w /\ w < block + nb)
<1>1. \A j \in 1 .. Len(memlist) : memlist[j].addr \in Nat /\ memlist[j].len \in Nat
  BY Fields
<1>2. \A j \in 1 .. Len(memlist) : End(memlist[j]) = memlist[j].addr + memlist[j].len
  <2> SUFFICES ASSUME NEW j \in 1 .. Len(memlist)
               PROVE  End(memlist[j]) = memlist[j].addr + memlist[j].len
    OBVIOUS
  <2>1. memlist[j].addr + memlist[j].len <= maxheap
    BY DEF Separated, InHeap
  <2>2. memlist[j].addr + memlist[j].len \in Nat /\ memlist[j].addr + memlist[j].len < SPACE
    BY <2>1, <1>1, Bounds
  <2> QED
    BY <2>2, USmall DEF End
<1>3. U(block + nb) = block + nb
  BY Bounds, USmall
<1>4. /\ k \in 0 .. Len(memlist)
      /\ \A i \in 1 .. k : memlist[i].addr < block
      /\ k < Len(memlist) => memlist[k + 1].addr >= block
  BY DEF Passed
<1>5. \A j \in 1 .. Len(memlist) :
         /\ j < k => memlist[j].addr + memlist[j].len < block
         /\ j = k => memlist[j].addr + memlist[j].len <= block
         /\ j = k + 1 => block + nb <= memlist[j].addr
         /\ j > k + 1 => block + nb < memlist[j].addr
  <2> SUFFICES ASSUME NEW j \in 1 .. Len(memlist)
               PROVE  /\ j < k => memlist[j].addr + memlist[j].len < block
                      /\ j = k => memlist[j].addr + memlist[j].len <= block
                      /\ j = k + 1 => block + nb <= memlist[j].addr
                      /\ j > k + 1 => block + nb < memlist[j].addr
    OBVIOUS
  <2>0. memlist[j].addr \in Nat /\ memlist[j].len \in Nat
    BY <1>1
  <2>1. CASE j < k
    <3>1. k \in 1 .. Len(memlist) /\ memlist[k].addr < block
      BY <2>1, <1>4
    <3>2. memlist[j].addr + memlist[j].len < memlist[k].addr /\ memlist[k].addr \in Nat
      BY <2>1, <3>1, <1>1 DEF Separated, Apart
    <3> QED
      BY <2>0, <2>1, <3>1, <3>2, <1>4
  <2>2. CASE j = k
    <3>1. ~(block < memlist[j].addr + memlist[j].len)
      BY <2>2, <1>2, <1>4 DEF Overlaps
    <3> QED
      BY <2>0, <2>2, <3>1
  <2>3. CASE j = k + 1
    <3>1. ~(block + nb > memlist[k + 1].addr)
      BY <2>3, <1>3, <1>4 DEF Overlaps
    <3> QED
      BY <2>0, <2>3, <3>1, <1>4
  <2>4. CASE j > k + 1
    <3>1. k + 1 \in 1 .. Len(memlist) /\ k < Len(memlist)
      BY <2>4, <1>4
    <3>2. ~(block + nb > memlist[k + 1].addr)
      BY <3>1, <1>3 DEF Overlaps
    <3>3. /\ memlist[k + 1].addr + memlist[k + 1].len < memlist[j].addr
          /\ memlist[k + 1].addr \in Nat /\ memlist[k + 1].len \in Nat
      BY <2>4, <3>1, <1>1 DEF Separated, Apart
    <3> QED
      BY <2>0, <2>4, <3>2, <3>3, <1>4
  <2> QED
    BY <2>1, <2>2, <2>3, <2>4, <1>4
<1>6. CASE JoinsPrev(block, k)
  <2> DEFINE b == [memlist[k] EXCEPT !.len = memlist[k].len + nb]
             t == [memlist EXCEPT ![k] = b]
  <2>1. k \in 1 .. Len(memlist) /\ memlist[k].addr + memlist[k].len = block
    BY <1>6, <1>4, <1>2 DEF JoinsPrev
  <2>2. /\ b \in Blocks /\ b.addr = memlist[k].addr /\ b.len = memlist[k].len + nb
        /\ b.addr + b.len = block + nb
    <3>1. memlist[k] \in Blocks /\ memlist[k].len + nb \in Nat
      BY <1>1, <2>1
    <3>2. b \in Blocks /\ b.addr = memlist[k].addr /\ b.len = memlist[k].len + nb
      BY <3>1 DEF Blocks
    <3>3. memlist[k].addr \in Nat /\ memlist[k].len \in Nat
      BY <1>1, <2>1
    <3> QED
      BY <3>2, <3>3, <2>1
  <2> HIDE DEF b
  <2>3. /\ t \in Seq(Blocks) /\ Len(t) = Len(memlist) /\ t[k] = b
        /\ \A j \in 1 .. Len(memlist) : j # k => t[j] = memlist[j]
    BY <2>1, <2>2
  <2>4. Linked(block, nb, k) = t /\ Node(block, k) = k
    BY <1>6 DEF Linked, Node, b, t
  <2> HIDE DEF t
  <2>5. InHeap(t)
    <3>1. /\ memlist[k].len > 0 /\ minheap <= memlist[k].addr
          /\ memlist[k].addr \in Nat /\ memlist[k].len \in Nat
      BY <2>1, <1>1 DEF Separated, InHeap
    <3>2. t[k].len > 0 /\ minheap <= t[k].addr /\ t[k].addr + t[k].len <= maxheap
      BY <3>1, <2>2, <2>3
    <3> QED
      BY <3>2, <2>3 DEF Separated, InHeap
  <2>6. MayTouch(t, k)
    <3> SUFFICES ASSUME NEW i \in 1 .. Len(t), NEW j \in 1 .. Len(t), i < j
                 PROVE  /\ t[i].addr + t[i].len <= t[j].addr
                        /\ ~(i = k /\ j = k + 1) => t[i].addr + t[i].len < t[j].addr
      BY DEF MayTouch
    <3>0. /\ memlist[i].addr \in Nat /\ memlist[i].len \in Nat
          /\ memlist[j].addr \in Nat /\ memlist[j].len \in Nat
      BY <1>1, <2>3
    <3>1. CASE i = k
      <4>1. /\ t[j] = memlist[j] /\ t[i].addr + t[i].len = block + nb
            /\ j = k + 1 => block + nb <= memlist[j].addr
            /\ j > k + 1 => block + nb < memlist[j].addr
            /\ j = k + 1 \/ j > k + 1
        BY <3>1, <2>1, <2>2, <2>3, <1>5
      <4> QED
        BY <3>0, <3>1, <4>1
    <3>2. CASE j = k
      <4>1. t[i] = memlist[i] /\ t[j].addr = memlist[j].addr
        BY <3>2, <2>1, <2>2, <2>3
      <4>2. memlist[i].addr + memlist[i].len < memlist[j].addr
        BY <2>3 DEF Separated, Apart
      <4> QED
        BY <3>0, <4>1, <4>2
    <3>3. CASE i # k /\ j # k
      <4>1. t[i] = memlist[i] /\ t[j] = memlist[j]
        BY <3>3, <2>3
      <4>2. memlist[i].addr + memlist[i].len < memlist[j].addr
        BY <2>3 DEF Separated, Apart
      <4> QED
        BY <3>0, <4>1, <4>2
    <3> QED
      BY <3>1, <3>2, <3>3
  <2>7. \A w \in Nat : In(b, w) <=> In(memlist[k], w) \/ (block <= w /\ w < block + nb)
    <3>1. memlist[k].addr \in Nat /\ memlist[k].len \in Nat
      BY <2>1, <1>1
    <3> QED
      BY <3>1, <2>1, <2>2 DEF In
  <2>8. ASSUME NEW w \in Nat
        PROVE  FreeIn(t, w) <=> FreeIn(memlist, w) \/ (block <= w /\ w < block + nb)
    <3>1. FreeIn(t, w) <=> \E j \in 1 .. Len(memlist) : In(t[j], w)
      BY <2>3 DEF FreeIn, In
    <3>2. FreeIn(memlist, w) <=> \E j \in 1 .. Len(memlist) : In(memlist[j], w)
      BY DEF FreeIn, In
    <3> QED
      BY <3>1, <3>2, <2>1, <2>3, <2>7
  <2> QED
    BY <2>1, <2>3, <2>4, <2>5, <2>6, <2>8
<1>7. CASE ~JoinsPrev(block, k)
  <2> DEFINE b == Block(block, nb)
             t == Insert(memlist, k + 1, b)
  <2>1. b \in Blocks /\ b.addr = block /\ b.len = nb
    BY DEF Block, Blocks
  <2> HIDE DEF b
  <2>2. k + 1 \in 1 .. Len(memlist) + 1
    BY <1>4
  <2>3. /\ t \in Seq(Blocks) /\ Len(t) = Len(memlist) + 1
        /\ \A j \in 1 .. Len(memlist) + 1 : t[j] =
              IF j < k + 1 THEN memlist[j] ELSE IF j = k + 1 THEN b ELSE memlist[j - 1]
    <3> DEFINE i == k + 1
    <3>1. i \in 1 .. Len(memlist) + 1
      BY <2>2
    <3> HIDE DEF i
    <3>2. /\ Insert(memlist, i, b) \in Seq(Blocks) /\ Len(Insert(memlist, i, b)) = Len(memlist) + 1
          /\ \A j \in 1 .. Len(memlist) + 1 : Insert(memlist, i, b)[j] =
                IF j < i THEN memlist[j] ELSE IF j = i THEN b ELSE memlist[j - 1]
      BY <2>1, <3>1, InsertType
    <3> QED
      BY <3>2 DEF i
  <2>4. Linked(block, nb, k) = t /\ Node(block, k) = k + 1
    BY <1>7 DEF Linked, Node, b, t
  <2> HIDE DEF t
  <2>5. /\ t[k + 1] = b
        /\ \A j \in 1 .. Len(t) : /\ j < k + 1 => j \in 1 .. Len(memlist) /\ t[j] = memlist[j]
                                  /\ j > k + 1 => j - 1 \in 1 .. Len(memlist) /\ t[j] = memlist[j - 1]
    BY <2>2, <2>3, <1>4
  <2>6. InHeap(t)
    <3> SUFFICES ASSUME NEW j \in 1 .. Len(t)
                 PROVE  t[j].len > 0 /\ minheap <= t[j].addr /\ t[j].addr + t[j].len <= maxheap
      BY DEF InHeap
    <3>1. CASE j = k + 1
      BY <3>1, <2>1, <2>5
    <3>2. CASE j < k + 1
      BY <3>2, <2>5 DEF Separated, InHeap
    <3>3. CASE j > k + 1
      BY <3>3, <2>5 DEF Separated, InHeap
    <3> QED
      BY <3>1, <3>2, <3>3, <1>4
  <2>7. MayTouch(t, k + 1)
    <3> SUFFICES ASSUME NEW i \in 1 .. Len(t), NEW j \in 1 .. Len(t), i < j
                 PROVE  /\ t[i].addr + t[i].len <= t[j].addr
                        /\ ~(i = k + 1 /\ j = (k + 1) + 1) => t[i].addr + t[i].len < t[j].addr
      BY DEF MayTouch
    <3>1. CASE i = k + 1
      <4>1. /\ j - 1 \in 1 .. Len(memlist) /\ t[j] = memlist[j - 1]
            /\ j - 1 = k + 1 \/ j - 1 > k + 1
        BY <3>1, <2>5, <1>4
      <4>2. /\ memlist[j - 1].addr \in Nat
            /\ j - 1 = k + 1 => block + nb <= memlist[j - 1].addr
            /\ j - 1 > k + 1 => block + nb < memlist[j - 1].addr
        BY <4>1, <1>1, <1>5
      <4> QED
        BY <3>1, <4>1, <4>2, <2>1, <2>5, <1>4
    <3>2. CASE j = k + 1
      <4>1. i \in 1 .. Len(memlist) /\ t[i] = memlist[i] /\ (i < k \/ i = k)
        BY <3>2, <2>5, <1>4
      <4>2. /\ memlist[i].addr \in Nat /\ memlist[i].len \in Nat
            /\ memlist[i].addr + memlist[i].len < block
        <5>1. CASE i < k
          BY <5>1, <4>1, <1>1, <1>5
        <5>2. CASE i = k
          <6>1. memlist[k].addr + memlist[k].len # block
            BY <5>2, <4>1, <1>2, <1>7, <1>4 DEF JoinsPrev
          <6>2. memlist[i].addr + memlist[i].len <= block
            BY <5>2, <4>1, <1>5
          <6> QED
            BY <5>2, <6>1, <6>2, <4>1, <1>1
        <5> QED
          BY <4>1, <5>1, <5>2
      <4> QED
        BY <3>2, <4>1, <4>2, <2>1, <2>5
    <3>3. CASE i # k + 1 /\ j # k + 1
      <4> DEFINE d(m) == IF m < k + 1 THEN m ELSE m - 1
      <4>1. /\ d(i) \in 1 .. Len(memlist) /\ d(j) \in 1 .. Len(memlist) /\ d(i) < d(j)
            /\ t[i] = memlist[d(i)] /\ t[j] = memlist[d(j)]
        BY <3>3, <2>5, <1>4
      <4> HIDE DEF d
      <4>2. memlist[d(i)].addr + memlist[d(i)].len < memlist[d(j)].addr
        BY <4>1 DEF Separated, Apart
      <4>3. /\ memlist[d(i)].addr \in Nat /\ memlist[d(i)].len \in Nat
            /\ memlist[d(j)].addr \in Nat
        BY <4>1, <1>1
      <4> QED
        BY <4>1, <4>2, <4>3, SMTT(30)
    <3> QED
      BY <3>1, <3>2, <3>3
  <2>8. ASSUME NEW w \in Nat, FreeIn(t, w)
        PROVE  FreeIn(memlist, w) \/ (block <= w /\ w < block + nb)
    <3>1. PICK j \in 1 .. Len(t) : In(t[j], w)
      BY <2>8 DEF FreeIn, In
    <3>2. CASE j = k + 1
      BY <3>1, <3>2, <2>1, <2>5 DEF In
    <3>3. CASE j # k + 1
      <4>1. PICK i \in 1 .. Len(memlist) : t[j] = memlist[i]
        BY <3>3, <2>5, <1>4
      <4> QED
        BY <3>1, <4>1 DEF FreeIn, In
    <3> QED
      BY <3>2, <3>3
  <2>9. ASSUME NEW w \in Nat, FreeIn(memlist, w) \/ (block <= w /\ w < block + nb)
        PROVE  FreeIn(t, w)
    <3>1. CASE block <= w /\ w < block + nb
      <4>1. k + 1 \in 1 .. Len(t) /\ In(t[k + 1], w)
        BY <3>1, <2>1, <2>2, <2>3, <2>5 DEF In
      <4> QED
        BY <4>1 DEF FreeIn, In
    <3>2. CASE FreeIn(memlist, w)
      <4>1. PICK i \in 1 .. Len(memlist) : In(memlist[i], w)
        BY <3>2 DEF FreeIn, In
      <4>2. \E j \in 1 .. Len(t) : t[j] = memlist[i]
        <5>1. CASE i < k + 1
          <6>1. i \in 1 .. Len(t) /\ t[i] = memlist[i]
            BY <5>1, <2>3, <2>5
          <6> QED
            BY <6>1
        <5>2. CASE ~(i < k + 1)
          <6>1. i + 1 \in 1 .. Len(t) /\ i + 1 > k + 1 /\ (i + 1) - 1 = i
            BY <5>2, <2>3, <1>4
          <6>2. t[i + 1] = memlist[i]
            BY <6>1, <2>5
          <6> QED
            BY <6>1, <6>2
        <5> QED
          BY <5>1, <5>2
      <4> QED
        BY <4>1, <4>2 DEF FreeIn, In
    <3> QED
      BY <2>9, <3>1, <3>2
  <2> QED
    BY <2>2, <2>3, <2>4, <2>6, <2>7, <2>8, <2>9
<1> QED
  BY <1>6, <1>7

(* freemem with a region of the heap that overlaps no free block. *)
LEMMA FreedFree ==
  ASSUME memlist \in Seq(Blocks), Separated,
         NEW block \in Nat, NEW nb \in Nat, 0 < nb, minheap <= block, block + nb <= maxheap,
         NEW k \in Passed(block), ~Overlaps(block, nb, k),
         NEW t, t = Joined(Linked(block, nb, k), Node(block, k))
  PROVE  /\ t \in Seq(Blocks) /\ InHeap(t) /\ Apart(t)
         /\ \A w \in Nat : FreeIn(t, w) <=> FreeIn(memlist, w) \/ (block <= w /\ w < block + nb)
  BY LinkedFree, JoinedFree

(***************************************************************************)
(* The inductive invariant.                                                *)
(***************************************************************************)
(* Nobody holds a region of no words. *)
Positive == \A r \in held : r[2] # 0

HeapInv == TypeOK /\ Positive /\ Separated /\ Partitioned

LEMMA InitInv == Init => HeapInv
<1> SUFFICES ASSUME Init PROVE HeapInv
  OBVIOUS
<1> DEFINE b == Block(minheap, maxheap - minheap)
<1>1. b \in Blocks /\ b.addr = minheap /\ b.len = maxheap - minheap
  BY Bounds DEF Block, Blocks
<1> HIDE DEF b
<1>2. memlist \in Seq(Blocks) /\ Len(memlist) = 1 /\ memlist[1] = b
  BY <1>1 DEF Init, b
<1>3. Separated
  BY <1>1, <1>2, Bounds DEF Separated, InHeap, Apart
<1>4. \A w \in minheap .. maxheap - 1 : FreeWord(w)
  BY <1>1, <1>2, Bounds DEF FreeWord, FreeIn
<1> QED
  BY <1>2, <1>3, <1>4 DEF HeapInv, TypeOK, Positive, Partitioned, Blocks, Init

(* A request that fits takes a run of free words away and makes it the     *)
(* caller's.                                                               *)
LEMMA GrantInv ==
  ASSUME HeapInv, NEW n \in Request, n # 0, NEW a \in Nat,
         minheap <= a, a + roundmb(n) <= maxheap,
         \A w \in a .. a + roundmb(n) - 1 : FreeWord(w),
         memlist' \in Seq(Blocks), InHeap(memlist'), Apart(memlist'),
         \A w \in Nat : FreeIn(memlist', w) <=>
             FreeIn(memlist, w) /\ ~(a <= w /\ w < a + roundmb(n)),
         held' = held \cup {<<a, n>>}, ret' = <<n, a>>
  PROVE  HeapInv'
<1>1. roundmb(n) \in Nat /\ 0 < roundmb(n)
  BY RoundmbBounds, RequestAssumption
<1>2. TypeOK'
  BY DEF TypeOK, HeapInv, Blocks
<1>3. Separated'
  BY DEF Separated
<1>4. Region(<<a, n>>) = a .. a + roundmb(n) - 1
  BY DEF Region
<1>5. \A w \in Nat : FreeWord(w)' <=> FreeWord(w) /\ w \notin Region(<<a, n>>)
  <2> SUFFICES ASSUME NEW w \in Nat
               PROVE  FreeWord(w)' <=> FreeWord(w) /\ w \notin Region(<<a, n>>)
    OBVIOUS
  <2>1. w \in Region(<<a, n>>) <=> a <= w /\ w < a + roundmb(n)
    BY <1>1, <1>4
  <2> QED
    BY <2>1 DEF FreeWord
<1>6. \A w \in minheap .. maxheap - 1 : FreeWord(w)' \/ \E r \in held' : w \in Region(r)
  <2>1. \A w \in minheap .. maxheap - 1 : w \in Nat
    BY Bounds
  <2> QED
    BY <2>1, <1>5 DEF HeapInv, Partitioned
<1>7. ASSUME NEW r \in held'
      PROVE  /\ Region(r) \subseteq minheap .. maxheap - 1
             /\ \A w \in Region(r) : ~FreeWord(w)'
  <2>1. \A w \in minheap .. maxheap - 1 : w \in Nat
    BY Bounds
  <2>2. CASE r \in held
    BY <2>1, <2>2, <1>5 DEF HeapInv, Partitioned
  <2>3. CASE r = <<a, n>>
    <3>1. Region(r) \subseteq minheap .. maxheap - 1
      BY <2>3, <1>1, <1>4, Bounds
    <3> QED
      BY <3>1, <2>1, <2>3, <1>5
  <2> QED
    BY <2>2, <2>3
<1>8. ASSUME NEW r \in held', NEW q \in held', r # q
      PROVE  Region(r) \cap Region(q) = {}
  <2>1. \A s \in held : Region(s) \cap Region(<<a, n>>) = {}
    BY <1>4 DEF HeapInv, Partitioned
  <2> QED
    BY <1>8, <2>1 DEF HeapInv, Partitioned
<1>9. Partitioned'
  BY <1>6, <1>7, <1>8 DEF Partitioned
<1>10. Positive'
  BY DEF HeapInv, Positive
<1> QED
  BY <1>2, <1>3, <1>9, <1>10 DEF HeapInv

(* A region that is given back is free afterwards. *)
LEMMA GiveBackInv ==
  ASSUME HeapInv, NEW r \in held,
         memlist' \in Seq(Blocks), InHeap(memlist'), Apart(memlist'),
         \A w \in Nat : FreeIn(memlist', w) <=>
             FreeIn(memlist, w) \/ (r[1] <= w /\ w < r[1] + roundmb(r[2])),
         held' = held \ {r}, ret' = <<FREE, OK>>
  PROVE  HeapInv'
<1>1. r[1] \in Nat /\ r[2] \in Request /\ roundmb(r[2]) \in Nat
  BY RoundmbBounds DEF HeapInv, TypeOK
<1>2. TypeOK'
  BY DEF TypeOK, HeapInv, Blocks
<1>3. Separated'
  BY DEF Separated
<1>4. \A w \in Nat : FreeWord(w)' <=> FreeWord(w) \/ w \in Region(r)
  <2> SUFFICES ASSUME NEW w \in Nat
               PROVE  FreeWord(w)' <=> FreeWord(w) \/ w \in Region(r)
    OBVIOUS
  <2>1. w \in Region(r) <=> r[1] <= w /\ w < r[1] + roundmb(r[2])
    BY <1>1 DEF Region
  <2> QED
    BY <2>1 DEF FreeWord
<1>5. \A w \in minheap .. maxheap - 1 : w \in Nat
  BY Bounds
<1>6. \A w \in minheap .. maxheap - 1 : FreeWord(w)' \/ \E q \in held' : w \in Region(q)
  BY <1>4, <1>5 DEF HeapInv, Partitioned
<1>7. ASSUME NEW q \in held'
      PROVE  /\ Region(q) \subseteq minheap .. maxheap - 1
             /\ \A w \in Region(q) : ~FreeWord(w)'
  <2>1. q \in held /\ q # r /\ Region(q) \cap Region(r) = {}
    BY DEF HeapInv, Partitioned
  <2> QED
    BY <2>1, <1>4, <1>5 DEF HeapInv, Partitioned
<1>8. Partitioned'
  BY <1>6, <1>7 DEF HeapInv, Partitioned
<1>9. Positive'
  BY DEF HeapInv, Positive
<1> QED
  BY <1>2, <1>3, <1>8, <1>9 DEF HeapInv

(* What a call changes, in terms of the free words.  getmem: *)
LEMMA GetmemStep ==
  ASSUME HeapInv, NEW n \in Request, GetmemFits(n)
  PROVE  \E a \in Nat :
            /\ minheap <= a /\ a + roundmb(n) <= maxheap
            /\ \A w \in a .. a + roundmb(n) - 1 : FreeWord(w)
            /\ memlist' \in Seq(Blocks) /\ InHeap(memlist') /\ Apart(memlist')
            /\ \A w \in Nat : FreeIn(memlist', w) <=>
                  FreeIn(memlist, w) /\ ~(a <= w /\ w < a + roundmb(n))
            /\ held' = held \cup {<<a, n>>} /\ ret' = <<n, a>>
<1>1. roundmb(n) \in Nat /\ 0 < roundmb(n)
  BY RoundmbBounds, RequestAssumption DEF GetmemFits
<1>2. PICK i \in Fits(roundmb(n)) : /\ memlist' = Take(i, roundmb(n))
                                    /\ held' = held \cup {<<memlist[i].addr, n>>}
                                    /\ ret' = <<n, memlist[i].addr>>
  BY DEF GetmemFits
<1>3. i \in 1 .. Len(memlist) /\ roundmb(n) <= memlist[i].len
  BY <1>2 DEF Fits
<1>4. memlist \in Seq(Blocks) /\ Separated
  BY DEF HeapInv, TypeOK, Blocks
<1>5. /\ memlist[i].addr \in Nat /\ memlist[i].len \in Nat
      /\ minheap <= memlist[i].addr /\ memlist[i].addr + memlist[i].len <= maxheap
  BY <1>3, <1>4, Fields DEF Separated, InHeap
<1>6. \A w \in memlist[i].addr .. memlist[i].addr + roundmb(n) - 1 : FreeWord(w)
  BY <1>1, <1>3, <1>5 DEF FreeWord, FreeIn
<1>7. memlist[i].addr + roundmb(n) <= maxheap
  BY <1>1, <1>3, <1>5, Bounds
<1>8. /\ memlist' \in Seq(Blocks) /\ InHeap(memlist') /\ Apart(memlist')
      /\ \A w \in Nat : FreeIn(memlist', w) <=>
            FreeIn(memlist, w)
              /\ ~(memlist[i].addr <= w /\ w < memlist[i].addr + roundmb(n))
  BY <1>1, <1>2, <1>3, <1>4, TakeFree
<1> QED
  BY <1>2, <1>5, <1>6, <1>7, <1>8

(* getstk: the pointer to the highest word finds the lowest again.         *)
LEMMA StackBaseOf ==
  ASSUME NEW n \in Request, NEW a \in Nat, 0 < roundmb(n), a + roundmb(n) <= maxheap
  PROVE  StackBase(U(a + roundmb(n) - 1), n) = a
<1>1. roundmb(n) \in Nat
  BY RoundmbBounds
<1>2. a + roundmb(n) - 1 \in Nat /\ a + roundmb(n) - 1 < SPACE
  BY <1>1, Bounds
<1>3. U(a + roundmb(n) - 1) = a + roundmb(n) - 1
  BY <1>2, USmall
<1>4. (a + roundmb(n) - 1) - roundmb(n) + 1 + SPACE = a + SPACE
  BY <1>1, Bounds
<1>5. (a + SPACE) % SPACE = a
  <2>1. a \in 0 .. SPACE - 1 /\ SPACE > 0
    BY <1>1, Bounds
  <2> QED
    BY <2>1, Bounds
<1> QED
  BY <1>3, <1>4, <1>5 DEF StackBase, U

LEMMA GetstkStep ==
  ASSUME HeapInv, NEW n \in Request, GetstkFits(n)
  PROVE  \E a \in Nat :
            /\ minheap <= a /\ a + roundmb(n) <= maxheap
            /\ \A w \in a .. a + roundmb(n) - 1 : FreeWord(w)
            /\ memlist' \in Seq(Blocks) /\ InHeap(memlist') /\ Apart(memlist')
            /\ \A w \in Nat : FreeIn(memlist', w) <=>
                  FreeIn(memlist, w) /\ ~(a <= w /\ w < a + roundmb(n))
            /\ held' = held \cup {<<a, n>>} /\ ret' = <<n, a>>
<1>1. roundmb(n) \in Nat /\ 0 < roundmb(n)
  BY RoundmbBounds, RequestAssumption DEF GetstkFits
<1>2. PICK i \in Fits(roundmb(n)) :
         /\ memlist' = TakeTop(i, roundmb(n))
         /\ held' = held \cup {<<StackBase(StackTop(i, roundmb(n)), n), n>>}
         /\ ret' = <<n, StackBase(StackTop(i, roundmb(n)), n)>>
  BY DEF GetstkFits
<1> DEFINE a == Section(i, roundmb(n))
<1>3. i \in 1 .. Len(memlist) /\ roundmb(n) <= memlist[i].len
  BY <1>2 DEF Fits
<1>4. memlist \in Seq(Blocks) /\ Separated
  BY DEF HeapInv, TypeOK, Blocks
<1>5. /\ memlist[i].addr \in Nat /\ memlist[i].len \in Nat
      /\ minheap <= memlist[i].addr /\ memlist[i].addr + memlist[i].len <= maxheap
  BY <1>3, <1>4, Fields DEF Separated, InHeap
<1>6. /\ memlist' \in Seq(Blocks) /\ InHeap(memlist') /\ Apart(memlist')
      /\ a = memlist[i].addr + memlist[i].len - roundmb(n)
      /\ \A w \in Nat : FreeIn(memlist', w) <=>
            FreeIn(memlist, w) /\ ~(a <= w /\ w < a + roundmb(n))
  BY <1>1, <1>2, <1>3, <1>4, TakeTopFree
<1>7. StackTop(i, roundmb(n)) = U(a + roundmb(n) - 1)
  BY DEF StackTop
<1> HIDE DEF a
<1>8. a \in Nat /\ minheap <= a /\ a + roundmb(n) <= maxheap
  BY <1>1, <1>3, <1>5, <1>6, Bounds
<1>9. \A w \in a .. a + roundmb(n) - 1 : FreeWord(w)
  <2> SUFFICES ASSUME NEW w \in a .. a + roundmb(n) - 1 PROVE FreeWord(w)
    OBVIOUS
  <2>1. memlist[i].addr <= w /\ w < memlist[i].addr + memlist[i].len
    BY <1>1, <1>3, <1>5, <1>6, <1>8, SMTT(30)
  <2> QED
    BY <2>1, <1>3 DEF FreeWord, FreeIn
<1>10. StackBase(StackTop(i, roundmb(n)), n) = a
  BY <1>1, <1>7, <1>8, StackBaseOf
<1> QED
  BY <1>2, <1>6, <1>8, <1>9, <1>10

(* freemem accepts a region its caller holds: no word of it is free, so it *)
(* overlaps neither neighbour.  A region of no words was never granted.    *)
LEMMA FreememStep ==
  ASSUME HeapInv, NEW r \in held, Freemem(r)
  PROVE  /\ memlist' \in Seq(Blocks) /\ InHeap(memlist') /\ Apart(memlist')
         /\ \A w \in Nat : FreeIn(memlist', w) <=>
               FreeIn(memlist, w) \/ (r[1] <= w /\ w < r[1] + roundmb(r[2]))
         /\ held' = held \ {r} /\ ret' = <<FREE, OK>>
<1> DEFINE a == r[1]
           nb == roundmb(r[2])
<1>1. a \in Nat /\ r[2] \in Request /\ r[2] # 0 /\ nb \in Nat /\ 0 < nb
  <2>1. a \in Nat /\ r[2] \in Request /\ r[2] # 0
    BY DEF HeapInv, TypeOK, Positive
  <2>2. r[2] \in Nat
    BY <2>1, RequestAssumption
  <2> QED
    BY <2>1, <2>2, RoundmbBounds
<1>2. memlist \in Seq(Blocks) /\ Separated
  BY DEF HeapInv, TypeOK, Blocks
<1>3. \A w \in Nat : a <= w /\ w < a + nb => minheap <= w /\ w < maxheap /\ ~FreeWord(w)
  <2> SUFFICES ASSUME NEW w \in Nat, a <= w, w < a + nb
               PROVE  minheap <= w /\ w < maxheap /\ ~FreeWord(w)
    OBVIOUS
  <2>1. w \in Region(r)
    BY <1>1 DEF Region
  <2>2. Region(r) \subseteq minheap .. maxheap - 1 /\ ~FreeWord(w)
    BY <2>1 DEF HeapInv, Partitioned
  <2>3. w \in minheap .. maxheap - 1
    BY <2>1, <2>2
  <2> QED
    BY <2>2, <2>3, Bounds
<1>4. PICK k \in Passed(a) :
         IF r[2] = 0 \/ Outside(a) \/ Overlaps(a, nb, k)
         THEN ret' = <<FREE, SYSERR>> /\ UNCHANGED memlist
         ELSE ret' = <<FREE, OK>> /\ memlist' = Joined(Linked(a, nb, k), Node(a, k))
  BY DEF Freemem, Free
<1> HIDE DEF a, nb
<1>5. minheap <= a /\ a + nb <= maxheap
  <2>1. minheap <= a /\ a < maxheap
    BY <1>1, <1>3
  <2>2. a + nb - 1 \in Nat /\ a <= a + nb - 1 /\ a + nb - 1 < a + nb
    BY <1>1
  <2>3. a + nb - 1 < maxheap
    BY <2>2, <1>3
  <2> QED
    BY <2>1, <2>3, <1>1, Bounds
<1>6. \A j \in 1 .. Len(memlist) :
         /\ memlist[j].addr \in Nat /\ memlist[j].len \in Nat /\ memlist[j].len > 0
         /\ End(memlist[j]) = memlist[j].addr + memlist[j].len
  <2> SUFFICES ASSUME NEW j \in 1 .. Len(memlist)
               PROVE  /\ memlist[j].addr \in Nat /\ memlist[j].len \in Nat /\ memlist[j].len > 0
                      /\ End(memlist[j]) = memlist[j].addr + memlist[j].len
    OBVIOUS
  <2>1. /\ memlist[j].addr \in Nat /\ memlist[j].len \in Nat /\ memlist[j].len > 0
        /\ memlist[j].addr + memlist[j].len <= maxheap
    BY <1>2, Fields DEF Separated, InHeap
  <2>2. memlist[j].addr + memlist[j].len \in Nat /\ memlist[j].addr + memlist[j].len < SPACE
    BY <2>1, Bounds
  <2> QED
    BY <2>1, <2>2, USmall DEF End
<1>7. /\ k \in 0 .. Len(memlist)
      /\ \A i \in 1 .. k : memlist[i].addr < a
      /\ k < Len(memlist) => memlist[k + 1].addr >= a
  BY <1>4 DEF Passed
<1>8. ~(k > 0 /\ a < End(memlist[k]))
  <2> SUFFICES ASSUME k > 0, a < End(memlist[k]) PROVE FALSE
    OBVIOUS
  <2>1. k \in 1 .. Len(memlist) /\ memlist[k].addr < a
    BY <1>7
  <2>2. memlist[k].addr <= a /\ a < memlist[k].addr + memlist[k].len
    BY <2>1, <1>1, <1>6
  <2>3. FreeWord(a)
    BY <2>1, <2>2 DEF FreeWord, FreeIn
  <2> QED
    BY <2>3, <1>1, <1>3
<1>9. ~(k < Len(memlist) /\ U(a + nb) > memlist[k + 1].addr)
  <2> SUFFICES ASSUME k < Len(memlist), U(a + nb) > memlist[k + 1].addr PROVE FALSE
    OBVIOUS
  <2>1. U(a + nb) = a + nb
    BY <1>1, <1>5, Bounds, USmall
  <2>2. k + 1 \in 1 .. Len(memlist) /\ memlist[k + 1].addr >= a
    BY <1>7
  <2>3. memlist[k + 1].addr \in Nat /\ memlist[k + 1].len \in Nat /\ memlist[k + 1].len > 0
    BY <2>2, <1>6
  <2>4. /\ memlist[k + 1].addr <= memlist[k + 1].addr
        /\ memlist[k + 1].addr < memlist[k + 1].addr + memlist[k + 1].len
        /\ a <= memlist[k + 1].addr /\ memlist[k + 1].addr < a + nb
    BY <2>1, <2>2, <2>3, <1>1
  <2>5. FreeWord(memlist[k + 1].addr)
    BY <2>2, <2>4 DEF FreeWord, FreeIn
  <2> QED
    BY <2>3, <2>4, <2>5, <1>3
<1>10. ~Overlaps(a, nb, k)
  BY <1>8, <1>9 DEF Overlaps
<1>11. ~Outside(a)
  BY <1>1, <1>5, Bounds DEF Outside
<1>12. ret' = <<FREE, OK>> /\ memlist' = Joined(Linked(a, nb, k), Node(a, k))
  BY <1>1, <1>4, <1>10, <1>11
<1>13. /\ memlist' \in Seq(Blocks) /\ InHeap(memlist') /\ Apart(memlist')
       /\ \A w \in Nat : FreeIn(memlist', w) <=> FreeIn(memlist, w) \/ (a <= w /\ w < a + nb)
  BY <1>1, <1>2, <1>4, <1>5, <1>10, <1>12, FreedFree
<1> QED
  BY <1>12, <1>13 DEF Freemem, a, nb

(* A region with a free word in it is refused. *)
LEMMA StaleStep ==
  ASSUME HeapInv, NEW block \in Nat, NEW n \in Request, block <= maxheap, FreememStale(block, n)
  PROVE  ret' = <<FREE, SYSERR>> /\ UNCHANGED <<memlist, held>>
<1> DEFINE nb == roundmb(n)
<1>1. n \in Nat /\ nb \in Nat /\ block + nb < SPACE
  <2>1. n \in Nat /\ nb \in Nat /\ nb < n + MBLK /\ maxheap + n + 2 * MBLK < SPACE
    BY RoundmbBounds, RequestAssumption
  <2>2. MBLK \in Nat
    BY SpaceAssumption
  <2> QED
    BY <2>1, <2>2, Bounds
<1>2. memlist \in Seq(Blocks) /\ Separated
  BY DEF HeapInv, TypeOK, Blocks
<1>3. PICK k \in Passed(block) :
         IF n = 0 \/ Outside(block) \/ Overlaps(block, nb, k)
         THEN ret' = <<FREE, SYSERR>> /\ UNCHANGED memlist
         ELSE ret' = <<FREE, OK>> /\ memlist' = Joined(Linked(block, nb, k), Node(block, k))
  BY DEF FreememStale, Free
<1>4. n = 0 \/ Outside(block) \/ \E w \in block .. block + nb - 1 : FreeWord(w)
  BY DEF FreememStale
<1> HIDE DEF nb
<1>5. ASSUME NEW w \in block .. block + nb - 1, FreeWord(w)
      PROVE  Overlaps(block, nb, k)
  <2>1. PICK j \in 1 .. Len(memlist) : memlist[j].addr <= w /\ w < memlist[j].addr + memlist[j].len
    BY <1>5 DEF FreeWord, FreeIn
  <2>2. /\ memlist[j].addr \in Nat /\ memlist[j].len \in Nat /\ w \in Nat
        /\ block <= w /\ w < block + nb /\ U(block + nb) = block + nb
    BY <1>1, <1>2, <2>1, Fields, USmall
  <2>3. /\ k \in 0 .. Len(memlist)
        /\ \A i \in 1 .. k : memlist[i].addr < block
        /\ k < Len(memlist) => memlist[k + 1].addr >= block
    BY <1>3 DEF Passed
  <2>4. CASE j <= k
    <3>1. /\ k \in 1 .. Len(memlist) /\ memlist[k].addr \in Nat /\ memlist[k].len \in Nat
          /\ memlist[k].addr < block /\ memlist[k].addr + memlist[k].len <= maxheap
          /\ j < k => memlist[j].addr + memlist[j].len < memlist[k].addr
      <4>1. k \in 1 .. Len(memlist) /\ memlist[k].addr < block
        BY <2>3, <2>4
      <4>2. memlist[k].addr \in Nat /\ memlist[k].len \in Nat
        BY <4>1, <1>2, Fields
      <4> QED
        BY <4>1, <4>2, <1>2 DEF Separated, Apart, InHeap
    <3>2. j = k
      BY <3>1, <2>1, <2>2, <2>4
    <3>3. End(memlist[k]) = memlist[k].addr + memlist[k].len
      <4>1. memlist[k].addr + memlist[k].len \in Nat /\ memlist[k].addr + memlist[k].len < SPACE
        BY <3>1, Bounds
      <4> QED
        BY <4>1, USmall DEF End
    <3>4. block < End(memlist[k])
      BY <3>2, <3>3, <2>1, <2>2
    <3> QED
      BY <3>1, <3>4 DEF Overlaps
  <2>5. CASE j > k
    <3>1. k + 1 \in 1 .. Len(memlist) /\ k < Len(memlist)
      BY <2>3, <2>5
    <3>2. /\ memlist[k + 1].addr \in Nat /\ memlist[k + 1].len \in Nat
          /\ k + 1 < j => memlist[k + 1].addr + memlist[k + 1].len < memlist[j].addr
      BY <3>1, <1>2, Fields DEF Separated, Apart
    <3>3. memlist[k + 1].addr <= memlist[j].addr
      BY <3>1, <3>2, <2>2, <2>3, <2>5
    <3>4. U(block + nb) > memlist[k + 1].addr
      BY <3>2, <3>3, <2>1, <2>2, <1>1
    <3> QED
      BY <3>1, <3>4 DEF Overlaps
  <2> QED
    BY <2>3, <2>4, <2>5
<1> QED
  BY <1>3, <1>4, <1>5 DEF FreememStale

(* Every step preserves the invariant. *)
LEMMA NextInv == HeapInv /\ [Next]_fvars => HeapInv'
<1> SUFFICES ASSUME HeapInv, [Next]_fvars PROVE HeapInv'
  OBVIOUS
<1>1. ASSUME NEW n \in Request, GetmemFits(n) PROVE HeapInv'
  <2>1. n # 0
    BY <1>1 DEF GetmemFits
  <2> QED
    BY <1>1, <2>1, GetmemStep, GrantInv
<1>2. ASSUME NEW n \in Request, GetstkFits(n) PROVE HeapInv'
  <2>1. n # 0
    BY <1>2 DEF GetstkFits
  <2> QED
    BY <1>2, <2>1, GetstkStep, GrantInv
<1>3. ASSUME NEW n \in Request, GetmemFails(n) PROVE HeapInv'
  BY <1>3 DEF GetmemFails, Refused, HeapInv, TypeOK, Positive, Separated, Partitioned,
              FreeWord
<1>4. ASSUME NEW r \in held, Freemem(r) PROVE HeapInv'
  BY <1>4, FreememStep, GiveBackInv
<1>5. ASSUME NEW block \in 0 .. maxheap, NEW n \in Request, FreememStale(block, n)
      PROVE  HeapInv'
  <2>1. ret' = <<FREE, SYSERR>> /\ UNCHANGED <<memlist, held>>
    BY <1>5, StaleStep, Bounds
  <2> QED
    BY <2>1 DEF HeapInv, TypeOK, Positive, Separated, Partitioned, FreeWord
<1>6. CASE UNCHANGED fvars
  BY <1>6 DEF fvars, HeapInv, TypeOK, Positive, Separated, Partitioned, FreeWord
<1> QED
  BY <1>1, <1>2, <1>3, <1>4, <1>5, <1>6 DEF Next, Getmem, Getstk

LEMMA HeapInvariant == Spec => []HeapInv
  BY InitInv, NextInv, PTL DEF Spec

(* getmem, getstk and freemem keep the free blocks in order and apart.     *)
THEOREM BlocksSeparated == Spec => []Separated
<1>1. HeapInv => Separated
  BY DEF HeapInv
<1> QED
  BY <1>1, HeapInvariant, PTL

(* No word of the heap is granted twice, and none is lost.                 *)
THEOREM WordsPartitioned == Spec => []Partitioned
<1>1. HeapInv => Partitioned
  BY DEF HeapInv
<1> QED
  BY <1>1, HeapInvariant, PTL

(***************************************************************************)
(* The refinement.                                                         *)
(***************************************************************************)
LEMMA HeapWords == \A w \in minheap .. maxheap - 1 : w \in Nat /\ minheap <= w /\ w < maxheap
  BY Bounds

LEMMA InitRefines == Init => Heap!Init
<1> SUFFICES ASSUME Init PROVE Heap!Init
  OBVIOUS
<1>1. HeapInv
  BY InitInv
<1>2. \A w \in minheap .. maxheap - 1 : FreeWord(w)
  BY <1>1 DEF HeapInv, Partitioned, Init
<1> QED
  BY <1>2 DEF Heap!Init, Init

LEMMA GrantRefines ==
  ASSUME HeapInv, NEW n \in Request, n # 0, NEW a \in Nat,
         minheap <= a, a + roundmb(n) <= maxheap,
         \A w \in a .. a + roundmb(n) - 1 : FreeWord(w),
         \A w \in Nat : FreeIn(memlist', w) <=>
             FreeIn(memlist, w) /\ ~(a <= w /\ w < a + roundmb(n)),
         held' = held \cup {<<a, n>>}, ret' = <<n, a>>
  PROVE  Heap!Grant(n)
<1>1. roundmb(n) \in Nat /\ 0 < roundmb(n)
  BY RoundmbBounds, RequestAssumption
<1> DEFINE run == a .. a + roundmb(n) - 1
<1>2. a \in minheap .. maxheap - 1 /\ run \subseteq minheap .. maxheap - 1
  BY <1>1, Bounds
<1>3. \A w \in minheap .. maxheap - 1 : FreeWord(w)' <=> FreeWord(w) /\ w \notin run
  <2> SUFFICES ASSUME NEW w \in minheap .. maxheap - 1
               PROVE  FreeWord(w)' <=> FreeWord(w) /\ w \notin run
    OBVIOUS
  <2>1. w \in Nat /\ (w \in run <=> a <= w /\ w < a + roundmb(n))
    BY <1>1, HeapWords
  <2> HIDE DEF run
  <2> QED
    BY <2>1 DEF FreeWord
<1>4. a \in Heap!Grantable(n)
  BY <1>2 DEF Heap!Grantable, Heap!Run
<1> HIDE DEF run
<1>5. {w \in minheap .. maxheap - 1 : FreeWord(w)'}
        = {w \in minheap .. maxheap - 1 : FreeWord(w)} \ run
  BY <1>3
<1> QED
  BY <1>4, <1>5 DEF Heap!Grant, Heap!Run, run

(* Blocks do not touch, so a run of free words lies in one block: where no *)
(* block fits, no run does.                                                *)
LEMMA RunInBlock ==
  ASSUME HeapInv, NEW n \in Request, n # 0, NEW a \in Heap!Grantable(n)
  PROVE  Fits(roundmb(n)) # {}
<1> DEFINE nb == roundmb(n)
<1>1. nb \in Nat /\ 0 < nb
  BY RoundmbBounds, RequestAssumption
<1>2. a \in minheap .. maxheap - 1 /\ \A w \in a .. a + nb - 1 : FreeWord(w)
  BY DEF Heap!Grantable, Heap!Run
<1> HIDE DEF nb
<1>3. a \in Nat
  BY <1>2, HeapWords
<1>4. memlist \in Seq(Blocks) /\ Separated
  BY DEF HeapInv, TypeOK, Blocks
<1>5. PICK i \in 1 .. Len(memlist) : memlist[i].addr <= a /\ a < memlist[i].addr + memlist[i].len
  <2>1. FreeWord(a)
    BY <1>1, <1>2, <1>3
  <2> QED
    BY <2>1 DEF FreeWord, FreeIn
<1>6. memlist[i].addr \in Nat /\ memlist[i].len \in Nat
  BY <1>4, <1>5, Fields
<1> DEFINE e == memlist[i].addr + memlist[i].len
<1>7. e \in Nat
  BY <1>6
<1>8. ~FreeWord(e)
  <2> SUFFICES ASSUME FreeWord(e) PROVE FALSE
    OBVIOUS
  <2>1. PICK j \in 1 .. Len(memlist) : memlist[j].addr <= e /\ e < memlist[j].addr + memlist[j].len
    BY DEF FreeWord, FreeIn
  <2>2. memlist[j].addr \in Nat /\ memlist[j].len \in Nat
    BY <1>4, <2>1, Fields
  <2>3. /\ i < j => e < memlist[j].addr
        /\ j < i => memlist[j].addr + memlist[j].len < memlist[i].addr
    BY <1>4, <1>5, <2>1 DEF Separated, Apart
  <2>4. i < j \/ j < i \/ i = j
    BY <1>5, <2>1
  <2> QED
    BY <2>1, <2>2, <2>3, <2>4, <1>6
<1>9. a + nb <= e
  <2> SUFFICES ASSUME e < a + nb PROVE FALSE
    BY <1>1, <1>3, <1>7
  <2>1. e \in a .. a + nb - 1
    BY <1>1, <1>3, <1>5, <1>7
  <2> QED
    BY <2>1, <1>2, <1>8
<1>10. memlist[i].len >= nb
  BY <1>1, <1>3, <1>5, <1>6, <1>9
<1> QED
  BY <1>5, <1>10 DEF Fits, nb

LEMMA GiveBackRefines ==
  ASSUME HeapInv, NEW r \in held,
         \A w \in Nat : FreeIn(memlist', w) <=>
             FreeIn(memlist, w) \/ (r[1] <= w /\ w < r[1] + roundmb(r[2])),
         held' = held \ {r}, ret' = <<FREE, OK>>
  PROVE  Heap!GiveBack(r)
<1> DEFINE run == r[1] .. r[1] + roundmb(r[2]) - 1
<1>1. r[1] \in Nat /\ roundmb(r[2]) \in Nat
  BY RoundmbBounds DEF HeapInv, TypeOK
<1>2. run \subseteq minheap .. maxheap - 1
  BY DEF HeapInv, Partitioned, Region
<1>3. \A w \in minheap .. maxheap - 1 : FreeWord(w)' <=> FreeWord(w) \/ w \in run
  <2> SUFFICES ASSUME NEW w \in minheap .. maxheap - 1
               PROVE  FreeWord(w)' <=> FreeWord(w) \/ w \in run
    OBVIOUS
  <2>1. w \in Nat /\ (w \in run <=> r[1] <= w /\ w < r[1] + roundmb(r[2]))
    BY <1>1, HeapWords
  <2> HIDE DEF run
  <2> QED
    BY <2>1 DEF FreeWord
<1> HIDE DEF run
<1>4. {w \in minheap .. maxheap - 1 : FreeWord(w)'}
        = {w \in minheap .. maxheap - 1 : FreeWord(w)} \cup run
  BY <1>2, <1>3
<1> QED
  BY <1>4 DEF Heap!GiveBack, Heap!Run, run

LEMMA NextRefines == HeapInv /\ [Next]_fvars => [Heap!Next]_(Heap!svars)
<1> SUFFICES ASSUME HeapInv, [Next]_fvars PROVE [Heap!Next]_(Heap!svars)
  OBVIOUS
<1>1. ASSUME NEW n \in Request, GetmemFits(n) PROVE Heap!Next
  <2>1. n # 0 /\ n > 0
    BY <1>1, RequestAssumption DEF GetmemFits
  <2>2. Heap!Grant(n)
    BY <1>1, <2>1, GetmemStep, GrantRefines
  <2> QED
    BY <2>1, <2>2 DEF Heap!Next
<1>2. ASSUME NEW n \in Request, GetstkFits(n) PROVE Heap!Next
  <2>1. n # 0 /\ n > 0
    BY <1>2, RequestAssumption DEF GetstkFits
  <2>2. Heap!Grant(n)
    BY <1>2, <2>1, GetstkStep, GrantRefines
  <2> QED
    BY <2>1, <2>2 DEF Heap!Next
<1>3. ASSUME NEW n \in Request, GetmemFails(n) PROVE Heap!Next
  <2>1. n = 0 \/ Heap!Grantable(n) = {}
    BY <1>3, RunInBlock DEF GetmemFails
  <2>2. ret' = <<n, SYSERR>> /\ memlist' = memlist /\ held' = held
    BY <1>3 DEF GetmemFails, Refused
  <2>3. Heap!Refuse(n)
    BY <2>1, <2>2 DEF Heap!Refuse, FreeWord
  <2> QED
    BY <2>3 DEF Heap!Next
<1>4. ASSUME NEW r \in held, Freemem(r) PROVE Heap!Next
  <2>1. Heap!GiveBack(r)
    BY <1>4, FreememStep, GiveBackRefines
  <2> QED
    BY <2>1 DEF Heap!Next
<1>5. ASSUME NEW block \in 0 .. maxheap, NEW n \in Request, FreememStale(block, n)
      PROVE  Heap!Next
  <2>1. ret' = <<FREE, SYSERR>> /\ UNCHANGED <<memlist, held>>
    BY <1>5, StaleStep, Bounds
  <2>2. Heap!RefuseFree
    BY <2>1 DEF Heap!RefuseFree, FreeWord
  <2> QED
    BY <2>2 DEF Heap!Next
<1>6. CASE UNCHANGED fvars
  BY <1>6 DEF fvars, Heap!svars, FreeWord
<1> QED
  BY <1>1, <1>2, <1>3, <1>4, <1>5, <1>6 DEF Next, Getmem, Getstk

(* The list of free blocks implements the set of free words: a request is  *)
(* refused only where no run of free words is long enough, and a region    *)
(* that is given back, and only such a region, can be granted again.       *)
THEOREM ListImplementsHeap == Spec => Implements
<1>1. Init => Heap!Init
  BY InitRefines
<1>2. HeapInv /\ [Next]_fvars => [Heap!Next]_(Heap!svars)
  BY NextRefines
<1> QED
  BY <1>1, <1>2, HeapInvariant, PTL DEF Spec, Implements, Heap!Spec
=============================================================================
