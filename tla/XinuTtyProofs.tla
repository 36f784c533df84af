---------------------------- MODULE XinuTtyProofs ----------------------------
(***************************************************************************)
(* The tty driver, for any number of processes and any sizes of its        *)
(* buffers: the buffers hold what was typed and written, the semaphores    *)
(* count what is in them, the driver leaves its buffers in the known ways  *)
(* only, and output that is not held is on its way.                        *)
(***************************************************************************)
EXTENDS XinuTty, SequenceTheorems, FiniteSetTheorems, TLAPS

(***************************************************************************)
(* The inductive invariant.                                                *)
(***************************************************************************)
Chars == Text \cup {"RETURN", "NEWLINE", "any"}
Typeable == Key \cup {"x"}
Writable == Chars \cup {"x"}

Readers == {p \in Proc : Reading(p)}
Writers == {p \in Proc : Writing(p)}

(* A semaphore of the processes in S, each of which has the semaphore's    *)
(* promise or waits for it: only those wait, none twice, and as many as    *)
(* the count says.                                                         *)
SemFits(s, S) ==
    /\ s \in [count : Int, queue : Seq(Proc)]
    /\ \A i \in 1 .. Len(s.queue) : s.queue[i] \in S
    /\ \A i, j \in 1 .. Len(s.queue) : s.queue[i] = s.queue[j] => i = j
    /\ Len(s.queue) = IF s.count < 0 THEN -s.count ELSE 0

(* k places after h in a buffer of n places, for k at most n. *)
Wrap(h, k, n) == IF h + k < n THEN h + k ELSE h + k - n

(* The n places of b hold s from h on. *)
Ring(b, h, s, n) ==
    /\ h \in 0 .. n - 1
    /\ Len(s) <= n
    /\ \A i \in 1 .. Len(s) : s[i] = b[Wrap(h, i - 1, n)]

TtyTypeOK ==
    /\ tyibuff \in [0 .. TY_IBUFLEN - 1 -> Typeable]
    /\ tyitail \in Nat /\ tyicursor \in Nat
    /\ typed \in Seq(Typeable) /\ unsignalled \in Nat /\ crowded \in BOOLEAN
    /\ tyobuff \in [0 .. TY_OBUFLEN - 1 -> Writable]
    /\ written \in Seq(Writable)
    /\ echo \in 0 .. TY_EBUFLEN - 1
    /\ fifo \in 0 .. UART_FIFO_SIZE
    /\ etbei \in BOOLEAN /\ thre \in BOOLEAN
    /\ tyoheld \in BOOLEAN /\ silent \in BOOLEAN
    /\ pc \in [Proc -> {"app", "getc", "nextc", "putc"}]
    /\ local \in [Proc -> Seq(Chars)]
    /\ \A p \in Proc : pc[p] \in {"getc", "putc"} => local[p] # <<>>

(* The tail is left at the end of the buffer where it was not wrapped. *)
InputFits ==
    /\ SemFits(tyisem, Readers)
    /\ Ring(tyibuff, tyihead, typed, TY_IBUFLEN)
    /\ \/ tyitail = Wrap(tyihead, Len(typed), TY_IBUFLEN)
       \/ tyitail = TY_IBUFLEN /\ Wrap(tyihead, Len(typed), TY_IBUFLEN) = 0
    /\ tyisem.count = Len(typed) - tyicursor - unsignalled - Cardinality(Readers)

OutputFits ==
    /\ SemFits(tyosem, Writers)
    /\ Ring(tyobuff, tyohead, written, TY_OBUFLEN)
    /\ tyotail = Wrap(tyohead, Len(written), TY_OBUFLEN)
    /\ tyosem.count = TY_OBUFLEN - Len(written) - Cardinality(Writers)

(* There is room to end the line. *)
LineEnds == tyicursor > 0 /\ ~crowded => Len(typed) - unsignalled <= TY_IBUFLEN - 1

(* Output interrupts stay enabled while there is something to send. *)
Armed == (written # <<>> \/ echo > 0) /\ ~tyoheld /\ ~silent => etbei /\ (fifo = 0 => thre)

TtyFits == TtyTypeOK /\ InputFits /\ OutputFits /\ LineEnds /\ Armed
TtyInv == TroubleExplained /\ (trouble = "no" => TtyFits)

-----------------------------------------------------------------------------
(***************************************************************************)
(* Semaphores.                                                             *)
(***************************************************************************)

(* The sizes of sets that gain or lose an element. *)
LEMMA OneMore ==
    ASSUME NEW S, IsFiniteSet(S), NEW p, p \notin S
    PROVE  /\ IsFiniteSet(S \cup {p})
           /\ Cardinality(S \cup {p}) = Cardinality(S) + 1
           /\ Cardinality(S) \in Nat
  BY FS_AddElement, FS_CardinalityType

LEMMA OneLess ==
    ASSUME NEW S, IsFiniteSet(S), NEW p \in S
    PROVE  /\ IsFiniteSet(S \ {p})
           /\ Cardinality(S \ {p}) = Cardinality(S) - 1
           /\ Cardinality(S) \in Nat
  BY FS_RemoveElement, FS_CardinalityType

(* wait, by a process that comes to use the semaphore or goes on using it. *)
LEMMA WaitFits ==
    ASSUME NEW s, NEW S, NEW p \in Proc, SemFits(s, S), ~Waits(s, p)
    PROVE  /\ SemFits(SemWait(s, p), S \cup {p})
           /\ SemWait(s, p).count = s.count - 1
  <1> DEFINE q == s.queue
             t == SemWait(s, p).queue
  <1>1. s.count \in Int /\ q \in Seq(Proc) /\ Len(q) \in Nat
    BY DEF SemFits
  <1>2. SemWait(s, p).count = s.count - 1
    BY DEF SemWait
  <1>3. \A i \in 1 .. Len(q) : q[i] \in S /\ q[i] # p
    BY <1>1 DEF SemFits, Waits
  <1>4. CASE s.count - 1 < 0
    <2>1. SemWait(s, p) = [count |-> s.count - 1, queue |-> Append(q, p)]
      BY <1>4 DEF SemWait
    <2>2. /\ Append(q, p) \in Seq(Proc)
          /\ Len(Append(q, p)) = Len(q) + 1
          /\ \A i \in 1 .. Len(q) : Append(q, p)[i] = q[i]
          /\ Append(q, p)[Len(q) + 1] = p
      BY <1>1
    <2>3. \A i \in 1 .. Len(q) + 1 : Append(q, p)[i] \in S \cup {p}
      BY <1>1, <1>3, <2>2
    <2>4. \A i, j \in 1 .. Len(q) + 1 : Append(q, p)[i] = Append(q, p)[j] => i = j
      <3> TAKE i, j \in 1 .. Len(q) + 1
      <3>1. CASE i \in 1 .. Len(q) /\ j \in 1 .. Len(q)
        BY <3>1, <2>2 DEF SemFits
      <3>2. CASE i = Len(q) + 1 /\ j \in 1 .. Len(q)
        BY <3>2, <2>2, <1>3
      <3>3. CASE i \in 1 .. Len(q) /\ j = Len(q) + 1
        BY <3>3, <2>2, <1>3
      <3> QED  BY <3>1, <3>2, <3>3, <1>1
    <2>5. Len(q) + 1 = -(s.count - 1)
      BY <1>1, <1>4 DEF SemFits
    <2> HIDE DEF q
    <2> QED  BY <2>1, <2>2, <2>3, <2>4, <2>5, <1>1, <1>2, <1>4 DEF SemFits
  <1>5. CASE ~(s.count - 1 < 0)
    <2>1. SemWait(s, p) = [count |-> s.count - 1, queue |-> q]
      BY <1>5 DEF SemWait
    <2>2. Len(q) = 0
      BY <1>1, <1>5 DEF SemFits
    <2> QED  BY <1>1, <1>2, <1>5, <2>1, <2>2 DEF SemFits
  <1> QED  BY <1>2, <1>4, <1>5

(* What is left of a sequence without its first n elements. *)
LEMMA DropSeq ==
    ASSUME NEW T, NEW q \in Seq(T), NEW n \in Nat, NEW t, t = SubSeq(q, n + 1, Len(q))
    PROVE  /\ t \in Seq(T)
           /\ Len(t) \in Nat
           /\ Len(t) = IF n <= Len(q) THEN Len(q) - n ELSE 0
           /\ \A i \in 1 .. Len(t) : t[i] = q[i + n] /\ i + n \in 1 .. Len(q)
  <1>1. Len(q) \in Nat /\ n + 1 \in Int /\ n + 1 >= 1
    OBVIOUS
  <1>2. CASE n + 1 <= Len(q)
    BY <1>1, <1>2
  <1>3. CASE ~(n + 1 <= Len(q))
    <2>1. t = <<>>
      BY <1>1, <1>3
    <2> QED  BY <2>1, <1>1, <1>3
  <1> QED  BY <1>2, <1>3

(* signaln. *)
LEMMA SignalFits ==
    ASSUME NEW s, NEW S, NEW n \in Nat, SemFits(s, S)
    PROVE  /\ SemFits(SemSignal(s, n), S)
           /\ SemSignal(s, n).count = s.count + n
           /\ \A p : ~Waits(s, p) => ~Waits(SemSignal(s, n), p)
  <1> DEFINE q == s.queue
             t == SubSeq(q, n + 1, Len(q))
  <1>1. s.count \in Int /\ q \in Seq(Proc) /\ Len(q) \in Nat
    BY DEF SemFits
  <1>2. SemSignal(s, n) = [count |-> s.count + n, queue |-> t]
    BY DEF SemSignal
  <1>3. /\ t \in Seq(Proc)
        /\ Len(t) \in Nat
        /\ Len(t) = IF n <= Len(q) THEN Len(q) - n ELSE 0
        /\ \A i \in 1 .. Len(t) : t[i] = q[i + n] /\ i + n \in 1 .. Len(q)
    <2> HIDE DEF q
    <2> QED  BY <1>1, DropSeq
  <1>4. DOMAIN t = 1 .. Len(t) /\ DOMAIN q = 1 .. Len(q) /\ Len(t) \in Nat
    BY <1>1, <1>3
  <1> HIDE DEF t
  <1>5. \A i \in 1 .. Len(t) : t[i] \in S
    BY <1>3 DEF SemFits
  <1>6. \A i, j \in 1 .. Len(t) : t[i] = t[j] => i = j
    <2> TAKE i, j \in 1 .. Len(t)
    <2> HAVE t[i] = t[j]
    <2>1. i + n = j + n
      BY <1>3 DEF SemFits
    <2> QED  BY <2>1, <1>4
  <1>7. Len(t) = IF s.count + n < 0 THEN -(s.count + n) ELSE 0
    BY <1>1, <1>3 DEF SemFits
  <1>8. \A p : ~Waits(s, p) => ~Waits(SemSignal(s, n), p)
    <2> SUFFICES ASSUME NEW p, Waits(SemSignal(s, n), p)
                 PROVE  Waits(s, p)
      OBVIOUS
    <2>1. PICK i \in 1 .. Len(t) : t[i] = p
      BY <1>2, <1>4 DEF Waits
    <2>2. q[i + n] = p /\ i + n \in DOMAIN q
      BY <2>1, <1>3, <1>4
    <2> QED  BY <2>2 DEF Waits
  <1> QED  BY <1>1, <1>2, <1>3, <1>5, <1>6, <1>7, <1>8 DEF SemFits

(* A process that does not wait goes away. *)
LEMMA LeaveFits ==
    ASSUME NEW s, NEW S, NEW p, SemFits(s, S), ~Waits(s, p)
    PROVE  SemFits(s, S \ {p})
  BY DEF SemFits, Waits

(* Those who do not wait are those who use the semaphore less those in the *)
(* queue.                                                                  *)
LEMMA LateSize ==
    ASSUME NEW s, NEW S, IsFiniteSet(S), SemFits(s, S)
    PROVE  /\ Cardinality({p \in S : ~Waits(s, p)}) = Cardinality(S) - Len(s.queue)
           /\ Cardinality({p \in S : ~Waits(s, p)}) \in Nat
           /\ IsFiniteSet({p \in S : ~Waits(s, p)})
           /\ Cardinality(S) \in Nat
  <1> DEFINE q == s.queue
             W == {p \in S : Waits(s, p)}
             E == {p \in S : ~Waits(s, p)}
             f == [i \in 1 .. Len(q) |-> q[i]]
  <1>1. q \in Seq(Proc) /\ Len(q) \in Nat /\ DOMAIN q = 1 .. Len(q)
    BY DEF SemFits
  <1>2. f \in Bijection(1 .. Len(q), W)
    <2>1. f \in [1 .. Len(q) -> W]
      BY <1>1 DEF SemFits, Waits
    <2>2. \A a, b \in 1 .. Len(q) : f[a] = f[b] => a = b
      BY DEF SemFits
    <2>3. \A y \in W : \E x \in 1 .. Len(q) : f[x] = y
      BY <1>1 DEF Waits
    <2> HIDE DEF W, f, q
    <2> QED  BY <2>1, <2>2, <2>3 DEF Bijection, Injection, Surjection, IsInjective
  <1>3. ExistsBijection(1 .. Len(q), W)
    BY <1>2 DEF ExistsBijection
  <1>4. IsFiniteSet(1 .. Len(q)) /\ Cardinality(1 .. Len(q)) = Len(q)
    <2>1. 1 \in Int /\ Len(q) \in Int
      BY <1>1
    <2> HIDE DEF q
    <2>2. IsFiniteSet(1 .. Len(q)) /\ Cardinality(1 .. Len(q)) = IF 1 > Len(q) THEN 0 ELSE Len(q) - 1 + 1
      BY <2>1, FS_Interval
    <2> QED  BY <2>2, <1>1
  <1>5. IsFiniteSet(W) /\ Cardinality(W) = Len(q)
    <2> HIDE DEF q, W
    <2> QED  BY <1>3, <1>4, FS_Bijection
  <1>6. /\ IsFiniteSet(S \ W)
        /\ Cardinality(S \ W) = Cardinality(S) - Cardinality(S \cap W)
    <2> HIDE DEF W
    <2> QED  BY FS_Difference
  <1>7. S \ W = E /\ S \cap W = W
    OBVIOUS
  <1> HIDE DEF E, W, q
  <1>8. Cardinality(E) \in Nat /\ Cardinality(S) \in Nat
    BY <1>6, <1>7, FS_CardinalityType
  <1> QED  BY <1>5, <1>6, <1>7, <1>8 DEF E, q

-----------------------------------------------------------------------------
(***************************************************************************)
(* Buffers.                                                                *)
(***************************************************************************)

(* The driver's arithmetic modulo the size of a buffer. *)
LEMMA ModIsWrap ==
    ASSUME NEW n \in Nat \ {0}, NEW h \in 0 .. n - 1, NEW k \in 0 .. n
    PROVE  (h + k) % n = Wrap(h, k, n) /\ Wrap(h, k, n) \in 0 .. n - 1
  <1>1. CASE h + k < n
    BY <1>1 DEF Wrap
  <1>2. CASE ~(h + k < n)
    <2>1. n <= h + k /\ h + k < 2 * n
      BY <1>2
    <2>2. (h + k) % n = h + k - n
      BY <2>1
    <2> QED  BY <2>1, <2>2, <1>2 DEF Wrap
  <1> QED  BY <1>1, <1>2

LEMMA ModInRange ==
    ASSUME NEW n \in Nat \ {0}, NEW k \in Nat
    PROVE  k % n \in 0 .. n - 1
  OBVIOUS

(* Different places of a sequence are different places of the buffer. *)
LEMMA WrapInjective ==
    ASSUME NEW n \in Nat \ {0}, NEW h \in 0 .. n - 1,
           NEW j \in 0 .. n - 1, NEW k \in 0 .. n - 1, Wrap(h, j, n) = Wrap(h, k, n)
    PROVE  j = k
  BY DEF Wrap

(* Places counted from a later head. *)
LEMMA WrapWrap ==
    ASSUME NEW n \in Nat \ {0}, NEW h \in 0 .. n - 1,
           NEW j \in 0 .. n, NEW k \in 0 .. n, j + k <= n
    PROVE  Wrap(Wrap(h, j, n), k, n) = Wrap(h, j + k, n)
  BY DEF Wrap

Put(b, i, c) == [b EXCEPT ![i] = c]

(* A character is put behind the others. *)
LEMMA RingPut ==
    ASSUME NEW T, NEW n \in Nat \ {0}, NEW b \in [0 .. n - 1 -> T], NEW h, NEW s \in Seq(T),
           Ring(b, h, s, n), Len(s) < n, NEW c \in T
    PROVE  /\ Put(b, Wrap(h, Len(s), n), c) \in [0 .. n - 1 -> T]
           /\ Ring(Put(b, Wrap(h, Len(s), n), c), h, Append(s, c), n)
           /\ Append(s, c) \in Seq(T)
           /\ Len(Append(s, c)) = Len(s) + 1
  <1> DEFINE t == Wrap(h, Len(s), n)
             b2 == [b EXCEPT ![t] = c]
             s2 == Append(s, c)
  <1>1. h \in 0 .. n - 1 /\ Len(s) \in Nat /\ Len(s) <= n
    BY DEF Ring
  <1>2. t \in 0 .. n - 1
    BY <1>1, ModIsWrap
  <1>3. /\ s2 \in Seq(T) /\ Len(s2) = Len(s) + 1
        /\ \A i \in 1 .. Len(s) : s2[i] = s[i]
        /\ s2[Len(s) + 1] = c
    OBVIOUS
  <1>4. \A i \in 0 .. n - 1 : b2[i] = IF i = t THEN c ELSE b[i]
    BY <1>2
  <1> HIDE DEF s2, b2
  <1>5. ASSUME NEW i \in 1 .. Len(s2)
        PROVE  s2[i] = b2[Wrap(h, i - 1, n)]
    <2>1. i - 1 \in 0 .. n - 1 /\ Len(s) \in 0 .. n - 1 /\ i - 1 \in 0 .. n
      BY <1>1, <1>3
    <2>2. Wrap(h, i - 1, n) \in 0 .. n - 1
      BY <1>1, <2>1, ModIsWrap
    <2>3. CASE i = Len(s) + 1
      BY <2>3, <1>1, <1>2, <1>3, <1>4
    <2>4. CASE i # Len(s) + 1
      <3>1. i \in 1 .. Len(s)
        BY <2>4, <1>1, <1>3
      <3>2. i - 1 # Len(s)
        BY <2>4, <1>1
      <3> HIDE DEF t
      <3>3. Wrap(h, i - 1, n) # t
        BY <3>2, <1>1, <2>1, WrapInjective DEF t
      <3>4. b2[Wrap(h, i - 1, n)] = b[Wrap(h, i - 1, n)]
        BY <3>3, <2>2, <1>4
      <3> QED  BY <3>1, <3>4, <1>3 DEF Ring
    <2> QED  BY <2>3, <2>4
  <1>6. b2 \in [0 .. n - 1 -> T]
    BY <1>2 DEF b2
  <1>7. Len(s2) <= n
    BY <1>1, <1>3
  <1>8. Ring(b2, h, s2, n)
    BY <1>1, <1>5, <1>7 DEF Ring
  <1> QED  BY <1>3, <1>6, <1>8 DEF b2, s2, Put

(* Characters are taken from the front. *)
LEMMA RingDrop ==
    ASSUME NEW T, NEW n \in Nat \ {0}, NEW b, NEW h, NEW s \in Seq(T), Ring(b, h, s, n),
           NEW k \in Nat, k <= Len(s)
    PROVE  /\ Ring(b, Wrap(h, k, n), SubSeq(s, k + 1, Len(s)), n)
           /\ SubSeq(s, k + 1, Len(s)) \in Seq(T)
           /\ Len(SubSeq(s, k + 1, Len(s))) = Len(s) - k
           /\ Wrap(Wrap(h, k, n), Len(s) - k, n) = Wrap(h, Len(s), n)
  <1> DEFINE t == SubSeq(s, k + 1, Len(s))
             g == Wrap(h, k, n)
  <1>1. h \in 0 .. n - 1 /\ Len(s) \in Nat /\ Len(s) <= n
    BY DEF Ring
  <1>2. /\ t \in Seq(T) /\ Len(t) \in Nat
        /\ Len(t) = Len(s) - k
        /\ \A i \in 1 .. Len(t) : t[i] = s[i + k] /\ i + k \in 1 .. Len(s)
    BY DropSeq
  <1>3. g \in 0 .. n - 1
    <2>1. k \in 0 .. n
      BY <1>1
    <2> QED  BY <1>1, <2>1, ModIsWrap
  <1> HIDE DEF t
  <1>4. ASSUME NEW i \in 1 .. Len(t)
        PROVE  t[i] = b[Wrap(g, i - 1, n)]
    <2>1. t[i] = s[i + k] /\ i + k \in 1 .. Len(s)
      BY <1>2
    <2>2. s[i + k] = b[Wrap(h, (i + k) - 1, n)]
      BY <2>1 DEF Ring
    <2>3. k \in 0 .. n /\ i - 1 \in 0 .. n /\ k + (i - 1) <= n /\ k + (i - 1) = (i + k) - 1
      BY <1>1, <1>2
    <2>4. Wrap(Wrap(h, k, n), i - 1, n) = Wrap(h, k + (i - 1), n)
      BY <1>1, <2>3, WrapWrap
    <2> QED  BY <2>1, <2>2, <2>3, <2>4
  <1>5. Wrap(g, Len(s) - k, n) = Wrap(h, Len(s), n)
    <2>1. k \in 0 .. n /\ Len(s) - k \in 0 .. n /\ k + (Len(s) - k) = Len(s)
      BY <1>1
    <2> QED  BY <1>1, <2>1, WrapWrap
  <1>6. Len(t) <= n
    BY <1>1, <1>2
  <1>7. Ring(b, g, t, n)
    <2> HIDE DEF g
    <2> QED  BY <1>3, <1>4, <1>6 DEF Ring
  <1> QED  BY <1>2, <1>5, <1>7 DEF t

(* Characters are taken back from the end. *)
LEMMA RingTrunc ==
    ASSUME NEW T, NEW n \in Nat \ {0}, NEW b, NEW h, NEW s \in Seq(T), Ring(b, h, s, n),
           NEW k \in Nat, k <= Len(s)
    PROVE  /\ Ring(b, h, SubSeq(s, 1, Len(s) - k), n)
           /\ SubSeq(s, 1, Len(s) - k) \in Seq(T)
           /\ Len(SubSeq(s, 1, Len(s) - k)) = Len(s) - k
  <1> DEFINE m == Len(s) - k
             t == SubSeq(s, 1, m)
  <1>1. Len(s) \in Nat /\ m \in 0 .. Len(s) /\ Len(s) <= n
    BY DEF Ring
  <1>2. t \in Seq(T) /\ Len(t) = m /\ \A i \in 1 .. m : t[i] = s[i]
    <2> HIDE DEF m
    <2> QED  BY <1>1
  <1> HIDE DEF t, m
  <1>3. \A i \in 1 .. m : i \in 1 .. Len(s)
    BY <1>1
  <1>4. Ring(b, h, t, n)
    BY <1>1, <1>2, <1>3 DEF Ring
  <1> QED  BY <1>2, <1>4 DEF t, m

-----------------------------------------------------------------------------
(***************************************************************************)
(* What the invariant says of a state.                                     *)
(***************************************************************************)
Places == {"app", "getc", "nextc", "putc"}

LEMMA Sizes ==
    /\ TY_IBUFLEN \in Nat \ {0} /\ TY_OBUFLEN \in Nat \ {0}
    /\ TY_EBUFLEN \in Nat \ {0} /\ UART_FIFO_SIZE \in Nat \ {0}
    /\ UART_FIFO_SIZE <= TY_OBUFLEN
  BY TtySizesAssumption

LEMMA FinitelyMany ==
    /\ IsFiniteSet(Readers) /\ Cardinality(Readers) \in Nat
    /\ IsFiniteSet(Writers) /\ Cardinality(Writers) \in Nat
  <1>1. Readers \subseteq Proc /\ Writers \subseteq Proc
    BY DEF Readers, Writers
  <1> QED  BY <1>1, ProcAssumption, FS_Subset, FS_CardinalityType

(* A process goes from one place to another. *)
LEMMA PcMove ==
    ASSUME pc \in [Proc -> Places], NEW p \in Proc, NEW c \in Places,
           pc' = [pc EXCEPT ![p] = c]
    PROVE  /\ pc' \in [Proc -> Places]
           /\ Readers' = IF c \in {"getc", "nextc"} THEN Readers \cup {p} ELSE Readers \ {p}
           /\ Writers' = IF c = "putc" THEN Writers \cup {p} ELSE Writers \ {p}
  <1>1. pc' \in [Proc -> Places] /\ \A r \in Proc : pc'[r] = IF r = p THEN c ELSE pc[r]
    OBVIOUS
  <1>2. Readers' = IF c \in {"getc", "nextc"} THEN Readers \cup {p} ELSE Readers \ {p}
    BY <1>1 DEF Readers, Reading
  <1>3. Writers' = IF c = "putc" THEN Writers \cup {p} ELSE Writers \ {p}
    BY <1>1 DEF Writers, Writing
  <1> QED  BY <1>1, <1>2, <1>3

(* The characters typed: those the semaphore counts, the unfinished line,  *)
(* those that were not signalled and those promised to released readers.   *)
LEMMA InputCount ==
    ASSUME TtyTypeOK, InputFits
    PROVE  /\ Len(typed) \in Nat /\ InAvail \in Nat
           /\ Cardinality(LateReaders) \in Nat
           /\ Cardinality(LateReaders) = Cardinality(Readers) - Len(tyisem.queue)
           /\ Len(typed) = InAvail + tyicursor + unsignalled + Cardinality(LateReaders)
           /\ LateReaders # {} => Cardinality(LateReaders) >= 1
           /\ LateReaders = {} => Cardinality(LateReaders) = 0
  <1>1. LateReaders = {p \in Readers : ~Waits(tyisem, p)}
    BY DEF LateReaders, Readers
  <1>2. /\ IsFiniteSet(LateReaders) /\ Cardinality(LateReaders) \in Nat
        /\ Cardinality(LateReaders) = Cardinality(Readers) - Len(tyisem.queue)
        /\ Cardinality(Readers) \in Nat
    BY <1>1, LateSize, FinitelyMany DEF InputFits
  <1>3. (LateReaders = {}) <=> (Cardinality(LateReaders) = 0)
    BY <1>2, FS_EmptySet
  <1>4. Len(typed) \in Nat /\ tyicursor \in Nat /\ unsignalled \in Nat
    BY DEF TtyTypeOK
  <1>5. tyisem.count \in Int /\ Len(tyisem.queue) = IF tyisem.count < 0 THEN -tyisem.count ELSE 0
    BY DEF InputFits, SemFits
  <1>6. InAvail \in Nat /\ InAvail = tyisem.count + Len(tyisem.queue) /\ Len(tyisem.queue) \in Nat
    BY <1>5 DEF InAvail
  <1>7. Len(typed) = InAvail + tyicursor + unsignalled + Cardinality(LateReaders)
    <2>1. tyisem.count = Len(typed) - tyicursor - unsignalled - Cardinality(Readers)
      BY DEF InputFits
    <2> DEFINE c == tyisem.count
               w == Len(tyisem.queue)
               r == Cardinality(Readers)
               l == Cardinality(LateReaders)
               n == Len(typed)
    <2>2. c \in Int /\ w \in Nat /\ r \in Nat /\ l \in Nat /\ n \in Nat
      BY <1>2, <1>4, <1>5, <1>6
    <2>3. c = n - tyicursor - unsignalled - r /\ l = r - w /\ InAvail = c + w
      BY <2>1, <1>2, <1>6
    <2> HIDE DEF c, w, r, l, n
    <2>4. n = InAvail + tyicursor + unsignalled + l
      BY <1>4, <2>2, <2>3
    <2> QED  BY <2>4 DEF n, l
  <1> QED  BY <1>2, <1>3, <1>4, <1>6, <1>7, SMTT(30)

(* The characters written, and what the handler takes for them. *)
LEMMA OutputCount ==
    ASSUME TtyTypeOK, OutputFits
    PROVE  /\ Len(written) \in Nat /\ Avail \in Nat
           /\ Cardinality(LateWriters) \in Nat
           /\ Cardinality(LateWriters) = Cardinality(Writers) - Len(tyosem.queue)
           /\ Avail = Len(written) + Cardinality(Writers)
           /\ LateWriters # {} => Len(written) < TY_OBUFLEN
           /\ LateWriters = {} => Len(written) = TY_OBUFLEN \/ Avail = Len(written)
  <1>1. LateWriters = {p \in Writers : ~Waits(tyosem, p)}
    BY DEF LateWriters, Writers
  <1>2. /\ IsFiniteSet(LateWriters) /\ Cardinality(LateWriters) \in Nat
        /\ Cardinality(LateWriters) = Cardinality(Writers) - Len(tyosem.queue)
        /\ Cardinality(Writers) \in Nat
    BY <1>1, LateSize, FinitelyMany DEF OutputFits
  <1>3. (LateWriters = {}) <=> (Cardinality(LateWriters) = 0)
    BY <1>2, FS_EmptySet
  <1>4. Len(written) \in Nat
    BY DEF TtyTypeOK
  <1>5. tyosem.count \in Int /\ Len(tyosem.queue) = IF tyosem.count < 0 THEN -tyosem.count ELSE 0
    BY DEF OutputFits, SemFits
  <1>6. Avail \in Nat /\ Avail = Len(written) + Cardinality(Writers)
    BY <1>2, <1>4, <1>5, Sizes DEF OutputFits, Avail
  <1>7. Len(tyosem.queue) \in Nat /\ tyosem.count = TY_OBUFLEN - Len(written) - Cardinality(Writers)
    BY <1>5 DEF OutputFits
  <1>8. LateWriters # {} => Len(written) < TY_OBUFLEN
    BY <1>2, <1>3, <1>4, <1>5, <1>7, Sizes
  <1>9. LateWriters = {} => Len(written) = TY_OBUFLEN \/ Avail = Len(written)
    BY <1>2, <1>3, <1>4, <1>5, <1>6, <1>7, Sizes
  <1> QED  BY <1>2, <1>4, <1>6, <1>8, <1>9

(* The semaphores' counts when a process waits, signals or leaves. *)
LEMMA InputKept ==
    ASSUME TtyTypeOK, InputFits, LineEnds,
           UNCHANGED <<tyibuff, tyihead, tyitail, tyicursor, typed, unsignalled, crowded>>,
           SemFits(tyisem', Readers'),
           tyisem'.count + Cardinality(Readers') = tyisem.count + Cardinality(Readers)
    PROVE  InputFits' /\ LineEnds'
  <1>1. Cardinality(Readers) \in Nat /\ Cardinality(Readers') \in Nat
    <2>1. Cardinality(Readers) \in Nat
      BY FinitelyMany
    <2>2. Cardinality(Readers') \in Nat
      <3>1. Readers' \subseteq Proc
        BY DEF Readers
      <3> QED  BY <3>1, ProcAssumption, FS_Subset, FS_CardinalityType
    <2> QED  BY <2>1, <2>2
  <1>2. tyisem.count \in Int /\ tyisem'.count \in Int
    BY DEF InputFits, SemFits
  <1>3. Len(typed) \in Nat /\ tyicursor \in Nat /\ unsignalled \in Nat
    BY DEF TtyTypeOK
  <1>4. tyisem'.count = Len(typed') - tyicursor' - unsignalled' - Cardinality(Readers')
    BY <1>1, <1>2, <1>3 DEF InputFits
  <1>5. InputFits'
    BY <1>4 DEF InputFits
  <1>6. LineEnds'
    BY DEF LineEnds
  <1> QED  BY <1>5, <1>6

LEMMA InputSame ==
    ASSUME InputFits, LineEnds, UNCHANGED ivars, Readers' = Readers
    PROVE  InputFits' /\ LineEnds'
  BY DEF InputFits, LineEnds, ivars

LEMMA OutputSame ==
    ASSUME OutputFits, UNCHANGED ovars, Writers' = Writers
    PROVE  OutputFits'
  BY DEF OutputFits, ovars

LEMMA ArmedSame ==
    ASSUME Armed, UNCHANGED <<written, echo, tyoheld, silent, etbei, thre, fifo>>
    PROVE  Armed'
  BY DEF Armed

-----------------------------------------------------------------------------
(***************************************************************************)
(* Processes that read.                                                    *)
(***************************************************************************)

(* The part of the types that a reader leaves alone. *)
LEMMA ReaderTypes ==
    ASSUME TtyTypeOK, tyitail' = tyitail, tyibuff' = tyibuff, tyicursor' = tyicursor,
           unsignalled' = unsignalled, crowded' = crowded,
           UNCHANGED <<ovars, echo, tyoheld, uart, silent>>,
           typed' \in Seq(Typeable), pc' \in [Proc -> Places], local' \in [Proc -> Seq(Chars)],
           \A p \in Proc : pc'[p] \in {"getc", "putc"} => local'[p] # <<>>
    PROVE  TtyTypeOK'
  BY DEF TtyTypeOK, ovars, uart, Places

(* A process changes its place and what it has left. *)
LEMMA ProcMove ==
    ASSUME TtyTypeOK, NEW p \in Proc, NEW c \in Places, NEW l \in Seq(Chars),
           c \in {"getc", "putc"} => l # <<>>,
           pc' = [pc EXCEPT ![p] = c], local' = [local EXCEPT ![p] = l]
    PROVE  /\ pc' \in [Proc -> Places]
           /\ local' \in [Proc -> Seq(Chars)]
           /\ \A r \in Proc : pc'[r] \in {"getc", "putc"} => local'[r] # <<>>
           /\ Readers' = IF c \in {"getc", "nextc"} THEN Readers \cup {p} ELSE Readers \ {p}
           /\ Writers' = IF c = "putc" THEN Writers \cup {p} ELSE Writers \ {p}
  <1>1. pc \in [Proc -> Places] /\ local \in [Proc -> Seq(Chars)]
    BY DEF TtyTypeOK, Places
  <1>2. /\ pc' \in [Proc -> Places]
        /\ Readers' = IF c \in {"getc", "nextc"} THEN Readers \cup {p} ELSE Readers \ {p}
        /\ Writers' = IF c = "putc" THEN Writers \cup {p} ELSE Writers \ {p}
    BY <1>1, PcMove
  <1>3. /\ local' \in [Proc -> Seq(Chars)]
        /\ \A r \in Proc : local'[r] = IF r = p THEN l ELSE local[r]
        /\ \A r \in Proc : pc'[r] = IF r = p THEN c ELSE pc[r]
    BY <1>1
  <1>4. \A r \in Proc : pc'[r] \in {"getc", "putc"} => local'[r] # <<>>
    BY <1>3 DEF TtyTypeOK
  <1> QED  BY <1>2, <1>3, <1>4

LEMMA AnyIsSeq ==
    ASSUME NEW n \in Nat \ {0}
    PROVE  /\ [i \in 1 .. n |-> "any"] \in Seq(Chars)
           /\ [i \in 1 .. n |-> "any"] # <<>>
  BY DEF Chars

(* A process begins to wait for input. *)
LEMMA ReadBegins ==
    ASSUME TtyFits, trouble = "no", NEW p \in Proc, pc[p] = "app",
           NEW c \in {"getc", "nextc"}, NEW l \in Seq(Chars), c = "getc" => l # <<>>,
           tyisem' = SemWait(tyisem, p), Continue(p, c, l, tyisem'),
           UNCHANGED <<tyibuff, tyihead, tyitail, tyicursor, typed, unsignalled, crowded, ovars,
                       echo, modes, tyoheld, uart, trouble, silent>>
    PROVE  TtyInv'
  <1>1. TtyTypeOK /\ InputFits /\ OutputFits /\ LineEnds /\ Armed
    BY DEF TtyFits
  <1>2. /\ pc' \in [Proc -> Places]
        /\ local' \in [Proc -> Seq(Chars)]
        /\ \A r \in Proc : pc'[r] \in {"getc", "putc"} => local'[r] # <<>>
        /\ Readers' = Readers \cup {p}
        /\ Writers' = Writers \ {p}
    BY <1>1, ProcMove DEF Continue, Places
  <1>3. p \notin Readers /\ p \notin Writers
    BY DEF Readers, Writers, Reading, Writing
  <1>4. ~Waits(tyisem, p)
    BY <1>1, <1>3 DEF InputFits, SemFits, Waits
  <1>5. SemFits(tyisem', Readers') /\ tyisem'.count = tyisem.count - 1
    BY <1>1, <1>2, <1>4, WaitFits DEF InputFits
  <1>6. tyisem'.count + Cardinality(Readers') = tyisem.count + Cardinality(Readers)
    <2>1. Cardinality(Readers') = Cardinality(Readers) + 1 /\ Cardinality(Readers) \in Nat
      BY <1>2, <1>3, OneMore, FinitelyMany
    <2>2. tyisem.count \in Int
      BY <1>1 DEF InputFits, SemFits
    <2> QED  BY <1>5, <2>1, <2>2
  <1>7. InputFits' /\ LineEnds'
    BY <1>1, <1>5, <1>6, InputKept
  <1>8. OutputFits'
    BY <1>1, <1>2, <1>3, OutputSame
  <1>9. Armed'
    BY <1>1, ArmedSame DEF ovars, uart
  <1>10. TtyTypeOK'
    <2>1. typed' \in Seq(Typeable)
      BY <1>1 DEF TtyTypeOK
    <2> QED  BY <1>1, <1>2, <2>1, ReaderTypes
  <1> QED  BY <1>7, <1>8, <1>9, <1>10 DEF TtyInv, TtyFits, TroubleExplained

LEMMA TtyReadStep ==
    ASSUME TtyFits, NEW p \in Proc, NEW n \in ReadCounts, TtyRead(p, n)
    PROVE  TtyInv'
  <1>1. n \in Nat \ {0}
    BY ReadCountsAssumption
  <1>2. [i \in 1 .. n |-> "any"] \in Seq(Chars) /\ [i \in 1 .. n |-> "any"] # <<>>
    BY <1>1, AnyIsSeq
  <1> DEFINE l == [i \in 1 .. n |-> "any"]
  <1>3. Continue(p, "getc", l, tyisem') /\ tyisem' = SemWait(tyisem, p)
    BY DEF TtyRead, Getc
  <1> HIDE DEF l
  <1>4. l \in Seq(Chars) /\ l # <<>>
    BY <1>2 DEF l
  <1>5. trouble = "no" /\ pc[p] = "app"
    BY DEF TtyRead, Handling
  <1>6. UNCHANGED <<tyibuff, tyihead, tyitail, tyicursor, typed, unsignalled, crowded, ovars,
                    echo, modes, tyoheld, uart, trouble, silent>>
    BY DEF TtyRead
  <1> QED  BY <1>3, <1>4, <1>5, <1>6, ReadBegins

LEMMA TtyNextCStep ==
    ASSUME TtyFits, NEW p \in Proc, TtyNextC(p)
    PROVE  TtyInv'
  <1>1. <<>> \in Seq(Chars)
    OBVIOUS
  <1>2. /\ trouble = "no" /\ pc[p] = "app"
        /\ tyisem' = SemWait(tyisem, p)
        /\ Continue(p, "nextc", <<>>, tyisem')
    BY DEF TtyNextC, Handling
  <1>3. UNCHANGED <<tyibuff, tyihead, tyitail, tyicursor, typed, unsignalled, crowded, ovars,
                    echo, modes, tyoheld, uart, trouble, silent>>
    BY DEF TtyNextC
  <1> QED  BY <1>1, <1>2, <1>3, ReadBegins

LEMMA TtyNextCEndStep ==
    ASSUME TtyFits, NEW p \in Proc, TtyNextCEnd(p)
    PROVE  TtyInv'
  <1>1. TtyTypeOK /\ InputFits /\ OutputFits /\ LineEnds /\ Armed
    BY DEF TtyFits
  <1>2. /\ trouble = "no" /\ trouble' = trouble
        /\ pc[p] = "nextc" /\ ~Waits(tyisem, p)
        /\ tyisem' = SemSignal(tyisem, 1)
    BY DEF TtyNextCEnd, Running
  <1>3. UNCHANGED <<tyibuff, tyihead, tyitail, tyicursor, typed, unsignalled, crowded, ovars,
                    echo, modes, tyoheld, uart, trouble, silent>>
    BY DEF TtyNextCEnd
  <1>4. /\ pc' \in [Proc -> Places]
        /\ local' \in [Proc -> Seq(Chars)]
        /\ \A r \in Proc : pc'[r] \in {"getc", "putc"} => local'[r] # <<>>
        /\ Readers' = Readers \ {p}
        /\ Writers' = Writers \ {p}
    <2>1. <<>> \in Seq(Chars) /\ "app" \in Places
      BY DEF Places
    <2>2. pc' = [pc EXCEPT ![p] = "app"] /\ local' = [local EXCEPT ![p] = <<>>]
      BY DEF TtyNextCEnd, Leave
    <2> QED  BY <1>1, <2>1, <2>2, ProcMove
  <1>5. p \in Readers /\ p \notin Writers
    BY <1>2 DEF Readers, Writers, Reading, Writing
  <1>6. /\ SemFits(tyisem', Readers) /\ tyisem'.count = tyisem.count + 1
        /\ ~Waits(tyisem', p)
    BY <1>1, <1>2, SignalFits DEF InputFits
  <1>7. SemFits(tyisem', Readers')
    BY <1>4, <1>6, LeaveFits
  <1>8. tyisem'.count + Cardinality(Readers') = tyisem.count + Cardinality(Readers)
    <2>1. Cardinality(Readers') = Cardinality(Readers) - 1 /\ Cardinality(Readers) \in Nat
      BY <1>4, <1>5, OneLess, FinitelyMany
    <2>2. tyisem.count \in Int
      BY <1>1 DEF InputFits, SemFits
    <2> QED  BY <1>6, <2>1, <2>2
  <1>9. InputFits' /\ LineEnds'
    BY <1>1, <1>3, <1>7, <1>8, InputKept
  <1>10. OutputFits'
    BY <1>1, <1>3, <1>4, <1>5, OutputSame
  <1>11. Armed'
    BY <1>1, <1>3, ArmedSame DEF ovars, uart
  <1>12. TtyTypeOK'
    <2>1. typed' \in Seq(Typeable)
      BY <1>1, <1>3 DEF TtyTypeOK
    <2> QED  BY <1>1, <1>3, <1>4, <2>1, ReaderTypes
  <1> QED  BY <1>2, <1>9, <1>10, <1>11, <1>12 DEF TtyInv, TtyFits, TroubleExplained

(* A process takes its character and leaves or waits for the next one. *)
LEMMA TtyGetcEndStep ==
    ASSUME TtyFits, NEW p \in Proc, TtyGetcEnd(p)
    PROVE  TtyInv'
  <1> DEFINE left == Len(local[p]) - 1
             l == [i \in 1 .. left |-> "any"]
  <1>1. TtyTypeOK /\ InputFits /\ OutputFits /\ LineEnds /\ Armed
    BY DEF TtyFits
  <1>2. /\ trouble = "no" /\ trouble' = trouble
        /\ pc[p] = "getc" /\ ~Waits(tyisem, p)
        /\ tyihead' = AfterRead(tyihead)
        /\ typed' = Tail(typed)
        /\ tyibuff' = tyibuff /\ tyitail' = tyitail /\ tyicursor' = tyicursor
        /\ unsignalled' = unsignalled /\ crowded' = crowded
        /\ UNCHANGED <<ovars, echo, modes, tyoheld, uart, trouble, silent>>
    BY DEF TtyGetcEnd, Running
  <1>3. \/ Leave(p) /\ UNCHANGED tyisem
        \/ left # 0 /\ Getc(p, left)
    BY DEF TtyGetcEnd
  <1>4. p \in Readers /\ p \notin Writers /\ p \in LateReaders
    BY <1>2 DEF Readers, Writers, Reading, Writing, LateReaders
  <1>5. left \in Nat
    <2>1. local[p] \in Seq(Chars) /\ local[p] # <<>>
      BY <1>1, <1>2 DEF TtyTypeOK
    <2> QED  BY <2>1
  <1> HIDE DEF left
  <1>6. /\ pc' \in [Proc -> Places]
        /\ local' \in [Proc -> Seq(Chars)]
        /\ \A r \in Proc : pc'[r] \in {"getc", "putc"} => local'[r] # <<>>
        /\ Writers' = Writers
        /\ SemFits(tyisem', Readers')
        /\ tyisem'.count + Cardinality(Readers') = tyisem.count + Cardinality(Readers) - 1
    <2>1. tyisem.count \in Int /\ Cardinality(Readers) \in Nat /\ SemFits(tyisem, Readers)
      BY <1>1, FinitelyMany DEF InputFits, SemFits
    <2>2. CASE Leave(p) /\ UNCHANGED tyisem
      <3>1. <<>> \in Seq(Chars) /\ "app" \in Places
        BY DEF Places
      <3>2. pc' = [pc EXCEPT ![p] = "app"] /\ local' = [local EXCEPT ![p] = <<>>]
        BY <2>2 DEF Leave
      <3>3. /\ pc' \in [Proc -> Places]
            /\ local' \in [Proc -> Seq(Chars)]
            /\ \A r \in Proc : pc'[r] \in {"getc", "putc"} => local'[r] # <<>>
            /\ Readers' = Readers \ {p}
            /\ Writers' = Writers \ {p}
        BY <1>1, <3>1, <3>2, ProcMove
      <3>4. SemFits(tyisem', Readers')
        BY <1>2, <2>1, <2>2, <3>3, LeaveFits
      <3>5. Cardinality(Readers') = Cardinality(Readers) - 1
        BY <1>4, <3>3, OneLess, FinitelyMany
      <3> QED  BY <1>4, <2>1, <2>2, <3>3, <3>4, <3>5
    <2>3. CASE left # 0 /\ Getc(p, left)
      <3>1. l \in Seq(Chars) /\ l # <<>> /\ "getc" \in Places
        BY <1>5, <2>3, AnyIsSeq DEF Places
      <3>2. pc' = [pc EXCEPT ![p] = "getc"] /\ local' = [local EXCEPT ![p] = l]
        BY <2>3 DEF Getc, Continue
      <3> HIDE DEF l
      <3>3. /\ pc' \in [Proc -> Places]
            /\ local' \in [Proc -> Seq(Chars)]
            /\ \A r \in Proc : pc'[r] \in {"getc", "putc"} => local'[r] # <<>>
            /\ Readers' = Readers \cup {p}
            /\ Writers' = Writers \ {p}
        BY <1>1, <3>1, <3>2, ProcMove
      <3>4. Readers \cup {p} = Readers
        BY <1>4
      <3>5. tyisem' = SemWait(tyisem, p)
        BY <2>3 DEF Getc
      <3>6. SemFits(tyisem', Readers') /\ tyisem'.count = tyisem.count - 1
        BY <1>2, <2>1, <3>3, <3>5, WaitFits
      <3>7. Readers' = Readers /\ Writers' = Writers
        BY <1>4, <3>3, <3>4
      <3>8. tyisem'.count + Cardinality(Readers') = tyisem.count + Cardinality(Readers) - 1
        BY <2>1, <3>6, <3>7
      <3> QED  BY <3>3, <3>6, <3>7, <3>8
    <2> QED  BY <1>3, <2>2, <2>3
  <1>7. Len(typed) \in Nat /\ Len(typed) >= 1 /\ typed \in Seq(Typeable)
    <2>1. typed \in Seq(Typeable) /\ tyicursor \in Nat /\ unsignalled \in Nat
      BY <1>1 DEF TtyTypeOK
    <2>2. Cardinality(LateReaders) >= 1
      BY <1>1, <1>4, InputCount
    <2> QED  BY <1>1, <2>1, <2>2, InputCount
  <1>8. typed' = SubSeq(typed, 1 + 1, Len(typed))
    BY <1>2, <1>7
  <1>9. Ring(tyibuff, tyihead, typed, TY_IBUFLEN)
    BY <1>1 DEF InputFits
  <1>10. /\ Ring(tyibuff, Wrap(tyihead, 1, TY_IBUFLEN), typed', TY_IBUFLEN)
         /\ typed' \in Seq(Typeable)
         /\ Len(typed') = Len(typed) - 1
         /\ Wrap(Wrap(tyihead, 1, TY_IBUFLEN), Len(typed) - 1, TY_IBUFLEN)
               = Wrap(tyihead, Len(typed), TY_IBUFLEN)
    <2> DEFINE k == 1
    <2>1. k \in Nat /\ k <= Len(typed) /\ typed' = SubSeq(typed, k + 1, Len(typed))
      BY <1>7, <1>8
    <2> HIDE DEF k
    <2>2. /\ Ring(tyibuff, Wrap(tyihead, k, TY_IBUFLEN), typed', TY_IBUFLEN)
          /\ typed' \in Seq(Typeable)
          /\ Len(typed') = Len(typed) - k
          /\ Wrap(Wrap(tyihead, k, TY_IBUFLEN), Len(typed) - k, TY_IBUFLEN)
                = Wrap(tyihead, Len(typed), TY_IBUFLEN)
      BY <1>7, <1>9, <2>1, Sizes, RingDrop
    <2> QED  BY <2>2 DEF k
  <1>11. tyihead' = Wrap(tyihead, 1, TY_IBUFLEN)
    <2>1. 1 \in 0 .. TY_IBUFLEN /\ tyihead \in 0 .. TY_IBUFLEN - 1
      BY <1>9, Sizes DEF Ring
    <2> QED  BY <1>2, <2>1, Sizes, ModIsWrap DEF AfterRead
  <1>12. InputFits'
    <2>1. /\ tyicursor \in Nat /\ unsignalled \in Nat
      BY <1>1 DEF TtyTypeOK
    <2>2. Cardinality(Readers) \in Nat /\ Cardinality(Readers') \in Nat
      <3>1. Readers' \subseteq Proc
        BY DEF Readers
      <3> QED  BY <3>1, FinitelyMany, ProcAssumption, FS_Subset, FS_CardinalityType
    <2>3. tyisem.count \in Int /\ tyisem'.count \in Int
      BY <1>1, <1>6 DEF InputFits, SemFits
    <2>4. tyisem.count = Len(typed) - tyicursor - unsignalled - Cardinality(Readers)
      BY <1>1 DEF InputFits
    <2> DEFINE c == tyisem.count
               d == tyisem'.count
               r == Cardinality(Readers)
               s == Cardinality(Readers')
               n == Len(typed)
               m == Len(typed')
    <2>5. /\ c \in Int /\ d \in Int /\ r \in Nat /\ s \in Nat /\ n \in Nat /\ m = n - 1
          /\ c = n - tyicursor - unsignalled - r
          /\ d + s = c + r - 1
      BY <2>2, <2>3, <2>4, <1>6, <1>7, <1>10
    <2>6. d = m - tyicursor - unsignalled - s
      <3> HIDE DEF c, d, r, s, n, m
      <3> QED  BY <2>1, <2>5
    <2>7. tyisem'.count = Len(typed') - tyicursor' - unsignalled' - Cardinality(Readers')
      BY <2>6, <1>2
    <2> HIDE DEF c, d, r, s, n, m
    <2>8. Ring(tyibuff', tyihead', typed', TY_IBUFLEN)
      BY <1>2, <1>10, <1>11
    <2>9. Wrap(tyihead', Len(typed'), TY_IBUFLEN) = Wrap(tyihead, Len(typed), TY_IBUFLEN)
      BY <1>10, <1>11
    <2> QED  BY <1>1, <1>2, <1>6, <2>7, <2>8, <2>9 DEF InputFits
  <1>13. LineEnds'
    <2>1. unsignalled \in Nat
      BY <1>1 DEF TtyTypeOK
    <2> QED  BY <1>1, <1>2, <1>7, <1>10, <2>1, Sizes DEF LineEnds
  <1>14. OutputFits'
    BY <1>1, <1>2, <1>6, OutputSame
  <1>15. Armed'
    BY <1>1, <1>2, ArmedSame DEF ovars, uart
  <1>16. TtyTypeOK'
    BY <1>1, <1>2, <1>6, <1>10, ReaderTypes
  <1> QED  BY <1>2, <1>12, <1>13, <1>14, <1>15, <1>16 DEF TtyInv, TtyFits, TroubleExplained

-----------------------------------------------------------------------------
(***************************************************************************)
(* Processes that write, and output interrupts.                            *)
(***************************************************************************)
LEMMA TtyPutcStep ==
    ASSUME TtyFits, NEW p \in Proc, NEW ch \in Text, TtyPutc(p, ch)
    PROVE  TtyInv'
  <1> DEFINE l == IF ch = "NEWLINE" THEN <<"RETURN", ch>> ELSE <<ch>>
  <1>1. TtyTypeOK /\ InputFits /\ OutputFits /\ LineEnds /\ Armed
    BY DEF TtyFits
  <1>2. /\ trouble = "no" /\ trouble' = trouble
        /\ pc[p] = "app"
        /\ tyosem' = SemWait(tyosem, p)
        /\ Continue(p, "putc", l, tyosem')
        /\ UNCHANGED <<ivars, tyobuff, tyohead, tyotail, written, echo, tyoheld, uart, silent>>
    BY DEF TtyPutc, Handling
  <1>3. l \in Seq(Chars) /\ l # <<>>
    <2>1. ch \in Chars /\ "RETURN" \in Chars
      BY DEF Chars
    <2>2. <<"RETURN", ch>> \in Seq(Chars) /\ <<"RETURN", ch>> # <<>>
      BY <2>1
    <2>3. <<ch>> \in Seq(Chars) /\ <<ch>> # <<>>
      BY <2>1
    <2> QED  BY <2>2, <2>3
  <1> HIDE DEF l
  <1>4. /\ pc' \in [Proc -> Places]
        /\ local' \in [Proc -> Seq(Chars)]
        /\ \A r \in Proc : pc'[r] \in {"getc", "putc"} => local'[r] # <<>>
        /\ Readers' = Readers \ {p}
        /\ Writers' = Writers \cup {p}
    BY <1>1, <1>2, <1>3, ProcMove DEF Continue, Places
  <1>5. p \notin Readers /\ p \notin Writers
    BY <1>2 DEF Readers, Writers, Reading, Writing
  <1>6. ~Waits(tyosem, p)
    BY <1>1, <1>5 DEF OutputFits, SemFits, Waits
  <1>7. SemFits(tyosem', Writers') /\ tyosem'.count = tyosem.count - 1
    BY <1>1, <1>2, <1>4, <1>6, WaitFits DEF OutputFits
  <1>8. tyosem'.count = TY_OBUFLEN - Len(written') - Cardinality(Writers')
    <2>1. Cardinality(Writers') = Cardinality(Writers) + 1 /\ Cardinality(Writers) \in Nat
      BY <1>4, <1>5, OneMore, FinitelyMany
    <2>2. tyosem.count = TY_OBUFLEN - Len(written) - Cardinality(Writers) /\ Len(written) \in Nat
      BY <1>1 DEF OutputFits, TtyTypeOK
    <2> QED  BY <1>2, <1>7, <2>1, <2>2, Sizes
  <1>9. OutputFits'
    BY <1>1, <1>2, <1>7, <1>8 DEF OutputFits
  <1>10. InputFits' /\ LineEnds'
    BY <1>1, <1>2, <1>4, <1>5, InputSame
  <1>11. Armed'
    BY <1>1, <1>2, ArmedSame DEF uart
  <1>12. TtyTypeOK'
    BY <1>1, <1>2, <1>4 DEF TtyTypeOK, ivars, uart, Places
  <1> QED  BY <1>2, <1>9, <1>10, <1>11, <1>12 DEF TtyInv, TtyFits, TroubleExplained

(* A character is put into the output buffer; its process leaves or waits  *)
(* for room for the next one.                                              *)
LEMMA TtyPutcEndStep ==
    ASSUME TtyFits, NEW p \in Proc, TtyPutcEnd(p)
    PROVE  TtyInv'
  <1> DEFINE ch == Head(local[p])
  <1>1. TtyTypeOK /\ InputFits /\ OutputFits /\ LineEnds /\ Armed
    BY DEF TtyFits
  <1>2. /\ trouble = "no" /\ trouble' = trouble
        /\ pc[p] = "putc" /\ ~Waits(tyosem, p)
        /\ tyobuff' = [tyobuff EXCEPT ![tyotail] = ch]
        /\ tyotail' = (tyotail + 1) % TY_OBUFLEN
        /\ written' = Append(written, ch)
        /\ Kickout
        /\ UNCHANGED <<ivars, tyohead, echo, tyoheld, fifo>>
    BY DEF TtyPutcEnd, Running
  <1>3. \/ Leave(p) /\ UNCHANGED tyosem
        \/ Len(local[p]) # 1 /\ tyosem' = SemWait(tyosem, p)
           /\ Continue(p, "putc", Tail(local[p]), tyosem')
    BY DEF TtyPutcEnd
  <1>4. p \in Writers /\ p \notin Readers /\ p \in LateWriters
    BY <1>2 DEF Readers, Writers, Reading, Writing, LateWriters
  <1>5. local[p] \in Seq(Chars) /\ local[p] # <<>> /\ ch \in Chars
    <2>1. local[p] \in Seq(Chars) /\ local[p] # <<>>
      BY <1>1, <1>2 DEF TtyTypeOK
    <2> QED  BY <2>1
  <1> HIDE DEF ch
  <1>6. /\ pc' \in [Proc -> Places]
        /\ local' \in [Proc -> Seq(Chars)]
        /\ \A r \in Proc : pc'[r] \in {"getc", "putc"} => local'[r] # <<>>
        /\ Readers' = Readers
        /\ SemFits(tyosem', Writers')
        /\ tyosem'.count + Cardinality(Writers') = tyosem.count + Cardinality(Writers) - 1
        /\ Cardinality(Writers') \in Nat /\ tyosem'.count \in Int
    <2>1. tyosem.count \in Int /\ Cardinality(Writers) \in Nat /\ SemFits(tyosem, Writers)
      BY <1>1, FinitelyMany DEF OutputFits, SemFits
    <2>2. Cardinality(Writers') \in Nat
      <3>1. Writers' \subseteq Proc
        BY DEF Writers
      <3> QED  BY <3>1, ProcAssumption, FS_Subset, FS_CardinalityType
    <2>3. CASE Leave(p) /\ UNCHANGED tyosem
      <3>1. <<>> \in Seq(Chars) /\ "app" \in Places
        BY DEF Places
      <3>2. pc' = [pc EXCEPT ![p] = "app"] /\ local' = [local EXCEPT ![p] = <<>>]
        BY <2>3 DEF Leave
      <3>3. /\ pc' \in [Proc -> Places]
            /\ local' \in [Proc -> Seq(Chars)]
            /\ \A r \in Proc : pc'[r] \in {"getc", "putc"} => local'[r] # <<>>
            /\ Readers' = Readers \ {p}
            /\ Writers' = Writers \ {p}
        BY <1>1, <3>1, <3>2, ProcMove
      <3>4. SemFits(tyosem', Writers')
        BY <1>2, <2>1, <2>3, <3>3, LeaveFits
      <3>5. Cardinality(Writers') = Cardinality(Writers) - 1
        BY <1>4, <3>3, OneLess, FinitelyMany
      <3> QED  BY <1>4, <2>1, <2>2, <2>3, <3>3, <3>4, <3>5
    <2>4. CASE /\ Len(local[p]) # 1 /\ tyosem' = SemWait(tyosem, p)
               /\ Continue(p, "putc", Tail(local[p]), tyosem')
      <3> DEFINE l == Tail(local[p])
      <3>1. l \in Seq(Chars) /\ l # <<>> /\ "putc" \in Places
        <4>1. Len(local[p]) \in Nat \ {0, 1}
          BY <1>5, <2>4
        <4>2. Tail(local[p]) \in Seq(Chars) /\ Len(Tail(local[p])) = Len(local[p]) - 1
          BY <1>5
        <4>3. Len(l) # 0
          BY <4>1, <4>2
        <4>4. Len(<<>>) = 0
          OBVIOUS
        <4>5. l # <<>>
          BY <4>3, <4>4
        <4> QED  BY <4>2, <4>5 DEF Places
      <3>2. pc' = [pc EXCEPT ![p] = "putc"] /\ local' = [local EXCEPT ![p] = l]
        BY <2>4 DEF Continue
      <3> HIDE DEF l
      <3>3. /\ pc' \in [Proc -> Places]
            /\ local' \in [Proc -> Seq(Chars)]
            /\ \A r \in Proc : pc'[r] \in {"getc", "putc"} => local'[r] # <<>>
            /\ Readers' = Readers \ {p}
            /\ Writers' = Writers \cup {p}
        BY <1>1, <3>1, <3>2, ProcMove
      <3>4. Writers' = Writers /\ Readers' = Readers
        BY <1>4, <3>3
      <3>5. SemFits(tyosem', Writers') /\ tyosem'.count = tyosem.count - 1
        BY <1>2, <2>1, <2>4, <3>3, WaitFits
      <3>6. /\ tyosem'.count + Cardinality(Writers') = tyosem.count + Cardinality(Writers) - 1
            /\ tyosem'.count \in Int
        BY <2>1, <3>4, <3>5
      <3> QED  BY <2>2, <3>3, <3>4, <3>5, <3>6
    <2> QED  BY <1>3, <2>3, <2>4
  <1>7. /\ Len(written) \in Nat /\ Len(written) < TY_OBUFLEN /\ written \in Seq(Writable)
        /\ tyobuff \in [0 .. TY_OBUFLEN - 1 -> Writable] /\ ch \in Writable
    BY <1>1, <1>4, <1>5, OutputCount DEF TtyTypeOK, Writable
  <1>8. /\ Ring(tyobuff, tyohead, written, TY_OBUFLEN)
        /\ tyotail = Wrap(tyohead, Len(written), TY_OBUFLEN)
    BY <1>1 DEF OutputFits
  <1>9. /\ tyobuff' \in [0 .. TY_OBUFLEN - 1 -> Writable]
        /\ Ring(tyobuff', tyohead, written', TY_OBUFLEN)
        /\ written' \in Seq(Writable)
        /\ Len(written') = Len(written) + 1
    <2>1. tyobuff' = Put(tyobuff, Wrap(tyohead, Len(written), TY_OBUFLEN), ch)
      BY <1>2, <1>8 DEF Put
    <2>2. written' = Append(written, ch)
      BY <1>2
    <2> QED  BY <1>7, <1>8, <2>1, <2>2, Sizes, RingPut
  <1>10. tyotail' = Wrap(tyohead, Len(written'), TY_OBUFLEN)
    <2>1. /\ tyohead \in 0 .. TY_OBUFLEN - 1 /\ Len(written) \in 0 .. TY_OBUFLEN
          /\ 1 \in 0 .. TY_OBUFLEN /\ Len(written) + 1 <= TY_OBUFLEN
      BY <1>7, <1>8, Sizes DEF Ring
    <2>2. tyotail \in 0 .. TY_OBUFLEN - 1
      BY <1>8, <2>1, Sizes, ModIsWrap
    <2>3. tyotail' = Wrap(tyotail, 1, TY_OBUFLEN)
      BY <1>2, <2>1, <2>2, Sizes, ModIsWrap
    <2>4. Wrap(Wrap(tyohead, Len(written), TY_OBUFLEN), 1, TY_OBUFLEN)
             = Wrap(tyohead, Len(written) + 1, TY_OBUFLEN)
      BY <2>1, Sizes, WrapWrap
    <2> QED  BY <1>8, <1>9, <2>3, <2>4
  <1>11. OutputFits'
    <2> DEFINE c == tyosem.count
               d == tyosem'.count
               r == Cardinality(Writers)
               s == Cardinality(Writers')
               n == Len(written)
    <2>1. /\ c \in Int /\ d \in Int /\ r \in Nat /\ s \in Nat /\ n \in Nat
          /\ c = TY_OBUFLEN - n - r
          /\ d + s = c + r - 1
      BY <1>1, <1>6, <1>7, FinitelyMany DEF OutputFits, SemFits
    <2>2. d = TY_OBUFLEN - (n + 1) - s
      <3> HIDE DEF c, d, r, s, n
      <3> QED  BY <2>1, Sizes
    <2>3. tyosem'.count = TY_OBUFLEN - Len(written') - Cardinality(Writers')
      BY <2>2, <1>9
    <2> HIDE DEF c, d, r, s, n
    <2> QED  BY <1>2, <1>6, <1>9, <1>10, <2>3 DEF OutputFits
  <1>12. InputFits' /\ LineEnds'
    BY <1>1, <1>2, <1>6, InputSame
  <1>13. etbei' = TRUE /\ silent' = FALSE /\ thre' \in BOOLEAN /\ (fifo = 0 => thre')
    BY <1>2, Zenon DEF Kickout
  <1>14. Armed'
    BY <1>2, <1>13 DEF Armed
  <1>15. TtyTypeOK'
    BY <1>1, <1>2, <1>6, <1>9, <1>13 DEF TtyTypeOK, ivars, Places
  <1> QED  BY <1>2, <1>11, <1>12, <1>14, <1>15 DEF TtyInv, TtyFits, TroubleExplained

LEMMA TtyControlStep ==
    ASSUME TtyFits, TtyControl
    PROVE  TtyInv'
  <1>1. /\ trouble' = trouble /\ trouble = "no"
        /\ UNCHANGED <<ivars, ovars, echo, tyoheld, uart, pc, local, silent>>
    BY DEF TtyControl, Handling, pvars
  <1>2. Readers' = Readers /\ Writers' = Writers
    BY <1>1 DEF Readers, Writers, Reading, Writing
  <1>3. TtyTypeOK'
    BY <1>1 DEF TtyFits, TtyTypeOK, ivars, ovars, uart
  <1>4. InputFits' /\ LineEnds' /\ OutputFits'
    BY <1>1, <1>2, InputSame, OutputSame DEF TtyFits
  <1>5. Armed'
    BY <1>1, ArmedSame DEF TtyFits, ovars, uart
  <1> QED  BY <1>1, <1>3, <1>4, <1>5 DEF TtyInv, TtyFits, TroubleExplained

LEMMA TransmitStep ==
    ASSUME TtyFits, Transmit
    PROVE  TtyInv'
  <1>1. /\ trouble' = trouble /\ trouble = "no" /\ fifo > 0 /\ fifo' = fifo - 1
        /\ UNCHANGED <<ivars, ovars, echo, tyoheld, etbei, pc, local, silent>>
    BY DEF Transmit, pvars
  <1>2. Readers' = Readers /\ Writers' = Writers
    BY <1>1 DEF Readers, Writers, Reading, Writing
  <1>3. thre' \in BOOLEAN /\ (thre => thre') /\ (fifo = 1 => thre')
    BY Zenon DEF Transmit
  <1>4. fifo \in 0 .. UART_FIFO_SIZE
    BY DEF TtyFits, TtyTypeOK
  <1>5. fifo' \in 0 .. UART_FIFO_SIZE /\ (fifo' = 0 => fifo = 1)
    BY <1>1, <1>4, Sizes
  <1>6. TtyTypeOK'
    BY <1>1, <1>3, <1>5 DEF TtyFits, TtyTypeOK, ivars, ovars
  <1>7. InputFits' /\ LineEnds' /\ OutputFits'
    BY <1>1, <1>2, InputSame, OutputSame DEF TtyFits
  <1>8. Armed'
    BY <1>1, <1>3, <1>5 DEF TtyFits, Armed, ovars
  <1> QED  BY <1>1, <1>6, <1>7, <1>8 DEF TtyInv, TtyFits, TroubleExplained

(* The handler sends as much as the UART takes.  What it takes for output  *)
(* is there, unless a released writer has not put its character.           *)
LEMMA TtyHandleOutStep ==
    ASSUME TtyFits, TtyHandleOut
    PROVE  TtyInv'
  <1> DEFINE echoed == Smaller(UART_FIFO_SIZE - fifo, echo)
             ochars == Smaller(UART_FIFO_SIZE - fifo - echoed, Avail)
  <1>1. TtyTypeOK /\ InputFits /\ OutputFits /\ LineEnds /\ Armed
    BY DEF TtyFits
  <1>2. /\ trouble = "no" /\ thre' = FALSE
        /\ UNCHANGED <<ivars, tyobuff, tyotail, tyoheld, pc, local, silent>>
    BY DEF TtyHandleOut, Handling, pvars
  <1>3. Readers' = Readers /\ Writers' = Writers
    BY <1>2 DEF Readers, Writers, Reading, Writing
  <1>4. InputFits' /\ LineEnds'
    BY <1>1, <1>2, <1>3, InputSame
  <1>5. CASE tyoheld
    <2>1. UNCHANGED <<echo, fifo, tyohead, tyosem, written, etbei, trouble>>
      BY <1>5 DEF TtyHandleOut
    <2>2. TtyTypeOK'
      BY <1>1, <1>2, <2>1 DEF TtyTypeOK, ivars
    <2>3. OutputFits'
      BY <1>1, <1>2, <1>3, <2>1, OutputSame DEF ovars
    <2>4. Armed'
      BY <1>2, <1>5 DEF Armed
    <2> QED  BY <1>2, <1>4, <2>1, <2>2, <2>3, <2>4 DEF TtyInv, TtyFits, TroubleExplained
  <1>6. CASE ~tyoheld
    <2>1. /\ echo' = echo - echoed
          /\ fifo' = fifo + echoed + ochars
          /\ tyohead' = AfterSent(tyohead, ochars)
          /\ tyosem' = SemSignal(tyosem, ochars)
          /\ written' = SubSeq(written, ochars + 1, Len(written))
          /\ trouble' = IF ochars <= Len(written) THEN "no"
                        ELSE IF LateWriters # {} THEN "late writer"
                        ELSE "nothing to send"
      BY <1>6 DEF TtyHandleOut
    <2>2. etbei' = ~Finished(echo', tyosem'.count)
      BY <1>6 DEF TtyHandleOut
    <2>3. /\ fifo \in 0 .. UART_FIFO_SIZE /\ echo \in 0 .. TY_EBUFLEN - 1
          /\ Len(written) \in Nat /\ Avail \in Nat
          /\ Cardinality(Writers) \in Nat
          /\ Avail = Len(written) + Cardinality(Writers)
      BY <1>1, OutputCount, FinitelyMany DEF TtyTypeOK
    <2>4. /\ echoed \in Nat /\ echoed <= UART_FIFO_SIZE - fifo /\ echoed <= echo
          /\ echoed = UART_FIFO_SIZE - fifo \/ echoed = echo
      BY <2>3, Sizes DEF Smaller
    <2>5. /\ ochars \in Nat /\ ochars <= UART_FIFO_SIZE - fifo - echoed /\ ochars <= Avail
          /\ ochars = UART_FIFO_SIZE - fifo - echoed \/ ochars = Avail
      <3> HIDE DEF echoed
      <3> QED  BY <2>3, <2>4, Sizes DEF Smaller
    <2> HIDE DEF echoed, ochars
    <2>6. /\ echo' \in 0 .. TY_EBUFLEN - 1
          /\ fifo' \in 0 .. UART_FIFO_SIZE
          /\ fifo' = 0 => echo' = 0 /\ ochars = 0 /\ Avail = 0
      <3>1. echo' = echo - echoed /\ fifo' = fifo + echoed + ochars
        BY <2>1
      <3>2. echo' \in 0 .. TY_EBUFLEN - 1
        BY <3>1, <2>3, <2>4, Sizes
      <3>3. fifo' \in 0 .. UART_FIFO_SIZE
        BY <3>1, <2>3, <2>4, <2>5, Sizes
      <3>4. fifo' = 0 => fifo = 0 /\ echoed = 0 /\ ochars = 0
        BY <3>1, <2>3, <2>4, <2>5
      <3>5. fifo' = 0 => echo' = 0 /\ ochars = 0 /\ Avail = 0
        BY <3>1, <3>4, <2>3, <2>4, <2>5, Sizes
      <3> QED  BY <3>2, <3>3, <3>5
    <2>7. trouble' # "nothing to send"
      <3> SUFFICES ASSUME ~(ochars <= Len(written)), LateWriters = {}
                   PROVE  FALSE
        BY <2>1
      <3>1. Len(written) = TY_OBUFLEN \/ Avail = Len(written)
        BY <1>1, OutputCount
      <3> QED  BY <3>1, <2>3, <2>4, <2>5, Sizes
    <2>8. TroubleExplained'
      BY <2>1, <2>7 DEF TroubleExplained
    <2>9. ASSUME trouble' = "no"
          PROVE  TtyFits'
      <3>1. ochars <= Len(written)
        BY <2>1, <2>9
      <3>2. /\ Ring(tyobuff, tyohead, written, TY_OBUFLEN) /\ written \in Seq(Writable)
            /\ tyotail = Wrap(tyohead, Len(written), TY_OBUFLEN)
            /\ SemFits(tyosem, Writers)
            /\ tyosem.count = TY_OBUFLEN - Len(written) - Cardinality(Writers)
        BY <1>1 DEF OutputFits, TtyTypeOK
      <3>3. /\ Ring(tyobuff, Wrap(tyohead, ochars, TY_OBUFLEN), written', TY_OBUFLEN)
            /\ written' \in Seq(Writable)
            /\ Len(written') = Len(written) - ochars
            /\ Wrap(Wrap(tyohead, ochars, TY_OBUFLEN), Len(written) - ochars, TY_OBUFLEN)
                  = Wrap(tyohead, Len(written), TY_OBUFLEN)
        BY <2>1, <2>5, <3>1, <3>2, Sizes, RingDrop
      <3>4. tyohead' = Wrap(tyohead, ochars, TY_OBUFLEN)
        <4>1. ochars \in 0 .. TY_OBUFLEN /\ tyohead \in 0 .. TY_OBUFLEN - 1
          BY <2>3, <2>5, <3>1, <3>2, Sizes DEF Ring
        <4> QED  BY <2>1, <4>1, Sizes, ModIsWrap DEF AfterSent
      <3>5. SemFits(tyosem', Writers) /\ tyosem'.count = tyosem.count + ochars
        BY <2>1, <2>5, <3>2, SignalFits
      <3>6. tyosem'.count = TY_OBUFLEN - Len(written') - Cardinality(Writers')
        BY <1>3, <2>3, <2>5, <3>2, <3>3, <3>5, Sizes
      <3>7. OutputFits'
        <4>1. Ring(tyobuff', tyohead', written', TY_OBUFLEN)
          BY <1>2, <3>3, <3>4
        <4>2. tyotail' = Wrap(tyohead', Len(written'), TY_OBUFLEN)
          BY <1>2, <3>2, <3>3, <3>4
        <4> QED  BY <1>3, <3>5, <3>6, <4>1, <4>2 DEF OutputFits
      <3>8. Armed'
        <4> SUFFICES ASSUME written' # <<>> \/ echo' > 0
                     PROVE  etbei' /\ fifo' # 0
          BY DEF Armed
        <4>1. Len(written') \in Nat /\ (written' # <<>> => Len(written') # 0)
          BY <3>3
        <4>2. ~Finished(echo', tyosem'.count)
          BY <1>3, <2>3, <2>6, <3>6, <4>1, Sizes DEF Finished
        <4>3. fifo' # 0
          BY <2>3, <2>6, <3>3, <4>1
        <4> QED  BY <2>2, <4>2, <4>3
      <3>9. TtyTypeOK'
        <4>1. etbei' \in BOOLEAN
          BY <2>2
        <4> QED  BY <1>1, <1>2, <2>6, <3>3, <4>1 DEF TtyTypeOK, ivars
      <3> QED  BY <1>4, <3>7, <3>8, <3>9 DEF TtyFits
    <2> QED  BY <2>8, <2>9 DEF TtyInv
  <1> QED  BY <1>1, <1>5, <1>6

-----------------------------------------------------------------------------
(***************************************************************************)
(* Input interrupts.                                                       *)
(***************************************************************************)
InTypes ==
    /\ tyibuff \in [0 .. TY_IBUFLEN - 1 -> Typeable]
    /\ tyitail \in Nat /\ tyicursor \in Nat
    /\ typed \in Seq(Typeable) /\ unsignalled \in Nat /\ crowded \in BOOLEAN

EchoTypes ==
    /\ echo \in 0 .. TY_EBUFLEN - 1
    /\ etbei \in BOOLEAN /\ thre \in BOOLEAN /\ silent \in BOOLEAN

(* What the step of an input interrupt comes down to. *)
LEMMA InDone ==
    ASSUME TtyFits, UNCHANGED <<ovars, fifo, pc, local>>, tyoheld' \in BOOLEAN,
           TroubleExplained',
           trouble' = "no" => InTypes' /\ InputFits' /\ LineEnds',
           EchoTypes', Armed'
    PROVE  TtyInv'
  <1>1. Writers' = Writers
    BY DEF Writers, Writing
  <1>2. OutputFits'
    BY <1>1, OutputSame DEF TtyFits
  <1>3. trouble' = "no" => TtyTypeOK'
    BY DEF TtyFits, TtyTypeOK, InTypes, EchoTypes, ovars
  <1> QED  BY <1>2, <1>3 DEF TtyInv, TtyFits

(* Output after a character that is echoed, and after one that is not. *)
LEMMA KickFits ==
    ASSUME TtyFits, Kickout, UNCHANGED <<written, fifo>>, echo' \in 0 .. TY_EBUFLEN - 1
    PROVE  EchoTypes' /\ Armed'
  <1>1. etbei' = TRUE /\ silent' = FALSE /\ thre' \in BOOLEAN /\ (fifo = 0 => thre')
    BY Zenon DEF Kickout
  <1> QED  BY <1>1 DEF EchoTypes, Armed

LEMMA EputcFits ==
    ASSUME TtyFits, NEW n \in Nat, Eputc(n), UNCHANGED <<written, fifo>>
    PROVE  EchoTypes' /\ Armed'
  <1>1. echo \in Nat /\ echo' = (echo + n) % TY_EBUFLEN /\ Kickout
    BY Sizes DEF TtyFits, TtyTypeOK, Eputc
  <1>2. echo' \in 0 .. TY_EBUFLEN - 1
    BY <1>1, Sizes, ModInRange
  <1> QED  BY <1>1, <1>2, KickFits

LEMMA QuietFits ==
    ASSUME TtyFits, Quiet, UNCHANGED <<written, fifo>>, tyoheld' = FALSE
    PROVE  EchoTypes' /\ Armed'
  <1>1. silent' \in BOOLEAN /\ (~silent' => ~silent /\ ~tyoheld)
    BY Zenon DEF Quiet
  <1>2. UNCHANGED <<echo, etbei, thre>>
    BY DEF Quiet
  <1> QED  BY <1>1, <1>2 DEF TtyFits, TtyTypeOK, EchoTypes, Armed

LEMMA EchochFits ==
    ASSUME TtyFits, NEW ch, Echoch(ch), UNCHANGED <<written, fifo>>, tyoheld' = FALSE
    PROVE  EchoTypes' /\ Armed'
  <1>1. CASE ~tyiecho
    BY <1>1, QuietFits DEF Echoch
  <1>2. CASE tyiecho /\ ch = "x"
    <2>1. Eputc(1)
      BY <1>2 DEF Echoch
    <2> QED  BY <2>1, EputcFits
  <1>3. CASE tyiecho /\ ch # "x"
    <2>1. Eputc(2)
      BY <1>3 DEF Echoch
    <2> QED  BY <2>1, EputcFits
  <1> QED  BY <1>1, <1>2, <1>3

(* A character is stored, or there is trouble with its cause. *)
LEMMA StoreFits ==
    ASSUME TtyFits, trouble = "no", NEW ch \in Typeable, NEW wrap \in BOOLEAN, NEW cause,
           cause # "no", Store(ch, wrap, cause)
    PROVE  /\ trouble' = "no" =>
                /\ tyibuff' \in [0 .. TY_IBUFLEN - 1 -> Typeable]
                /\ tyitail' \in Nat /\ typed' \in Seq(Typeable)
                /\ Len(typed') = Len(typed) + 1
                /\ Ring(tyibuff', tyihead, typed', TY_IBUFLEN)
                /\ \/ tyitail' = Wrap(tyihead, Len(typed'), TY_IBUFLEN)
                   \/ tyitail' = TY_IBUFLEN /\ Wrap(tyihead, Len(typed'), TY_IBUFLEN) = 0
           /\ \/ trouble' \in {"no", "unwrapped", "late reader", "unsignalled"}
              \/ /\ trouble' = cause /\ Len(typed) = TY_IBUFLEN
                 /\ ~crowded /\ LateReaders = {} /\ unsignalled = 0
  <1>1. TtyTypeOK /\ InputFits
    BY DEF TtyFits
  <1>2. /\ tyibuff \in [0 .. TY_IBUFLEN - 1 -> Typeable] /\ typed \in Seq(Typeable)
        /\ Len(typed) \in Nat /\ unsignalled \in Nat
        /\ Ring(tyibuff, tyihead, typed, TY_IBUFLEN)
        /\ tyihead \in 0 .. TY_IBUFLEN - 1 /\ Len(typed) <= TY_IBUFLEN
    BY <1>1 DEF TtyTypeOK, InputFits, Ring
  <1>3. CASE tyitail = TY_IBUFLEN \/ Len(typed) = TY_IBUFLEN
    <2>1. trouble' = IF tyitail = TY_IBUFLEN THEN "unwrapped"
                     ELSE IF crowded \/ LateReaders # {} THEN "late reader"
                     ELSE IF unsignalled > 0 THEN "unsignalled"
                     ELSE cause
      BY <1>3 DEF Store
    <2>2. UNCHANGED <<tyibuff, tyitail, typed>>
      BY <1>3 DEF Store
    <2>3. \/ trouble' \in {"unwrapped", "late reader", "unsignalled"}
          \/ /\ trouble' = cause /\ Len(typed) = TY_IBUFLEN
             /\ ~crowded /\ LateReaders = {} /\ unsignalled = 0
      <3>1. CASE tyitail = TY_IBUFLEN
        BY <2>1, <3>1
      <3>2. CASE tyitail # TY_IBUFLEN /\ (crowded \/ LateReaders # {})
        BY <2>1, <3>2
      <3>3. CASE tyitail # TY_IBUFLEN /\ ~(crowded \/ LateReaders # {}) /\ unsignalled > 0
        BY <2>1, <3>3
      <3>4. CASE tyitail # TY_IBUFLEN /\ ~(crowded \/ LateReaders # {}) /\ ~(unsignalled > 0)
        <4>1. trouble' = cause
          BY <2>1, <3>4
        <4>2. unsignalled = 0
          BY <1>2, <3>4
        <4> QED  BY <1>3, <3>4, <4>1, <4>2
      <3> QED  BY <3>1, <3>2, <3>3, <3>4
    <2> QED  BY <2>3
  <1>4. CASE ~(tyitail = TY_IBUFLEN \/ Len(typed) = TY_IBUFLEN)
    <2>1. /\ tyibuff' = Put(tyibuff, tyitail, ch)
          /\ typed' = Append(typed, ch)
          /\ trouble' = trouble
      BY <1>4 DEF Store, Put
    <2>2. tyitail' = IF wrap THEN (tyitail + 1) % TY_IBUFLEN ELSE tyitail + 1
      BY <1>4 DEF Store
    <2>3. tyitail = Wrap(tyihead, Len(typed), TY_IBUFLEN)
      BY <1>1, <1>4 DEF InputFits
    <2>4. Len(typed) < TY_IBUFLEN /\ Len(typed) \in 0 .. TY_IBUFLEN
      BY <1>2, <1>4, Sizes
    <2>5. tyitail \in 0 .. TY_IBUFLEN - 1
      BY <1>2, <2>3, <2>4, Sizes, ModIsWrap
    <2>6. /\ tyibuff' \in [0 .. TY_IBUFLEN - 1 -> Typeable]
          /\ Ring(tyibuff', tyihead, typed', TY_IBUFLEN)
          /\ typed' \in Seq(Typeable)
          /\ Len(typed') = Len(typed) + 1
      BY <1>2, <2>1, <2>3, <2>4, Sizes, RingPut
    <2>7. Wrap(tyihead, Len(typed'), TY_IBUFLEN) = Wrap(tyitail, 1, TY_IBUFLEN)
      <3>1. 1 \in 0 .. TY_IBUFLEN /\ Len(typed) + 1 <= TY_IBUFLEN
        BY <1>2, <2>4, Sizes
      <3> QED  BY <1>2, <2>3, <2>4, <2>6, <3>1, Sizes, WrapWrap
    <2>8. /\ tyitail' \in Nat
          /\ \/ tyitail' = Wrap(tyitail, 1, TY_IBUFLEN)
             \/ tyitail' = TY_IBUFLEN /\ Wrap(tyitail, 1, TY_IBUFLEN) = 0
      <3>1. 1 \in 0 .. TY_IBUFLEN
        BY Sizes
      <3>2. (tyitail + 1) % TY_IBUFLEN = Wrap(tyitail, 1, TY_IBUFLEN)
            /\ Wrap(tyitail, 1, TY_IBUFLEN) \in Nat
        BY <2>5, <3>1, Sizes, ModIsWrap
      <3>3. CASE wrap
        BY <2>2, <3>2, <3>3
      <3>4. CASE ~wrap
        <4>1. tyitail' = tyitail + 1
          BY <2>2, <3>4
        <4> QED  BY <4>1, <2>5, Sizes DEF Wrap
      <3> QED  BY <3>3, <3>4
    <2> QED  BY <2>1, <2>6, <2>7, <2>8
  <1> QED  BY <1>3, <1>4

(* The state of the input buffer after a character was stored without      *)
(* trouble.                                                                *)
Stored ==
    /\ tyibuff' \in [0 .. TY_IBUFLEN - 1 -> Typeable]
    /\ tyitail' \in Nat /\ typed' \in Seq(Typeable)
    /\ Len(typed') = Len(typed) + 1
    /\ Ring(tyibuff', tyihead, typed', TY_IBUFLEN)
    /\ \/ tyitail' = Wrap(tyihead, Len(typed'), TY_IBUFLEN)
       \/ tyitail' = TY_IBUFLEN /\ Wrap(tyihead, Len(typed'), TY_IBUFLEN) = 0

(* The cause of trouble is the one given. *)
Blamed(cause) == /\ trouble' = cause /\ Len(typed) = TY_IBUFLEN
                 /\ ~crowded /\ LateReaders = {} /\ unsignalled = 0

Excused == {"no", "unwrapped", "late reader", "unsignalled"}

LEMMA StoreOutcome ==
    ASSUME TtyFits, trouble = "no", NEW ch \in Typeable, NEW wrap \in BOOLEAN, NEW cause,
           cause # "no", Store(ch, wrap, cause)
    PROVE  (trouble' = "no" => Stored) /\ (trouble' \in Excused \/ Blamed(cause))
  BY StoreFits DEF Stored, Blamed, Excused

(* The counts of the invariant, apart from the sets they are about. *)
LEMMA InNumbers ==
    ASSUME TtyFits
    PROVE  /\ Len(typed) \in Nat /\ tyicursor \in Nat /\ unsignalled \in Nat
           /\ Cardinality(Readers) \in Nat /\ tyisem.count \in Int
           /\ tyisem.count = Len(typed) - tyicursor - unsignalled - Cardinality(Readers)
           /\ SemFits(tyisem, Readers)
           /\ Cardinality(LateReaders) \in Nat /\ InAvail \in Nat
           /\ Len(typed) = InAvail + tyicursor + unsignalled + Cardinality(LateReaders)
           /\ (LateReaders = {} => Cardinality(LateReaders) = 0)
           /\ Len(typed) <= TY_IBUFLEN /\ tyihead \in 0 .. TY_IBUFLEN - 1
  <1>1. TtyTypeOK /\ InputFits
    BY DEF TtyFits
  <1>2. /\ Len(typed) \in Nat /\ tyicursor \in Nat /\ unsignalled \in Nat
    BY <1>1 DEF TtyTypeOK
  <1>3. /\ tyisem.count \in Int
        /\ tyisem.count = Len(typed) - tyicursor - unsignalled - Cardinality(Readers)
        /\ SemFits(tyisem, Readers)
        /\ Len(typed) <= TY_IBUFLEN /\ tyihead \in 0 .. TY_IBUFLEN - 1
    BY <1>1 DEF InputFits, SemFits, Ring
  <1> QED  BY <1>1, <1>2, <1>3, FinitelyMany, InputCount

(* The counts when a character is typed and signalled, and when a line of  *)
(* k characters is.                                                        *)
LEMMA OneTyped ==
    ASSUME TtyFits
    PROVE  /\ tyisem.count + 1
                 = (Len(typed) + 1) - tyicursor - unsignalled - Cardinality(Readers)
           /\ tyisem.count + (tyicursor + 1)
                 = (Len(typed) + 1) - 0 - unsignalled - Cardinality(Readers)
           /\ tyisem.count
                 = (Len(typed) + 1) - (tyicursor + 1) - unsignalled - Cardinality(Readers)
           /\ tyisem.count
                 = (Len(typed) + 1) - tyicursor - (unsignalled + 1) - Cardinality(Readers)
  <1> DEFINE c == tyisem.count
             n == Len(typed)
             r == Cardinality(Readers)
  <1>1. /\ c \in Int /\ n \in Nat /\ r \in Nat /\ tyicursor \in Nat /\ unsignalled \in Nat
        /\ c = n - tyicursor - unsignalled - r
    BY InNumbers
  <1> HIDE DEF c, n, r
  <1>2. /\ c + 1 = (n + 1) - tyicursor - unsignalled - r
        /\ c + (tyicursor + 1) = (n + 1) - 0 - unsignalled - r
        /\ c = (n + 1) - (tyicursor + 1) - unsignalled - r
        /\ c = (n + 1) - tyicursor - (unsignalled + 1) - r
    BY <1>1
  <1> QED  BY <1>2 DEF c, n, r

(* The invariant after a character was stored. *)
LEMMA StoredFits ==
    ASSUME TtyFits, Stored, tyihead' = tyihead, Readers' = Readers, SemFits(tyisem', Readers),
           tyisem'.count = (Len(typed) + 1) - tyicursor' - unsignalled' - Cardinality(Readers),
           tyicursor' \in Nat, unsignalled' \in Nat, crowded' \in BOOLEAN
    PROVE  InTypes' /\ InputFits'
  <1>1. InTypes'
    BY DEF Stored, InTypes
  <1>2. tyisem'.count = Len(typed') - tyicursor' - unsignalled' - Cardinality(Readers')
    <2>1. Len(typed') = Len(typed) + 1 /\ Cardinality(Readers') = Cardinality(Readers)
      BY DEF Stored
    <2> QED  BY <2>1, Zenon
  <1>3. InputFits'
    BY <1>2 DEF Stored, InputFits
  <1> QED  BY <1>1, <1>3

LEMMA KeptFits ==
    ASSUME TtyFits, Kept, UNCHANGED <<tyihead, tyicursor, tyisem, unsignalled>>,
           Readers' = Readers, crowded' \in BOOLEAN
    PROVE  InTypes' /\ InputFits'
  BY DEF TtyFits, TtyTypeOK, InTypes, InputFits, Kept

LEMMA InRawStep ==
    ASSUME TtyFits, trouble = "no", NEW ch \in Typeable, InRaw(ch),
           UNCHANGED <<ovars, fifo, pc, local>>
    PROVE  TtyInv'
  <1>1. Readers' = Readers
    BY DEF Readers, Reading
  <1>2. UNCHANGED <<tyihead, tyicursor, unsignalled, echo, tyoheld, etbei, thre, silent>>
    BY DEF InRaw
  <1>3. EchoTypes' /\ Armed' /\ tyoheld' \in BOOLEAN
    BY <1>2, ArmedSame DEF TtyFits, TtyTypeOK, EchoTypes, ovars
  <1>4. crowded' \in BOOLEAN /\ (tyicursor > 0 => crowded')
    <2>1. crowded' = (tyicursor > 0)
      BY DEF InRaw
    <2>2. (tyicursor > 0) \in BOOLEAN
      OBVIOUS
    <2> QED  BY <2>1, <2>2
  <1>5. LineEnds'
    BY <1>2, <1>4 DEF LineEnds
  <1>6. CASE InAvail >= TY_IBUFLEN
    <2>1. Kept /\ UNCHANGED tyisem
      BY <1>6 DEF InRaw
    <2>2. InTypes' /\ InputFits'
      BY <1>1, <1>2, <1>4, <2>1, KeptFits
    <2>3. TroubleExplained'
      BY <2>1 DEF Kept, TroubleExplained
    <2> QED  BY <1>2, <1>3, <1>5, <2>2, <2>3, InDone
  <1>7. CASE ~(InAvail >= TY_IBUFLEN)
    <2>1. Store(ch, FALSE, "raw") /\ tyisem' = SemSignal(tyisem, 1)
      BY <1>7 DEF InRaw
    <2>2. (trouble' = "no" => Stored) /\ (trouble' \in Excused \/ Blamed("raw"))
      BY <2>1, StoreOutcome
    <2>3. TroubleExplained'
      BY <2>2 DEF TroubleExplained, Excused, Blamed
    <2>4. SemFits(tyisem', Readers) /\ tyisem'.count = tyisem.count + 1
      BY <2>1, InNumbers, SignalFits
    <2>5. tyisem'.count = (Len(typed) + 1) - tyicursor' - unsignalled' - Cardinality(Readers)
      <3>1. tyisem.count + 1 = (Len(typed) + 1) - tyicursor - unsignalled - Cardinality(Readers)
        BY OneTyped
      <3> QED  BY <1>2, <2>4, <3>1, Zenon
    <2>6. tyicursor' \in Nat /\ unsignalled' \in Nat
      BY <1>2, InNumbers
    <2>7. trouble' = "no" => InTypes' /\ InputFits'
      BY <1>1, <1>2, <1>4, <2>2, <2>4, <2>5, <2>6, StoredFits
    <2> QED  BY <1>2, <1>3, <1>5, <2>3, <2>7, InDone
  <1> QED  BY <1>6, <1>7

LEMMA InFlowStep ==
    ASSUME TtyFits, trouble = "no", NEW ch, InFlow(ch), UNCHANGED <<ovars, fifo, pc, local>>
    PROVE  TtyInv'
  <1>1. Readers' = Readers
    BY DEF Readers, Reading
  <1>2. /\ Kept /\ UNCHANGED <<tyihead, tyicursor, tyisem, unsignalled, crowded, echo>>
        /\ ch \in {"START", "STOP"}
    BY DEF InFlow
  <1>3. tyoheld' = (ch = "STOP")
    BY DEF InFlow
  <1>4. InTypes' /\ InputFits'
    <2>1. crowded' \in BOOLEAN
      BY <1>2 DEF TtyFits, TtyTypeOK
    <2> QED  BY <1>1, <1>2, <2>1, KeptFits
  <1>5. LineEnds'
    BY <1>2 DEF TtyFits, LineEnds, Kept
  <1>6. EchoTypes' /\ Armed'
    <2>1. CASE ch = "START"
      <3>1. Kickout
        BY <2>1 DEF InFlow
      <3>2. echo' \in 0 .. TY_EBUFLEN - 1
        BY <1>2 DEF TtyFits, TtyTypeOK
      <3> QED  BY <3>1, <3>2, KickFits DEF ovars
    <2>2. CASE ch = "STOP"
      <3>1. UNCHANGED <<etbei, thre, silent>>
        BY <2>2 DEF InFlow
      <3>2. tyoheld' = TRUE
        BY <1>3, <2>2
      <3> QED  BY <1>2, <3>1, <3>2 DEF TtyFits, TtyTypeOK, EchoTypes, Armed
    <2> QED  BY <1>2, <2>1, <2>2
  <1>7. TroubleExplained'
    BY <1>2 DEF Kept, TroubleExplained
  <1>8. tyoheld' \in BOOLEAN
    BY <1>3
  <1> QED  BY <1>4, <1>5, <1>6, <1>7, <1>8, InDone

LEMMA InCbreakStep ==
    ASSUME TtyFits, trouble = "no", NEW ch \in Typeable, InCbreak(ch), tyoheld' = FALSE,
           UNCHANGED <<ovars, fifo, pc, local>>
    PROVE  TtyInv'
  <1>1. Readers' = Readers
    BY DEF Readers, Reading
  <1>2. UNCHANGED <<tyihead, tyicursor, tyisem, crowded>>
    BY DEF InCbreak
  <1>3. crowded' \in BOOLEAN /\ tyoheld' \in BOOLEAN /\ UNCHANGED <<written, fifo>>
    BY <1>2 DEF TtyFits, TtyTypeOK, ovars
  <1>4. CASE InAvail >= TY_IBUFLEN
    <2>1. Bell /\ Kept /\ UNCHANGED unsignalled
      BY <1>4 DEF InCbreak
    <2>2. InTypes' /\ InputFits'
      BY <1>1, <1>2, <1>3, <2>1, KeptFits
    <2>3. TroubleExplained'
      BY <2>1 DEF Kept, TroubleExplained
    <2>4. EchoTypes' /\ Armed'
      BY <1>3, <2>1, EputcFits DEF Bell
    <2>5. LineEnds'
      BY <1>2, <2>1 DEF TtyFits, LineEnds, Kept
    <2> QED  BY <1>3, <2>2, <2>3, <2>4, <2>5, InDone
  <1>5. CASE ~(InAvail >= TY_IBUFLEN)
    <2>1. Store(ch, TRUE, "unsignalled") /\ unsignalled' = unsignalled + 1 /\ Echoch(ch)
      BY <1>5 DEF InCbreak
    <2>2. (trouble' = "no" => Stored) /\ (trouble' \in Excused \/ Blamed("unsignalled"))
      BY <2>1, StoreOutcome
    <2>3. TroubleExplained'
      BY <2>2 DEF TroubleExplained, Excused, Blamed
    <2>4. SemFits(tyisem', Readers) /\ tyisem'.count = tyisem.count
      BY <1>2, InNumbers
    <2>5. tyisem'.count = (Len(typed) + 1) - tyicursor' - unsignalled' - Cardinality(Readers)
      BY <1>2, <2>1, <2>4, InNumbers
    <2>6. tyicursor' \in Nat /\ unsignalled' \in Nat
      <3>1. tyicursor \in Nat /\ unsignalled \in Nat
        BY InNumbers
      <3> QED  BY <1>2, <2>1, <3>1
    <2>7. trouble' = "no" => InTypes' /\ InputFits'
      BY <1>1, <1>2, <1>3, <2>2, <2>4, <2>5, <2>6, StoredFits
    <2>8. trouble' = "no" => LineEnds'
      <3>1. Len(typed) \in Nat /\ unsignalled \in Nat
        BY InNumbers
      <3> QED  BY <1>2, <2>1, <2>2, <3>1, Sizes DEF TtyFits, LineEnds, Stored
    <2>9. EchoTypes' /\ Armed'
      BY <1>3, <2>1, EchochFits
    <2> QED  BY <1>3, <2>3, <2>7, <2>8, <2>9, InDone
  <1> QED  BY <1>4, <1>5

(* What is common to the cases of cooked mode, and what each has to show. *)
Cooking ==
    /\ TtyFits /\ trouble = "no" /\ tyoheld' = FALSE
    /\ UNCHANGED <<written, fifo, tyihead, unsignalled>> /\ Readers' = Readers
    /\ crowded' \in BOOLEAN
    /\ tyicursor' > 0 /\ ~crowded' => ~crowded /\ LateReaders = {}

Cooked ==
    /\ TroubleExplained'
    /\ trouble' = "no" => InTypes' /\ InputFits' /\ LineEnds'
    /\ EchoTypes' /\ Armed'

(* A line is taken back. *)
LEMMA InKillFits ==
    ASSUME Cooking, InKill
    PROVE  Cooked
  <1>1. TtyFits /\ tyicursor' = 0 /\ UNCHANGED <<tyibuff, tyisem>> /\ Eputc(2)
    BY DEF Cooking, InKill
  <1>2. EchoTypes' /\ Armed'
    BY <1>1, EputcFits DEF Cooking
  <1>3. LineEnds'
    BY <1>1 DEF LineEnds
  <1>4. CASE tyitail - tyicursor < 0
    BY <1>2, <1>4 DEF InKill, Cooked, TroubleExplained
  <1>5. CASE ~(tyitail - tyicursor < 0)
    <2>1. /\ tyitail' = tyitail - tyicursor
          /\ typed' = SubSeq(typed, 1, Len(typed) - tyicursor)
          /\ trouble' = trouble
      BY <1>5 DEF InKill
    <2>2. /\ typed \in Seq(Typeable) /\ tyitail \in Nat
          /\ Ring(tyibuff, tyihead, typed, TY_IBUFLEN)
          /\ \/ tyitail = Wrap(tyihead, Len(typed), TY_IBUFLEN)
             \/ tyitail = TY_IBUFLEN /\ Wrap(tyihead, Len(typed), TY_IBUFLEN) = 0
      BY <1>1 DEF TtyFits, TtyTypeOK, InputFits
    <2>3. /\ Len(typed) \in Nat /\ tyicursor \in Nat /\ tyicursor <= Len(typed)
          /\ Len(typed) <= TY_IBUFLEN /\ tyihead \in 0 .. TY_IBUFLEN - 1
      BY <1>1, InNumbers
    <2>4. /\ Ring(tyibuff, tyihead, typed', TY_IBUFLEN)
          /\ typed' \in Seq(Typeable)
          /\ Len(typed') = Len(typed) - tyicursor
      BY <2>1, <2>2, <2>3, Sizes, RingTrunc
    <2>5. \/ tyitail' = Wrap(tyihead, Len(typed'), TY_IBUFLEN)
          \/ tyitail' = TY_IBUFLEN /\ Wrap(tyihead, Len(typed'), TY_IBUFLEN) = 0
      BY <1>5, <2>1, <2>2, <2>3, <2>4, Sizes DEF Wrap
    <2>6. tyisem'.count = Len(typed') - tyicursor' - unsignalled' - Cardinality(Readers')
      <3> DEFINE c == tyisem.count
                 n == Len(typed)
                 r == Cardinality(Readers)
      <3>1. /\ c \in Int /\ n \in Nat /\ r \in Nat /\ tyicursor \in Nat /\ unsignalled \in Nat
            /\ c = n - tyicursor - unsignalled - r
        BY <1>1, InNumbers
      <3>2. tyisem'.count = c /\ Len(typed') = n - tyicursor /\ unsignalled' = unsignalled
            /\ Cardinality(Readers') = r
        BY <1>1, <2>4 DEF Cooking
      <3> HIDE DEF c, n, r
      <3>3. c = (n - tyicursor) - 0 - unsignalled - r
        BY <3>1
      <3> QED  BY <1>1, <3>2, <3>3
    <2>7. SemFits(tyisem', Readers')
      BY <1>1, InNumbers DEF Cooking
    <2>8. InputFits'
      BY <1>1, <2>4, <2>5, <2>6, <2>7 DEF InputFits, Cooking
    <2>9. InTypes'
      <3>1. tyitail' \in Nat
        BY <1>5, <2>1, <2>2, <2>3
      <3> QED  BY <1>1, <2>4, <3>1 DEF InTypes, Cooking, TtyFits, TtyTypeOK
    <2> QED  BY <1>2, <1>3, <2>1, <2>8, <2>9 DEF Cooked, Cooking, TroubleExplained
  <1> QED  BY <1>4, <1>5

(* A character is taken back. *)
LEMMA InEraseFits ==
    ASSUME Cooking, InErase
    PROVE  Cooked
  <1>1. TtyFits /\ UNCHANGED <<tyibuff, tyisem, trouble>>
    BY DEF Cooking, InErase
  <1>2. CASE ~(tyicursor > 0)
    <2>1. Quiet /\ UNCHANGED <<tyicursor, tyitail, typed>>
      BY <1>2 DEF InErase
    <2>2. EchoTypes' /\ Armed'
      BY <1>1, <2>1, QuietFits DEF Cooking
    <2>3. InTypes' /\ InputFits'
      BY <1>1, <2>1, KeptFits DEF Cooking, Kept
    <2>4. LineEnds'
      BY <1>2, <2>1 DEF LineEnds
    <2> QED  BY <1>1, <2>2, <2>3, <2>4 DEF Cooked, Cooking, TroubleExplained
  <1>3. CASE tyicursor > 0
    <2>1. /\ tyicursor' = tyicursor - 1
          /\ tyitail' = Erased(tyitail)
          /\ typed' = SubSeq(typed, 1, Len(typed) - 1)
          /\ Quiet \/ Eputc(3)
      BY <1>3 DEF InErase
    <2>2. EchoTypes' /\ Armed'
      BY <1>1, <2>1, QuietFits, EputcFits DEF Cooking
    <2>3. /\ typed \in Seq(Typeable) /\ tyitail \in Nat
          /\ Ring(tyibuff, tyihead, typed, TY_IBUFLEN)
          /\ \/ tyitail = Wrap(tyihead, Len(typed), TY_IBUFLEN)
             \/ tyitail = TY_IBUFLEN /\ Wrap(tyihead, Len(typed), TY_IBUFLEN) = 0
      BY <1>1 DEF TtyFits, TtyTypeOK, InputFits
    <2>4. /\ Len(typed) \in Nat /\ tyicursor \in Nat /\ 1 <= Len(typed)
          /\ Len(typed) <= TY_IBUFLEN /\ tyihead \in 0 .. TY_IBUFLEN - 1
          /\ unsignalled \in Nat
      BY <1>1, <1>3, InNumbers
    <2>5. /\ Ring(tyibuff, tyihead, typed', TY_IBUFLEN)
          /\ typed' \in Seq(Typeable)
          /\ Len(typed') = Len(typed) - 1
      <3> DEFINE k == 1
      <3>1. k \in Nat /\ k <= Len(typed) /\ typed' = SubSeq(typed, 1, Len(typed) - k)
        BY <2>1, <2>4
      <3> HIDE DEF k
      <3>2. /\ Ring(tyibuff, tyihead, typed', TY_IBUFLEN)
            /\ typed' \in Seq(Typeable)
            /\ Len(typed') = Len(typed) - k
        BY <2>3, <3>1, Sizes, RingTrunc
      <3> QED  BY <3>2 DEF k
    <2>6. \/ tyitail' = Wrap(tyihead, Len(typed'), TY_IBUFLEN)
          \/ tyitail' = TY_IBUFLEN /\ Wrap(tyihead, Len(typed'), TY_IBUFLEN) = 0
      <3> DEFINE n == Len(typed)
      <3>1. /\ n \in Nat /\ 1 <= n /\ n <= TY_IBUFLEN /\ tyihead \in 0 .. TY_IBUFLEN - 1
            /\ \/ tyitail = Wrap(tyihead, n, TY_IBUFLEN)
               \/ tyitail = TY_IBUFLEN /\ Wrap(tyihead, n, TY_IBUFLEN) = 0
        BY <2>3, <2>4
      <3> HIDE DEF n
      <3>2. Erased(tyitail) = Wrap(tyihead, n - 1, TY_IBUFLEN)
        BY <3>1, Sizes DEF Wrap, Erased
      <3> QED  BY <2>1, <2>5, <3>2 DEF n
    <2>7. tyisem'.count = Len(typed') - tyicursor' - unsignalled' - Cardinality(Readers')
      <3> DEFINE c == tyisem.count
                 n == Len(typed)
                 r == Cardinality(Readers)
      <3>1. /\ c \in Int /\ n \in Nat /\ r \in Nat /\ tyicursor \in Nat /\ unsignalled \in Nat
            /\ c = n - tyicursor - unsignalled - r
        BY <1>1, InNumbers
      <3>2. tyisem'.count = c /\ Len(typed') = n - 1 /\ unsignalled' = unsignalled
            /\ Cardinality(Readers') = r
        BY <1>1, <2>5 DEF Cooking
      <3> HIDE DEF c, n, r
      <3>3. c = (n - 1) - (tyicursor - 1) - unsignalled - r
        BY <3>1
      <3> QED  BY <2>1, <3>2, <3>3
    <2>8. SemFits(tyisem', Readers')
      BY <1>1, InNumbers DEF Cooking
    <2>9. InputFits'
      BY <1>1, <2>5, <2>6, <2>7, <2>8 DEF InputFits, Cooking
    <2>10. InTypes'
      <3>1. tyitail' \in Nat /\ tyicursor' \in Nat
        BY <1>3, <2>1, <2>3, <2>4, Sizes DEF Erased
      <3> QED  BY <1>1, <2>5, <3>1 DEF InTypes, Cooking, TtyFits, TtyTypeOK
    <2>11. LineEnds'
      <3> SUFFICES ASSUME tyicursor' > 0, ~crowded'
                   PROVE  Len(typed') - unsignalled' <= TY_IBUFLEN - 1
        BY DEF LineEnds
      <3>1. Len(typed) - unsignalled <= TY_IBUFLEN - 1
        BY <1>1, <1>3 DEF Cooking, TtyFits, LineEnds
      <3>2. unsignalled' = unsignalled
        BY DEF Cooking
      <3> QED  BY <2>4, <2>5, <3>1, <3>2, Sizes
    <2> QED  BY <1>1, <2>2, <2>9, <2>10, <2>11 DEF Cooked, Cooking, TroubleExplained
  <1> QED  BY <1>2, <1>3

(* A line is ended: there is room for that. *)
LEMMA InNewlineFits ==
    ASSUME Cooking, NEW ch \in Typeable, InNewline(ch)
    PROVE  Cooked
  <1> DEFINE cause == IF tyicursor = 0 THEN "empty line" ELSE "line"
  <1>1. /\ TtyFits /\ trouble = "no" /\ Echoch(ch) /\ Store(ch, TRUE, cause)
        /\ tyisem' = SemSignal(tyisem, tyicursor + 1)
        /\ tyicursor' = 0
    BY DEF Cooking, InNewline
  <1>2. EchoTypes' /\ Armed'
    BY <1>1, EchochFits DEF Cooking
  <1>3. LineEnds'
    <2>1. tyicursor' = 0
      BY <1>1
    <2> QED  BY <2>1 DEF LineEnds
  <1>4. (trouble' = "no" => Stored) /\ (trouble' \in Excused \/ Blamed(cause))
    <2>1. cause # "no"
      OBVIOUS
    <2> HIDE DEF cause
    <2> QED  BY <1>1, <2>1, StoreOutcome
  <1>5. TroubleExplained'
    <2> SUFFICES ASSUME Blamed(cause), tyicursor # 0
                 PROVE  FALSE
      BY <1>4 DEF TroubleExplained, Excused, Blamed
    <2>1. Len(typed) = TY_IBUFLEN /\ ~crowded /\ unsignalled = 0
      BY DEF Blamed
    <2>2. tyicursor > 0
      BY <1>1, InNumbers
    <2>3. Len(typed) - unsignalled <= TY_IBUFLEN - 1
      BY <1>1, <2>1, <2>2 DEF TtyFits, LineEnds
    <2> QED  BY <2>1, <2>3, Sizes
  <1>6. trouble' = "no" => InTypes' /\ InputFits'
    <2>1. SemFits(tyisem', Readers) /\ tyisem'.count = tyisem.count + (tyicursor + 1)
      <3>1. SemFits(tyisem, Readers) /\ tyicursor \in Nat
        BY <1>1, InNumbers
      <3>2. tyicursor + 1 \in Nat
        BY <3>1
      <3> QED  BY <1>1, <3>1, <3>2, SignalFits
    <2>2. unsignalled' = unsignalled /\ tyihead' = tyihead /\ Readers' = Readers
          /\ crowded' \in BOOLEAN /\ tyicursor' \in Nat /\ unsignalled' \in Nat
      BY <1>1, InNumbers DEF Cooking
    <2>3. tyisem'.count = (Len(typed) + 1) - tyicursor' - unsignalled' - Cardinality(Readers)
      <3>1. tyisem.count + (tyicursor + 1)
               = (Len(typed) + 1) - 0 - unsignalled - Cardinality(Readers)
        BY <1>1, OneTyped
      <3> QED  BY <1>1, <2>1, <2>2, <3>1, Zenon
    <2> QED  BY <1>1, <1>4, <2>1, <2>2, <2>3, StoredFits
  <1> QED  BY <1>2, <1>3, <1>5, <1>6 DEF Cooked

LEMMA InFullFits ==
    ASSUME Cooking, InFull
    PROVE  Cooked
  <1>1. TtyFits /\ Bell /\ Kept /\ UNCHANGED <<tyisem, tyicursor>>
    BY DEF Cooking, InFull
  <1>2. EchoTypes' /\ Armed'
    BY <1>1, EputcFits DEF Cooking, Bell
  <1>3. InTypes' /\ InputFits'
    BY <1>1, KeptFits DEF Cooking
  <1>4. LineEnds'
    BY <1>1 DEF LineEnds, Cooking, TtyFits, Kept
  <1> QED  BY <1>1, <1>2, <1>3, <1>4 DEF Cooked, Kept, Cooking, TroubleExplained

(* Where the bell is not rung, the blame is elsewhere. *)
LEMMA RoomForChar ==
    ASSUME TtyFits, ~Overflows
    PROVE  /\ ~Blamed("char")
           /\ LateReaders = {} => Len(typed) - unsignalled < TY_IBUFLEN - 1
  <1> DEFINE n == Len(typed)
             l == Cardinality(LateReaders)
             a == InAvail
  <1>1. /\ n \in Nat /\ a \in Nat /\ l \in Nat /\ tyicursor \in Nat /\ unsignalled \in Nat
        /\ n = a + tyicursor + unsignalled + l
        /\ LateReaders = {} => l = 0
    BY InNumbers
  <1>2. ~(a + tyicursor >= TY_IBUFLEN - 1)
    BY DEF Overflows
  <1> HIDE DEF n, l, a
  <1>3. LateReaders = {} => n - unsignalled < TY_IBUFLEN - 1
    BY <1>1, <1>2, Sizes
  <1>4. ASSUME LateReaders = {}, unsignalled = 0, n = TY_IBUFLEN
        PROVE  FALSE
    BY <1>1, <1>3, <1>4, Sizes
  <1> QED  BY <1>3, <1>4 DEF Blamed, n

LEMMA InEofFits ==
    ASSUME Cooking, NEW ch \in Typeable, InEof(ch)
    PROVE  Cooked
  <1>1. TtyFits /\ trouble = "no" /\ ~Overflows /\ Echoch(ch) /\ UNCHANGED tyicursor
    BY DEF Cooking, InEof
  <1>2. EchoTypes' /\ Armed'
    BY <1>1, EchochFits DEF Cooking
  <1>3. CASE tyicursor # 0
    <2>1. Kept /\ UNCHANGED tyisem
      BY <1>3 DEF InEof
    <2>2. InTypes' /\ InputFits'
      BY <1>1, <2>1, KeptFits DEF Cooking
    <2>3. LineEnds'
      BY <1>1, <2>1 DEF LineEnds, Cooking, TtyFits, Kept
    <2> QED  BY <1>1, <1>2, <2>1, <2>2, <2>3 DEF Cooked, Kept, TroubleExplained
  <1>4. CASE tyicursor = 0
    <2>1. Store(ch, FALSE, "char") /\ tyisem' = SemSignal(tyisem, 1)
      BY <1>4 DEF InEof
    <2>2. (trouble' = "no" => Stored) /\ (trouble' \in Excused \/ Blamed("char"))
      BY <1>1, <2>1, StoreOutcome
    <2>3. TroubleExplained'
      BY <1>1, <2>2, RoomForChar DEF TroubleExplained, Excused
    <2>4. LineEnds'
      BY <1>1, <1>4 DEF LineEnds
    <2>5. SemFits(tyisem', Readers) /\ tyisem'.count = tyisem.count + 1
      BY <1>1, <2>1, InNumbers, SignalFits
    <2>6. unsignalled' = unsignalled /\ tyihead' = tyihead /\ Readers' = Readers
          /\ crowded' \in BOOLEAN /\ tyicursor' \in Nat /\ unsignalled' \in Nat
      BY <1>1, InNumbers DEF Cooking
    <2>7. tyisem'.count = (Len(typed) + 1) - tyicursor' - unsignalled' - Cardinality(Readers)
      <3>1. tyisem.count + 1 = (Len(typed) + 1) - tyicursor - unsignalled - Cardinality(Readers)
        BY <1>1, OneTyped
      <3> QED  BY <1>1, <2>5, <2>6, <3>1, Zenon
    <2>8. trouble' = "no" => InTypes' /\ InputFits'
      BY <1>1, <2>2, <2>5, <2>6, <2>7, StoredFits
    <2> QED  BY <1>2, <2>3, <2>4, <2>8 DEF Cooked
  <1> QED  BY <1>3, <1>4

LEMMA InCharFits ==
    ASSUME Cooking, NEW ch \in Typeable, InChar(ch)
    PROVE  Cooked
  <1>1. /\ TtyFits /\ trouble = "no" /\ ~Overflows /\ Echoch(ch) /\ Store(ch, TRUE, "char")
        /\ tyicursor' = tyicursor + 1 /\ UNCHANGED tyisem
    BY DEF Cooking, InChar
  <1>2. EchoTypes' /\ Armed'
    BY <1>1, EchochFits DEF Cooking
  <1>3. (trouble' = "no" => Stored) /\ (trouble' \in Excused \/ Blamed("char"))
    BY <1>1, StoreOutcome
  <1>4. TroubleExplained'
    BY <1>1, <1>3, RoomForChar DEF TroubleExplained, Excused
  <1>5. /\ unsignalled' = unsignalled /\ tyihead' = tyihead /\ Readers' = Readers
        /\ crowded' \in BOOLEAN /\ tyicursor' \in Nat /\ unsignalled' \in Nat
    <2>1. tyicursor \in Nat /\ unsignalled \in Nat
      BY <1>1, InNumbers
    <2> QED  BY <1>1, <2>1 DEF Cooking
  <1>6. SemFits(tyisem', Readers)
    BY <1>1, InNumbers
  <1>7. tyisem'.count = (Len(typed) + 1) - tyicursor' - unsignalled' - Cardinality(Readers)
    <2>1. tyisem.count = (Len(typed) + 1) - (tyicursor + 1) - unsignalled - Cardinality(Readers)
      BY <1>1, OneTyped
    <2> QED  BY <1>1, <1>5, <2>1, Zenon
  <1>8. trouble' = "no" => InTypes' /\ InputFits'
    BY <1>1, <1>3, <1>5, <1>6, <1>7, StoredFits
  <1>9. trouble' = "no" => LineEnds'
    <2> SUFFICES ASSUME trouble' = "no", tyicursor' > 0, ~crowded'
                 PROVE  Len(typed') - unsignalled' <= TY_IBUFLEN - 1
      BY DEF LineEnds
    <2>1. LateReaders = {}
      BY DEF Cooking
    <2>2. Len(typed) - unsignalled < TY_IBUFLEN - 1 /\ Len(typed) \in Nat /\ unsignalled \in Nat
      BY <1>1, <2>1, RoomForChar, InNumbers
    <2>3. Len(typed') = Len(typed) + 1
      BY <1>3 DEF Stored
    <2> QED  BY <1>5, <2>2, <2>3, Sizes
  <1> QED  BY <1>2, <1>4, <1>8, <1>9 DEF Cooked

LEMMA InCookedStep ==
    ASSUME TtyFits, trouble = "no", NEW ch \in Typeable, InCooked(ch), tyoheld' = FALSE,
           UNCHANGED <<ovars, fifo, pc, local>>
    PROVE  TtyInv'
  <1>1. Cooking
    <2>1. Readers' = Readers
      BY DEF Readers, Reading
    <2>2. UNCHANGED <<written, fifo, tyihead, unsignalled>>
      BY DEF InCooked, ovars
    <2>3. crowded' = (tyicursor' > 0 /\ (crowded \/ LateReaders # {}))
      BY DEF InCooked
    <2>4. /\ crowded' \in BOOLEAN
          /\ tyicursor' > 0 /\ ~crowded' => ~crowded /\ LateReaders = {}
      BY <2>3, Zenon
    <2> QED  BY <2>1, <2>2, <2>4 DEF Cooking
  <1>2. Cooked
    <2>1. CASE ch = "KILL"
      BY <1>1, <2>1, InKillFits DEF InCooked
    <2>2. CASE ch = "ERASE"
      BY <1>1, <2>2, InEraseFits DEF InCooked
    <2>3. CASE ch = "NEWLINE"
      BY <1>1, <2>3, InNewlineFits DEF InCooked
    <2>4. CASE ch = "EOF"
      <3>1. InFull \/ InEof(ch)
        BY <2>4 DEF InCooked
      <3> QED  BY <1>1, <3>1, InFullFits, InEofFits
    <2>5. CASE ch \notin {"KILL", "ERASE", "NEWLINE", "EOF"}
      <3>1. InFull \/ InChar(ch)
        BY <2>5 DEF InCooked
      <3> QED  BY <1>1, <3>1, InFullFits, InCharFits
    <2> QED  BY <2>1, <2>2, <2>3, <2>4, <2>5
  <1> QED  BY <1>2, InDone DEF Cooked

LEMMA TtyHandleInStep ==
    ASSUME TtyFits, NEW ch \in Key, TtyHandleIn(ch)
    PROVE  TtyInv'
  <1>1. /\ trouble = "no" /\ ch \in Typeable
        /\ UNCHANGED <<ovars, fifo, pc, local>>
    BY DEF TtyHandleIn, Handling, Typeable, pvars
  <1>2. CASE InRaw(ch)
    BY <1>1, <1>2, InRawStep
  <1>3. CASE InFlow(ch)
    BY <1>1, <1>3, InFlowStep
  <1>4. CASE tyoheld' = FALSE /\ InCbreak(ch)
    BY <1>1, <1>4, InCbreakStep
  <1>5. CASE tyoheld' = FALSE /\ InCooked(ch)
    BY <1>1, <1>5, InCookedStep
  <1> QED  BY <1>2, <1>3, <1>4, <1>5 DEF TtyHandleIn

-----------------------------------------------------------------------------
(***************************************************************************)
(* The invariant, and what it comes to.                                    *)
(***************************************************************************)
LEMMA TtyInit == Init => TtyInv
  <1> SUFFICES ASSUME Init
               PROVE  TtyInv
    OBVIOUS
  <1>1. Readers = {} /\ Writers = {}
    BY DEF Init, Readers, Writers, Reading, Writing
  <1>2. Cardinality({}) = 0
    BY FS_EmptySet
  <1>3. TtyTypeOK
    <2>1. /\ tyibuff \in [0 .. TY_IBUFLEN - 1 -> Typeable]
          /\ tyobuff \in [0 .. TY_OBUFLEN - 1 -> Writable]
      BY DEF Init, Typeable, Writable
    <2>2. 0 \in 0 .. TY_EBUFLEN - 1 /\ 0 \in 0 .. UART_FIFO_SIZE
      BY Sizes
    <2>3. /\ pc \in [Proc -> {"app", "getc", "nextc", "putc"}]
          /\ local \in [Proc -> Seq(Chars)]
          /\ \A p \in Proc : pc[p] = "app"
      BY DEF Init
    <2>4. /\ typed \in Seq(Typeable) /\ written \in Seq(Writable)
          /\ tyitail \in Nat /\ tyicursor \in Nat /\ unsignalled \in Nat
      BY DEF Init
    <2>5. echo = 0 /\ fifo = 0
      BY DEF Init
    <2>6. /\ crowded \in BOOLEAN /\ etbei \in BOOLEAN /\ thre \in BOOLEAN
          /\ tyoheld \in BOOLEAN /\ silent \in BOOLEAN
      BY Zenon DEF Init
    <2> QED  BY <2>1, <2>2, <2>3, <2>4, <2>5, <2>6 DEF TtyTypeOK
  <1>4. \A n \in Nat \ {0} : \A b : Ring(b, 0, <<>>, n) /\ Wrap(0, 0, n) = 0
    BY DEF Ring, Wrap
  <1>5. \A c \in Nat : SemFits([count |-> c, queue |-> <<>>], {})
    BY DEF SemFits
  <1>6. InputFits
    <2>1. SemFits(tyisem, Readers)
      BY <1>1, <1>5 DEF Init
    <2>2. tyisem.count = 0 /\ Len(typed) = 0 /\ tyicursor = 0 /\ unsignalled = 0
      BY DEF Init
    <2> QED  BY <1>1, <1>2, <1>4, <2>1, <2>2, Sizes DEF Init, InputFits
  <1>7. OutputFits
    <2>1. SemFits(tyosem, Writers)
      BY <1>1, <1>5, Sizes DEF Init
    <2>2. tyosem.count = TY_OBUFLEN /\ Len(written) = 0
      BY DEF Init
    <2> QED  BY <1>1, <1>2, <1>4, <2>1, <2>2, Sizes DEF Init, OutputFits
  <1>8. LineEnds /\ Armed /\ TroubleExplained
    BY DEF Init, LineEnds, Armed, TroubleExplained
  <1> QED  BY <1>3, <1>6, <1>7, <1>8 DEF TtyInv, TtyFits

LEMMA TtyStuttering ==
    ASSUME TtyInv, UNCHANGED tvars
    PROVE  TtyInv'
  <1>1. Readers' = Readers /\ Writers' = Writers
    BY DEF tvars, pvars, Readers, Writers, Reading, Writing
  <1>2. TtyTypeOK => TtyTypeOK'
    BY DEF TtyTypeOK, tvars, ivars, ovars, uart, pvars
  <1>3. InputFits /\ LineEnds => InputFits' /\ LineEnds'
    BY <1>1, InputSame DEF tvars
  <1>4. OutputFits => OutputFits'
    BY <1>1, OutputSame DEF tvars
  <1>5. Armed => Armed'
    BY DEF Armed, tvars, ovars, uart
  <1> QED  BY <1>2, <1>3, <1>4, <1>5 DEF TtyInv, TtyFits, TroubleExplained, tvars

LEMMA TtyStep ==
    ASSUME TtyInv, [Next]_tvars
    PROVE  TtyInv'
  <1>1. CASE UNCHANGED tvars
    BY <1>1, TtyStuttering
  <1>2. CASE trouble # "no"
    <2>1. ~TtyControl /\ ~TtyHandleOut /\ ~Transmit /\ (\A ch : ~TtyHandleIn(ch))
      BY <1>2 DEF TtyControl, TtyHandleOut, Transmit, TtyHandleIn, Handling
    <2>2. \A p : /\ \A n : ~TtyRead(p, n)
                 /\ \A ch : ~TtyPutc(p, ch)
                 /\ ~TtyNextC(p) /\ ~TtyGetcEnd(p) /\ ~TtyNextCEnd(p) /\ ~TtyPutcEnd(p)
      BY <1>2 DEF TtyRead, TtyPutc, TtyNextC, TtyGetcEnd, TtyNextCEnd, TtyPutcEnd,
                  Handling, Running
    <2>3. UNCHANGED tvars
      BY <2>1, <2>2 DEF Next, ProcStep, Stopped
    <2> QED  BY <2>3, TtyStuttering
  <1>3. CASE trouble = "no" /\ Next
    <2>1. TtyFits
      BY <1>3 DEF TtyInv
    <2>2. CASE ProcStep
      BY <2>1, <2>2, TtyReadStep, TtyPutcStep, TtyNextCStep, TtyGetcEndStep, TtyNextCEndStep,
         TtyPutcEndStep DEF ProcStep
    <2>3. CASE TtyControl
      BY <2>1, <2>3, TtyControlStep
    <2>4. CASE \E ch \in Key : TtyHandleIn(ch)
      BY <2>1, <2>4, TtyHandleInStep
    <2>5. CASE TtyHandleOut
      BY <2>1, <2>5, TtyHandleOutStep
    <2>6. CASE Transmit
      BY <2>1, <2>6, TransmitStep
    <2>7. CASE Stopped
      BY <1>3, <2>7 DEF Stopped
    <2> QED  BY <1>3, <2>2, <2>3, <2>4, <2>5, <2>6, <2>7 DEF Next
  <1> QED  BY <1>1, <1>2, <1>3

(* The invariant of the tty driver, over every step of its processes and   *)
(* interrupts.                                                             *)
THEOREM TtyInvariant == Spec => []TtyInv
  <1>1. Init => TtyInv
    BY TtyInit
  <1>2. TtyInv /\ [Next]_tvars => TtyInv'
    BY TtyStep
  <1> QED  BY <1>1, <1>2, PTL DEF Spec

(* ttygetc takes a character without comparing the pointers: the input     *)
(* buffer holds what was typed, less what was erased or killed, and tyisem *)
(* counts what readers may take.                                           *)
THEOREM InputIsExact == Spec => []InputExact
  <1>1. TtyInv => InputExact
    <2> SUFFICES ASSUME TtyInv, trouble = "no"
                 PROVE  /\ tyitail % TY_IBUFLEN = (tyihead + Len(typed)) % TY_IBUFLEN
                        /\ \A i \in DOMAIN typed :
                               typed[i] = tyibuff[(tyihead + i - 1) % TY_IBUFLEN]
                        /\ tyisem.count = Len(typed) - tyicursor - unsignalled
                                          - Cardinality(LateReaders) - Len(tyisem.queue)
      BY DEF InputExact
    <2>1. TtyFits /\ TtyTypeOK /\ InputFits
      BY DEF TtyInv, TtyFits
    <2>2. /\ typed \in Seq(Typeable) /\ DOMAIN typed = 1 .. Len(typed)
          /\ Len(typed) \in 0 .. TY_IBUFLEN /\ tyihead \in 0 .. TY_IBUFLEN - 1
          /\ \A i \in 1 .. Len(typed) : typed[i] = tyibuff[Wrap(tyihead, i - 1, TY_IBUFLEN)]
      <3>1. typed \in Seq(Typeable) /\ Len(typed) \in Nat
        BY <2>1 DEF TtyTypeOK
      <3>2. Ring(tyibuff, tyihead, typed, TY_IBUFLEN)
        BY <2>1 DEF InputFits
      <3>3. Len(typed) \in 0 .. TY_IBUFLEN
        BY <3>1, <3>2, Sizes DEF Ring
      <3> QED  BY <3>1, <3>2, <3>3 DEF Ring
    <2>3. /\ (tyihead + Len(typed)) % TY_IBUFLEN = Wrap(tyihead, Len(typed), TY_IBUFLEN)
          /\ Wrap(tyihead, Len(typed), TY_IBUFLEN) \in 0 .. TY_IBUFLEN - 1
      BY <2>2, Sizes, ModIsWrap
    <2>4. tyitail % TY_IBUFLEN = (tyihead + Len(typed)) % TY_IBUFLEN
      <3> DEFINE w == Wrap(tyihead, Len(typed), TY_IBUFLEN)
      <3>1. w \in 0 .. TY_IBUFLEN - 1 /\ (tyitail = w \/ (tyitail = TY_IBUFLEN /\ w = 0))
        BY <2>1, <2>3 DEF InputFits
      <3> HIDE DEF w
      <3>2. \A n \in Nat \ {0} : n % n = 0 /\ \A x \in 0 .. n - 1 : x % n = x
        OBVIOUS
      <3>3. tyitail % TY_IBUFLEN = w
        BY <3>1, <3>2, Sizes
      <3> QED  BY <2>3, <3>3 DEF w
    <2>5. ASSUME NEW i \in DOMAIN typed
          PROVE  typed[i] = tyibuff[(tyihead + i - 1) % TY_IBUFLEN]
      <3>1. i \in 1 .. Len(typed) /\ i - 1 \in 0 .. TY_IBUFLEN
            /\ tyihead + i - 1 = tyihead + (i - 1)
        BY <2>2, Sizes
      <3>2. (tyihead + (i - 1)) % TY_IBUFLEN = Wrap(tyihead, i - 1, TY_IBUFLEN)
        BY <2>2, <3>1, Sizes, ModIsWrap
      <3> QED  BY <2>2, <3>1, <3>2
    <2>6. tyisem.count = Len(typed) - tyicursor - unsignalled
                         - Cardinality(LateReaders) - Len(tyisem.queue)
      <3> DEFINE c == tyisem.count
                 n == Len(typed)
                 r == Cardinality(Readers)
                 l == Cardinality(LateReaders)
                 q == Len(tyisem.queue)
      <3>1. /\ c \in Int /\ n \in Nat /\ r \in Nat /\ tyicursor \in Nat /\ unsignalled \in Nat
            /\ c = n - tyicursor - unsignalled - r
        BY <2>1, InNumbers
      <3>2. l \in Nat /\ l = r - q /\ q \in Nat
        <4>1. tyisem.queue \in Seq(Proc)
          BY <2>1 DEF InputFits, SemFits
        <4> QED  BY <2>1, <4>1, InputCount
      <3> HIDE DEF c, n, r, l, q
      <3>3. c = n - tyicursor - unsignalled - l - q
        BY <3>1, <3>2
      <3> QED  BY <3>3 DEF c, n, l, q
    <2> QED  BY <2>4, <2>5, <2>6
  <1> QED  BY <1>1, TtyInvariant, PTL

(* The output buffer holds what was written and not sent, in order, and    *)
(* tyosem counts its room.                                                 *)
THEOREM OutputIsExact == Spec => []OutputExact
  <1>1. TtyInv => OutputExact
    <2> SUFFICES ASSUME TtyInv, trouble = "no"
                 PROVE  /\ tyotail = (tyohead + Len(written)) % TY_OBUFLEN
                        /\ \A i \in DOMAIN written :
                               written[i] = tyobuff[(tyohead + i - 1) % TY_OBUFLEN]
                        /\ tyosem.count = TY_OBUFLEN - Len(written)
                                          - Cardinality(LateWriters) - Len(tyosem.queue)
      BY DEF OutputExact
    <2>1. TtyTypeOK /\ OutputFits
      BY DEF TtyInv, TtyFits
    <2>2. /\ written \in Seq(Writable) /\ DOMAIN written = 1 .. Len(written)
          /\ Len(written) \in 0 .. TY_OBUFLEN /\ tyohead \in 0 .. TY_OBUFLEN - 1
          /\ \A i \in 1 .. Len(written) : written[i] = tyobuff[Wrap(tyohead, i - 1, TY_OBUFLEN)]
      <3>1. written \in Seq(Writable) /\ Len(written) \in Nat
        BY <2>1 DEF TtyTypeOK
      <3>2. Ring(tyobuff, tyohead, written, TY_OBUFLEN)
        BY <2>1 DEF OutputFits
      <3>3. Len(written) \in 0 .. TY_OBUFLEN
        BY <3>1, <3>2, Sizes DEF Ring
      <3> QED  BY <3>1, <3>2, <3>3 DEF Ring
    <2>3. tyotail = (tyohead + Len(written)) % TY_OBUFLEN
      BY <2>1, <2>2, Sizes, ModIsWrap DEF OutputFits
    <2>4. ASSUME NEW i \in DOMAIN written
          PROVE  written[i] = tyobuff[(tyohead + i - 1) % TY_OBUFLEN]
      <3>1. i \in 1 .. Len(written) /\ i - 1 \in 0 .. TY_OBUFLEN
            /\ tyohead + i - 1 = tyohead + (i - 1)
        BY <2>2, Sizes
      <3>2. (tyohead + (i - 1)) % TY_OBUFLEN = Wrap(tyohead, i - 1, TY_OBUFLEN)
        BY <2>2, <3>1, Sizes, ModIsWrap
      <3> QED  BY <2>2, <3>1, <3>2
    <2>5. tyosem.count = TY_OBUFLEN - Len(written) - Cardinality(LateWriters) - Len(tyosem.queue)
      <3> DEFINE c == tyosem.count
                 n == Len(written)
                 r == Cardinality(Writers)
                 l == Cardinality(LateWriters)
                 q == Len(tyosem.queue)
      <3>1. n \in Nat /\ r \in Nat /\ c = TY_OBUFLEN - n - r
        BY <2>1, FinitelyMany DEF OutputFits, TtyTypeOK
      <3>2. l \in Nat /\ l = r - q /\ q \in Nat
        <4>1. tyosem.queue \in Seq(Proc)
          BY <2>1 DEF OutputFits, SemFits
        <4> QED  BY <2>1, <4>1, OutputCount
      <3> HIDE DEF c, n, r, l, q
      <3>3. c = TY_OBUFLEN - n - l - q
        BY <3>1, <3>2, Sizes
      <3> QED  BY <3>3 DEF c, n, l, q
    <2> QED  BY <2>3, <2>4, <2>5
  <1> QED  BY <1>1, TtyInvariant, PTL

(* The bell of ttyhandle_in.c:142 leaves room to end the line, and         *)
(* ttyhandle_out sends what is there: the driver leaves its buffers in the *)
(* known ways only.                                                        *)
THEOREM TroubleIsExplained == Spec => []TroubleExplained
  <1>1. TtyInv => TroubleExplained
    BY DEF TtyInv
  <1> QED  BY <1>1, TtyInvariant, PTL

(* With something to send and the UART idle, an output interrupt is on its *)
(* way.                                                                    *)
THEOREM OutputIsArmed == Spec => []OutputArmed
  <1>1. TtyInv => OutputArmed
    BY DEF TtyInv, TtyFits, Armed, OutputArmed
  <1> QED  BY <1>1, TtyInvariant, PTL
==============================================================================
