-------------------------- MODULE RemoteFilesProofs --------------------------
(***************************************************************************)
(* Remote files, for any number of processes, devices and files, any       *)
(* network and any number of retries: a reply is taken for the answer to   *)
(* the request it belongs to, an error of the endpoint has its cause, and  *)
(* a packet is announced.                                                  *)
(***************************************************************************)
EXTENDS RemoteFiles, SequenceTheorems, WellFoundedInduction, TLAPS

(***************************************************************************)
(* The inductive invariant.  First what everything is.                     *)
(***************************************************************************)
Bytes == {Zero} \cup UNION {{x[i] : i \in DOMAIN x} : x \in Data}
Asked == {"open", "read", "write", "trunc"}     \* the kinds of requests
AllNames == Name \cup {NoName}

CallType == [kind : Asked \cup {"seek", "close", "none"}, dev : Dev, name : AllNames,
             count : Counts \cup {0}, data : Data \cup {<<>>}, mode : Modes \cup {{}}]
RequestType == [kind : Asked \cup {"none"}, seq : Nat, name : AllNames, pos : Nat,
                count : Counts \cup {0}, data : Data \cup {<<>>}]
ReplyType == [kind : Asked, seq : Nat, ok : BOOLEAN, val : Seq(Bytes)]
LocalType == [call : CallType, req : RequestType, tries : Nat,
              res : {"none", "OK", "REFUSED", "TIMEOUT", "SYSERR"}, val : Seq(Bytes)]
EntryType == [state : {"FREE", "USED"}, name : AllNames, pos : Nat,
              mode : Modes \cup {{}, {"R", "W"}}]

(* A request the server can execute. *)
Proper(r) == /\ r \in RequestType /\ r.kind \in Asked /\ r.name \in Name
             /\ r.kind = "read" => r.count \in Nat

RTypeOK ==
    /\ rf_mutex \in [count : Int, queue : Seq(Proc)]
    /\ rf_seq \in Nat
    /\ rfltab \in [Dev -> EntryType]
    /\ udstate \in {"USED", "RECV"}
    /\ udqueue \in Seq(ReplyType)
    /\ pc \in [Proc -> {"app", "begin", "send", "recv", "wait", "finish", "wild"}]
    /\ local \in [Proc -> LocalType]
    /\ prmsg \in [Proc -> {"none", "OK", "other"}]
    /\ timed \subseteq Proc
    /\ \A r \in requests : Proper(r)
    /\ replies \subseteq ReplyType
    /\ files \in [Name -> Seq(Bytes)]

(* One process is past wait(rf_mutex) at a time, and the count says who    *)
(* waits.                                                                  *)
Inside(p) == pc[p] # "app" /\ ~Waits(rf_mutex, p)

Turns ==
    /\ \A i \in DOMAIN rf_mutex.queue : pc[rf_mutex.queue[i]] = "begin"
    /\ \A i, j \in DOMAIN rf_mutex.queue : rf_mutex.queue[i] = rf_mutex.queue[j] => i = j
    /\ \A p, q \in Proc : Inside(p) /\ Inside(q) => p = q
    /\ (\E p \in Proc : Inside(p)) => rf_mutex.count = -Len(rf_mutex.queue)
    /\ (\A p \in Proc : ~Inside(p)) => rf_mutex.count = 1 /\ rf_mutex.queue = <<>>

(* The endpoint is in state RECV only for a process that waits, and while  *)
(* there is no packet.  What ends a wait otherwise is a message of another *)
(* process, and a call has failed at the endpoint only at its end.         *)
Endpoint ==
    /\ udstate = "RECV" => udpid \in Proc /\ pc[udpid] = "wait" /\ udqueue = <<>>
    /\ \A p \in timed : udstate = "RECV" /\ udpid = p /\ prmsg[p] = "none"
    /\ \A p \in Proc : prmsg[p] = "OK" => pc[p] = "wait" /\ (udqueue # <<>> \/ p \in struck)
    /\ \A p \in Proc : pc[p] = "wait" /\ prmsg[p] = "other" => p \in struck
    /\ \A p \in Proc : local[p].res = "SYSERR" => pc[p] = "finish" /\ p \in struck
    /\ \A p \in Proc : pc[p] = "wild" => p \in struck

(* During an exchange every request with its sequence number is its own,   *)
(* and every reply with that number shows files of the exchange.           *)
Busy == {"send", "recv", "wait", "finish", "wild"}

Sequenced ==
    /\ \A r \in requests : r.seq < rf_seq
    /\ \A r \in replies : r.seq < rf_seq
    /\ \A i \in DOMAIN udqueue : udqueue[i] \in replies

Answered(p) ==
    /\ Proper(local[p].req)
    /\ files \in window
    /\ local[p].req.seq < rf_seq
    /\ \A r \in requests : r.seq = local[p].req.seq => r = local[p].req
    /\ \A r \in replies : r.seq = local[p].req.seq /\ r.ok =>
          \E fs \in window : Shows(fs, local[p].req, r.val)

Exchange ==
    /\ \A p \in Proc : pc[p] \in Busy => Answered(p)
    /\ \A p \in Proc : pc[p] \notin Busy => local[p].res = "none"
    /\ ReplyCurrent

(* The entry that rfsopen found keeps its name until the server answers.   *)
Named ==
    /\ \A d \in Dev : rfltab[d].state = "USED" => rfltab[d].name \in Name
    /\ \A p \in Proc : local[p].call.kind = "open" => local[p].call.name \in Name
    /\ \A p \in Proc : local[p].call.kind = "trunc" => local[p].call.name \in Name
    /\ \A p \in Proc : pc[p] # "app" => local[p].call.kind # "none"
    /\ \A p \in Proc : local[p].call.kind = "seek" => local[p].call.count = 0
    /\ \A p \in Proc : pc[p] \in Busy /\ local[p].call.kind = "open" =>
          rfltab[Entry(local[p].call)].name \in Name

RInv == RTypeOK /\ Turns /\ Endpoint /\ Sequenced /\ Exchange /\ Named

-----------------------------------------------------------------------------
(***************************************************************************)
(* The operators.                                                          *)
(***************************************************************************)
(* The smallest of a nonempty set of numbers is one of them. *)
LEMMA SmallestOf ==
  ASSUME NEW S \in SUBSET Nat, S # {}
  PROVE  Min(S) \in S /\ \A y \in S : Min(S) <= y
<1> DEFINE R == {ss \in Nat \X Nat : ss[1] < ss[2]}
<1>1. IsWellFoundedOn(R, Nat) /\ \A x, y \in Nat : y < x => <<y, x>> \in R
  BY NatLessThanWellFounded DEF OpToRel
<1> HIDE DEF R
<1>2. PICK m \in S : \A y \in S : ~(<<y, m>> \in R)
  BY <1>1, WFMin
<1>3. ASSUME NEW y \in S PROVE m <= y
  <2>1. ~(y < m)
    BY <1>1, <1>2
  <2> QED BY <2>1
<1> QED BY <1>3 DEF Min

(* The smaller and the larger of two numbers. *)
LEMMA MinOfTwo ==
  ASSUME NEW a \in Int, NEW b \in Int
  PROVE  Min({a, b}) = IF a <= b THEN a ELSE b
<1> DEFINE m == IF a <= b THEN a ELSE b
<1>1. m \in {a, b} /\ \A y \in {a, b} : m <= y
  OBVIOUS
<1>2. \A x \in {a, b} : (\A y \in {a, b} : x <= y) => x = m
  OBVIOUS
<1> HIDE DEF m
<1>3. Min({a, b}) = m
  BY <1>1, <1>2 DEF Min
<1> QED BY <1>3 DEF m

LEMMA MaxOfTwo ==
  ASSUME NEW a \in Int, NEW b \in Int
  PROVE  Max({a, b}) = IF a >= b THEN a ELSE b
<1> DEFINE m == IF a >= b THEN a ELSE b
<1>1. m \in {a, b} /\ \A y \in {a, b} : m >= y
  OBVIOUS
<1>2. \A x \in {a, b} : (\A y \in {a, b} : x >= y) => x = m
  OBVIOUS
<1> HIDE DEF m
<1>3. Max({a, b}) = m
  BY <1>1, <1>2 DEF Max
<1> QED BY <1>3 DEF m

(* What is written consists of bytes. *)
LEMMA DataIsBytes == \A x \in Data \cup {<<>>} : x \in Seq(Bytes)
<1>1. ASSUME NEW x \in Data PROVE x \in Seq(Bytes)
  <2>1. x \in Seq({x[i] : i \in DOMAIN x})
    BY DataAssumption
  <2>2. \A i \in 1 .. Len(x) : x[i] \in Bytes
    BY <2>1 DEF Bytes
  <2>3. x \in [1 .. Len(x) -> Bytes] /\ Len(x) \in Nat
    <3>1. /\ Len(x) \in Nat /\ DOMAIN x = 1 .. Len(x)
          /\ x \in [1 .. Len(x) -> {x[i] : i \in DOMAIN x}]
      BY <2>1, LenProperties
    <3> QED BY <2>2, <3>1
  <2> QED BY <2>3, SeqDef
<1>2. <<>> \in Seq(Bytes)
  OBVIOUS
<1> QED BY <1>1, <1>2

(* A function on 1 .. n is a sequence of length n. *)
LEMMA FunctionIsSeq ==
  ASSUME NEW S, NEW n \in Nat, NEW f \in [1 .. n -> S]
  PROVE  f \in Seq(S) /\ Len(f) = n
<1>1. f \in Seq(S)
  BY SeqDef
<1> QED BY <1>1, LenProperties

(* What the server answers and what it leaves. *)
LEMMA AnswerType ==
  ASSUME NEW r, Proper(r), NEW fs \in [Name -> Seq(Bytes)]
  PROVE  Answer(r, fs) \in Seq(Bytes)
<1> DEFINE f == fs[r.name]
<1>1. f \in Seq(Bytes) /\ r.pos \in Nat
  BY DEF Proper, RequestType
<1>2. CASE r.kind = "read"
  <2>1. r.count \in Nat
    BY <1>2 DEF Proper
  <2> DEFINE n == Min({r.pos + r.count, Len(f)})
  <2>2. n \in Int /\ n <= Len(f)
    <3>1. r.pos + r.count \in Int /\ Len(f) \in Int
      BY <1>1, <2>1
    <3> HIDE DEF f
    <3> QED BY <3>1, MinOfTwo
  <2>3. Answer(r, fs) = SubSeq(f, r.pos + 1, n)
    BY <1>2 DEF Answer
  <2> HIDE DEF n, f
  <2>4. \A i \in r.pos + 1 .. n : f[i] \in Bytes
    BY <1>1, <2>2
  <2> QED BY <1>1, <2>2, <2>3, <2>4, SubSeqProperties
<1>3. CASE r.kind # "read"
  <2>1. r.data \in Seq(Bytes) /\ <<>> \in Seq(Bytes)
    BY DataIsBytes DEF Proper, RequestType
  <2> QED BY <1>3, <2>1 DEF Answer
<1> QED BY <1>2, <1>3

LEMMA WrittenFile ==
  ASSUME NEW r, Proper(r), r.kind = "write", NEW fs \in [Name -> Seq(Bytes)]
  PROVE  /\ Effect(r, fs) \in [Name -> Seq(Bytes)]
         /\ Len(Effect(r, fs)[r.name]) >= r.pos + Len(r.data)
         /\ \A i \in 1 .. Len(r.data) : Effect(r, fs)[r.name][r.pos + i] = r.data[i]
<1> DEFINE f   == fs[r.name]
           n   == Len(r.data)
           top == Max({Len(f), r.pos + n})
           g   == [i \in 1 .. top |-> IF i \in r.pos + 1 .. r.pos + n
                                      THEN r.data[i - r.pos] ELSE Byte(f, i)]
<1>1. f \in Seq(Bytes) /\ r.pos \in Nat /\ r.data \in Seq(Bytes) /\ r.name \in Name
  BY DataIsBytes DEF Proper, RequestType
<1>2. n \in Nat /\ Len(f) \in Nat
  BY <1>1
<1>3. top \in Nat /\ top >= r.pos + n
  <2>1. Len(f) \in Int /\ r.pos + n \in Int
    BY <1>1, <1>2
  <2> HIDE DEF f, n
  <2>2. top = IF Len(f) >= r.pos + n THEN Len(f) ELSE r.pos + n
    BY <2>1, MaxOfTwo
  <2> QED BY <1>1, <1>2, <2>2
<1>4. Effect(r, fs) = [fs EXCEPT ![r.name] = g]
  BY DEF Effect
<1> HIDE DEF f, top
<1>5. \A i \in 1 .. top : Byte(f, i) \in Bytes
  BY <1>1, <1>2, <1>3 DEF Byte, Bytes
<1>6. \A i \in r.pos + 1 .. r.pos + n : i - r.pos \in 1 .. n /\ r.data[i - r.pos] \in Bytes
  BY <1>1, <1>2
<1> HIDE DEF n
<1>7. g \in [1 .. top -> Bytes]
  BY <1>5, <1>6
<1>8. \A i \in 1 .. n : r.pos + i \in 1 .. top /\ g[r.pos + i] = r.data[i]
  <2>1. TAKE i \in 1 .. n
  <2>2. r.pos + i \in 1 .. top /\ r.pos + i \in r.pos + 1 .. r.pos + n /\ (r.pos + i) - r.pos = i
    BY <1>1, <1>2, <1>3
  <2> QED BY <2>2
<1> HIDE DEF g
<1>9. g \in Seq(Bytes) /\ Len(g) = top
  BY <1>3, <1>7, FunctionIsSeq
<1>10. Effect(r, fs) \in [Name -> Seq(Bytes)] /\ Effect(r, fs)[r.name] = g
  BY <1>1, <1>4, <1>9
<1> QED BY <1>3, <1>8, <1>9, <1>10 DEF n

LEMMA EffectType ==
  ASSUME NEW r, Proper(r), NEW fs \in [Name -> Seq(Bytes)]
  PROVE  Effect(r, fs) \in [Name -> Seq(Bytes)]
<1>1. CASE r.kind = "write"
  BY <1>1, WrittenFile
<1>2. CASE r.kind # "write"
  <2>1. <<>> \in Seq(Bytes)
    OBVIOUS
  <2> QED BY <1>2, <2>1 DEF Effect
<1> QED BY <1>1, <1>2

(* The files that the execution of a request leaves show what was answered. *)
LEMMA ServedShows ==
  ASSUME NEW r, Proper(r), NEW fs \in [Name -> Seq(Bytes)]
  PROVE  Shows(Effect(r, fs), r, Answer(r, fs))
<1>1. CASE r.kind = "read"
  BY <1>1 DEF Shows, Effect
<1>2. CASE r.kind = "write"
  <2> DEFINE g == Effect(r, fs)[r.name]
  <2>1. /\ Len(g) >= r.pos + Len(r.data)
        /\ \A i \in 1 .. Len(r.data) : g[r.pos + i] = r.data[i]
    BY <1>2, WrittenFile
  <2>2. /\ r.data \in Seq(Bytes) /\ r.pos \in Nat /\ g \in Seq(Bytes)
    BY <1>2, WrittenFile, DataIsBytes DEF Proper, RequestType
  <2> HIDE DEF g
  <2>3. \A i \in DOMAIN r.data : i \in 1 .. Len(r.data) /\ r.pos + i <= Len(g)
    BY <2>1, <2>2
  <2>4. \A i \in DOMAIN r.data : Byte(g, r.pos + i) = r.data[i]
    BY <2>1, <2>3 DEF Byte
  <2> QED BY <1>2, <2>4 DEF Shows, g
<1>3. CASE r.kind = "trunc"
  BY <1>3 DEF Shows, Effect, Proper
<1>4. CASE r.kind \notin {"read", "write", "trunc"}
  BY <1>4 DEF Shows
<1> QED BY <1>1, <1>2, <1>3, <1>4

-----------------------------------------------------------------------------
(***************************************************************************)
(* The turns: what a step does to rf_mutex and to the places.              *)
(***************************************************************************)
LEMMA AtInside ==
  ASSUME NEW p \in Proc, NEW here, here # "app", At(p, here)
  PROVE  Inside(p) /\ pc[p] = here
BY DEF At, Inside

(* Only a process at the beginning of its call waits for rf_mutex. *)
LEMMA BusyInside ==
  ASSUME RTypeOK, Turns, NEW p \in Proc, pc[p] \in Busy
  PROVE  Inside(p)
BY DEF RTypeOK, Turns, Busy, Inside, Waits

LEMMA TurnsSame ==
  ASSUME Turns, UNCHANGED <<rf_mutex, pc>>
  PROVE  Turns'
BY DEF Turns, Inside, Waits

LEMMA TurnsMove ==
  ASSUME RTypeOK, Turns, NEW p \in Proc, Inside(p), NEW c, c # "app",
         UNCHANGED rf_mutex, pc' = [pc EXCEPT ![p] = c]
  PROVE  Turns'
<1>1. \A q \in Proc : Inside(q)' <=> Inside(q)
  BY DEF RTypeOK, Inside, Waits
<1>2. \A i \in DOMAIN rf_mutex.queue : rf_mutex.queue[i] # p /\ rf_mutex.queue[i] \in Proc
  BY DEF RTypeOK, Inside, Waits
<1>3. \A i \in DOMAIN rf_mutex.queue : pc'[rf_mutex.queue[i]] = "begin"
  BY <1>2 DEF RTypeOK, Turns
<1> QED BY <1>1, <1>3 DEF Turns

LEMMA TurnsEnter ==
  ASSUME RTypeOK, Turns, NEW p \in Proc, pc[p] = "app",
         rf_mutex' = SemWait(rf_mutex, p), pc' = [pc EXCEPT ![p] = "begin"]
  PROVE  Turns'
<1> DEFINE q == rf_mutex.queue
           n == rf_mutex.count
<1>1. q \in Seq(Proc) /\ n \in Int /\ pc \in [Proc -> {"app", "begin", "send", "recv", "wait", "finish", "wild"}]
  BY DEF RTypeOK
<1>2. rf_mutex'.count = n - 1 /\ rf_mutex'.queue = IF n < 1 THEN Append(q, p) ELSE q
  BY DEF SemWait
<1>3. /\ \A i \in DOMAIN q : pc[q[i]] = "begin"
      /\ \A i, j \in DOMAIN q : q[i] = q[j] => i = j
      /\ \A x, y \in Proc : Inside(x) /\ Inside(y) => x = y
      /\ (\E x \in Proc : Inside(x)) => n = -Len(q)
      /\ (\A x \in Proc : ~Inside(x)) => n = 1 /\ q = <<>>
  BY DEF Turns
<1>4. \A x \in Proc : Inside(x) <=> pc[x] # "app" /\ ~ \E i \in DOMAIN q : q[i] = x
  BY DEF Inside, Waits
<1>5. \A x \in Proc : Inside(x)' <=> pc'[x] # "app" /\ ~ \E i \in DOMAIN rf_mutex'.queue : rf_mutex'.queue[i] = x
  BY DEF Inside, Waits
<1>6. \A i \in DOMAIN q : q[i] # p /\ q[i] \in Proc
  BY <1>1, <1>3
<1> HIDE DEF q, n
<1>7. CASE \E x \in Proc : Inside(x)
  <2>1. n = -Len(q) /\ n < 1
    BY <1>1, <1>3, <1>7
  <2> DEFINE t == Append(q, p)
  <2>2. rf_mutex'.queue = t /\ rf_mutex'.count = n - 1
    BY <1>2, <2>1
  <2>3. /\ t \in Seq(Proc) /\ Len(t) = Len(q) + 1 /\ DOMAIN t = 1 .. Len(q) + 1
        /\ t[Len(q) + 1] = p /\ \A i \in 1 .. Len(q) : t[i] = q[i]
        /\ DOMAIN q = 1 .. Len(q) /\ Len(q) \in Nat
    BY <1>1
  <2> HIDE DEF t
  <2>4. \A i \in DOMAIN t : pc'[t[i]] = "begin"
    BY <1>1, <1>3, <1>6, <2>3
  <2>5. \A i, j \in DOMAIN t : t[i] = t[j] => i = j
    BY <1>3, <1>6, <2>3
  <2>6. \A x \in Proc : Inside(x)' <=> Inside(x)
    <3>1. TAKE x \in Proc
    <3>2. CASE x = p
      BY <1>4, <1>5, <2>2, <2>3, <3>2
    <3>3. CASE x # p
      <4>1. (\E i \in DOMAIN t : t[i] = x) <=> (\E i \in DOMAIN q : q[i] = x)
        BY <2>3, <3>3
      <4> QED BY <1>1, <1>4, <1>5, <2>2, <3>3, <4>1
    <3> QED BY <3>2, <3>3
  <2>7. n - 1 = -Len(t)
    BY <1>1, <2>1, <2>3
  <2> QED BY <1>3, <1>7, <2>2, <2>4, <2>5, <2>6, <2>7 DEF Turns
<1>8. CASE \A x \in Proc : ~Inside(x)
  <2>1. n = 1 /\ q = <<>>
    BY <1>3, <1>8
  <2>2. rf_mutex'.queue = <<>> /\ rf_mutex'.count = 0
    BY <1>2, <2>1
  <2>3. \A x \in Proc : Inside(x)' <=> x = p
    BY <1>1, <1>4, <1>5, <1>8, <2>1, <2>2
  <2>4. /\ Len(rf_mutex'.queue) \in Nat /\ Len(rf_mutex'.queue) < 1
        /\ DOMAIN rf_mutex'.queue = {}
    BY <2>2
  <2>5. rf_mutex'.count = -Len(rf_mutex'.queue)
    <3>1. rf_mutex'.count = 0
      BY <2>2
    <3> QED BY <2>4, <3>1
  <2> QED BY <2>3, <2>4, <2>5 DEF Turns
<1> QED BY <1>7, <1>8

LEMMA TurnsLeave ==
  ASSUME RTypeOK, Turns, NEW p \in Proc, Inside(p),
         rf_mutex' = SemSignal(rf_mutex), pc' = [pc EXCEPT ![p] = "app"]
  PROVE  Turns'
<1> DEFINE q == rf_mutex.queue
           n == rf_mutex.count
<1>1. q \in Seq(Proc) /\ n \in Int /\ pc \in [Proc -> {"app", "begin", "send", "recv", "wait", "finish", "wild"}]
  BY DEF RTypeOK
<1>2. rf_mutex'.count = n + 1 /\ rf_mutex'.queue = IF q = <<>> THEN <<>> ELSE Tail(q)
  BY DEF SemSignal
<1>3. /\ \A i \in DOMAIN q : pc[q[i]] = "begin"
      /\ \A i, j \in DOMAIN q : q[i] = q[j] => i = j
      /\ \A x \in Proc : Inside(x) => x = p
      /\ n = -Len(q)
  BY DEF Turns
<1>4. \A x \in Proc : Inside(x) <=> pc[x] # "app" /\ ~ \E i \in DOMAIN q : q[i] = x
  BY DEF Inside, Waits
<1>5. \A x \in Proc : Inside(x)' <=> pc'[x] # "app" /\ ~ \E i \in DOMAIN rf_mutex'.queue : rf_mutex'.queue[i] = x
  BY DEF Inside, Waits
<1>6. \A i \in DOMAIN q : q[i] # p /\ q[i] \in Proc
  BY <1>1, <1>4
<1> HIDE DEF q, n
<1>7. CASE q = <<>>
  <2>1. rf_mutex'.queue = <<>> /\ rf_mutex'.count = 1
    BY <1>2, <1>3, <1>7
  <2>2. \A x \in Proc : ~Inside(x)'
    BY <1>1, <1>3, <1>4, <1>5, <1>7
  <2>3. Len(<<>>) = 0 /\ DOMAIN <<>> = {}
    OBVIOUS
  <2> QED BY <2>1, <2>2, <2>3 DEF Turns
<1>8. CASE q # <<>>
  <2> DEFINE t == Tail(q)
  <2>1. rf_mutex'.queue = t /\ rf_mutex'.count = n + 1
    BY <1>2, <1>8
  <2>2. /\ t \in Seq(Proc) /\ Len(t) = Len(q) - 1 /\ DOMAIN t = 1 .. Len(q) - 1
        /\ \A i \in 1 .. Len(q) - 1 : t[i] = q[i + 1]
        /\ DOMAIN q = 1 .. Len(q) /\ Len(q) \in Nat /\ Len(q) >= 1
    BY <1>1, <1>8, HeadTailProperties
  <2> HIDE DEF t
  <2>3. \A i \in DOMAIN t : i + 1 \in DOMAIN q /\ i + 1 # 1 /\ 1 \in DOMAIN q /\ t[i] = q[i + 1]
    BY <2>2
  <2>4. \A i \in DOMAIN t : pc'[t[i]] = "begin"
    BY <1>1, <1>3, <1>6, <2>3
  <2>5. \A i, j \in DOMAIN t : t[i] = t[j] => i = j
    <3>1. SUFFICES ASSUME NEW i \in DOMAIN t, NEW j \in DOMAIN t, t[i] = t[j] PROVE i = j
      OBVIOUS
    <3>2. i + 1 = j + 1
      BY <1>3, <2>3, <3>1
    <3> QED BY <2>2, <3>2
  <2>6. \A x \in Proc : Inside(x)' <=> x = q[1]
    <3>1. TAKE x \in Proc
    <3>2. CASE x = q[1]
      <4>1. pc'[x] = "begin"
        BY <1>1, <1>3, <1>6, <2>2, <3>2
      <4>2. ~ \E i \in DOMAIN t : t[i] = x
        BY <1>3, <2>3, <3>2
      <4> QED BY <1>5, <2>1, <3>2, <4>1, <4>2
    <3>3. CASE x # q[1] /\ x # p
      <4>1. pc'[x] = pc[x]
        BY <1>1, <3>3
      <4>2. ASSUME pc[x] # "app" PROVE \E i \in DOMAIN t : t[i] = x
        <5>1. PICK i \in DOMAIN q : q[i] = x
          BY <1>3, <1>4, <3>3, <4>2
        <5>2. i - 1 \in DOMAIN t /\ t[i - 1] = q[i]
          BY <2>2, <3>3, <5>1
        <5> QED BY <5>1, <5>2
      <4> QED BY <1>5, <2>1, <3>3, <4>1, <4>2
    <3>4. CASE x = p
      BY <1>1, <1>5, <1>6, <2>2, <3>4
    <3> QED BY <3>2, <3>3, <3>4
  <2>7. q[1] \in Proc /\ n + 1 = -Len(t)
    BY <1>1, <1>3, <2>2
  <2> QED BY <2>1, <2>4, <2>5, <2>6, <2>7 DEF Turns
<1> QED BY <1>7, <1>8

-----------------------------------------------------------------------------
(***************************************************************************)
(* The outcome of one round of rfscomm for p: it goes on, or it is done    *)
(* with a reply to its request, or with an error that has its cause, or it *)
(* has taken a packet that was not there because of a foreign message.     *)
(***************************************************************************)
Outcome(p) ==
    \E l \in LocalType, c \in {"send", "finish", "wild"} :
        /\ local' = [local EXCEPT ![p] = l]
        /\ pc' = [pc EXCEPT ![p] = c]
        /\ l.call = local[p].call /\ l.req = local[p].req
        /\ c = "wild" => p \in struck
        /\ \/ l.res = local[p].res /\ l.val = local[p].val
           \/ l.res \in {"REFUSED", "TIMEOUT"}
           \/ l.res = "SYSERR" /\ c = "finish" /\ p \in struck
           \/ l.res = "OK" /\ \E r \in replies : r.ok /\ r.seq = l.req.seq /\ r.val = l.val

LEMMA RetryOutcome ==
  ASSUME RTypeOK, NEW p \in Proc, Retry(p)
  PROVE  Outcome(p)
<1>1. local[p] \in LocalType /\ local[p].tries \in Nat
  BY DEF RTypeOK, LocalType
<1>2. CASE local[p].tries + 1 < RF_RETRIES
  <2> DEFINE l == [local[p] EXCEPT !.tries = @ + 1]
  <2>1. l \in LocalType /\ l.call = local[p].call /\ l.req = local[p].req
        /\ l.res = local[p].res /\ l.val = local[p].val
    BY <1>1 DEF LocalType
  <2>2. local' = [local EXCEPT ![p] = l] /\ pc' = [pc EXCEPT ![p] = "send"]
    BY <1>2 DEF Retry, Keep, GoTo
  <2> HIDE DEF l
  <2> QED BY <2>1, <2>2 DEF Outcome
<1>3. CASE ~(local[p].tries + 1 < RF_RETRIES)
  <2> DEFINE l == [local[p] EXCEPT !.res = "TIMEOUT", !.val = <<>>]
  <2>0. <<>> \in Seq(Bytes)
    OBVIOUS
  <2>1. l \in LocalType /\ l.call = local[p].call /\ l.req = local[p].req /\ l.res = "TIMEOUT"
    BY <1>1, <2>0 DEF LocalType
  <2>2. local' = [local EXCEPT ![p] = l] /\ pc' = [pc EXCEPT ![p] = "finish"]
    BY <1>3 DEF Retry, Done, Keep, GoTo
  <2> HIDE DEF l
  <2> QED BY <2>1, <2>2 DEF Outcome
<1> QED BY <1>2, <1>3

LEMMA DoneOutcome ==
  ASSUME RTypeOK, NEW p \in Proc, NEW res \in {"OK", "REFUSED", "SYSERR"}, NEW val \in Seq(Bytes),
         Done(p, res, val),
         res = "SYSERR" => p \in struck,
         res = "OK" => \E r \in replies : r.ok /\ r.seq = local[p].req.seq /\ r.val = val
  PROVE  Outcome(p)
<1> DEFINE l == [local[p] EXCEPT !.res = res, !.val = val]
<1>1. local[p] \in LocalType
  BY DEF RTypeOK
<1>2. l \in LocalType /\ l.call = local[p].call /\ l.req = local[p].req /\ l.res = res /\ l.val = val
  BY <1>1 DEF LocalType
<1>3. local' = [local EXCEPT ![p] = l] /\ pc' = [pc EXCEPT ![p] = "finish"]
  BY DEF Done, Keep, GoTo
<1> HIDE DEF l
<1> QED BY <1>2, <1>3 DEF Outcome

LEMMA DequeueOutcome ==
  ASSUME RTypeOK, Sequenced, NEW p \in Proc, udqueue # <<>>, Dequeue(p)
  PROVE  /\ Outcome(p)
         /\ udqueue' \in Seq(ReplyType)
         /\ \A i \in DOMAIN udqueue' : udqueue'[i] \in replies
<1> DEFINE r == Head(udqueue)
<1>1. udqueue \in Seq(ReplyType) /\ udqueue' = Tail(udqueue)
  BY DEF RTypeOK, Dequeue
<1>2. r = udqueue[1] /\ 1 \in DOMAIN udqueue /\ r \in ReplyType
  BY <1>1
<1>3. r \in replies /\ r.val \in Seq(Bytes)
  BY <1>2 DEF Sequenced, ReplyType
<1>4. Outcome(p)
  <2>1. CASE Matches(p, r)
    <3>1. Done(p, IF r.ok THEN "OK" ELSE "REFUSED", r.val) /\ r.seq = local[p].req.seq
      BY <2>1 DEF Dequeue, Matches
    <3> HIDE DEF r
    <3> QED BY <1>3, <3>1, DoneOutcome
  <2>2. CASE ~Matches(p, r)
    BY <2>2, RetryOutcome DEF Dequeue
  <2> QED BY <2>1, <2>2
<1>5. /\ udqueue' \in Seq(ReplyType) /\ DOMAIN udqueue' = 1 .. Len(udqueue) - 1
      /\ \A i \in 1 .. Len(udqueue) - 1 : udqueue'[i] = udqueue[i + 1] /\ i + 1 \in DOMAIN udqueue
  BY <1>1, HeadTailProperties
<1> QED BY <1>4, <1>5 DEF Sequenced

(* The parts of the invariant after a round. *)
LEMMA OutcomeInv ==
  ASSUME RInv, NEW p \in Proc, pc[p] \in {"recv", "wait"}, Outcome(p),
         UNCHANGED <<rf_mutex, rf_seq, rfltab, struck, net>>
  PROVE  /\ local' \in [Proc -> LocalType]
         /\ pc' \in [Proc -> {"app", "begin", "send", "recv", "wait", "finish", "wild"}]
         /\ Turns' /\ Exchange' /\ Named'
         /\ \A q \in Proc : local'[q].res = "SYSERR" => pc'[q] = "finish" /\ q \in struck
         /\ \A q \in Proc : pc'[q] = "wild" => q \in struck
<1> USE DEF RInv
<1>0. pc[p] \in Busy
  BY DEF Busy
<1>1. PICK l \in LocalType, c \in {"send", "finish", "wild"} :
        /\ local' = [local EXCEPT ![p] = l] /\ pc' = [pc EXCEPT ![p] = c]
        /\ l.call = local[p].call /\ l.req = local[p].req
        /\ c = "wild" => p \in struck
        /\ \/ l.res = local[p].res /\ l.val = local[p].val
           \/ l.res \in {"REFUSED", "TIMEOUT"}
           \/ l.res = "SYSERR" /\ c = "finish" /\ p \in struck
           \/ l.res = "OK" /\ \E r \in replies : r.ok /\ r.seq = l.req.seq /\ r.val = l.val
  BY DEF Outcome
<1>2. /\ local \in [Proc -> LocalType]
      /\ pc \in [Proc -> {"app", "begin", "send", "recv", "wait", "finish", "wild"}]
  BY DEF RTypeOK
<1>3. /\ local' \in [Proc -> LocalType]
      /\ pc' \in [Proc -> {"app", "begin", "send", "recv", "wait", "finish", "wild"}]
      /\ local'[p] = l /\ pc'[p] = c
      /\ \A q \in Proc : q # p => local'[q] = local[q] /\ pc'[q] = pc[q]
      /\ \A q \in Proc : local'[q].call = local[q].call /\ local'[q].req = local[q].req
      /\ \A q \in Proc : pc'[q] \in Busy <=> pc[q] \in Busy
      /\ \A q \in Proc : pc'[q] # "app" <=> pc[q] # "app"
  BY <1>0, <1>1, <1>2 DEF Busy
<1>4. Turns'
  BY <1>0, <1>1, BusyInside, TurnsMove
<1>5. /\ \A q \in Proc : local'[q].res = "SYSERR" => pc'[q] = "finish" /\ q \in struck
      /\ \A q \in Proc : pc'[q] = "wild" => q \in struck
  BY <1>1, <1>3 DEF Endpoint
<1>6. \A q \in Proc : Answered(q)' <=> Answered(q)
  BY <1>3 DEF Answered, Proper, net
<1>7. ReplyCurrent'
  <2>1. SUFFICES ASSUME NEW q \in Proc, local'[q].res = "OK"
                 PROVE  \E fs \in window : Shows(fs, local'[q].req, local'[q].val)
    BY DEF ReplyCurrent, net
  <2>2. CASE q # p \/ (l.res = local[p].res /\ l.val = local[p].val)
    BY <1>1, <1>3, <2>1, <2>2 DEF Exchange, ReplyCurrent
  <2>3. CASE q = p /\ \E r \in replies : r.ok /\ r.seq = l.req.seq /\ r.val = l.val
    BY <1>0, <1>1, <1>3, <2>3 DEF Exchange, Answered
  <2> QED BY <1>1, <1>3, <2>1, <2>2, <2>3
<1>8. Exchange'
  BY <1>0, <1>3, <1>6, <1>7 DEF Exchange
<1>9. Named'
  BY <1>3 DEF Named, Entry, FreeEntries
<1> QED BY <1>3, <1>4, <1>5, <1>8, <1>9

-----------------------------------------------------------------------------
(***************************************************************************)
(* The initial state, and the steps of the calls.                          *)
(***************************************************************************)
LEMMA NoLocalType == NoLocal \in LocalType /\ NoCall \in CallType
<1>1. 0 \in Dev /\ <<>> \in Seq(Bytes)
  BY RemoteSizesAssumption DEF Dev
<1>2. NoCall \in CallType
  BY <1>1 DEF NoCall, CallType, AllNames
<1>3. NoRequest \in RequestType
  BY DEF NoRequest, RequestType, AllNames
<1> QED BY <1>1, <1>2, <1>3 DEF NoLocal, LocalType

LEMMA InitInv == Init => RInv
<1>1. SUFFICES ASSUME Init PROVE RInv
  OBVIOUS
<1> USE <1>1 DEF Init
<1>2. RTypeOK
  <2>1. rf_mutex \in [count : Int, queue : Seq(Proc)] /\ udqueue \in Seq(ReplyType)
    OBVIOUS
  <2>2. rfltab \in [Dev -> EntryType]
    BY FirstAssumption DEF EntryType, AllNames
  <2>3. files \in [Name -> Seq(Bytes)]
    OBVIOUS
  <2>4. local \in [Proc -> LocalType]
    BY NoLocalType
  <2> QED BY <2>1, <2>2, <2>3, <2>4 DEF RTypeOK
<1>3. Turns
  <2>1. DOMAIN <<>> = {}
    OBVIOUS
  <2> QED BY <2>1 DEF Turns, Inside
<1>4. Endpoint
  BY DEF Endpoint, NoLocal
<1>5. Sequenced
  BY DEF Sequenced
<1>6. Exchange
  BY DEF Exchange, ReplyCurrent, NoLocal, Busy
<1>7. Named
  BY FirstAssumption DEF Named, NoLocal, NoCall, Busy
<1> QED BY <1>2, <1>3, <1>4, <1>5, <1>6, <1>7 DEF RInv

(* What a process may call. *)
LEMMA CallsTyped ==
  ASSUME NEW c \in Calls
  PROVE  /\ c \in CallType /\ c.kind # "none"
         /\ c.kind \in {"open", "trunc"} => c.name \in Name
         /\ c.kind = "seek" => c.count = 0
<1>1. 0 \in Dev
  BY RemoteSizesAssumption DEF Dev
<1> QED BY <1>1 DEF Calls, CallType, Asked, AllNames

LEMMA EnterStep ==
  ASSUME RInv, NEW p \in Proc, NEW c \in Calls, Enter(p, c)
  PROVE  RInv'
<1> USE DEF RInv
<1> DEFINE l == [NoLocal EXCEPT !.call = c]
<1>1. /\ pc[p] = "app" /\ rf_mutex' = SemWait(rf_mutex, p)
      /\ pc' = [pc EXCEPT ![p] = "begin"] /\ local' = [local EXCEPT ![p] = l]
      /\ UNCHANGED <<rf_seq, rfltab, udp, net>>
  BY DEF Enter, GoTo, Keep
<1>2. /\ l \in LocalType /\ l.res = "none" /\ l.call = c
  BY CallsTyped, NoLocalType DEF LocalType, NoLocal
<1>3. /\ local \in [Proc -> LocalType]
      /\ pc \in [Proc -> {"app", "begin", "send", "recv", "wait", "finish", "wild"}]
  BY DEF RTypeOK
<1> HIDE DEF l
<1>4. /\ local' \in [Proc -> LocalType]
      /\ pc' \in [Proc -> {"app", "begin", "send", "recv", "wait", "finish", "wild"}]
      /\ local'[p] = l /\ pc'[p] = "begin"
      /\ \A q \in Proc : q # p => local'[q] = local[q] /\ pc'[q] = pc[q]
      /\ \A q \in Proc : pc'[q] \in Busy <=> pc[q] \in Busy
      /\ \A q \in Proc : pc'[q] \in Busy => q # p
  BY <1>1, <1>2, <1>3 DEF Busy
<1>5. RTypeOK'
  <2>1. rf_mutex' \in [count : Int, queue : Seq(Proc)]
    BY <1>1 DEF RTypeOK, SemWait
  <2> QED BY <1>1, <1>4, <2>1 DEF RTypeOK, udp, net
<1>6. Turns'
  BY <1>1, TurnsEnter
<1>7. Endpoint'
  BY <1>1, <1>2, <1>4 DEF Endpoint, udp
<1>8. Sequenced'
  BY <1>1 DEF Sequenced, udp, net
<1>9. Exchange'
  <2>1. \A q \in Proc : q # p => (Answered(q)' <=> Answered(q))
    BY <1>1, <1>4 DEF Answered, Proper, net
  <2>2. ReplyCurrent'
    BY <1>1, <1>2, <1>4 DEF Exchange, ReplyCurrent, net
  <2> QED BY <1>2, <1>4, <2>1, <2>2 DEF Exchange
<1>10. Named'
  <2>1. c.kind # "none" /\ (c.kind \in {"open", "trunc"} => c.name \in Name)
        /\ (c.kind = "seek" => c.count = 0)
    BY CallsTyped
  <2> QED BY <1>1, <1>2, <1>4, <2>1 DEF Named, Entry, FreeEntries
<1> QED BY <1>5, <1>6, <1>7, <1>8, <1>9, <1>10

(* Every way out of a call. *)
LEMMA LeaveStep ==
  ASSUME RInv, NEW p \in Proc, Inside(p), pc[p] \in {"begin", "finish"}, Leave(p),
         rfltab' \in [Dev -> EntryType],
         \A d \in Dev : rfltab'[d].state = "USED" => rfltab'[d].name \in Name
  PROVE  RInv'
<1> USE DEF RInv
<1>1. /\ rf_mutex' = SemSignal(rf_mutex) /\ pc' = [pc EXCEPT ![p] = "app"]
      /\ local' = [local EXCEPT ![p] = NoLocal] /\ prmsg' = [prmsg EXCEPT ![p] = "none"]
      /\ struck' = struck \ {p} /\ window' = {}
      /\ UNCHANGED <<rf_seq, udstate, udpid, udqueue, timed, requests, replies, files>>
  BY DEF Leave, Released, GoTo, Keep
<1>2. /\ local \in [Proc -> LocalType] /\ prmsg \in [Proc -> {"none", "OK", "other"}]
      /\ pc \in [Proc -> {"app", "begin", "send", "recv", "wait", "finish", "wild"}]
  BY DEF RTypeOK
<1>3. /\ local' \in [Proc -> LocalType] /\ prmsg' \in [Proc -> {"none", "OK", "other"}]
      /\ pc' \in [Proc -> {"app", "begin", "send", "recv", "wait", "finish", "wild"}]
      /\ local'[p] = NoLocal /\ pc'[p] = "app" /\ prmsg'[p] = "none"
      /\ \A q \in Proc : q # p => local'[q] = local[q] /\ pc'[q] = pc[q] /\ prmsg'[q] = prmsg[q]
  BY <1>1, <1>2, NoLocalType
<1>4. \A q \in Proc : pc[q] \in Busy => q = p
  BY BusyInside DEF Turns
<1>5. RTypeOK'
  <2>1. rf_mutex' \in [count : Int, queue : Seq(Proc)]
    BY <1>1 DEF RTypeOK, SemSignal
  <2> QED BY <1>1, <1>3, <2>1 DEF RTypeOK
<1>6. Turns'
  BY <1>1, TurnsLeave
<1>7. Endpoint'
  <2>1. \A q \in Proc : pc[q] = "wait" => q # p
    OBVIOUS
  <2> QED BY <1>1, <1>3, <2>1 DEF Endpoint, NoLocal
<1>8. Sequenced'
  BY <1>1 DEF Sequenced
<1>9. \A q \in Proc : pc'[q] \notin Busy
  BY <1>3, <1>4 DEF Busy
<1>10. Exchange'
  <2>1. \A q \in Proc : local'[q].res = "none"
    BY <1>3, <1>4 DEF Exchange, NoLocal
  <2> QED BY <1>9, <2>1 DEF Exchange, ReplyCurrent
<1>11. Named'
  BY <1>3, <1>9 DEF Named, NoLocal, NoCall
<1> QED BY <1>5, <1>6, <1>7, <1>8, <1>10, <1>11

(* What rfsopen changes before it asks the server: the name and the mode   *)
(* of a free entry, which is still the first one then.                     *)
LEMMA PreparedEntry ==
  ASSUME RTypeOK, NEW c \in CallType, c.kind = "open" => c.name \in Name
  PROVE  /\ Prepared(c) \in [Dev -> EntryType]
         /\ \A d \in Dev : Prepared(c)[d].state = rfltab[d].state
         /\ \A d \in Dev : rfltab[d].state = "USED" => Prepared(c)[d] = rfltab[d]
         /\ c.kind = "open" /\ FreeEntries # {} => Prepared(c)[Min(FreeEntries)].name = c.name
<1>1. rfltab \in [Dev -> EntryType] /\ c.mode \in Modes \cup {{}} /\ c.name \in AllNames
  BY DEF RTypeOK, CallType
<1>2. CASE c.kind = "open" /\ FreeEntries # {}
  <2> DEFINE e == Min(FreeEntries)
             x == [rfltab[e] EXCEPT !.name = c.name, !.mode = c.mode]
  <2>1. e \in Dev /\ rfltab[e].state = "FREE"
    <3>1. FreeEntries \in SUBSET Nat
      BY RemoteSizesAssumption DEF FreeEntries, Dev
    <3>2. e \in FreeEntries
      BY <1>2, <3>1, SmallestOf
    <3> QED BY <3>2 DEF FreeEntries
  <2>2. Prepared(c) = [rfltab EXCEPT ![e] = x]
    BY <1>1, <1>2, <2>1 DEF Prepared, Entry
  <2>3. x \in EntryType /\ x.state = rfltab[e].state /\ x.name = c.name
    BY <1>1, <2>1 DEF EntryType
  <2> HIDE DEF e, x
  <2> QED BY <1>1, <2>1, <2>2, <2>3 DEF e
<1>3. CASE ~(c.kind = "open" /\ FreeEntries # {})
  BY <1>1, <1>3 DEF Prepared
<1> QED BY <1>2, <1>3

LEMMA CallTyped ==
  ASSUME RTypeOK, Named, NEW p \in Proc
  PROVE  /\ local[p].call \in CallType
         /\ local[p].call.kind = "open" => local[p].call.name \in Name
BY DEF RTypeOK, LocalType, Named

LEMMA RejectStep ==
  ASSUME RInv, NEW p \in Proc, Reject(p)
  PROVE  RInv'
<1> DEFINE c == local[p].call
<1>1. Inside(p) /\ pc[p] = "begin" /\ rfltab' = Prepared(c) /\ Leave(p)
  BY AtInside DEF Reject
<1>2. /\ rfltab' \in [Dev -> EntryType]
      /\ \A d \in Dev : rfltab'[d].state = "USED" => rfltab'[d].name \in Name
  BY <1>1, CallTyped, PreparedEntry DEF RInv, Named
<1> QED BY <1>1, <1>2, LeaveStep

LEMMA RflSeekStep ==
  ASSUME RInv, NEW p \in Proc, RflSeek(p)
  PROVE  RInv'
<1> DEFINE c == local[p].call
<1>1. Inside(p) /\ pc[p] = "begin" /\ Leave(p)
  BY AtInside DEF RflSeek
<1>2. /\ c.dev \in Dev /\ c.count = 0 /\ rfltab' = [rfltab EXCEPT ![c.dev].pos = c.count]
      /\ rfltab \in [Dev -> EntryType]
  BY CallTyped DEF RflSeek, RInv, Named, CallType, RTypeOK
<1> HIDE DEF c
<1>3. /\ rfltab' \in [Dev -> EntryType]
      /\ \A d \in Dev : rfltab'[d].state = rfltab[d].state /\ rfltab'[d].name = rfltab[d].name
  BY <1>2 DEF EntryType
<1> QED BY <1>1, <1>3, LeaveStep DEF RInv, Named

LEMMA RflCloseStep ==
  ASSUME RInv, NEW p \in Proc, RflClose(p)
  PROVE  RInv'
<1> DEFINE c == local[p].call
<1>1. Inside(p) /\ pc[p] = "begin" /\ Leave(p)
  BY AtInside DEF RflClose
<1>2. /\ c.dev \in Dev /\ rfltab' = [rfltab EXCEPT ![c.dev].state = "FREE"]
      /\ rfltab \in [Dev -> EntryType]
  BY CallTyped DEF RflClose, RInv, CallType, RTypeOK
<1> HIDE DEF c
<1>3. /\ rfltab' \in [Dev -> EntryType]
      /\ \A d \in Dev : rfltab'[d].state = "USED" =>
            rfltab[d].state = "USED" /\ rfltab'[d].name = rfltab[d].name
  BY <1>2 DEF EntryType
<1> QED BY <1>1, <1>3, LeaveStep DEF RInv, Named

(* The entry of an open is used from now on: its name was filled in before *)
(* the request went out.                                                   *)
LEMMA FinishStep ==
  ASSUME RInv, NEW p \in Proc, Finish(p)
  PROVE  RInv'
<1> DEFINE c == local[p].call
           d == Entry(c)
           n == Len(local[p].val)
<1>1. Inside(p) /\ pc[p] = "finish" /\ Leave(p) /\ rfltab' = Advanced(p)
  BY AtInside DEF Finish
<1>2. /\ c.dev \in Dev /\ n \in Nat
      /\ rfltab \in [Dev -> EntryType]
      /\ c.kind = "open" => rfltab[d].name \in Name
  BY <1>1 DEF RInv, CallType, RTypeOK, LocalType, Named, Busy
<1>3. CASE rfltab' = rfltab
  BY <1>1, <1>2, <1>3, LeaveStep DEF RInv, Named
<1>4. CASE c.kind = "open" /\ rfltab' = [rfltab EXCEPT ![d].state = "USED", ![d].pos = 0]
  <2> HIDE DEF d
  <2>1. /\ rfltab' \in [Dev -> EntryType]
        /\ \A e \in Dev : rfltab'[e].name = rfltab[e].name
        /\ \A e \in Dev : e # d => rfltab'[e] = rfltab[e]
    BY <1>2, <1>4 DEF EntryType
  <2>2. \A e \in Dev : rfltab'[e].state = "USED" => rfltab'[e].name \in Name
    BY <1>2, <1>4, <2>1 DEF RInv, Named
  <2> QED BY <1>1, <2>1, <2>2, LeaveStep
<1>5. CASE c.kind \in {"read", "write"} /\ rfltab' = [rfltab EXCEPT ![c.dev].pos = @ + n]
  <2> HIDE DEF c, n
  <2>1. /\ rfltab' \in [Dev -> EntryType]
        /\ \A e \in Dev : rfltab'[e].state = rfltab[e].state /\ rfltab'[e].name = rfltab[e].name
    BY <1>2, <1>5 DEF EntryType
  <2> QED BY <1>1, <2>1, LeaveStep DEF RInv, Named
<1>6. c.kind \in {"read", "write"} => d = c.dev
  BY DEF Entry
<1> HIDE DEF d
<1>7. \/ rfltab' = rfltab
      \/ c.kind = "open" /\ rfltab' = [rfltab EXCEPT ![d].state = "USED", ![d].pos = 0]
      \/ c.kind \in {"read", "write"} /\ rfltab' = [rfltab EXCEPT ![d].pos = @ + n]
  BY <1>1 DEF Advanced, d
<1> QED BY <1>3, <1>4, <1>5, <1>6, <1>7

(* A request gets a number that no request and no reply had before. *)
LEMMA BeginStep ==
  ASSUME RInv, NEW p \in Proc, Begin(p)
  PROVE  RInv'
<1> USE DEF RInv
<1> DEFINE c == local[p].call
           l == [local[p] EXCEPT !.req = Request(c)]
<1>1. /\ Inside(p) /\ pc[p] = "begin" /\ Legal(c)
      /\ c.kind \notin {"seek", "close"} /\ rfltab' = Prepared(c) /\ rf_seq' = rf_seq + 1
      /\ local' = [local EXCEPT ![p] = l] /\ pc' = [pc EXCEPT ![p] = "send"] /\ window' = {files}
      /\ UNCHANGED <<rf_mutex, udp, requests, replies, files>>
  BY AtInside DEF Begin, Keep, GoTo
<1>2. UNCHANGED <<udstate, udpid, udqueue, prmsg, timed, struck>>
  BY <1>1 DEF udp
<1>3. /\ local \in [Proc -> LocalType] /\ local[p] \in LocalType /\ rf_seq \in Nat
      /\ rfltab \in [Dev -> EntryType]
      /\ pc \in [Proc -> {"app", "begin", "send", "recv", "wait", "finish", "wild"}]
      /\ c \in CallType /\ c.kind \in Asked /\ c.dev \in Dev
      /\ c.kind \in {"open", "trunc"} => c.name \in Name
  BY <1>1 DEF RTypeOK, LocalType, CallType, Named
<1>4. Proper(Request(c)) /\ Request(c).seq = rf_seq
  <2>1. c.kind = "read" => c.count \in Nat /\ rfltab[c.dev].name \in Name
    BY <1>1, <1>3, RemoteSizesAssumption DEF Legal, Allows, Named
  <2>2. c.kind = "write" => rfltab[c.dev].name \in Name
    BY <1>1, <1>3 DEF Legal, Allows, Named
  <2>3. rfltab[c.dev].pos \in Nat /\ c.count \in Counts \cup {0} /\ c.data \in Data \cup {<<>>}
    BY <1>3 DEF EntryType, CallType
  <2> HIDE DEF c
  <2> QED BY <1>3, <2>1, <2>2, <2>3 DEF Request, Proper, RequestType, AllNames, Asked
<1>5. l \in LocalType /\ l.call = c /\ l.req = Request(c) /\ l.res = "none"
  <2>1. local[p].res = "none"
    BY <1>1 DEF Exchange, Busy
  <2>2. Request(c) \in RequestType
    BY <1>4 DEF Proper
  <2> HIDE DEF c
  <2>3. l \in LocalType /\ l.call = local[p].call /\ l.req = Request(c) /\ l.res = local[p].res
    BY <1>3, <2>2 DEF LocalType
  <2> QED BY <2>1, <2>3 DEF c
<1> HIDE DEF l
<1>6. /\ local' \in [Proc -> LocalType]
      /\ pc' \in [Proc -> {"app", "begin", "send", "recv", "wait", "finish", "wild"}]
      /\ local'[p] = l /\ pc'[p] = "send"
      /\ \A q \in Proc : q # p => local'[q] = local[q] /\ pc'[q] = pc[q]
      /\ \A q \in Proc : local'[q].call = local[q].call /\ local'[q].res = local[q].res
  BY <1>1, <1>3, <1>5 DEF Exchange, Busy
<1>7. \A q \in Proc : pc[q] \notin Busy
  BY <1>1, BusyInside DEF Turns, Busy
<1>8. /\ rfltab' \in [Dev -> EntryType]
      /\ \A d \in Dev : rfltab'[d].state = rfltab[d].state
      /\ \A d \in Dev : rfltab[d].state = "USED" => rfltab'[d] = rfltab[d]
      /\ c.kind = "open" => FreeEntries # {} /\ rfltab'[Min(FreeEntries)].name = c.name
  <2>1. c.kind = "open" => FreeEntries # {}
    BY <1>1 DEF Legal
  <2> HIDE DEF c
  <2> QED BY <1>1, <1>3, <2>1, PreparedEntry
<1>9. RTypeOK'
  BY <1>1, <1>2, <1>3, <1>6, <1>8 DEF RTypeOK
<1>10. Turns'
  BY <1>1, TurnsMove
<1>11. Endpoint'
  <2>1. \A q \in Proc : pc[q] = "wait" => q # p
    BY <1>1
  <2> QED BY <1>1, <1>2, <1>6, <2>1 DEF Endpoint
<1>12. Sequenced'
  BY <1>1, <1>2, <1>9 DEF Sequenced, RTypeOK, Proper, RequestType, ReplyType
<1>13. Exchange'
  <2>1. Answered(p)'
    <3>1. Proper(local'[p].req) /\ local'[p].req.seq = rf_seq /\ rf_seq < rf_seq'
      BY <1>1, <1>3, <1>4, <1>5, <1>6
    <3>2. \A r \in requests \cup replies : r.seq # rf_seq
      BY <1>3 DEF Sequenced
    <3> QED BY <1>1, <3>1, <3>2 DEF Answered
  <2>2. \A q \in Proc : local'[q].res = "none"
    BY <1>6, <1>7 DEF Exchange
  <2>3. \A q \in Proc : pc'[q] \in Busy => q = p
    BY <1>6, <1>7
  <2> QED BY <2>1, <2>2, <2>3 DEF Exchange, ReplyCurrent
<1>14. Named'
  <2>1. \A q \in Proc : pc'[q] \in Busy => q = p
    BY <1>6, <1>7
  <2>2. FreeEntries' = FreeEntries
    BY <1>8 DEF FreeEntries
  <2>3. local'[p].call.kind = "open" => rfltab'[Entry(local[p].call)'].name \in Name
    BY <1>3, <1>6, <1>8, <2>2 DEF Entry
  <2>4. \A q \in Proc : pc'[q] # "app" => local[q].call.kind # "none"
    BY <1>1, <1>6 DEF Named
  <2> QED BY <1>6, <1>8, <2>1, <2>3, <2>4 DEF Named
<1> QED BY <1>9, <1>10, <1>11, <1>12, <1>13, <1>14

LEMMA SendStep ==
  ASSUME RInv, NEW p \in Proc, Send(p)
  PROVE  RInv'
<1> USE DEF RInv
<1> DEFINE r == local[p].req
<1>1. /\ Inside(p) /\ pc[p] = "send" /\ requests' = requests \cup {r} /\ pc' = [pc EXCEPT ![p] = "recv"]
      /\ struck' = struck \ {p}
      /\ UNCHANGED <<rf_mutex, rf_seq, rfltab, udstate, udpid, udqueue, prmsg, timed, local,
                     replies, files, window>>
  BY AtInside DEF Send, GoTo
<1>2. /\ pc \in [Proc -> {"app", "begin", "send", "recv", "wait", "finish", "wild"}]
      /\ pc' \in [Proc -> {"app", "begin", "send", "recv", "wait", "finish", "wild"}]
      /\ \A q \in Proc : q # p => pc'[q] = pc[q]
      /\ pc'[p] = "recv"
  BY <1>1 DEF RTypeOK
<1>3. Proper(r) /\ r.seq < rf_seq
  BY <1>1 DEF Exchange, Busy, Answered
<1>4. \A q \in Proc : pc'[q] \in Busy => q = p /\ pc[q] \in Busy
  BY <1>1, <1>2, BusyInside DEF Turns, Busy
<1>5. RTypeOK'
  <2>1. \A x \in requests' : Proper(x)
    BY <1>1, <1>3 DEF RTypeOK
  <2> QED BY <1>1, <1>2, <2>1 DEF RTypeOK, Proper
<1>6. Turns'
  BY <1>1, TurnsMove
<1>7. Endpoint'
  BY <1>1, <1>2 DEF Endpoint
<1>8. Sequenced'
  BY <1>1, <1>3 DEF Sequenced
<1>9. Exchange'
  <2>1. Answered(p)'
    BY <1>1, <1>3 DEF Exchange, Answered, Proper, Busy
  <2>2. \A q \in Proc : pc'[q] \notin Busy => pc[q] \notin Busy
    BY <1>2 DEF Busy
  <2> QED BY <1>1, <1>4, <2>1, <2>2 DEF Exchange, ReplyCurrent
<1>10. Named'
  BY <1>1, <1>2, <1>4 DEF Named, Entry, FreeEntries
<1> QED BY <1>5, <1>6, <1>7, <1>8, <1>9, <1>10

-----------------------------------------------------------------------------
(***************************************************************************)
(* The endpoint, its messages and its timer.                               *)
(***************************************************************************)
(* In udp_recv nobody else is at the endpoint. *)
LEMMA EndpointFree ==
  ASSUME RInv, NEW p \in Proc, Inside(p), pc[p] # "wait"
  PROVE  udstate = "USED" /\ timed = {} /\ \A q \in Proc : prmsg[q] # "OK"
<1> USE DEF RInv
<1>1. \A q \in Proc : pc[q] # "wait"
  BY BusyInside DEF Turns, Busy
<1>2. udstate = "USED"
  BY <1>1 DEF Endpoint, RTypeOK
<1> QED BY <1>1, <1>2 DEF Endpoint, RTypeOK

LEMMA UdpRecvStep ==
  ASSUME RInv, NEW p \in Proc, UdpRecv(p)
  PROVE  RInv'
<1> USE DEF RInv
<1>1. /\ Inside(p) /\ pc[p] = "recv" /\ pc[p] \in Busy
      /\ UNCHANGED <<rf_mutex, rf_seq, rfltab, struck, net>>
  BY AtInside DEF UdpRecv, Busy
<1>2. udstate = "USED" /\ timed = {} /\ \A q \in Proc : prmsg[q] # "OK"
  BY <1>1, EndpointFree
<1>3. CASE udqueue = <<>>
  <2>1. /\ udstate' = "RECV" /\ udpid' = p /\ prmsg' = [prmsg EXCEPT ![p] = "none"]
        /\ timed' \subseteq {p} /\ pc' = [pc EXCEPT ![p] = "wait"]
        /\ udqueue' = udqueue /\ local' = local
    BY <1>2, <1>3 DEF UdpRecv, UdpWait, Recvclr, GoTo
  <2>2. /\ pc \in [Proc -> {"app", "begin", "send", "recv", "wait", "finish", "wild"}]
        /\ pc' \in [Proc -> {"app", "begin", "send", "recv", "wait", "finish", "wild"}]
        /\ prmsg' \in [Proc -> {"none", "OK", "other"}] /\ prmsg'[p] = "none"
        /\ pc'[p] = "wait" /\ \A q \in Proc : q # p => pc'[q] = pc[q] /\ prmsg'[q] = prmsg[q]
        /\ \A q \in Proc : pc'[q] \in Busy <=> pc[q] \in Busy
        /\ \A q \in Proc : pc'[q] # "app" <=> pc[q] # "app"
    BY <1>1, <2>1 DEF RTypeOK, Busy
  <2>3. RTypeOK'
    BY <1>1, <2>1, <2>2 DEF RTypeOK, net
  <2>4. Turns'
    BY <1>1, <2>1, TurnsMove
  <2>5. Endpoint'
    BY <1>1, <1>2, <1>3, <2>1, <2>2 DEF Endpoint
  <2>6. Sequenced'
    BY <1>1, <2>1 DEF Sequenced, net
  <2>7. Exchange'
    <3>1. \A q \in Proc : Answered(q)' <=> Answered(q)
      BY <1>1, <2>1 DEF Answered, Proper, net
    <3> QED BY <1>1, <2>1, <2>2, <3>1 DEF Exchange, ReplyCurrent, net
  <2>8. Named'
    BY <1>1, <2>1, <2>2 DEF Named, Entry, FreeEntries
  <2> QED BY <2>3, <2>4, <2>5, <2>6, <2>7, <2>8
<1>4. CASE udqueue # <<>>
  <2>1. Dequeue(p) /\ UNCHANGED <<udstate, udpid, prmsg, timed>>
    BY <1>2, <1>4 DEF UdpRecv
  <2>2. /\ Outcome(p) /\ udqueue' \in Seq(ReplyType)
        /\ \A i \in DOMAIN udqueue' : udqueue'[i] \in replies
    BY <1>4, <2>1, DequeueOutcome
  <2>3. /\ local' \in [Proc -> LocalType]
        /\ pc' \in [Proc -> {"app", "begin", "send", "recv", "wait", "finish", "wild"}]
        /\ Turns' /\ Exchange' /\ Named'
        /\ \A q \in Proc : local'[q].res = "SYSERR" => pc'[q] = "finish" /\ q \in struck
        /\ \A q \in Proc : pc'[q] = "wild" => q \in struck
    BY <1>1, <2>2, OutcomeInv
  <2>4. RTypeOK'
    BY <1>1, <2>1, <2>2, <2>3 DEF RTypeOK, net
  <2>5. Endpoint'
    <3>1. \A q \in Proc : pc'[q] = "wait" => pc[q] = "wait"
      BY <2>2 DEF Outcome, RTypeOK
    <3> QED BY <1>1, <1>2, <2>1, <2>3, <3>1 DEF Endpoint
  <2>6. Sequenced'
    BY <1>1, <2>2 DEF Sequenced, net
  <2> QED BY <2>3, <2>4, <2>5, <2>6
<1> QED BY <1>3, <1>4

LEMMA UdpRecvEndStep ==
  ASSUME RInv, NEW p \in Proc, UdpRecvEnd(p)
  PROVE  RInv'
<1> USE DEF RInv
<1>1. /\ Inside(p) /\ pc[p] = "wait" /\ pc[p] \in Busy /\ p \notin timed
      /\ udstate' = "USED" /\ udpid' = NoProc /\ prmsg' = [prmsg EXCEPT ![p] = "none"]
      /\ UNCHANGED <<rf_mutex, rf_seq, rfltab, timed, struck, net>>
  BY AtInside DEF UdpRecvEnd, Busy
<1>2. timed = {}
  <2>1. \A q \in Proc : pc[q] = "wait" => q = p
    BY <1>1, BusyInside DEF Turns, Busy
  <2> QED BY <1>1, <2>1 DEF Endpoint, RTypeOK
<1>3. /\ Outcome(p) /\ udqueue' \in Seq(ReplyType)
      /\ \A i \in DOMAIN udqueue' : udqueue'[i] \in replies
  <2>1. CASE prmsg[p] = "none"
    <3>1. Retry(p) /\ udqueue' = udqueue
      BY <2>1 DEF UdpRecvEnd
    <3> QED BY <3>1, RetryOutcome DEF RTypeOK, Sequenced
  <2>2. CASE prmsg[p] = "OK" /\ udqueue # <<>>
    <3>1. Dequeue(p)
      BY <2>2 DEF UdpRecvEnd, Taken
    <3> QED BY <2>2, <3>1, DequeueOutcome
  <2>4. CASE prmsg[p] = "OK" /\ udqueue = <<>>
    <3>1. GoTo(p, "wild") /\ udqueue' = udqueue /\ local' = local /\ p \in struck
      BY <1>1, <2>4 DEF UdpRecvEnd, Taken, Endpoint
    <3>2. local \in [Proc -> LocalType]
      BY DEF RTypeOK
    <3>3. local' = [local EXCEPT ![p] = local[p]] /\ local[p] \in LocalType
      BY <3>1, <3>2
    <3>4. Outcome(p)
      BY <3>1, <3>3 DEF Outcome, GoTo
    <3> QED BY <3>1, <3>4 DEF RTypeOK, Sequenced
  <2>3. CASE prmsg[p] = "other"
    <3>1. Done(p, "SYSERR", <<>>) /\ udqueue' = udqueue /\ p \in struck
      BY <1>1, <2>3 DEF UdpRecvEnd, Endpoint
    <3>2. <<>> \in Seq(Bytes)
      OBVIOUS
    <3>3. Outcome(p)
      BY <3>1, <3>2, DoneOutcome
    <3> QED BY <3>1, <3>3 DEF RTypeOK, Sequenced
  <2> QED BY <2>1, <2>2, <2>3, <2>4 DEF RTypeOK
<1>4. /\ local' \in [Proc -> LocalType]
      /\ pc' \in [Proc -> {"app", "begin", "send", "recv", "wait", "finish", "wild"}]
      /\ Turns' /\ Exchange' /\ Named'
      /\ \A q \in Proc : local'[q].res = "SYSERR" => pc'[q] = "finish" /\ q \in struck
      /\ \A q \in Proc : pc'[q] = "wild" => q \in struck
  BY <1>1, <1>3, OutcomeInv
<1>5. RTypeOK'
  <2>1. prmsg' \in [Proc -> {"none", "OK", "other"}]
    BY <1>1 DEF RTypeOK
  <2> QED BY <1>1, <1>3, <1>4, <2>1 DEF RTypeOK, net
<1>6. Endpoint'
  <2>1. \A q \in Proc : pc'[q] # "wait"
    <3>1. \A q \in Proc : pc[q] = "wait" => q = p
      BY <1>1, BusyInside DEF Turns, Busy
    <3> QED BY <1>3, <3>1 DEF Outcome, RTypeOK
  <2>2. \A q \in Proc : prmsg'[q] # "OK"
    <3>1. \A q \in Proc : prmsg[q] = "OK" => q = p
      BY <1>1, BusyInside DEF Turns, Busy, Endpoint
    <3> QED BY <1>1, <3>1 DEF RTypeOK
  <2> QED BY <1>1, <1>2, <1>4, <2>1, <2>2 DEF Endpoint
<1>7. Sequenced'
  BY <1>1, <1>3 DEF Sequenced, net
<1> QED BY <1>4, <1>5, <1>6, <1>7

(* Steps that leave the calls alone keep the turns, the exchange and the   *)
(* names.                                                                  *)
LEMMA CallsSame ==
  ASSUME RInv, UNCHANGED <<rf_mutex, rf_seq, rfltab, pc, local, net>>
  PROVE  Turns' /\ Exchange' /\ Named'
<1> USE DEF RInv
<1>1. Turns'
  BY TurnsSame
<1>2. \A q \in Proc : Answered(q)' <=> Answered(q)
  BY DEF Answered, Proper, net
<1>3. Exchange'
  BY <1>2 DEF Exchange, ReplyCurrent, net
<1>4. Named'
  BY DEF Named, Entry, FreeEntries
<1> QED BY <1>1, <1>3, <1>4

LEMMA UdpInStep ==
  ASSUME RInv, NEW r \in replies, UdpIn(r)
  PROVE  RInv'
<1> USE DEF RInv
<1>1. /\ udqueue' = Append(udqueue, r)
      /\ UNCHANGED <<rf_mutex, rf_seq, rfltab, udpid, pc, local, net, struck>>
  BY DEF UdpIn
<1>2. /\ r \in ReplyType /\ udqueue \in Seq(ReplyType)
      /\ udqueue' \in Seq(ReplyType) /\ udqueue' # <<>>
      /\ \A i \in DOMAIN udqueue' : udqueue'[i] \in replies
  BY <1>1 DEF RTypeOK, Sequenced
<1>3. Turns' /\ Exchange' /\ Named'
  BY <1>1, CallsSame
<1>4. Sequenced'
  BY <1>1, <1>2 DEF Sequenced, net
<1>5. CASE udstate = "RECV"
  <2>1. /\ udstate' = "USED" /\ prmsg' = Sent(udpid, "OK") /\ timed' = timed \ {udpid}
        /\ udpid \in Proc /\ pc[udpid] = "wait"
    BY <1>5 DEF UdpIn, Announces, Endpoint
  <2>2. /\ prmsg \in [Proc -> {"none", "OK", "other"}]
        /\ prmsg' \in [Proc -> {"none", "OK", "other"}]
        /\ \A q \in Proc : prmsg'[q] # prmsg[q] => q = udpid /\ prmsg'[q] = "OK"
    BY <2>1 DEF RTypeOK, Sent
  <2>3. timed' = {}
    BY <2>1 DEF Endpoint
  <2>4. RTypeOK'
    BY <1>1, <1>2, <2>1, <2>2, <2>3 DEF RTypeOK, net
  <2>5. Endpoint'
    BY <1>1, <1>2, <2>1, <2>2, <2>3 DEF Endpoint
  <2> QED BY <1>3, <1>4, <2>4, <2>5
<1>6. CASE udstate # "RECV"
  <2>1. UNCHANGED <<udstate, prmsg, timed>>
    BY <1>6 DEF UdpIn, Announces
  <2>2. RTypeOK'
    BY <1>1, <1>2, <2>1 DEF RTypeOK, net
  <2>3. Endpoint'
    BY <1>1, <1>2, <1>6, <2>1 DEF Endpoint
  <2> QED BY <1>3, <1>4, <2>2, <2>3
<1> QED BY <1>5, <1>6

LEMMA MessageStep ==
  ASSUME RInv, NEW p \in Proc, NEW m \in {"OK", "other"}, Message(p, m)
  PROVE  RInv'
<1> USE DEF RInv
<1>1. /\ prmsg[p] = "none" /\ prmsg' = [prmsg EXCEPT ![p] = m] /\ timed' = timed \ {p}
      /\ m = "OK" => pc[p] = "wait"
      /\ struck' = IF pc[p] = "wait" THEN struck \cup {p} ELSE struck
      /\ UNCHANGED <<rf_mutex, rf_seq, rfltab, udstate, udpid, udqueue, pc, local, net>>
  BY DEF Message, Sent
<1>2. Turns' /\ Exchange' /\ Named'
  BY <1>1, CallsSame
<1>3. RTypeOK'
  BY <1>1 DEF RTypeOK, net
<1>4. Sequenced'
  BY <1>1 DEF Sequenced, net
<1>5. Endpoint'
  <2>1. \A q \in Proc : prmsg'[q] = IF q = p THEN m ELSE prmsg[q]
    BY <1>1 DEF RTypeOK
  <2>2. struck \subseteq struck'
    BY <1>1
  <2> QED BY <1>1, <2>1, <2>2 DEF Endpoint, RTypeOK
<1> QED BY <1>2, <1>3, <1>4, <1>5

LEMMA ExpireStep ==
  ASSUME RInv, NEW p \in Proc, Expire(p)
  PROVE  RInv'
<1> USE DEF RInv
<1>1. /\ timed' = timed \ {p}
      /\ UNCHANGED <<rf_mutex, rf_seq, rfltab, udstate, udpid, udqueue, pc, local, prmsg,
                     net, struck>>
  BY DEF Expire
<1>2. Turns' /\ Exchange' /\ Named'
  BY <1>1, CallsSame
<1>3. RTypeOK'
  BY <1>1 DEF RTypeOK, net
<1>4. Sequenced' /\ Endpoint'
  BY <1>1 DEF Sequenced, Endpoint, net
<1> QED BY <1>2, <1>3, <1>4

-----------------------------------------------------------------------------
(***************************************************************************)
(* The server.                                                             *)
(***************************************************************************)
(* A request of the present exchange is executed on files of its window.   *)
LEMMA ServeStep ==
  ASSUME RInv, NEW r \in requests, Serve(r)
  PROVE  RInv'
<1> USE DEF RInv
<1> DEFINE x == Reply(r, TRUE, Answer(r, files))
<1>1. /\ files' = Effect(r, files) /\ replies' = replies \cup {x}
      /\ window' = IF window = {} THEN {} ELSE window \cup {files'}
      /\ UNCHANGED <<rf_mutex, rf_seq, rfltab, udp, pc, local, requests>>
  BY DEF Serve
<1>2. Proper(r) /\ files \in [Name -> Seq(Bytes)] /\ r.seq < rf_seq
  BY DEF RTypeOK, Sequenced
<1>3. /\ files' \in [Name -> Seq(Bytes)]
      /\ x.val = Answer(r, files) /\ x.seq = r.seq /\ x \in ReplyType
      /\ Shows(files', r, x.val)
  <2>1. Answer(r, files) \in Seq(Bytes)
    BY <1>2, AnswerType
  <2> QED BY <1>1, <1>2, <2>1, EffectType, ServedShows DEF Reply, ReplyType, Proper, RequestType
<1> HIDE DEF x
<1>4. RTypeOK'
  BY <1>1, <1>3 DEF RTypeOK, udp, Proper
<1>5. Turns'
  BY <1>1, TurnsSame
<1>6. Endpoint'
  BY <1>1 DEF Endpoint, udp
<1>7. Sequenced'
  BY <1>1, <1>2, <1>3 DEF Sequenced, udp
<1>8. Exchange'
  <2>1. window \subseteq window' /\ (window # {} => files' \in window')
    BY <1>1
  <2>2. ASSUME NEW q \in Proc, pc[q] \in Busy PROVE Answered(q)'
    <3>1. Answered(q)
      BY <2>2 DEF Exchange
    <3>2. files' \in window'
      BY <2>1, <3>1 DEF Answered
    <3>3. ASSUME NEW y \in replies', y.seq = local[q].req.seq, y.ok
          PROVE  \E fs \in window' : Shows(fs, local[q].req, y.val)
      <4>1. CASE y \in replies
        BY <2>1, <3>1, <3>3, <4>1 DEF Answered
      <4>2. CASE y = x
        BY <1>3, <3>1, <3>2, <3>3, <4>2 DEF Answered
      <4> QED BY <1>1, <4>1, <4>2
    <3> QED BY <1>1, <3>1, <3>2, <3>3 DEF Answered, Proper
  <2>3. ReplyCurrent'
    BY <1>1, <2>1 DEF Exchange, ReplyCurrent
  <2> QED BY <1>1, <2>2, <2>3 DEF Exchange
<1>9. Named'
  BY <1>1 DEF Named, Entry, FreeEntries
<1> QED BY <1>4, <1>5, <1>6, <1>7, <1>8, <1>9

LEMMA RefuseStep ==
  ASSUME RInv, NEW r \in requests, Refuse(r)
  PROVE  RInv'
<1> USE DEF RInv
<1> DEFINE x == Reply(r, FALSE, <<>>)
<1>1. /\ replies' = replies \cup {x}
      /\ UNCHANGED <<rf_mutex, rf_seq, rfltab, udp, pc, local, requests, files, window>>
  BY DEF Refuse
<1>2. Proper(r) /\ r.seq < rf_seq
  BY DEF RTypeOK, Sequenced
<1>3. x.seq = r.seq /\ x \in ReplyType /\ ~x.ok
  <2>1. <<>> \in Seq(Bytes)
    OBVIOUS
  <2> QED BY <1>2, <2>1 DEF Reply, ReplyType, Proper, RequestType
<1> HIDE DEF x
<1>4. RTypeOK'
  BY <1>1, <1>3 DEF RTypeOK, udp, Proper
<1>5. Turns'
  BY <1>1, TurnsSame
<1>6. Endpoint'
  BY <1>1 DEF Endpoint, udp
<1>7. Sequenced'
  BY <1>1, <1>2, <1>3 DEF Sequenced, udp
<1>8. Exchange'
  <2>1. \A q \in Proc : Answered(q) => Answered(q)'
    BY <1>1, <1>3 DEF Answered, Proper
  <2> QED BY <1>1, <2>1 DEF Exchange, ReplyCurrent
<1>9. Named'
  BY <1>1 DEF Named, Entry, FreeEntries
<1> QED BY <1>4, <1>5, <1>6, <1>7, <1>8, <1>9

-----------------------------------------------------------------------------
(***************************************************************************)
(* The theorems.                                                           *)
(***************************************************************************)
(* Every step of the drivers, the endpoint, the network and the server     *)
(* keeps the invariant.                                                    *)
LEMMA NextInv == RInv /\ [Next]_rvars => RInv'
<1>1. SUFFICES ASSUME RInv, [Next]_rvars PROVE RInv'
  OBVIOUS
<1>2. CASE UNCHANGED rvars
  <2>1. UNCHANGED <<rf_mutex, rf_seq, rfltab, pc, local, net, udp>>
    BY <1>2 DEF rvars
  <2>2. Turns' /\ Exchange' /\ Named'
    BY <1>1, <2>1, CallsSame
  <2>3. RTypeOK' /\ Endpoint' /\ Sequenced'
    BY <1>1, <2>1 DEF RInv, RTypeOK, Endpoint, Sequenced, net, udp, Proper
  <2> QED BY <2>2, <2>3 DEF RInv
<1>3. CASE Next
  <2>1. CASE \E p \in Proc, c \in Calls : Enter(p, c)
    BY <1>1, <2>1, EnterStep
  <2>2. ASSUME NEW p \in Proc, Step(p) PROVE RInv'
    BY <1>1, <2>2, RejectStep, RflSeekStep, RflCloseStep, BeginStep, SendStep, UdpRecvStep,
       UdpRecvEndStep, FinishStep DEF Step
  <2>3. ASSUME NEW p \in Proc, (\E m \in {"OK", "other"} : Message(p, m)) \/ Expire(p) PROVE RInv'
    BY <1>1, <2>3, MessageStep, ExpireStep
  <2>4. CASE \E r \in requests : Serve(r) \/ Refuse(r)
    BY <1>1, <2>4, ServeStep, RefuseStep
  <2>5. CASE \E r \in replies : UdpIn(r)
    BY <1>1, <2>5, UdpInStep
  <2>6. CASE Stopped
    BY <1>2, <2>6 DEF Stopped
  <2> QED BY <1>3, <2>1, <2>2, <2>3, <2>4, <2>5, <2>6 DEF Next
<1> QED BY <1>1, <1>2, <1>3

LEMMA RemoteInvariant == Spec => []RInv
<1> QED BY InitInv, NextInv, PTL DEF Spec

(* A reply that rfscomm accepts is the answer to the request the call sent *)
(* and shows the server's files at a moment of this very exchange, with    *)
(* any number of processes, files, lost, late and repeated packets.        *)
THEOREM RepliesAreCurrent == Spec => []ReplyCurrent
<1>1. RInv => ReplyCurrent
  BY DEF RInv, Exchange
<1> QED BY <1>1, RemoteInvariant, PTL

(* A call fails with SYSERR at the endpoint only because a message of      *)
(* another process ended its last recvtime: rf_mutex keeps everyone else   *)
(* away from the endpoint, and recvclr keeps older messages out.  (That    *)
(* udp_register fails, before the exchange, is not part of the model.)     *)
THEOREM ErrorsAreExplained == Spec => []ErrorExplained
<1>1. RInv => ErrorExplained
  BY DEF RInv, Endpoint, ErrorExplained
<1> QED BY <1>1, RemoteInvariant, PTL

(* A process that has been told of a packet finds one, unless another      *)
(* process sent it a message in this very wait: an OK of theirs is taken   *)
(* for the word of udp_in, and with an empty queue udp_recv then takes     *)
(* what is not there ("wild").  Nothing else leads there - no old message, *)
(* no timeout that crosses a packet, no packet taken by somebody else -    *)
(* and no process sleeps on in recvtime while a packet is queued.          *)
THEOREM PacketsAreAnnounced == Spec => []PacketAnnounced
<1>1. RInv => PacketAnnounced
  BY DEF RInv, RTypeOK, Endpoint, PacketAnnounced
<1> QED BY <1>1, RemoteInvariant, PTL
=============================================================================
