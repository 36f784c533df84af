----------------------------- MODULE RemoteFiles -----------------------------
(***************************************************************************)
(* Remote files (device/rfs) over a UDP endpoint (net/udp.c).              *)
(*                                                                         *)
(* The calls take turns through rf_mutex, and each sends a request up to   *)
(* RF_RETRIES times.  The network loses, delays, duplicates and reorders:  *)
(* what was sent stays in requests or replies and may arrive at any time,  *)
(* any number of times or never.  The server, which is not part of the     *)
(* repository, executes whatever arrives.  While a process waits for a     *)
(* reply, its timer may expire, and other processes may send it messages   *)
(* of their own (kill tells a parent of the end of its child that way),    *)
(* among them the number 1, which is OK, the message of udp_in.  One       *)
(* transition is what the code does with interrupts disabled, or alone     *)
(* between two such sections.                                              *)
(*                                                                         *)
(* The endpoint is registered and a file is open from the start: a failing *)
(* udp_register (rfscomm.c:26) is left out, as are names that are empty or *)
(* too long, which only lead to calls that return SYSERR.                  *)
(***************************************************************************)
EXTENDS Integers, Sequences, FiniteSets, FiniteSetsExt

CONSTANTS
    Proc, NoProc,
    Name, NoName,
    First,          \* the file that is open at first
    Data,           \* what is written with one call
    Counts,         \* the counts that are read
    Refused,        \* the kinds of requests that the server may refuse
    Modes,          \* what rfsgetmode makes of a mode string; {} is SYSERR
    Nrfl, RF_RETRIES, RF_DATALEN, UDP_QSIZ,
    MaxSeq          \* bound on rf_seq

ASSUME RemoteSizesAssumption ==
    {Nrfl, RF_RETRIES, RF_DATALEN, UDP_QSIZ, MaxSeq} \subseteq Nat \ {0}
ASSUME FirstAssumption == First \in Name
ASSUME DataAssumption == \A x \in Data : x \in Seq({x[i] : i \in DOMAIN x})

Dev == 0 .. Nrfl - 1

VARIABLES
    rf_mutex, rf_seq,
    rfltab,                     \* struct rflcblk
    udstate, udqueue,           \* the endpoint's struct udpentry
    udpid,                      \* in UDP_RECV; the code never looks at it otherwise
    pc, local,                  \* where each process is in the driver, and its variables
    prmsg,                      \* the message in a process's slot, or "none"
    timed,                      \* processes in PR_RECTIM
    requests, replies,          \* network: all that was sent
    files,                      \* server: the content of the files
    window,                     \* history: files since the present exchange began
    struck                      \* history: processes that got a message of another
                                \* while they waited for an answer to what they sent last

net == <<requests, replies, files, window>>
udp == <<udstate, udpid, udqueue, prmsg, timed, struck>>
rvars == <<rf_mutex, rf_seq, rfltab, udp, pc, local, net>>

(* wait and signal. *)
SemWait(s, p) == [count |-> s.count - 1,
                  queue |-> IF s.count < 1 THEN Append(s.queue, p) ELSE s.queue]
SemSignal(s) == [count |-> s.count + 1,
                 queue |-> IF s.queue = <<>> THEN <<>> ELSE Tail(s.queue)]
Waits(s, p) == \E i \in DOMAIN s.queue : s.queue[i] = p

-----------------------------------------------------------------------------
(* The calls, and their arguments: a count, or what is written, or a mode. *)
(* The functions of rfscontrol differ in the request, in its name, which   *)
(* RFS_CTL_SIZE takes from the control block, and in that RFS_CTL_SIZE     *)
(* does not look at rf_status; RFS_CTL_TRUNC stands for them.              *)
NoCall == [kind |-> "none", dev |-> 0, name |-> NoName, count |-> 0, data |-> <<>>, mode |-> {}]

Calls ==
    LET Of(kinds, devs, names, counts, written, modes) ==
            [kind : kinds, dev : devs, name : names, count : counts, data : written, mode : modes]
    IN  Of({"open"}, {0}, Name, {0}, {<<>>}, Modes)
        \cup Of({"read"}, Dev, {NoName}, Counts, {<<>>}, {{}})
        \cup Of({"write"}, Dev, {NoName}, {0}, Data, {{}})
        \cup Of({"seek", "close"}, Dev, {NoName}, {0}, {<<>>}, {{}})
        \cup Of({"trunc"}, {0}, Name, {0}, {<<>>}, {{}})

NoRequest == [kind |-> "none", seq |-> 0, name |-> NoName, pos |-> 0, count |-> 0, data |-> <<>>]
NoLocal == [call |-> NoCall, req |-> NoRequest, tries |-> 0, res |-> "none", val |-> <<>>]

At(p, here) == pc[p] = here /\ ~Waits(rf_mutex, p)
GoTo(p, c) == pc' = [pc EXCEPT ![p] = c]
Keep(p, l) == local' = [local EXCEPT ![p] = l]

(* Every call begins with wait(Rf_data.rf_mutex). *)
Enter(p, c) ==
    /\ pc[p] = "app"
    /\ rf_seq <= MaxSeq
    /\ rf_mutex' = SemWait(rf_mutex, p)
    /\ GoTo(p, "begin")
    /\ Keep(p, [NoLocal EXCEPT !.call = c])
    /\ UNCHANGED <<rf_seq, rfltab, udp, net>>

(* ... and ends with signal(Rf_data.rf_mutex).  What is left in the        *)
(* process's slot is the application's affair, and comes back as a Message *)
(* of its next call if nobody takes it.                                    *)
Released_Success(p) ==                      \* mutant: the error paths do not signal
    IF local[p].res = "SYSERR" THEN rf_mutex ELSE SemSignal(rf_mutex)

Released(p) == SemSignal(rf_mutex)

Leave(p) ==
    /\ rf_mutex' = Released(p)
    /\ GoTo(p, "app")
    /\ Keep(p, NoLocal)
    /\ prmsg' = [prmsg EXCEPT ![p] = "none"]
    /\ struck' = struck \ {p}
    /\ window' = {}
    /\ UNCHANGED <<rf_seq, udstate, udpid, udqueue, timed, requests, replies, files>>

-----------------------------------------------------------------------------
(* The checks before a request is formed. *)
FreeEntries == {d \in Dev : rfltab[d].state = "FREE"}

Entry(c) == IF c.kind = "open" THEN Min(FreeEntries) ELSE c.dev

Allows(d, bit) == rfltab[d].state = "USED" /\ bit \in rfltab[d].mode

Legal(c) ==
    CASE c.kind = "open"  -> FreeEntries # {} /\ c.mode # {}
      [] c.kind = "read"  -> c.count \in 1 .. RF_DATALEN /\ Allows(c.dev, "R")
      [] c.kind = "write" -> Len(c.data) \in 1 .. RF_DATALEN /\ Allows(c.dev, "W")
      [] c.kind \in {"seek", "close"} -> rfltab[c.dev].state = "USED"
      [] OTHER -> TRUE

(* rfsopen fills in the entry it found before it asks the server, and      *)
(* leaves it free until the server has answered.                           *)
Prepared(c) ==
    IF c.kind = "open" /\ FreeEntries # {}
    THEN [rfltab EXCEPT ![Entry(c)].name = c.name, ![Entry(c)].mode = c.mode]
    ELSE rfltab

Reject(p) ==
    LET c == local[p].call
    IN  /\ At(p, "begin")
        /\ ~Legal(c)
        /\ rfltab' = Prepared(c)
        /\ Leave(p)

RflSeek(p) ==
    LET c == local[p].call
    IN  /\ At(p, "begin")
        /\ c.kind = "seek" /\ Legal(c)
        /\ rfltab' = [rfltab EXCEPT ![c.dev].pos = c.count]
        /\ Leave(p)

RflClose(p) ==
    LET c == local[p].call
    IN  /\ At(p, "begin")
        /\ c.kind = "close" /\ Legal(c)
        /\ rfltab' = [rfltab EXCEPT ![c.dev].state = "FREE"]
        /\ Leave(p)

(* The request. *)
Request(c) ==
    [kind |-> c.kind, seq |-> rf_seq, count |-> c.count, data |-> c.data,
     name |-> IF c.kind \in {"open", "trunc"} THEN c.name ELSE rfltab[c.dev].name,
     pos  |-> IF c.kind \in {"read", "write"} THEN rfltab[c.dev].pos ELSE 0]

(* Up to the first transmission: the request gets the next sequence number. *)
Begin(p) ==
    LET c == local[p].call
    IN  /\ At(p, "begin")
        /\ c.kind \notin {"seek", "close"} /\ Legal(c)
        /\ rfltab' = Prepared(c)
        /\ rf_seq' = rf_seq + 1
        /\ Keep(p, [local[p] EXCEPT !.req = Request(c)])
        /\ GoTo(p, "send")
        /\ window' = {files}
        /\ UNCHANGED <<rf_mutex, udp, requests, replies, files>>

-----------------------------------------------------------------------------
(* rfscomm: send, receive, look whether the reply belongs to the request.  *)
Send(p) ==
    /\ At(p, "send")
    /\ requests' = requests \cup {local[p].req}
    /\ GoTo(p, "recv")
    /\ struck' = struck \ {p}
    /\ UNCHANGED <<rf_mutex, rf_seq, rfltab, udstate, udpid, udqueue, prmsg, timed, local,
                   replies, files, window>>

Done(p, res, val) ==
    /\ Keep(p, [local[p] EXCEPT !.res = res, !.val = val])
    /\ GoTo(p, "finish")

Retry(p) ==
    IF local[p].tries + 1 < RF_RETRIES
    THEN Keep(p, [local[p] EXCEPT !.tries = @ + 1]) /\ GoTo(p, "send")
    ELSE Done(p, "TIMEOUT", <<>>)

Matches_Kind(p, r) == r.kind = local[p].req.kind    \* mutant: the sequence is not compared

Matches(p, r) == r.seq = local[p].req.seq /\ r.kind = local[p].req.kind

(* The packet at the head of the queue, as rfscomm sees it. *)
Dequeue(p) ==
    LET r == Head(udqueue)
    IN  /\ udqueue' = Tail(udqueue)
        /\ IF Matches(p, r) THEN Done(p, IF r.ok THEN "OK" ELSE "REFUSED", r.val)
           ELSE Retry(p)

(* recvclr, and recvtime for which a message that is there is enough.      *)
Recvclr_Not(p) == prmsg                     \* mutant: an old message is kept

Recvclr(p) == [prmsg EXCEPT ![p] = "none"]

UdpWait(p) ==
    /\ udstate' = "RECV"
    /\ udpid' = p
    /\ prmsg' = Recvclr(p)
    /\ timed' = IF Recvclr(p)[p] = "none" THEN timed \cup {p} ELSE timed
    /\ GoTo(p, "wait")
    /\ UNCHANGED <<udqueue, local>>

(* udp_recv: take a packet, or wait for one, or fail because another       *)
(* process waits at this endpoint.                                         *)
UdpRecv(p) ==
    /\ At(p, "recv")
    /\ IF udstate = "USED" /\ udqueue = <<>> THEN UdpWait(p)
       ELSE /\ IF udstate = "USED" THEN Dequeue(p)
               ELSE Done(p, "SYSERR", <<>>) /\ UNCHANGED udqueue
            /\ UNCHANGED <<udstate, udpid, prmsg, timed>>
    /\ UNCHANGED <<rf_mutex, rf_seq, rfltab, struck, net>>

(* The end of recvtime: a message, which counts even if the timer expired  *)
(* before it came, or the timeout.  Told of a packet when there is none,   *)
(* udp_recv takes what the queue has at its head all the same, an old      *)
(* pointer or a null one: it counts down from zero, copies from there and  *)
(* frees it once more.  The model ends there ("wild", Stopped).            *)
Taken(p) == IF udqueue = <<>> THEN GoTo(p, "wild") /\ UNCHANGED <<udqueue, local>>
            ELSE Dequeue(p)

UdpRecvEnd(p) ==
    /\ At(p, "wait") /\ p \notin timed
    /\ udstate' = "USED" /\ udpid' = NoProc
    /\ prmsg' = [prmsg EXCEPT ![p] = "none"]
    /\ CASE prmsg[p] = "none"  -> Retry(p) /\ UNCHANGED udqueue
         [] prmsg[p] = "OK"    -> Taken(p)
         [] prmsg[p] = "other" -> Done(p, "SYSERR", <<>>) /\ UNCHANGED udqueue
    /\ UNCHANGED <<rf_mutex, rf_seq, rfltab, timed, struck, net>>

(* The rest of the call. *)
Advanced(p) ==
    LET c == local[p].call
        d == Entry(c)
    IN  CASE local[p].res # "OK" -> rfltab
          [] c.kind = "open" -> [rfltab EXCEPT ![d].state = "USED", ![d].pos = 0]
          [] c.kind \in {"read", "write"} ->
                [rfltab EXCEPT ![d].pos = @ + Len(local[p].val)]
          [] OTHER -> rfltab

Finish(p) ==
    /\ At(p, "finish")
    /\ rfltab' = Advanced(p)
    /\ Leave(p)

-----------------------------------------------------------------------------
(* send: one message fits into the slot of a process; it ends recvtime. *)
Sent(p, m) == IF prmsg[p] = "none" THEN [prmsg EXCEPT ![p] = m] ELSE prmsg

Announces_Full == udstate = "RECV" /\ udqueue # <<>>    \* mutant: not the first packet

Announces == udstate = "RECV"

(* udp_in: a reply arrives. *)
UdpIn(r) ==
    /\ udstate # "FREE" /\ Len(udqueue) < UDP_QSIZ
    /\ udqueue' = Append(udqueue, r)
    /\ IF Announces
       THEN /\ udstate' = "USED"
            /\ prmsg' = Sent(udpid, "OK")
            /\ timed' = timed \ {udpid}
       ELSE UNCHANGED <<udstate, prmsg, timed>>
    /\ UNCHANGED <<rf_mutex, rf_seq, rfltab, udpid, pc, local, net, struck>>

(* A message from another process.  One that comes earlier is in the slot  *)
(* when udp_recv begins, like one that comes just before, and it does not  *)
(* matter which it is (Recvclr).  One that comes during the wait may be OK: *)
(* if an application sends 1, if a child with the process number 1 ends,   *)
(* or if arp_in answers late - a message of somebody else has ended the    *)
(* process's wait in arp_resolve, with the entry still pending for it.     *)
(* (One equal to TIMEOUT ends the wait as the timer does.)                 *)
Message(p, m) ==
    /\ pc[p] \in {"recv", "wait"}
    /\ prmsg[p] = "none"
    /\ m = "OK" => pc[p] = "wait"
    /\ prmsg' = Sent(p, m)
    /\ timed' = timed \ {p}
    /\ struck' = IF pc[p] = "wait" THEN struck \cup {p} ELSE struck
    /\ UNCHANGED <<rf_mutex, rf_seq, rfltab, udstate, udpid, udqueue, pc, local, net>>

(* The timer of recvtime. *)
Expire(p) ==
    /\ p \in timed
    /\ timed' = timed \ {p}
    /\ UNCHANGED <<rf_mutex, rf_seq, rfltab, udstate, udpid, udqueue, pc, local, prmsg,
                   net, struck>>

-----------------------------------------------------------------------------
(* The server. *)
Answer(r, fs) ==
    LET f == fs[r.name]
    IN  CASE r.kind = "read"  -> SubSeq(f, r.pos + 1, Min({r.pos + r.count, Len(f)}))
          [] r.kind = "write" -> r.data
          [] OTHER -> <<>>

Zero == "zero"
Byte(f, i) == IF i <= Len(f) THEN f[i] ELSE Zero

Effect(r, fs) ==
    LET f   == fs[r.name]
        top == Max({Len(f), r.pos + Len(r.data)})
    IN  CASE r.kind = "write" ->
                [fs EXCEPT ![r.name] =
                    [i \in 1 .. top |-> IF i \in r.pos + 1 .. r.pos + Len(r.data)
                                        THEN r.data[i - r.pos] ELSE Byte(f, i)]]
          [] r.kind = "trunc" -> [fs EXCEPT ![r.name] = <<>>]
          [] OTHER -> fs

Reply(r, ok, val) == [kind |-> r.kind, seq |-> r.seq, ok |-> ok, val |-> val]

Serve(r) ==
    /\ files' = Effect(r, files)
    /\ replies' = replies \cup {Reply(r, TRUE, Answer(r, files))}
    /\ window' = IF window = {} THEN {} ELSE window \cup {files'}
    /\ UNCHANGED <<rf_mutex, rf_seq, rfltab, udp, pc, local, requests>>

Refuse(r) ==
    /\ r.kind \in Refused
    /\ replies' = replies \cup {Reply(r, FALSE, <<>>)}
    /\ UNCHANGED <<rf_mutex, rf_seq, rfltab, udp, pc, local, requests, files, window>>

-----------------------------------------------------------------------------
(* The first device has just been opened for file First; nothing is left   *)
(* of that exchange on the network.                                        *)
Init ==
    /\ rf_mutex = [count |-> 1, queue |-> <<>>]
    /\ rf_seq = 1
    /\ rfltab = [d \in Dev |-> IF d = 0
                    THEN [state |-> "USED", name |-> First, pos |-> 0, mode |-> {"R", "W"}]
                    ELSE [state |-> "FREE", name |-> NoName, pos |-> 0, mode |-> {}]]
    /\ udstate = "USED" /\ udpid = NoProc /\ udqueue = <<>>
    /\ pc = [p \in Proc |-> "app"]
    /\ local = [p \in Proc |-> NoLocal]
    /\ prmsg = [p \in Proc |-> "none"]
    /\ timed = {}
    /\ requests = {} /\ replies = {}
    /\ files = [n \in Name |-> <<>>]
    /\ window = {}
    /\ struck = {}

Step(p) ==
    \/ Reject(p) \/ RflSeek(p) \/ RflClose(p) \/ Begin(p) \/ Send(p)
    \/ UdpRecv(p) \/ UdpRecvEnd(p) \/ Finish(p)

(* Nothing is said of what follows after a packet that was not there. *)
Stopped == (\E p \in Proc : pc[p] = "wild") /\ UNCHANGED rvars

Next ==
    \/ /\ \A p \in Proc : pc[p] # "wild"
       /\ \/ \E p \in Proc, c \in Calls : Enter(p, c)
          \/ \E p \in Proc : Step(p) \/ Expire(p)
          \/ \E p \in Proc, m \in {"OK", "other"} : Message(p, m)
          \/ \E r \in requests : Serve(r) \/ Refuse(r)
          \/ \E r \in replies : UdpIn(r)
    \/ Stopped

(* A process that can run does so, and clock interrupts keep coming.       *)
Fairness ==
    \A p \in Proc : WF_rvars(Step(p)) /\ WF_rvars(Expire(p))

Spec == Init /\ [][Next]_rvars /\ Fairness

-----------------------------------------------------------------------------
(* What a call reports is what the server did or held since the call sent  *)
(* its request, never something older: a reply to an earlier request, or   *)
(* to an earlier process's, is not taken for the answer, however late and  *)
(* however often it comes.                                                 *)
Shows(fs, r, val) ==
    CASE r.kind = "read"  -> val = Answer(r, fs)
      [] r.kind = "write" -> \A i \in DOMAIN r.data : Byte(fs[r.name], r.pos + i) = r.data[i]
      [] r.kind = "trunc" -> fs[r.name] = <<>>
      [] OTHER -> TRUE

ReplyCurrent ==
    \A p \in Proc :
        local[p].res = "OK" => \E fs \in window : Shows(fs, local[p].req, local[p].val)

(* A call fails with an error of the endpoint only if a message of another *)
(* process reached it while it waited for a packet: not because of an      *)
(* older message, and not because two calls were at the endpoint at once.  *)
ErrorExplained == \A p \in Proc : local[p].res = "SYSERR" => p \in struck

(* A process that is told of a packet finds one, unless another process    *)
(* sent it a message during this wait (udp_recv takes every OK of theirs   *)
(* for the word of udp_in, net/udp.c:191 to 206): not because of an older  *)
(* message, of a packet that somebody else took or of one that was         *)
(* announced before.  And no process goes on waiting while there is a      *)
(* packet: also when the packet comes between the end of the timer and the *)
(* process's next step, and when another message came first.               *)
PacketAnnounced ==
    \A p \in Proc :
        /\ pc[p] = "wait" /\ prmsg[p] = "OK" => udqueue # <<>> \/ p \in struck
        /\ pc[p] = "wild" => p \in struck
        /\ p \in timed => udqueue = <<>> /\ udstate = "RECV" /\ udpid = p

(* Every call returns, whatever the network and the server do, also the    *)
(* calls that wait for their turn behind one that fails - as long as no    *)
(* call has taken a packet that was not there.                             *)
CallsReturn ==
    \A p \in Proc : pc[p] # "app" ~> pc[p] = "app" \/ \E q \in Proc : pc[q] = "wild"
=============================================================================
