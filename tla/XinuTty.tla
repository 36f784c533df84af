------------------------------- MODULE XinuTty -------------------------------
(***************************************************************************)
(* The tty driver (device/tty): processes that read and write with         *)
(* interrupts disabled and may block on tyisem and tyosem, and the two     *)
(* halves of the interrupt handler, ttyhandle_in and ttyhandle_out.        *)
(*                                                                         *)
(* The process manager is reduced to what the driver sees of it: a         *)
(* semaphore is a count and a queue, and a process that was released runs  *)
(* some time later.  While cpu is a process, it is in the driver with      *)
(* interrupts disabled and nobody else takes a step.                       *)
(*                                                                         *)
(* The driver can leave its buffers in several ways.  The model stops      *)
(* there, with the way recorded in trouble: what follows is undefined.     *)
(***************************************************************************)
EXTENDS Integers, Sequences, FiniteSets

CONSTANTS
    Proc,           \* the processes that use the tty
    Idle,           \* interrupts are enabled
    Key,            \* what is typed: "x" and the characters with a meaning
    RawKey,         \* what is typed in raw and cbreak mode
    Text,           \* what is written
    Controls,       \* the functions ttycontrol is called with
    ReadCounts,     \* the counts ttyread is called with
    TY_IBUFLEN, TY_OBUFLEN, TY_EBUFLEN, UART_FIFO_SIZE

ASSUME TtySizesAssumption ==
    /\ {TY_IBUFLEN, TY_OBUFLEN, TY_EBUFLEN, UART_FIFO_SIZE} \subseteq Nat \ {0}
    /\ UART_FIFO_SIZE <= TY_OBUFLEN     \* 64 and 64
ASSUME ProcAssumption == IsFiniteSet(Proc)
ASSUME ReadCountsAssumption == ReadCounts \subseteq Nat \ {0}

VARIABLES
    tyibuff, tyihead, tyitail, tyicursor, tyisem,   \* input
    tyobuff, tyohead, tyotail, tyosem,              \* output
    echo,           \* characters from tyehead to tyetail, which wraps unchecked
    tyimode, tyiecho, tyoheld,
    etbei, thre,    \* UART: output interrupts enabled, output interrupt pending
    fifo,           \* UART: characters in the output FIFO
    pc, local, cpu, \* where each process is in the driver; local: what is left
    trouble,
    typed,          \* history: the characters in the input buffer
    written,        \* history: the characters in the output buffer
    unsignalled,    \* history: characters stored in cbreak mode
    crowded,        \* history: a released reader, or raw mode, came into the unfinished line
    silent          \* history: output was released without ttykickout

ivars == <<tyibuff, tyihead, tyitail, tyicursor, tyisem, typed, unsignalled, crowded>>
ovars == <<tyobuff, tyohead, tyotail, tyosem, written>>
uart  == <<etbei, thre, fifo>>
modes == <<tyimode, tyiecho>>
pvars == <<pc, local, cpu>>
tvars == <<ivars, ovars, echo, modes, tyoheld, uart, pvars, trouble, silent>>

(* wait, signaln and semcount. *)
SemWait(s, p) == [count |-> s.count - 1,
                  queue |-> IF s.count - 1 < 0 THEN Append(s.queue, p) ELSE s.queue]
SemSignal(s, n) == [count |-> s.count + n,
                    queue |-> SubSeq(s.queue, n + 1, Len(s.queue))]
Waits(s, p) == \E i \in DOMAIN s.queue : s.queue[i] = p

Reading(p) == pc[p] \in {"getc", "nextc"}
Writing(p) == pc[p] = "putc"
LateReaders == {p \in Proc : Reading(p) /\ ~Waits(tyisem, p)}
LateWriters == {p \in Proc : Writing(p) /\ ~Waits(tyosem, p)}

Running(p) == trouble = "no" /\ cpu \in {p, Idle}
Handling == trouble = "no" /\ cpu = Idle

(* Process p goes on at c with l, and keeps the processor unless it waits. *)
Continue(p, c, l, sem) ==
    /\ pc' = [pc EXCEPT ![p] = c]
    /\ local' = [local EXCEPT ![p] = l]
    /\ cpu' = IF Waits(sem, p) THEN Idle ELSE p
Leave(p) ==
    /\ pc' = [pc EXCEPT ![p] = "app"]
    /\ local' = [local EXCEPT ![p] = <<>>]
    /\ cpu' = Idle

-----------------------------------------------------------------------------
(* ttyread and ttygetc; in local, as many entries as may still be read.    *)

(* The next ttygetc of the same ttyread waits at once. *)
Getc(p, n) ==
    /\ tyisem' = SemWait(tyisem, p)
    /\ Continue(p, "getc", [i \in 1 .. n |-> "any"], tyisem')

TtyRead(p, n) ==
    /\ Handling
    /\ pc[p] = "app"
    /\ Getc(p, n)
    /\ UNCHANGED <<tyibuff, tyihead, tyitail, tyicursor, typed, unsignalled, crowded, ovars, echo,
                   modes, tyoheld, uart, trouble, silent>>

(* *typtr->tyihead++, and back to the beginning at the end. *)
AfterRead(head) == (head + 1) % TY_IBUFLEN

(* Outside cooked mode ttyread goes on to its count; in cooked mode the    *)
(* end of a line ends it.  The code asks for the mode once, before it      *)
(* waits (ttyread.c:26), and lets EOF end a read as its first character    *)
(* only; here both are asked for at every character.  That makes reads end *)
(* elsewhere, but what one character's step takes is the same.             *)
TtyGetcEnd(p) ==
    LET ch == tyibuff[tyihead]
        left == Len(local[p]) - 1
    IN  /\ Running(p)
        /\ pc[p] = "getc" /\ ~Waits(tyisem, p)
        /\ tyihead' = AfterRead(tyihead)
        /\ typed' = Tail(typed)
        /\ IF left = 0 \/ (tyimode = "COOKED" /\ ch \in {"NEWLINE", "EOF"})
           THEN Leave(p) /\ UNCHANGED tyisem
           ELSE Getc(p, left)
        /\ UNCHANGED <<tyibuff, tyitail, tyicursor, unsignalled, crowded, ovars, echo, modes,
                       tyoheld, uart, trouble, silent>>

(* ttycontrol(TC_NEXTC) waits for a character and gives the count back. *)
TtyNextC(p) ==
    /\ Handling
    /\ "NEXTC" \in Controls
    /\ pc[p] = "app"
    /\ tyisem' = SemWait(tyisem, p)
    /\ Continue(p, "nextc", <<>>, tyisem')
    /\ UNCHANGED <<tyibuff, tyihead, tyitail, tyicursor, typed, unsignalled, crowded, ovars, echo,
                   modes, tyoheld, uart, trouble, silent>>

TtyNextCEnd(p) ==
    /\ Running(p)
    /\ pc[p] = "nextc" /\ ~Waits(tyisem, p)
    /\ tyisem' = SemSignal(tyisem, 1)
    /\ Leave(p)
    /\ UNCHANGED <<tyibuff, tyihead, tyitail, tyicursor, typed, unsignalled, crowded, ovars, echo,
                   modes, tyoheld, uart, trouble, silent>>

(* The other functions of ttycontrol. *)
TtyControl ==
    /\ Handling
    /\ \/ \E mode \in {"RAW", "COOKED", "CBREAK"} \cap Controls :
              tyimode' = mode /\ UNCHANGED tyiecho
       \/ \E on \in {b \in BOOLEAN : (IF b THEN "ECHO" ELSE "NOECHO") \in Controls} :
              tyiecho' = on /\ UNCHANGED tyimode
    /\ UNCHANGED <<ivars, ovars, echo, tyoheld, uart, pvars, trouble, silent>>

-----------------------------------------------------------------------------
(* ttykickout; the UART interrupts at once if it has nothing to send. *)
Kickout == etbei' = TRUE /\ thre' = (thre \/ fifo = 0) /\ silent' = FALSE

(* ttywrite and ttyputc; in local, the characters still to be put, a       *)
(* RETURN before a NEWLINE.                                                *)
TtyPutc(p, ch) ==
    /\ Handling
    /\ pc[p] = "app"
    /\ tyosem' = SemWait(tyosem, p)
    /\ Continue(p, "putc", IF ch = "NEWLINE" THEN <<"RETURN", ch>> ELSE <<ch>>, tyosem')
    /\ UNCHANGED <<ivars, tyobuff, tyohead, tyotail, written, echo, modes, tyoheld, uart,
                   trouble, silent>>

TtyPutcEnd(p) ==
    LET ch == Head(local[p])
    IN  /\ Running(p)
        /\ pc[p] = "putc" /\ ~Waits(tyosem, p)
        /\ tyobuff' = [tyobuff EXCEPT ![tyotail] = ch]
        /\ tyotail' = (tyotail + 1) % TY_OBUFLEN
        /\ written' = Append(written, ch)
        /\ Kickout
        /\ IF Len(local[p]) = 1
           THEN Leave(p) /\ UNCHANGED tyosem
           ELSE /\ tyosem' = SemWait(tyosem, p)
                /\ Continue(p, "putc", Tail(local[p]), tyosem')
        /\ UNCHANGED <<ivars, tyohead, echo, modes, tyoheld, fifo, trouble>>

(* The UART sends a character; when the FIFO is empty it interrupts. *)
Transmit ==
    /\ fifo > 0
    /\ trouble = "no"
    /\ fifo' = fifo - 1
    /\ thre' = (thre \/ fifo = 1)
    /\ UNCHANGED <<ivars, ovars, echo, modes, tyoheld, etbei, pvars, trouble, silent>>

Smaller(a, b) == IF a < b THEN a ELSE b

(* Mutant: room in the output queue is taken for an empty one. *)
Finished_Room(pending, count) == pending = 0 /\ count > 0

(* Both queues are empty: turn off interrupts. *)
Finished(pending, count) == pending = 0 /\ count >= TY_OBUFLEN

(* What the handler takes for the number of characters to send. *)
Avail == TY_OBUFLEN - tyosem.count

(* Mutant: the wrap is made once, after the loop. *)
AfterSent_Once(head, n) == IF head + n >= TY_OBUFLEN THEN 0 ELSE head + n

AfterSent(head, n) == (head + n) % TY_OBUFLEN

(* ttyhandle_out: echo first, then output, as far as there is room. *)
TtyHandleOut ==
    LET echoed == Smaller(UART_FIFO_SIZE - fifo, echo)
        ochars == Smaller(UART_FIFO_SIZE - fifo - echoed, Avail)
    IN  /\ Handling
        /\ etbei /\ thre
        /\ thre' = FALSE
        /\ IF tyoheld
           THEN UNCHANGED <<echo, fifo, tyohead, tyosem, written, etbei, trouble>>
           ELSE /\ echo' = echo - echoed
                /\ fifo' = fifo + echoed + ochars
                /\ tyohead' = AfterSent(tyohead, ochars)
                /\ tyosem' = SemSignal(tyosem, ochars)
                /\ written' = SubSeq(written, ochars + 1, Len(written))
                /\ etbei' = ~Finished(echo', tyosem'.count)
                /\ trouble' = IF ochars <= Len(written) THEN "no"
                              ELSE IF LateWriters # {} THEN "late writer"
                              ELSE "nothing to send"
        /\ UNCHANGED <<ivars, tyobuff, tyotail, modes, tyoheld, pvars, silent>>

-----------------------------------------------------------------------------
(* ttyhandle_in, for one character; its cases in the order of the code.    *)

InAvail == IF tyisem.count < 0 THEN 0 ELSE tyisem.count

(* n calls of eputc: nothing looks whether the queue is full. *)
Eputc(n) == echo' = (echo + n) % TY_EBUFLEN /\ Kickout
Quiet == /\ silent' = (silent \/ tyoheld)
         /\ UNCHANGED <<echo, etbei, thre>>
Echoch(ch) == IF ~tyiecho THEN Quiet ELSE Eputc(IF ch = "x" THEN 1 ELSE 2)

(* *typtr->tyitail++ = ch; wrap says whether the pointer is wrapped, cause *)
(* what a full buffer is put down to.                                      *)
Store(ch, wrap, cause) ==
    IF tyitail = TY_IBUFLEN \/ Len(typed) = TY_IBUFLEN
    THEN /\ trouble' = IF tyitail = TY_IBUFLEN THEN "unwrapped"
                       ELSE IF crowded \/ LateReaders # {} THEN "late reader"
                       ELSE IF unsignalled > 0 THEN "unsignalled"
                       ELSE cause
         /\ UNCHANGED <<tyibuff, tyitail, typed>>
    ELSE /\ tyibuff' = [tyibuff EXCEPT ![tyitail] = ch]
         /\ tyitail' = IF wrap THEN (tyitail + 1) % TY_IBUFLEN ELSE tyitail + 1
         /\ typed' = Append(typed, ch)
         /\ UNCHANGED trouble

Kept == UNCHANGED <<tyibuff, tyitail, typed, trouble>>

(* Raw mode wraps the output tail, which is never at the end. *)
InRaw(ch) ==
    /\ tyimode = "RAW"
    /\ ch \in RawKey
    /\ IF InAvail >= TY_IBUFLEN THEN Kept /\ UNCHANGED tyisem
       ELSE Store(ch, FALSE, "raw") /\ tyisem' = SemSignal(tyisem, 1)
    /\ crowded' = (tyicursor > 0)
    /\ UNCHANGED <<tyihead, tyicursor, unsignalled, echo, tyoheld, etbei, thre, silent>>

(* ^Q and ^S *)
InFlow(ch) ==
    /\ tyimode # "RAW"
    /\ ch \in {"START", "STOP"}
    /\ tyoheld' = (ch = "STOP")
    /\ IF ch = "START" THEN Kickout ELSE UNCHANGED <<etbei, thre, silent>>
    /\ Kept
    /\ UNCHANGED <<tyihead, tyicursor, tyisem, unsignalled, crowded, echo>>

Bell == Eputc(1)

(* Nothing is signalled. *)
InCbreak(ch) ==
    /\ tyimode = "CBREAK"
    /\ ch \in RawKey
    /\ IF InAvail >= TY_IBUFLEN
       THEN Bell /\ Kept /\ UNCHANGED unsignalled
       ELSE Store(ch, TRUE, "unsignalled") /\ unsignalled' = unsignalled + 1 /\ Echoch(ch)
    /\ UNCHANGED <<tyihead, tyicursor, tyisem, crowded>>

(* The line is dropped; if it went round the end, the head is moved.       *)
InKill ==
    /\ IF tyitail - tyicursor < 0
       THEN trouble' = "killed line" /\ UNCHANGED <<tyitail, typed>>
       ELSE /\ tyitail' = tyitail - tyicursor
            /\ typed' = SubSeq(typed, 1, Len(typed) - tyicursor)
            /\ UNCHANGED trouble
    /\ tyicursor' = 0
    /\ Eputc(2)
    /\ UNCHANGED <<tyibuff, tyisem>>

(* Mutant of Erased: no way back over the beginning of the buffer. *)
Erased_NoWrap(tail) == IF tail = 0 THEN 0 ELSE tail - 1

Erased(tail) == IF tail = 0 THEN TY_IBUFLEN - 1 ELSE tail - 1

InErase ==
    /\ IF tyicursor > 0
       THEN /\ tyicursor' = tyicursor - 1
            /\ tyitail' = Erased(tyitail)
            /\ typed' = SubSeq(typed, 1, Len(typed) - 1)
            /\ IF tyiecho THEN Eputc(3) ELSE Quiet
       ELSE Quiet /\ UNCHANGED <<tyicursor, tyitail, typed>>
    /\ UNCHANGED <<tyibuff, tyisem, trouble>>

(* The end of a line makes it available; nothing looks for room. *)
InNewline(ch) ==
    /\ Echoch(ch)
    /\ Store(ch, TRUE, IF tyicursor = 0 THEN "empty line" ELSE "line")
    /\ tyisem' = SemSignal(tyisem, tyicursor + 1)
    /\ tyicursor' = 0

(* Mutant: no room is left for the end of the line. *)
Overflows_Late == InAvail + tyicursor >= TY_IBUFLEN

Overflows == InAvail + tyicursor >= TY_IBUFLEN - 1

InFull == Overflows /\ Bell /\ Kept /\ UNCHANGED <<tyisem, tyicursor>>

(* An end of file counts at the beginning of a line only, and does not     *)
(* wrap the pointer.                                                       *)
InEof(ch) ==
    /\ ~Overflows
    /\ Echoch(ch)
    /\ IF tyicursor # 0 THEN Kept /\ UNCHANGED tyisem
       ELSE Store(ch, FALSE, "char") /\ tyisem' = SemSignal(tyisem, 1)
    /\ UNCHANGED tyicursor

InChar(ch) ==
    /\ ~Overflows
    /\ Echoch(ch)
    /\ Store(ch, TRUE, "char")
    /\ tyicursor' = tyicursor + 1
    /\ UNCHANGED tyisem

InCooked(ch) ==
    /\ tyimode = "COOKED"
    /\ CASE ch = "KILL"    -> InKill
         [] ch = "ERASE"   -> InErase
         [] ch = "NEWLINE" -> InNewline(ch)
         [] ch = "EOF"     -> InFull \/ InEof(ch)
         [] OTHER          -> InFull \/ InChar(ch)
    /\ crowded' = (tyicursor' > 0 /\ (crowded \/ LateReaders # {}))
    /\ UNCHANGED <<tyihead, unsignalled>>

(* Any character but ^S and ^Q releases the output. *)
TtyHandleIn(ch) ==
    /\ Handling
    /\ \/ InRaw(ch)
       \/ InFlow(ch)
       \/ ch \notin {"START", "STOP"} /\ tyoheld' = FALSE /\ (InCbreak(ch) \/ InCooked(ch))
    /\ UNCHANGED <<ovars, modes, fifo, pvars>>

Stopped == trouble # "no" /\ UNCHANGED tvars

-----------------------------------------------------------------------------
(* ttyinit *)
Init ==
    /\ tyibuff = [i \in 0 .. TY_IBUFLEN - 1 |-> "x"]
    /\ tyihead = 0 /\ tyitail = 0 /\ tyicursor = 0
    /\ tyisem = [count |-> 0, queue |-> <<>>]
    /\ tyobuff = [i \in 0 .. TY_OBUFLEN - 1 |-> "x"]
    /\ tyohead = 0 /\ tyotail = 0
    /\ tyosem = [count |-> TY_OBUFLEN, queue |-> <<>>]
    /\ echo = 0
    /\ tyimode = "COOKED" /\ tyiecho = TRUE /\ tyoheld = FALSE
    /\ etbei = TRUE /\ thre = TRUE /\ fifo = 0
    /\ pc = [p \in Proc |-> "app"]
    /\ local = [p \in Proc |-> <<>>]
    /\ cpu = Idle
    /\ trouble = "no"
    /\ typed = <<>> /\ written = <<>> /\ unsignalled = 0
    /\ crowded = FALSE /\ silent = FALSE

ProcStep ==
    \E p \in Proc :
        \/ \E n \in ReadCounts : TtyRead(p, n)
        \/ \E ch \in Text : TtyPutc(p, ch)
        \/ TtyNextC(p) \/ TtyGetcEnd(p) \/ TtyNextCEnd(p) \/ TtyPutcEnd(p)

Next == \/ ProcStep \/ TtyControl
        \/ \E ch \in Key : TtyHandleIn(ch)
        \/ TtyHandleOut \/ Transmit \/ Stopped

Spec == Init /\ [][Next]_tvars

-----------------------------------------------------------------------------
(* The input buffer holds what was typed and not read, in order and with   *)
(* erased characters and killed lines taken out, and tyisem counts what    *)
(* readers may take: the buffer less the unfinished line, less what is     *)
(* promised to released readers (and less what cbreak mode stored, which   *)
(* never signals).  ttygetc relies on it: it takes a character without     *)
(* comparing the pointers.                                                 *)
InputExact ==
    trouble = "no" =>
        /\ tyitail % TY_IBUFLEN = (tyihead + Len(typed)) % TY_IBUFLEN
        /\ \A i \in DOMAIN typed : typed[i] = tyibuff[(tyihead + i - 1) % TY_IBUFLEN]
        /\ tyisem.count = Len(typed) - tyicursor - unsignalled
                          - Cardinality(LateReaders) - Len(tyisem.queue)

(* The output buffer holds what was written and not sent, in order, and    *)
(* tyosem counts its room less what is promised to released writers and    *)
(* those who wait.                                                         *)
OutputExact ==
    trouble = "no" =>
        /\ tyotail = (tyohead + Len(written)) % TY_OBUFLEN
        /\ \A i \in DOMAIN written : written[i] = tyobuff[(tyohead + i - 1) % TY_OBUFLEN]
        /\ tyosem.count = TY_OBUFLEN - Len(written)
                          - Cardinality(LateWriters) - Len(tyosem.queue)

(* The only ways out of the buffers are the known ones: a pointer that raw *)
(* mode or an end of file did not wrap, a killed line across the end, an   *)
(* empty line into a full buffer, a process that was released and has not  *)
(* run, unsignalled characters.  In particular the bell of                 *)
(* ttyhandle_in.c:142 always leaves room to end the line.                  *)
TroubleExplained == trouble \notin {"char", "line", "nothing to send"}

(* Output never sleeps in: with something to send, output not held and the *)
(* UART idle, an output interrupt is on its way, unless the last character *)
(* to release held output was one that echoes nothing (an erase at the     *)
(* beginning of a line, or any with the echo off), which does not kick.    *)
OutputArmed ==
    /\ trouble = "no"
    /\ written # <<>> \/ echo > 0
    /\ ~tyoheld /\ ~silent
    /\ fifo = 0
    => etbei /\ thre
=============================================================================
