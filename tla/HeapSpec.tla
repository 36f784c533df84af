------------------------------- MODULE HeapSpec -------------------------------
(***************************************************************************)
(* What the memory manager promises: a request is granted a run of free    *)
(* words that no other caller holds, it is refused only if there is no     *)
(* such run, and a region that is given back can be granted again.         *)
(***************************************************************************)
EXTENDS Integers

CONSTANTS
    Word,           \* the words of the heap
    Request,        \* the sizes callers ask for
    Granted(_),     \* the words granted for a size
    SYSERR, OK, FREE

VARIABLES
    free,   \* the words nobody holds
    held,   \* the regions callers hold: first word, words asked for
    ret     \* the size asked for or FREE, and what the call has returned

svars == <<free, held, ret>>

Run(a, len) == a .. (a + len - 1)
Grantable(n) == {a \in Word : Run(a, Granted(n)) \subseteq free}

Init == free = Word /\ held = {} /\ ret = <<FREE, OK>>

Grant(n) == \E a \in Grantable(n) :
    /\ free' = free \ Run(a, Granted(n))
    /\ held' = held \cup {<<a, n>>}
    /\ ret' = <<n, a>>

Refuse(n) == /\ n = 0 \/ Grantable(n) = {}
             /\ ret' = <<n, SYSERR>>
             /\ UNCHANGED <<free, held>>

GiveBack(r) ==
    /\ free' = free \cup Run(r[1], Granted(r[2]))
    /\ held' = held \ {r}
    /\ ret' = <<FREE, OK>>

RefuseFree == ret' = <<FREE, SYSERR>> /\ UNCHANGED <<free, held>>

Next == \/ \E n \in Request : (n > 0 /\ Grant(n)) \/ Refuse(n)
        \/ \E r \in held : GiveBack(r)
        \/ RefuseFree

Spec == Init /\ [][Next]_svars
=============================================================================
