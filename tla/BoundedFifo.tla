---------------------------- MODULE BoundedFifo ----------------------------
(***************************************************************************)
(* What a byte buffer promises its user: a first-in first-out queue that   *)
(* never holds more than its capacity.  CircularBuffer implements it.      *)
(***************************************************************************)
EXTENDS Integers, Sequences

CONSTANTS
    Inputs,    \* the byte sequences a writer may pass
    Lengths,   \* the lengths a reader may ask for
    Capacities \* the capacities that may be set

VARIABLES
    queue,  \* the bytes written and not yet read, oldest first
    cap,    \* how many it may hold
    given,  \* the bytes the last call was given
    asked,  \* the number of bytes the last call asked for
    out,    \* the bytes the last call delivered
    ret     \* the value the last call returned

vars == <<queue, cap, given, asked, out, ret>>

Lesser(m, n) == IF m <= n THEN m ELSE n

Init == queue = << >> /\ cap = 0 /\ given = << >> /\ asked = 0 /\ out = << >> /\ ret = 0

\* As many bytes are taken as there is room for; the rest is refused.
Write(s) ==
    LET n == Lesser(Len(s), cap - Len(queue)) IN
    /\ queue' = queue \o SubSeq(s, 1, n)
    /\ given' = s /\ asked' = 0 /\ out' = << >> /\ ret' = n
    /\ UNCHANGED cap

\* The oldest bytes are delivered, in the order they were written.
Read(len) ==
    LET n == Lesser(len, Len(queue)) IN
    /\ out' = SubSeq(queue, 1, n)
    /\ queue' = SubSeq(queue, n + 1, Len(queue))
    /\ given' = << >> /\ asked' = len /\ ret' = n
    /\ UNCHANGED cap

Clear ==
    /\ queue' = << >>
    /\ given' = << >> /\ asked' = 0 /\ out' = << >> /\ ret' = 0
    /\ UNCHANGED cap

\* A smaller capacity keeps the oldest bytes.
SetCapacity(c) ==
    /\ cap' = c
    /\ queue' = SubSeq(queue, 1, Lesser(Len(queue), c))
    /\ given' = << >> /\ asked' = 0 /\ out' = << >> /\ ret' = 0

Next ==
    \/ \E s \in Inputs : Write(s)
    \/ \E n \in Lengths : Read(n)
    \/ Clear
    \/ \E c \in Capacities : SetCapacity(c)

Spec == Init /\ [][Next]_vars
=============================================================================
