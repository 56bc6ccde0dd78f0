--------------------------- MODULE CircularBuffer ---------------------------
(***************************************************************************)
(* arc::CircularBuffer (common/circular_buffer.cc), the byte buffer behind *)
(* stream local sockets and pipes, one action per method.  A memcpy is a   *)
(* change of the bytes it covers; a byte nobody has written is Junk.       *)
(***************************************************************************)
EXTENDS Integers, Sequences

CONSTANTS
    Byte,       \* values of a byte
    Junk,       \* the content of a byte of new char[capacity]
    Inputs,     \* arguments of write()
    Lengths,    \* arguments of read()
    Capacities  \* arguments of set_capacity()

ASSUME BufferAssumption ==
    /\ Junk \notin Byte
    /\ Inputs \subseteq Seq(Byte)
    /\ Lengths \subseteq Nat
    /\ Capacities \subseteq Nat

VARIABLES
    buffer,    \* buffer_, a function on the offsets below capacity_
    start,     \* start_
    end,       \* end_
    capacity,  \* capacity_
    size,      \* size_
    given,     \* the bytes the last call was given
    asked,     \* the number of bytes the last call asked for
    out,       \* the bytes the last call copied to its caller
    ret        \* what the last call returned

bufferVars == <<buffer, start, end, capacity, size, given, asked, out, ret>>

Min(m, n) == IF m <= n THEN m ELSE n

BufferInit ==
    /\ buffer = [j \in 0 .. -1 |-> Junk]
    /\ start = 0 /\ end = 0 /\ capacity = 0 /\ size = 0
    /\ given = << >> /\ asked = 0 /\ out = << >> /\ ret = 0

-----------------------------------------------------------------------------
\* Mutant of Copied: the second part of a write that wraps is copied from the
\* start of the argument.
CopiedMutant(s, n) ==
    LET end_size == capacity - end IN
    [j \in 0 .. capacity - 1 |->
      IF end <= j /\ j < end + n THEN s[j - end + 1]
      ELSE IF j < n - end_size THEN s[j + 1]
      ELSE buffer[j]]

\* The two memcpy calls of write(): n bytes of s from end_ on, wrapping to 0.
Copied(s, n) ==
    LET end_size == capacity - end IN
    [j \in 0 .. capacity - 1 |->
      IF end <= j /\ j < end + n THEN s[j - end + 1]
      ELSE IF j < n - end_size THEN s[end_size + j + 1]
      ELSE buffer[j]]

\* The two memcpy calls of read(): n bytes from start_ on, wrapping to 0.
Bytes(n) ==
    LET end_size == capacity - start IN
    [i \in 1 .. n |->
      IF i <= end_size THEN buffer[start + i - 1] ELSE buffer[i - end_size - 1]]

\* Mutant of NextStart: start_ stays at capacity_ when a read ends there.
NextStartMutant(n) ==
    IF n <= capacity - start THEN start + n ELSE n - (capacity - start)

\* Where start_ moves after a read of n bytes.
NextStart(n) ==
    IF n = 0 THEN start
    ELSE IF n < capacity - start THEN start + n
    ELSE n - (capacity - start)

\* Where end_ moves after a write of n bytes.
NextEnd(n) == IF n <= capacity - end THEN end + n ELSE n - (capacity - end)

\* Mutant of ReadableBytes: the capacity limits a read.
ReadableBytesMutant(len) == Min(len, capacity)

\* How many bytes a read of len bytes gets.
ReadableBytes(len) == Min(len, size)

write(s) ==
    LET n == Min(Len(s), capacity - size) IN
    /\ buffer' = Copied(s, n)
    /\ end' = NextEnd(n)
    /\ size' = size + n
    /\ given' = s /\ asked' = 0 /\ out' = << >> /\ ret' = n
    /\ UNCHANGED <<start, capacity>>

read(len) ==
    LET n == ReadableBytes(len) IN
    /\ out' = Bytes(n)
    /\ start' = NextStart(n)
    /\ size' = size - n
    /\ given' = << >> /\ asked' = len /\ ret' = n
    /\ UNCHANGED <<buffer, end, capacity>>

clear ==
    /\ start' = 0 /\ end' = 0 /\ size' = 0
    /\ given' = << >> /\ asked' = 0 /\ out' = << >> /\ ret' = 0
    /\ UNCHANGED <<buffer, capacity>>

\* Mutant of set_capacity: start_ is not reset.
set_capacityMutant(c) ==
    LET n == ReadableBytes(c) IN
    /\ buffer' = [j \in 0 .. c - 1 |-> IF j < n THEN Bytes(n)[j + 1] ELSE Junk]
    /\ start' = NextStart(n) /\ end' = n /\ size' = n
    /\ capacity' = c
    /\ given' = << >> /\ asked' = 0 /\ out' = << >> /\ ret' = 0

\* The oldest bytes that fit are read into a new buffer; the others are lost.
set_capacity(c) ==
    LET n == ReadableBytes(c) IN
    /\ buffer' = [j \in 0 .. c - 1 |-> IF j < n THEN Bytes(n)[j + 1] ELSE Junk]
    /\ start' = 0 /\ end' = n /\ size' = n
    /\ capacity' = c
    /\ given' = << >> /\ asked' = 0 /\ out' = << >> /\ ret' = 0

BufferNext ==
    \/ \E s \in Inputs : write(s)
    \/ \E len \in Lengths : read(len)
    \/ clear
    \/ \E c \in Capacities : set_capacity(c)

BufferSpec == BufferInit /\ [][BufferNext]_bufferVars

-----------------------------------------------------------------------------
(* Properties *)

\* The offset of the byte i places after the oldest one.
Slot(i) == IF start + i < capacity THEN start + i ELSE start + i - capacity

\* The indices are offsets of the buffer, and the bytes delivered are bytes
\* that were written.
BufferTypeOK ==
    /\ capacity \in Nat /\ size \in 0 .. capacity
    /\ start \in 0 .. capacity /\ end \in 0 .. capacity
    /\ buffer \in [0 .. capacity - 1 -> Byte \cup {Junk}]
    /\ given \in Seq(Byte) /\ asked \in Nat
    /\ out \in Seq(Byte) /\ ret \in Nat

\* size_ is kept next to start_ and end_ and agrees with them.  After a read
\* that empties the buffer at its end, start_ has wrapped and end_ has not.
IndicesAgree ==
    /\ start < capacity \/ capacity = 0
    /\ \/ end = start + size
       \/ end = start + size - capacity
       \/ start = 0 /\ size = 0 /\ end = capacity

\* Every byte between start_ and end_ has been written.
HoldsNoJunk == \A i \in 0 .. size - 1 : buffer[Slot(i)] \in Byte

\* The three together: no order of writes, short reads, clears and changes of
\* capacity lets size_, start_ and end_ drift apart or delivers a byte that
\* nobody wrote.
BufferInv == BufferTypeOK /\ IndicesAgree /\ HoldsNoJunk

Content == [i \in 1 .. size |-> buffer[Slot(i - 1)]]

Fifo == INSTANCE BoundedFifo WITH queue <- Content, cap <- capacity

\* The buffer is a bounded first-in first-out queue of bytes: no byte is lost,
\* repeated or reordered by the wrap-around, whatever the sizes of the calls,
\* and set_capacity keeps the oldest bytes.
ImplementsFifo == Fifo!Spec
=============================================================================
