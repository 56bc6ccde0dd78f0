-------------------------- MODULE MCCircularBuffer --------------------------
(***************************************************************************)
(* Model checking of CircularBuffer with a few bytes.                      *)
(***************************************************************************)
EXTENDS CircularBuffer

CONSTANTS
    MaxLength,   \* longest argument of write() and read()
    MaxCapacity  \* largest argument of set_capacity()

MCInputs == UNION {[1 .. n -> Byte] : n \in 0 .. MaxLength}
MCLengths == 0 .. MaxLength
MCCapacities == 0 .. MaxCapacity
=============================================================================
