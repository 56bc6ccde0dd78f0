\* Two byte values show any byte in the wrong place; the longest argument does
\* not fit in the largest buffer.
SPECIFICATION BufferSpec
CONSTANTS
    Byte = {0, 1}
    Junk = 2
    MaxLength = 4
    MaxCapacity = 3
    Inputs <- MCInputs
    Lengths <- MCLengths
    Capacities <- MCCapacities
INVARIANT BufferInv
PROPERTY ImplementsFifo
