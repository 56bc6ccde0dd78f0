\* Two ashmem streams and files in three pages.  The system stops only at a
\* failed assertion.
SPECIFICATION Spec
CONSTANTS
    Ashmem = {a1, a2}
    File = {f1}
    NumPages = 3
    Sizes = {2}
    MaxRef = 2
    OsFails = TRUE
    ReusesUnmapped = FALSE
    None = None
SYMMETRY Symmetry
INVARIANTS MapSound ReadsOwnPages RefCountExact NoAssertFails
CHECK_DEADLOCK FALSE
