\* Callers may dup2 onto any descriptor: the bookkeeping invariants hold up to
\* the first failed assertion, where the process ends (hence no deadlock check).
SPECIFICATION Spec
CONSTANTS
    Thread = {t1, t2, t3}
    Stream = {s1, s2, s3, s4}
    Blocking = {s1, s2}
    MinFd = 1
    MaxFd = 3
    CallerFds = {0, 2}
    Absent = Absent
    Null = Null
SYMMETRY ThreadSymmetry
INVARIANTS TypeOK RefCountExact NoClosedStreamReachable FdPartition Disciplined
PROPERTY ClosedForever
CHECK_DEADLOCK FALSE
