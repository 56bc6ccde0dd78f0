\* A listener, two clients and what accept creates.  All threads may block and
\* every socket be used up: the system may stop.
SPECIFICATION Spec
CONSTANTS
    Sock = {s1, s2, s3, s4}
    Thread = {t1, t2, t3}
    Name = {n1}
    LogdName = {}
    Types = {"SOCK_SEQPACKET"}
    Capacity = 1
    MaxBacklog = 2
    MaxCmsgs = 0
    Careful = TRUE
    Timeouts = FALSE
    Null = Null
SYMMETRY Symmetry
INVARIANTS Consistent NoLostWakeup
CHECK_DEADLOCK FALSE
