\* Two epoll streams, which can also watch each other, and a socket.
SPECIFICATION Spec
CONSTANTS
    Epoll = {e1, e2}
    Socket = {s1}
    Plain = {}
    Thread = {t1, t2}
    Event = {"in"}
    Null = null
    MaxRefs = 2
    Timeouts = TRUE
SYMMETRY Symmetry
INVARIANTS Consistent NoLostWakeup NoAssertFails
