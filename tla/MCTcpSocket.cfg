\* Two threads and the main thread; any operation may fail and any wait time out.
\* The system stops once the socket is closed.  No symmetry: liveness is checked.
SPECIFICATION FairSpec
CONSTANTS
    Thread = {t1, t2}
    BufSize = 4
    MaxSend = 2
    Errors = {"Listen", "Accept", "Connect", "Read", "Write"}
    RecvTimeouts = TRUE
    SendTimeouts = TRUE
INVARIANTS Armed NoLostWakeup NoAssertFails
PROPERTY CallsReturn
CHECK_DEADLOCK FALSE
