\* Two threads and the main thread; any operation may fail and any wait time out.
\* The system stops once the socket is closed.
SPECIFICATION FairSpec
CONSTANTS
    Thread = {t1, t2}
    QueueSize = 2
    MaxSends = 3
    Errors = {"Bind", "Read", "Write"}
    RecvTimeouts = TRUE
INVARIANTS Armed NoLostWakeup NoAssertFails
PROPERTY CallsReturn
CHECK_DEADLOCK FALSE
