\* Two increments and a merge, a wait or a close at the same time; the third fence
\* is merged from the other two, or they use its descriptor up.  Objects are used
\* up in the end: the system may stop.
SPECIFICATION Spec
CONSTANTS
    Thread = {t1, t2, t3}
    Timeline = {a, b}
    MaxFence = 3
    MaxCounter = 1
    MaxFds = 3
    Null = Null
SYMMETRY Symmetry
INVARIANTS PointersSound NeverEarly NeverForgotten NoLostWakeup NoAssertFails LockHierarchy
CHECK_DEADLOCK FALSE
