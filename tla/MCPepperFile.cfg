\* Two threads and a tree a, b, a/f, b/f.
SPECIFICATION Spec
CONSTANTS
    Thread = {t1, t2}
    Name = {a, b}
    Leaf = {f}
    Slot = {s1}
    MaxVersion = 1
    MaxInode = 3
    MaxCalls = 3
SYMMETRY Symmetry
INVARIANTS CacheFresh InodesSound
CHECK_DEADLOCK FALSE
