\* Any call at any time; the behaviour ends with a write to an erased entry.  The
\* tree is a, b, a/f, b/f.  No symmetry: a liveness property is checked.
SPECIFICATION PreopenFairSpec
CONSTANTS
    Name = {a, b}
    Leaf = {f}
    Listed <- OneBranch
    Caller = {t1, t2}
    MaxScheduled = 2
    MaxFile = 2
    MaxChanges = 2
INVARIANTS EntriesSound EntriesFresh
PROPERTY OpenReturns
CHECK_DEADLOCK FALSE
