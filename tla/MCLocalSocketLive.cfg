\* Liveness, with timeouts of poll and accept; no symmetry.
SPECIFICATION FairSpec
CONSTANTS
    Sock = {s1, s2, s3}
    Thread = {t1, t2}
    Name = {n1}
    LogdName = {n1}
    Types = {"SOCK_STREAM"}
    Capacity = 1
    MaxBacklog = 1
    MaxCmsgs = 2
    Careful = TRUE
    Timeouts = TRUE
    Null = Null
PROPERTY AnsweredReturn
CHECK_DEADLOCK FALSE
