\* Stream socket pairs, pipes and connections, and datagram sockets paired or
\* named in the logd namespace, with room for two bytes or packets.
SPECIFICATION Spec
CONSTANTS
    Sock = {s1, s2, s3}
    Thread = {t1, t2}
    Name = {n1}
    LogdName = {n1}
    Types = {"SOCK_STREAM", "SOCK_DGRAM"}
    Capacity = 2
    MaxBacklog = 2
    MaxCmsgs = 2
    Careful = TRUE
    Timeouts = FALSE
    Null = Null
SYMMETRY Symmetry
INVARIANTS NoLostWakeup PeerSymmetric DescriptorsNotStranded
CHECK_DEADLOCK FALSE
