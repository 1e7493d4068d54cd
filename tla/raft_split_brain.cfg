\* Three processes, as in raft_cluster.cfg.
SPECIFICATION Spec
CONSTANTS
    Node = {n1, n2, n3}
    NoVote = NoVote
    Timeout = 1
    ElectionTimeout <- MCElectionTimeout
    HeartbeatInterval = 0
    MaxTerm = 2
    MaxInFlight = 3
SYMMETRY NodeSymmetry
CHECK_DEADLOCK FALSE
INVARIANT
    NoSplitBrain
