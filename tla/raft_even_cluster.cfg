\* Four nodes, two of which time out together; one term.
SPECIFICATION Spec
CONSTANTS
    Node = {n1, n2, n3, n4}
    NoVote = NoVote
    ElectionTimeout <- MCPaired
    HeartbeatInterval = 1
    MaxTerm = 1
    MaxStableTerm = 1
CHECK_DEADLOCK FALSE
INVARIANT
    ElectionSafety
