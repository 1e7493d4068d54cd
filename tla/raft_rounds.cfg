\* Three nodes with timeouts 2, 3 and 4; disturbances up to term 2.  The bound on
\* the later terms is never reached: a Tick that it stopped would be a deadlock.
SPECIFICATION Spec
CONSTANTS
    Node = {n1, n2, n3}
    NoVote = NoVote
    ElectionTimeout <- MCStaggered
    HeartbeatInterval = 1
    MaxTerm = 2
    MaxStableTerm = 9
INVARIANTS
    TypeOK
    ElectionSafety
PROPERTIES
    ImplementsElection
    SettlesOnOneLeader
