\* Three processes, terms 1 and 2, at most three messages under way.  With
\* timeouts of 1 any Tick is a timeout but the one that a heartbeat overtakes,
\* and there it matters which tick handleInbox reads.
SPECIFICATION Spec
CONSTANTS
    Node = {n1, n2, n3}
    NoVote = NoVote
    Timeout = 1
    ElectionTimeout <- MCElectionTimeout
    HeartbeatInterval = 0
    MaxTerm = 2
    MaxInFlight = 3
SYMMETRY NodeSymmetry
CHECK_DEADLOCK FALSE
INVARIANTS
    TypeOK
    VoteOncePerTerm
    VotesReceivedAreGranted
    SplitBrainNeedsStaleVote
PROPERTY
    TermsAndVotesOnlyAdvance
