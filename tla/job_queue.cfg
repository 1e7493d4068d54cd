\* Four requests at a time on a queue of two.
SPECIFICATION Spec
CONSTANTS
    Job = {j1, j2, j3, j4}
    Capacity = 2
    None = None
INVARIANTS
    TypeOK
    JobInOnePlace
PROPERTY
    EveryJobAnswered
