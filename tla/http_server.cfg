\* Two connections, one of which sends any of ten streams; a reader that holds
\* five units, and no slice of more than five bytes.
SPECIFICATION Spec
CONSTANTS
    c1 = c1
    Client = {c1, c2}
    Streams <- MCStreams
    BufferSize = 5
    MaxMake = 5
    None = None
CHECK_DEADLOCK FALSE
INVARIANTS
    TypeOK
    RequestAsSent
    ExitNeedsCause
PROPERTY
    CompleteRequestAnswered
