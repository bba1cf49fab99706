SPECIFICATION Spec
CONSTANTS
    Conns = {c1}
    Payloads <- SomePayloads
    LenLimit = 4
    MaxRuns = 2
    MaxFrames = 2
INVARIANTS
    TypeOK
    FramesInOrder
    AtMostTwice
    NoStaleBroadcast
    EnvelopesValid
PROPERTIES
    ImplementsFeed
    StrandedClientsEnd
CHECK_DEADLOCK FALSE
