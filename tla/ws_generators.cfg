SPECIFICATION SafeSpec
CONSTANTS
    Conns = {c1}
    Payloads <- SomePayloads
    LenLimit = 4
    MaxRuns = 2
    MaxFrames = 1
INVARIANTS
    OneGenerator
CHECK_DEADLOCK FALSE
