SPECIFICATION SafeSpec
CONSTANTS
    Requests = {r1, r2, r3}
    External = {main}
    LoopTask = serve
    SelfStop = {r3}
    Capacity = 2
    Parallel = FALSE
SYMMETRY Symmetry
INVARIANTS
    TypeOK
    NoLostWakeup
    InflightCounts
    NoStraggler
    SelfStopNeverReturns
CHECK_DEADLOCK FALSE
