SPECIFICATION SafeSpec
CONSTANTS
    Requests = {r1, r2}
    External = {main}
    LoopTask = serve
    SelfStop = {}
    Capacity = 1
    Parallel = FALSE
INVARIANTS
    NotifyTargetAlive
CHECK_DEADLOCK FALSE
