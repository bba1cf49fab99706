SPECIFICATION Spec
CONSTANTS
    Requests = {r1, r2}
    External = {main}
    LoopTask = serve
    SelfStop = {}
    Capacity = 1
    Parallel = TRUE
INVARIANTS
    HandleOwnership
    AtMostOneStraggler
PROPERTIES
    QueuedEventuallyPolled
    StopReturns
    ImplementsService
CHECK_DEADLOCK FALSE
