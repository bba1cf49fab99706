SPECIFICATION Spec
CONSTANTS
    Methods = {"GET", "POST"}
    Literals = {"me"}
    Params = {":id"}
    MaxSegs = 1
    MaxRoutes = 2
    MaxRuns = 2
INVARIANTS
    TypeOK
    HandlerFound
    RoutesReachable
    AllowHonest
CHECK_DEADLOCK FALSE
