SPECIFICATION Spec
CONSTANTS
    Tasks = {t1, t2}
    Apps = {a1, a2}
    NoApp = NoApp
    MaxRuns = 2
    BadFps = TRUE
    Schedules = {"sequential"}
INVARIANTS
    TypeOK
    LoopOwnsServer
    NoStaleWsTask
    NotifierRooted
PROPERTIES
    StopEnds
    ImplementsOneServer
CHECK_DEADLOCK FALSE
