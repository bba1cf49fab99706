SPECIFICATION SafeSpec
CONSTANTS
    Tasks = {t1}
    Apps = {a1}
    NoApp = NoApp
    MaxRuns = 2
    BadFps = FALSE
    Schedules = {"sequential"}
INVARIANTS
    AlreadyRunning
CHECK_DEADLOCK FALSE
