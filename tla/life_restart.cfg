SPECIFICATION SafeSpec
CONSTANTS
    Tasks = {t1, t2}
    Apps = {a1}
    NoApp = NoApp
    MaxRuns = 2
    BadFps = FALSE
    Schedules = {"cooperative"}
SYMMETRY Symmetry
INVARIANTS
    StopEndsLoop
CHECK_DEADLOCK FALSE
