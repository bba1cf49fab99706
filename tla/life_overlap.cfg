SPECIFICATION SafeSpec
CONSTANTS
    Tasks = {t1, t2}
    Apps = {a1}
    NoApp = NoApp
    MaxRuns = 2
    BadFps = TRUE
    Schedules = {"cooperative", "parallel"}
SYMMETRY Symmetry
INVARIANTS
    FlagsAgree
    ChannelPaired
CHECK_DEADLOCK FALSE
