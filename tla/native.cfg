SPECIFICATION Spec
CONSTANTS
    Clients = {c1}
    Apps <- SomeApps
    Requests <- SomeRequests
    Dbs = {d1, d2}
    NoDb = NoDb
    BadTable = "no table"
    NoTable = "none"
    MaxRuns = 2
INVARIANTS
    TypeOK
    AnswerHonest
    OwnTable
    GrantHonest
PROPERTIES
    ImplementsRows
CHECK_DEADLOCK FALSE
