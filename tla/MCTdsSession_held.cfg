CONSTANTS
    Databases = {master}
    Master = master
    NoDb = NoDb
    MaxRequests = 3
    MaxAhead = 1
    MaxStatements = 2
SPECIFICATION Spec
INVARIANT
    ResultsHeld
CHECK_DEADLOCK FALSE
