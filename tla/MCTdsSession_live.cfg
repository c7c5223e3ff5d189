CONSTANTS
    Databases = {master}
    Master = master
    NoDb = NoDb
    MaxRequests = 3
    MaxAhead = 2
    MaxStatements = 2
SPECIFICATION FairSpec
PROPERTIES
    RequestsServed
    WorkerEnds
CHECK_DEADLOCK FALSE
