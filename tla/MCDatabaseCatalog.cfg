CONSTANTS
    Short = master
    Long = master2
    Databases <- MCDatabases
    Installed <- MCInstalled
    Like <- MCLike
    Sessions = {s1, s2}
    MaxStatements = 2
SPECIFICATION FairSpec
INVARIANTS
    TypeOK
    Whole
    StrandedOnlyByLoss
PROPERTIES
    DatabasesAtomic
    BatchEnds
CHECK_DEADLOCK FALSE
