CONSTANTS
    Databases = {master, db1}
    Master = master
    NoDb = NoDb
    MaxRequests = 4
    MaxAhead = 1
    MaxStatements = 3
SPECIFICATION Spec
INVARIANTS
    TypeOK
    TransactionBracket
    AnsweredOnceInOrder
    EveryRequestAnswered
    FailureTold
    ResultsHeldOnSuccess
    ClientKnowsDatabase
    WorkMatchesOutcome
    RpcAnswerIsDurable
PROPERTY
    PathDivergesOnlyByRollback
CHECK_DEADLOCK FALSE
