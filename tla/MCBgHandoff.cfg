SPECIFICATION FairSpec
CONSTANTS
    Conns = {c1, c2, c3}
    Workers = {w1, w2, w3, w4}
    NoConn = NoConn
    NoWorker = NoWorker
    MaxSlots = 2
    MaxFds = 6
INVARIANTS TypeOK OwnWorker RunsOnItsSocket
PROPERTIES HandsOver WedgedForGood Served
CHECK_DEADLOCK FALSE
