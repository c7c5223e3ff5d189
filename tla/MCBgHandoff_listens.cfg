SPECIFICATION FairSpec
CONSTANTS
    Conns = {c1, c2, c3}
    Workers = {w1, w2, w3}
    NoConn = NoConn
    NoWorker = NoWorker
    MaxSlots = 1
    MaxFds = 6
PROPERTIES Listens
CHECK_DEADLOCK FALSE
