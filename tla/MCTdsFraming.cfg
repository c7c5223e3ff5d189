SPECIFICATION FairSpec
CONSTANTS
    Types = {sql, rpc}
    OtherType = OtherType
    NoType = NoType
    MaxMessages = 2
    MaxPackets = 2
    MaxBody = 2
INVARIANTS TypeOK SpinsOnlyWhenTorn
PROPERTIES Reassembles Delivered ReaderEnds
CHECK_DEADLOCK FALSE
