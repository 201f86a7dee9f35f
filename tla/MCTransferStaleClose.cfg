SPECIFICATION Spec
CONSTANTS
    Ordered = FALSE
    WindowSize = 1
    BlockMod = 8
    Retransmit = 2
    MaxFull = 3
    MaxRead = 1
    MaxLosses = 0
    Lateness = 0
    NetFails = FALSE
    ReaderQuits = FALSE
    LeftToSender <- AllLeftToSender
    LeftToReceiver <- AllLeftToReceiver
INVARIANTS
    NilCloseMeansReceived
