SPECIFICATION FairSpec
CONSTANTS
    Ordered = TRUE
    WindowSize = 2
    BlockMod = 4
    Retransmit = 2
    MaxFull = 6
    MaxRead = 1
    MaxLosses = 2
    Lateness = 2
    NetFails = TRUE
    ReaderQuits = TRUE
    LeftToSender <- FifoLeftToSender
    LeftToReceiver <- FifoNothingLeft
INVARIANTS
    FifoInv UnreadWithinSlots NilCloseMeansReceived
PROPERTIES
    ImplementsPipe Termination
