SPECIFICATION Spec
CONSTANTS
    Ordered = FALSE
    WindowSize = 2
    BlockMod = 8
    Retransmit = 2
    MaxFull = 4
    MaxRead = 2
    MaxLosses = 0
    Lateness = 0
    NetFails = TRUE
    ReaderQuits = TRUE
    LeftToSender <- AllLeftToSender
    LeftToReceiver <- AllLeftToReceiver
INVARIANTS
    InOrder EofMeansComplete RingCoversUnreceived IndInv
PROPERTIES
    ImplementsPipe
