SPECIFICATION HFairSpec
CONSTANTS
    Ordered = TRUE
    WindowSize = 2
    BlockMod = 4
    Retransmit = 2
    MaxFull = 5
    MaxRead = 1
    MaxLosses = 0
    Lateness = 0
    NetFails = TRUE
    ReaderQuits = TRUE
    LeftToSender <- NothingLeft
    LeftToReceiver <- NothingLeft
    Environments = {TRUE}
PROPERTIES
    ServesEveryFile
