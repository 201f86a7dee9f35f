SPECIFICATION FairSpec
CONSTANTS
    Ordered = TRUE
    Requests <- AllRequests
    FirstBlocks <- TextBlocks
    Bad = Bad
    Garbled = Garbled
    Retransmit = 2
    MaxConns = 1
    MaxLosses = 2
    Lateness = 1
    Environments = {TRUE, FALSE}
PROPERTIES
    Settles Succeeds
