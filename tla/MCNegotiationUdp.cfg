SPECIFICATION Spec
CONSTANTS
    Ordered = FALSE
    Requests <- UdpRequests
    FirstBlocks <- BinaryBlocks
    Bad = Bad
    Garbled = Garbled
    Retransmit = 2
    MaxConns = 2
    MaxLosses = 0
    Lateness = 0
    Environments = {FALSE}
INVARIANTS
    Agreement SizeReported OnlyRequestedOptions OnlyPeerTransfers
    NilMeansAnswered NegotiationInv
