SPECIFICATION Spec
CONSTANTS
    Ordered = TRUE
    Requests <- WriteRequests
    FirstBlocks <- TextBlocks
    Bad = Bad
    Garbled = Garbled
    Retransmit = 2
    MaxConns = 1
    MaxLosses = 1
    Lateness = 1
    Environments = {FALSE}
INVARIANTS
    Agreement
