SPECIFICATION FairSpec
CONSTANTS
    c1 = c1
    c2 = c2
    Addrs = {c1, c2}
    Configs <- ReadOnlyConfigs
    DispatchCap = 1
    DoneCap = 1
    ReqCap = 1
    Resends = FALSE
    MaxPackets = 5
INVARIANTS
    NoCrossTalk ServerInv
PROPERTIES
    RejectsOnlyStrangers KeepsUp HandlersEnd CloseStopsServe
CHECK_DEADLOCK FALSE
