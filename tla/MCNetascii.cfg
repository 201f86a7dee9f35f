SPECIFICATION FairSpec
CONSTANTS
    Plain = {"a"}
    Chunks <- ShortChunks
    ReadSizes = {1, 2, 9}
    BlkSize = 3
    WriterCap = 3
    ReaderCap = 3
    MaxText = 4
INVARIANTS
    WellFormed TextArrives EofAfterShortRead NetasciiInv
PROPERTIES
    ReaderEnds
