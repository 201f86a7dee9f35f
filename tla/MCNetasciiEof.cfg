SPECIFICATION Spec
CONSTANTS
    Plain = {"a"}
    Chunks <- ShortChunks
    ReadSizes = {1, 2, 9}
    BlkSize = 3
    WriterCap = 3
    ReaderCap = 3
    MaxText = 3
INVARIANTS
    EofMeansAllRead
