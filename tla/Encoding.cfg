SPECIFICATION Spec
CONSTANTS
    GroupBits = 2
    MaxSize = 6
    DEFLATE_MIN_SIZE = 40
    DeflatedSize <- RunsOf
    InflateRatio = 2
    IntHalf = 270
    CellValues = {0, 3, 4, 1022, 2047}
    MaxCells = 5
    Operations <- AllOperations
    Drafts <- AllDrafts
    MaxOperations = 3
INVARIANTS
    ColumnsRoundTrip
    ChangeRoundTrip
    RebuiltUnchanged
    DocumentRoundTrip
    TornFileKeepsPrefix
CHECK_DEADLOCK FALSE
