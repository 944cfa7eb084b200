SPECIFICATION Spec
CONSTANTS
    B = 2
    Actor = {1, 2}
    Kinds = {"map", "list"}
    Keys = {1, 2}
    Indexes = {0, 1, 3}
    Actions <- Counting
    Base <- Small
    MaxOps = 3
    MaxPending = 2
    ReceiveWhileOpen = FALSE
INVARIANTS
    OpsExact
    QueriesExact
    SavedDocumentLoads
CHECK_DEADLOCK FALSE
