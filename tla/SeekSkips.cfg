SPECIFICATION Spec
CONSTANTS
    B = 2
    Actor = {1, 2}
    Kinds = {"map"}
    Keys = {1}
    Indexes = {0}
    Actions <- PutsAndDeletes
    Base <- Empty
    MaxOps = 5
    MaxPending = 1
    ReceiveWhileOpen = FALSE
INVARIANTS
    KeyOpsAscending
CHECK_DEADLOCK FALSE
