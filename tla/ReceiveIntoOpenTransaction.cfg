SPECIFICATION Spec
CONSTANTS
    B = 2
    Actor = {1, 2}
    Kinds = {"list"}
    Keys = {1}
    Indexes = {0, 1, 2}
    Actions <- InsertsOnly
    Base <- Empty
    MaxOps = 4
    MaxPending = 2
    ReceiveWhileOpen = TRUE
INVARIANTS
    Convergent
CHECK_DEADLOCK FALSE
