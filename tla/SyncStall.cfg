SPECIFICATION Spec
CONSTANTS
    Peer = {p1, p2}
    Hash = {h1, h2}
    ChangeAnyTime = TRUE
    MaxFalsePositives = 1
    MaxMessages = 2
    MaxOther = 0
    MaxReconnects = 0
SYMMETRY Symmetry
INVARIANT QuietMeansInSync
CHECK_DEADLOCK FALSE
