SPECIFICATION FairSpec
CONSTANTS
    Peer = {p1, p2}
    Hash = {h1, h2}
    ChangeAnyTime = FALSE
    MaxFalsePositives = 1
    MaxMessages = 2
    MaxOther = 1
    MaxReconnects = 1
INVARIANTS
    TypeOK
    SentArrives
    SharedHeadsKnownToPair
    ExactPairNeverStalls
PROPERTIES
    Converges
    FallsQuiet
CHECK_DEADLOCK FALSE
