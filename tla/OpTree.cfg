SPECIFICATION Spec
CONSTANTS
    B = 2
    Keys = 3
    MaxInserts = 10
    MaxUpdates = 1
    Position <- Ends
INVARIANTS
    Sound
    AccessAgrees
PROPERTIES
    ImplementsSequence
CHECK_DEADLOCK FALSE
