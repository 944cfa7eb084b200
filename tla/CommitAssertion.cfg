SPECIFICATION SpecOneCallAtATime
CONSTANTS
    Doc = {d1, d2}
    InitialDocs = {d1, d2}
    Actor = {d1, d2}
    ActorOf <- OwnActor
    Hash = {h1, h2}
    MaxOps = 1
    MaxBatch = 1
    MaxQueue = 1
    ReceiveWhileOpen = TRUE
    ForkWhileOpen = FALSE
SYMMETRY HashSymmetry
PROPERTIES
    CommitIsOnlyHead
