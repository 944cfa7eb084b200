SPECIFICATION SpecOneAtATime
CONSTANTS
    Doc = {d1, d2}
    InitialDocs = {d1, d2}
    Actor = {d1, d2}
    ActorOf <- OwnActor
    Hash = {1, 2, 3}
    MaxOps = 1
    MaxBatch = 1
    MaxQueue = 2
    ReceiveWhileOpen = FALSE
    ForkWhileOpen = FALSE
INVARIANTS
    GetChangesComplete
    GetChangesExactIfNoneEmpty
    GetChangesAddedExact
    FilterChangesExact
    MissingDepsMakeProgress
