SPECIFICATION SpecOneCallAtATime
CONSTANTS
    Doc = {d1, d2}
    InitialDocs = {d1}
    Actor = {d1, d2}
    ActorOf <- OwnActor
    Hash = {h1, h2, h3}
    MaxOps = 1
    MaxBatch = 2
    MaxQueue = 2
    ReceiveWhileOpen = TRUE
    ForkWhileOpen = FALSE
SYMMETRY HashSymmetry
INVARIANTS
    TypeOK
    HistoryTopological
    HeadsExact
    MaxOpExact
    OpIdsUnique
    QueueBlocked
    StatesExact
    NeverRejected
PROPERTIES
    NothingLost
    ImplementsStore
