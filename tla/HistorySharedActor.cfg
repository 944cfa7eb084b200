SPECIFICATION FairSpec
CONSTANTS
    Doc = {d1, d2}
    InitialDocs = {d1}
    Actor = {a1}
    ActorOf <- OneActor
    Hash = {h1, h2, h3}
    MaxOps = 0
    MaxBatch = 2
    MaxQueue = 1
    ReceiveWhileOpen = TRUE
    ForkWhileOpen = TRUE
INVARIANTS
    HistoryTopological
    HeadsExact
PROPERTIES
    CallReturns
