SPECIFICATION Spec
CONSTANTS
    Path <- Paths
    Keys = {"", "a", "0"}
    Number <- Numbers
    Canonical <- Canonicals
    Values <- SomeValues
    Width = 2
    MaxObjects = 3
    MaxItems = 2
INVARIANTS
    MirrorExact
    FailedCallLeavesDocument
    ReimportShowsTheSame
CONSTRAINT Continued
