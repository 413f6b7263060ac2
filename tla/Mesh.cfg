SPECIFICATION Spec
CONSTANTS
    Exits = {"x", "y"}
    Retries = 1
    QueueLimit = 2
    Packets = 2
    Answers = 1
    Window = 2
    Faults = 1
    Peers = {"a", "b", "c"}
    Entry <- TwoEntries
    Refreshed <- OneRefreshed
    Demotion = 2
    MaxEvents = 2
    MaxSequence = 2
    ReorderWindow = 2
    MaxErrors = 2
    MaxBytes = 2
    MaxSends = 3
INVARIANTS
    TypeOK
    ReadinessIsHonest
    AttemptsAreWatched
    NeighborsAreReachable
    BrowserReadsInOrder
    PaidOnce
PROPERTIES
    NewsNeverGoesBack
    WritesInOrder
CHECK_DEADLOCK FALSE
