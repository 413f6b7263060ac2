SPECIFICATION BrowserFairSpec
CONSTANTS
    Exits = {"x", "y"}
    Retries = 1
    QueueLimit = 2
    Packets = 2
    Answers = 1
    Window = 4
    Faults = 0
PROPERTY TunnelIsAnswered
CHECK_DEADLOCK FALSE
