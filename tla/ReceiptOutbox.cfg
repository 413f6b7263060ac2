SPECIFICATION FairSpec
CONSTANTS
    e1 = e1
    e2 = e2
    exit = exit
    relay = relay
    Exits = {exit}
    Relays = {relay}
    Receipts <- MCReceipts
    Batch = 1
    Faulty = {"enqueue", "delete", "load"}
    MaxFaults = 1
    MaxCrashes = 1
INVARIANTS
    AcknowledgementIsKept
PROPERTIES
    RelayIsAcknowledged
CHECK_DEADLOCK FALSE
