SPECIFICATION ReceiptSpec
CONSTANTS
    Streams = {long, short}
    Auths = {auth}
    AuthOf <- OneAuth
    Cap = 3
    Charges <- TwoCharges
    MaxStates = 2
    Depths = {1, 2}
    MaxSequence <- TwoReceipts
    MaxHeight = 2
    MaxReorgs = 1
    MaxInFlight = 2
    MaxProposals = 1
    MaxFaults = 1
    s1 = s1  s2 = s2  long = long  short = short  auth = auth
SYMMETRY StreamSymmetry
INVARIANTS
    ReceiptTypeOK
    CapHolds
    PaysForSeenTraffic
    AccountedExactly
    ClaimIsKept
    AuthorizationIsDurable
PROPERTIES
    OnlyTheCurrentRoutePays
