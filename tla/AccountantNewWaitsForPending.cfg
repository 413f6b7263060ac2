SPECIFICATION Spec
CONSTANTS
    c1 = c1  c2 = c2  r1 = r1  r2 = r2
    Creditors = {c1, c2}
    Requests = {}
    NoRequest = NoRequest
    Modes = {TRUE}
    Wallets = {TRUE}
    MaxDebt <- MCMaxDebt
    MaxTx = 2
    MaxFaults = 1
    MaxCrashes = 1
CHECK_DEADLOCK FALSE
INVARIANTS NewWaitsForPending
