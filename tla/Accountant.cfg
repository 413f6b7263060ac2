SPECIFICATION FairSpec
CONSTANTS
    c1 = c1  c2 = c2  r1 = r1  r2 = r2
    Creditors = {c1, c2}
    Requests = {r1, r2}
    NoRequest = NoRequest
    Modes = {TRUE, FALSE}
    Wallets = {TRUE, FALSE}
    MaxDebt <- MCMaxDebt
    MaxTx = 2
    MaxFaults = 1
    MaxCrashes = 1
CHECK_DEADLOCK FALSE
INVARIANTS TypeOK OneScanTrain LedgerIsExact
PROPERTIES ScansEnd
