SPECIFICATION DPFairSpec
CONSTANTS
    c1 = c1
    c2 = c2
    r1 = r1
    r2 = r2
    NumEngines = 2
    Clients = {c1, c2}
    Requests = {r1, r2}
    ClientOf <- MCClientOf
    Steps <- MCSteps
    SyncInterval = 2
    Admin = c1
    MaxPauses = 1
    Settings <- MCSettings
INVARIANTS
    CollectivesMatch
    WavesInStep
    QuietIsAgreed
PROPERTIES
    EveryRequestServed
    WavesEnd
CHECK_DEADLOCK FALSE
