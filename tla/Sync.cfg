SPECIFICATION FairSpec
CONSTANTS
    Items <- SyncItems
    KindOf <- SyncKinds
    Needs <- SyncNeeds
    Malformed = {"bad"}
    Conflicting = {"odd"}
    Elsewhere = {"b"}
    Limit <- SyncPages
    MaxPages = 1
    Threads = {"periodic"}
    MaxEpoch = 2
    MaxFaults = 1
INVARIANTS
    TypeOK
    NothingSkipped
    ClosedUnderNeeds
PROPERTIES
    Converges
CHECK_DEADLOCK FALSE
