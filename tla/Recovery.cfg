SPECIFICATION FairSpec
CONSTANTS
    Items <- AllItems
    KindOf <- ItemKind
    Needs <- ItemNeeds
    Digests = {"d"}
    MaxFaults = 2
INVARIANTS
    TypeOK
    ArchiveIsCut
    RestoredClosed
PROPERTIES
    EvidenceFirst
    Recovers
CHECK_DEADLOCK FALSE
