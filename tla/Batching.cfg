SPECIFICATION Spec
CONSTANTS
    Arrivals <- FiveArrivals
    Size <- RecordSize
    Offers <- PeerOffers
    Calls = {"c1", "c2"}
    Times = {1, 2}
    Limit = 3
    MaxPackage = 7
    Envelope = 0
    PerRecord = 1
    EnvelopeGuess = 1
    PerRecordGuess = 1
    MaxExtras = 1
INVARIANTS
    TypeOK
    ProofsVerify
    RootsBind
    PackagesFit
PROPERTIES
    EveryRecordBatched
CHECK_DEADLOCK FALSE
