SPECIFICATION HistorySpec
CONSTANTS
    Blocks <- AllBlocks
    Points = {"p", "x"}
    Batches = {"B", "C"}
    Branches <- ForkPair
    MaxHeight = 2
    Height <- HeightOf
    Outputs <- ForeignOutputs
    Manifest <- OneManifest
    Exact = {"p"}
    Tx <- TxOfBogus
    None = None
    Scanners = {"s"}
    Resolvers = {"r"}
    Importers = {"i"}
    Publishers = {}
    Verifiers = {"v"}
    OwnPoints = {}
    Networks = {"regtest", "signet"}
    Network <- OnNode
    NodeNetwork = "regtest"
    Available = {"B"}
    Claims <- SomeClaims
    StartHeight = 1
    MaxBlocks = 3
    Limit = 1
    RowLimit = 2
    MidScanReorg = TRUE
    RpcFails = TRUE
    Crashes = TRUE
    Serial = FALSE
    MaxMoves = 1
INVARIANTS
    TypeOK
    ConfirmedIsWitnessed
    ResolvedHasAnchor
PROPERTIES
    ImplementsLedger
CHECK_DEADLOCK FALSE
