SPECIFICATION Spec
CONSTANTS
    Blocks <- AllBlocks
    Points = {"p", "q"}
    Batches = {"B", "C"}
    Branches <- Forks
    MaxHeight = 2
    Height <- HeightOf
    Outputs <- ReminedOutputs
    Manifest <- TwoManifests
    Exact = {"p", "q"}
    Tx <- TxOfPair
    None = None
    Scanners = {"s"}
    Resolvers = {"r"}
    Importers = {"i"}
    Publishers = {"u"}
    Verifiers = {}
    OwnPoints = {"p"}
    Networks = {"regtest", "signet"}
    Network <- OnNode
    NodeNetwork = "regtest"
    Available = {"B", "C"}
    Claims <- SomeClaims
    StartHeight = 0
    MaxBlocks = 2
    Limit = 2
    RowLimit = 2
    MidScanReorg = FALSE
    RpcFails = FALSE
    Crashes = FALSE
    Serial = TRUE
    MaxMoves = 3
INVARIANTS
    BlocksOnOneBranch
    SyncedViewExact
    NoStaleConfirmed
    ResolvedIsConfirmed
PROPERTIES
    DemotedOnlyOffChain
CHECK_DEADLOCK FALSE
