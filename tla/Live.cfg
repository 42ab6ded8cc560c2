SPECIFICATION FairSpec
CONSTANTS
    Blocks <- AllBlocks
    Points = {"p", "p2", "q", "x", "y"}
    Batches = {"B", "C", "D"}
    Branches <- FullForks
    MaxHeight = 2
    Height <- HeightOf
    Outputs <- CrowdedOutputs
    Manifest <- CrowdedManifests
    Exact = {"p", "p2", "q", "y"}
    Tx <- CrowdedTx
    None = None
    Scanners = {"s"}
    Resolvers = {"r"}
    Importers = {}
    Publishers = {}
    Verifiers = {}
    OwnPoints = {}
    Networks = {"regtest", "signet"}
    Network <- OnNode
    NodeNetwork = "regtest"
    Available = {"C", "D"}
    Claims <- SomeClaims
    StartHeight = 0
    MaxBlocks = 2
    Limit = 2
    RowLimit = 1
    MidScanReorg = TRUE
    RpcFails = FALSE
    Crashes = TRUE
    Serial = FALSE
    MaxMoves = 1
PROPERTIES
    ScanCatchesUp
    EveryPackageFound
CHECK_DEADLOCK FALSE
