SPECIFICATION Spec
CONSTANTS
    Blocks <- AllBlocks
    Points = {"p", "q"}
    Batches = {"B", "C"}
    Branches <- Forks
    MaxHeight = 2
    Height <- HeightOf
    Outputs <- SplitOutputs
    Manifest <- TwoManifests
    Exact = {"p", "q"}
    Tx <- TxOfPair
    None = None
    Scanners = {"s"}
    Resolvers = {}
    Importers = {}
    Publishers = {}
    Verifiers = {}
    OwnPoints = {}
    Networks = {"regtest", "signet"}
    Network <- OnNode
    NodeNetwork = "regtest"
    Available = {"B"}
    Claims <- SomeClaims
    StartHeight = 0
    MaxBlocks = 2
    Limit = 2
    RowLimit = 2
    MidScanReorg = TRUE
    RpcFails = FALSE
    Crashes = FALSE
    Serial = TRUE
    MaxMoves = 2
INVARIANTS
    NoStaleConfirmed
CHECK_DEADLOCK FALSE
