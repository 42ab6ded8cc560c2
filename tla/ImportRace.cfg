SPECIFICATION Spec
CONSTANTS
    Blocks <- AllBlocks
    Points = {"p", "x"}
    Batches = {"B", "C"}
    Branches <- ShortForks
    MaxHeight = 2
    Height <- HeightOf
    Outputs <- SingleOutputs
    Manifest <- OneManifest
    Exact = {"p"}
    Tx <- TxOfBogus
    None = None
    Scanners = {"s"}
    Resolvers = {}
    Importers = {"i"}
    Publishers = {}
    Verifiers = {}
    OwnPoints = {}
    Networks = {"regtest", "signet"}
    Network <- OnNode
    NodeNetwork = "regtest"
    Available = {"B"}
    Claims <- SomeClaims
    StartHeight = 0
    MaxBlocks = 2
    Limit = 2
    RowLimit = 2
    MidScanReorg = FALSE
    RpcFails = FALSE
    Crashes = FALSE
    Serial = FALSE
    MaxMoves = 1
PROPERTIES
    ImportKeepsConfirmed
CHECK_DEADLOCK FALSE
