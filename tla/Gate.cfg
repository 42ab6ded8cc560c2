SPECIFICATION GateSpec
CONSTANTS
    Threads = {t1, t2}
    Offers <- SomeRequests
    Role = "relay"
    Tokens = {"T"}
    RequireToken = FALSE
    AdminToken = "A"
    Proxies = {"proxy"}
    Records = {"a", "b"}
    Target <- TargetOf
    Sound = {"a", "b"}
    Requests = 2
    Window = 2
    MaxKeys = 2
    PruneEvery = 2
    MaxTime = 2
    None = None
SYMMETRY Symmetric
INVARIANTS
    TypeOK
    WindowBound
    KeysBounded
    RelayedIsComplete
PROPERTIES
    RefusedOnlyWhenBusy
CHECK_DEADLOCK FALSE
