SPECIFICATION StartSpec
CONSTANTS
    Processes = {"serve", "cli"}
    OldRows <- ThreeOld
    LateRows <- LateB
    NewRows <- OneNew
    MaxStops = 2
INVARIANTS
    TypeOK
    NothingDestroyed
    CompleteWhenUndisturbed
    VersionFollowsTable
CHECK_DEADLOCK FALSE
