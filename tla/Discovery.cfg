SPECIFICATION ViewSpec
CONSTANTS
    Claim = claim
    Author = "author"
    Slots = {s1, s2}
    Bodies <- PairBodies
    ImpactTags = {"none"}
    Recognised = {"editor"}
    NoticeBlocks = 1
    CoolingBlocks = 1
    MaxHeight = 2
    MaxAnchors = 1
    MaxWrites = 2
INVARIANTS
    TypeOK
    ListedByDecision
    ViewRespectsKnown
PROPERTIES
    BurnersCannotHide
    ClassificationOnlyRises
SYMMETRY SlotSymmetry
CHECK_DEADLOCK FALSE
