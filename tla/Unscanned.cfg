SPECIFICATION Spec
CONSTANTS
    Claim = claim
    Author = "author"
    Slots = {s1, s2, s3}
    Bodies <- ProfileBodies
    ImpactTags = {"none", "direct"}
    Recognised = {"editor"}
    NoticeBlocks = 2
    CoolingBlocks = 1
    MaxHeight = 3
    MaxAnchors = 1
INVARIANTS
    NoticeHides
SYMMETRY SlotSymmetry
CHECK_DEADLOCK FALSE
