SPECIFICATION Spec
CONSTANTS
    c1 = c1
    c2 = c2
    b1 = b1
    b2 = b2
    NoCard = NoCard
    Catalogue <- TwoCards
    Branches <- TwoBranches
    BranchOf <- OneEach
    EvidenceFilters = {"all", "unvalidated"}
    Queries <- AnyText
    Scores = {90}
    RecentLimit = 1
    MaxWork = 3
    MaxMoves = 2
    MaxSaves = 2
INVARIANTS
    
    UnsavedIsQueued
PROPERTIES
    ValidationsEnd
CHECK_DEADLOCK FALSE
