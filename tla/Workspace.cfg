SPECIFICATION Spec
CONSTANTS
    c1 = c1
    c2 = c2
    c3 = c3
    b1 = b1
    b2 = b2
    s1 = s1
    Nil = Nil
    Unknown = Unknown
    Catalogue <- ThreeCards
    Branches <- TwoBranches
    BranchOf <- TwoAndOne
    Scenarios <- OneScenario
    BranchOfScenario <- ScenarioBranch
    SearchTexts = {"c", "d", "x"}
    Match <- Matches
    LabelRank <- Backwards
    Limit = 2
    Scores = {50, 90}
    MaxHistory = 2
    MaxValidations = 2
    MaxFrames = 2
INVARIANTS
    GapsAreNotHidden
    
    PaletteTakesKeys
CHECK_DEADLOCK FALSE
