SPECIFICATION Spec
CONSTANTS
    NoCall = NoCall
    t1 = t1
    t2 = t2
    Tabs = {t1, t2}
    RewardKeys = {k1}
    Rewarded = {TRUE}
    AttemptLimit = 2
    MaxUpdates <- Two
    MaxFetches <- One
SYMMETRY Symmetry
INVARIANTS
    PaidAndRecordedOnce
    ResolvedEvidenceKept
 
