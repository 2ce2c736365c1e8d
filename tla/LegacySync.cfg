SPECIFICATION FairSpec
CONSTANTS
    NoCall = NoCall
    NoTag = NoTag
    t1 = t1
    t2 = t2
    Tabs = {t1, t2}
    Keys = {k1, k2}
    Flows = {f1, f2}
    Bounds <- OneOrBothTabs
INVARIANTS
    XpNeverInflated
    EtagFollowsRevision
PROPERTIES
    ServerKeepsAwards
    PageKeepsAwards
    StatusSettles
