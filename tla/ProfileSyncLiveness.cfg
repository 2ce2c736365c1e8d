SPECIFICATION FairSpec
CONSTANTS
    NoCall = NoCall
    t1 = t1
    t2 = t2
    Tabs = {t1}
    RewardKeys = {k1}
    Rewarded = {TRUE}
    AttemptLimit = 2
    MaxUpdates <- Three
    MaxFetches <- Two
INVARIANT CacheIsCommitted
PROPERTY SavesSettle
