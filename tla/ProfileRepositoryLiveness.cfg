SPECIFICATION FairSpec
CONSTANTS
    NoRequest = NoRequest
    Requests = {r1, r2}
    Profiles = {local, other}
    Expectations = {0, 1}
    HistoryLimit = 1
    PoolSize = 2
    MaxFailures = 1
 
PROPERTIES
    CallsEnd
    LocksAreReleased
