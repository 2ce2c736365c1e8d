SPECIFICATION Spec
CONSTANTS
    NoRequest = NoRequest
    Requests = {r1, r2, r3}
    Profiles = {local}
    Expectations = {0, 1, 2}
    HistoryLimit = 2
    PoolSize = 3
    MaxFailures = 1
SYMMETRY Symmetry
INVARIANTS
    RepositoryInv
    NoLostUpdate
    HistoryIsNewestWindow
    AnswersAreTrue
    AnswersAreFresh
    AdvisoryLockSerialises
PROPERTIES
    RevisionsOnlyAdvance
    ImplementsStore
