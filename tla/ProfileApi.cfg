SPECIFICATION Spec
CONSTANTS
    Requests = {q1, q2, q3}
    Profiles = {p1, p2}
    Revisions <- Counted
    HistoryLimit = 2
    NoRequest = NoRequest
    NoEtag = NoEtag
SYMMETRY Symmetry
INVARIANTS
    EtagIdentifiesDocument
    WritesReplaceWhatTheyName
    ImportsOnlyCreate
    StatusTellsTheOutcome
