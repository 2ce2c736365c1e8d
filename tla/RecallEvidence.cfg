SPECIFICATION DocumentSpec
CONSTANTS
    Vocabulary <- Words
    Minor = {"the"}
    Synonyms <- Groups
    Connectives = {"because"}
    Scoping = {"confirm"}
    Topics <- Themes
    MaxConcepts = 2
    CardIds = {"c1", "c2"}
    NoCard = NoCard
    Texts <- Answers
    Catalogues <- Editions
    MaxAttempts = 2
    MaxClaims = 2
    MaxRecent = 1
    Imported <- LegacyAttempt
    MaxWrites = 4
    MaxDay = 2
INVARIANTS
    PageWritesAreAccepted
    XpIsEarned
    MoreNeverScoresLess
CHECK_DEADLOCK FALSE
