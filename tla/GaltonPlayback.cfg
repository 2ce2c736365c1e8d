SPECIFICATION FairSpec
CONSTANTS
    Simulations <- Uneven
    Bins = {0, 1}
    Speeds = {"slow", "normal"}
    Rate <- Rates
    Duration <- Durations
    Unit = 3
    Deltas = {1, 3}
    MaxDelta = 2
    SampleRate = 3
    MaxTraces = 2
INVARIANTS
    TrialsCountedOnce
    FinishedIsShown
PROPERTY RunCompletes
