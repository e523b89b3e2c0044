\* Two confirmations, a crash between them, and no documents.
CONSTANTS
    Idle = Idle
    Worker = {1}
    Request = {r1}
    Doc = {}
    Lag = 0
    Month <- MCMonth
    InMorning = FALSE
    TiesFirst = TRUE
    LastTrade = 2
    LastDay = 4
    MaxBusy = 2
    MaxRuns = 1
    MaxFaults = 1
SPECIFICATION Spec
PROPERTY
    CachedIsReused
