\* Two trades, one statement, a crash or an unreadable file.
CONSTANTS
    Idle = Idle
    Worker = {1, 2}
    Request = {r1}
    Doc = {d1}
    Lag = 1
    Month <- MCMonth
    InMorning = FALSE
    TiesFirst = TRUE
    LastTrade = 2
    LastDay = 4
    MaxBusy = 2
    MaxRuns = 2
    MaxFaults = 1
SPECIFICATION FairSpec
INVARIANTS
    TypeOK
    ConfirmedOnce
    NothingUploadedIsLost
    CommittedIsBooked
PROPERTIES
    TotalsSettle
