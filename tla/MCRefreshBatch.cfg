\* One session over two institutions, with a crash and a restart.
CONSTANTS
    Session = {s1}
    Institution = {nfcu, chase}
    NoInst = NoInst
    MaxRetries = 1
    MaxCrashes = 1
SPECIFICATION FairSpec
INVARIANTS
    ReportIsTrue
    RowTracksSession
    OnlyTimeoutBreaksMoves
    CrashedRunsClosed
PROPERTIES
    TakenUpUnderLock
    LockIsReleased
    InnerThreadsEnd
