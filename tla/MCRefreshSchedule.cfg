\* Two institutions; a session that was left behind may run beside the next.
CONSTANTS
    NoInst = NoInst
    Inst = {i1, i2}
    Session = {1, 2}
    Interval = 1
    Backoff <- MCBackoff
    MaxRetries = 2
    MaxSetback = 1
    MaxCuts = 1
SPECIFICATION FairSpec
INVARIANTS
    TypeOK
    WaitsAsAsked
PROPERTIES
    RetriesKeepDistance
    NobodyIsForgotten
