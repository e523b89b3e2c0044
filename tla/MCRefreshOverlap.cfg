\* Two sessions for one institution: the second starts while the threads of
\* a timed-out first one are still at work.
CONSTANTS
    Session = {s1, s2}
    Institution = {nfcu}
    NoInst = NoInst
    MaxRetries = 1
    MaxCrashes = 0
SYMMETRY Symmetry
SPECIFICATION Spec
INVARIANTS
    TypeOK
    LockFollowsManager
    OneUncancelledSession
    FailuresAccountedFor
PROPERTY
    KeepsLedger
