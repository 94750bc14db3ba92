SPECIFICATION FairSpec
CONSTANTS
    Jobs = {1}
    Workers = {w1, w2}
    Nobody = Nobody
    Caps = {c1, c2}
    LeaseTime = 1
    CapTTL = 1
    SessionTTL = 2
    MaxFailures = 1
    MaxTime = 3
    MaxAttempts = 1
INVARIANTS RunningJobHasWorker
PROPERTIES CheckedWhileUnlocked RetriedJobIsClaimed
CHECK_DEADLOCK FALSE
