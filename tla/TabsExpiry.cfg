SPECIFICATION FairSpec
CONSTANTS
    Tabs = {t1, t2}
    Active = {t1}
    MaxEntries = 2
    MaxCalls = 2
    MaxEvents = 1
INVARIANTS ShellHasSession
PROPERTIES ExpiryReachesTabs RefusedLoadLocks
CHECK_DEADLOCK FALSE
