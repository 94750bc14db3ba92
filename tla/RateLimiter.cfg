SPECIFICATION LimiterFairSpec
CONSTANTS
    c1 = c1
    c2 = c2
    Clients = {c1, c2}
    Asks <- MCAsks
    MaxRequests <- MCMaxRequests
    Window = 4
    Second = 2
    Places = {1, 2}
    None = None
INVARIANTS WindowHolds RefusedOnlyAtLimit ToldToTheSecond
PROPERTIES NobodyLockedOut
