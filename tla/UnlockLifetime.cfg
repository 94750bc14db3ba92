SPECIFICATION FairSpec
CONSTANTS
    Tokens = {t0, t1}
    SetupToken = t0
    Reqs = {r1, r2}
    Resetters = {r1}
    NoReq = NoReq
    IdleTimeout = 2
    AbsoluteTimeout = 2
    CapTTL = 2
    MaxTime = 3
    MaxPasswords = 2
PROPERTIES GrantWithinLifetime EveryRequestEnds
