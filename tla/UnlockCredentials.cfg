SPECIFICATION Spec
CONSTANTS
    Tokens = {t0, t1, t2}
    SetupToken = t0
    Reqs = {r1, r2}
    Resetters = {r1}
    NoReq = NoReq
    IdleTimeout = 2
    AbsoluteTimeout = 2
    CapTTL = 2
    MaxTime = 2
    MaxPasswords = 2
SYMMETRY TokenSymmetry
INVARIANTS GrantSound RevokedKeyGone
PROPERTIES RevocationIsFinal
