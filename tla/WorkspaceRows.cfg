SPECIFICATION Spec
CONSTANTS
    Reqs = {r1, r2, r3, r4, r5}
    NoReq = NoReq
    Years = {fy24, fy25}
    DefaultYears = {fy24}
SYMMETRY Symmetry
INVARIANTS OneBridge OneWorkspacePerYear
PROPERTIES ChecksAreAtomic
CHECK_DEADLOCK FALSE
