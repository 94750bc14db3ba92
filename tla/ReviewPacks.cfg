SPECIFICATION Spec
CONSTANTS
    Items = {i1}
    Docs = {d1, d2}
    Exports = {e1, e2}
    MaxCrashes = 1
SYMMETRY Symmetry
INVARIANTS DeletedPackIsGone ListedPackHasFile SuccessHasPack ReadyIsCompliant
CHECK_DEADLOCK FALSE
