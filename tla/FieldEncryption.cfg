SPECIFICATION Spec
CONSTANTS
    Docs = {d1}
    Items = {i1, i2}
    Texts = {text, error}
    ErrorTexts = {error}
    Passwords = {p1, p2}
    SystemNote = SystemNote
    None = None
INVARIANTS KeyOpensEverything NothingOlderIsShown 
PROPERTIES RetirementHolds
