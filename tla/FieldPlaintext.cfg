SPECIFICATION Spec
CONSTANTS
    Docs = {}
    Items = {i1}
    Texts = {text}
    ErrorTexts = {}
    Passwords = {p1}
    SystemNote = SystemNote
    None = None
PROPERTIES EncryptedOnlyWrites
