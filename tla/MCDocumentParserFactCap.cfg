CONSTANTS
    Keys = {1, 2, 3, 4}
    Items <- MCItems
    Desc <- MCDesc
    Sources <- MCEncryptFiles
    Passwords = {"none"}
    MaxObjects = 3
    MaxParseFacts = 3
    None = None
SPECIFICATION Spec
INVARIANT DeclaredEncryptionReported
