CONSTANTS
    Keys = {1, 2, 3, 4}
    Items <- MCItems
    Desc <- MCDesc
    Sources <- MCUpdatedFiles
    Passwords = {"none"}
    MaxObjects = 3
    MaxParseFacts = 100
    None = None
SPECIFICATION Spec
INVARIANT LatestRevisionWins
