CONSTANTS
    Keys = {1, 2, 3, 4}
    Items <- MCItems
    Desc <- MCDesc
    Sources <- MCFiles
    Passwords = {"none", "right", "wrong"}
    MaxObjects = 3
    MaxParseFacts = 4
    None = None
SPECIFICATION FairSpec
INVARIANTS
    StoreMatchesFile LockedStaysShut LockedIsReported CatalogFromLastTrailer
PROPERTY ParseReturns
