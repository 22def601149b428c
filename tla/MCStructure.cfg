CONSTANTS
    None = None
    Documents <- MCDocuments
    Values <- MCValues
    MaxDepth = 2
    MaxNodes = 8
    MaxEntries = 3
    MaxRoleSteps = 3
SPECIFICATION Spec
INVARIANTS ReadingOrder NothingLostSilently ContentHasItsElement RolesResolved AcceptedTablesTile
