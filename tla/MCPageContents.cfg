CONSTANTS
    Contents <- MCContents
    Names = {"a", "b"}
    None = None
    MaxOps = 6
    MaxOperands = 3
    MaxOperandBytes = 4
    MaxDepth = 2
    MaxImage = 1
    Docs <- MCDocs
    Root = 1
    MaxPages = 2
    MaxObjects = 4
    MaxResourceContexts = 3
SPECIFICATION Spec
INVARIANTS
    StacksAgree MarkingExact PagesInReadingOrder NamesResolveNearest
CHECK_DEADLOCK FALSE
