CONSTANTS
    None = None
    Files <- MCFiles
    Defaults <- MCDefaults
    Builtin <- MCBuiltin
    NsPrefixes = {"r", "a", "u", "d", "x", "z"}
    MaxDepth = 4
    MaxElements = 6
    MaxAttributes = 5
    MaxNamespaces = 6
    MaxProperties = 4
    MaxInstructions = 1
    MaxText = 2
    MaxFacts = 8
SPECIFICATION Spec
INVARIANT RecognisedClaimUsed
