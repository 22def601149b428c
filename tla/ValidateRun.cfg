CONSTANTS
    MaxInputs = 3
    Jobs = 2
    MaxProfiles = 2
    Recursive = FALSE
SPECIFICATION FairSpec
INVARIANTS ValidMeansChecked InputOrderKept VerdictsAgree
PROPERTY RunEnds
