CONSTANTS
    MaxInputs = 2
    Jobs = 2
    MaxProfiles = 1
    Recursive = FALSE
SPECIFICATION Spec
INVARIANT InternalErrorsCategorised
