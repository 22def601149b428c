CONSTANTS
    Workers = {"w1", "w2", "w3"}
    Paths = {"a", "x", "y", "z"}
    Plans <- MCPlans
    BadName = "bad"
    Halves = {1, 2}
    Absent = Absent
    TooBig <- MCTooBig
    Validation <- MCValidation
    Jobs = 2
    EnvWrites = 1
SPECIFICATION Spec
INVARIANTS OutputsValidated WrittenIsThere ExitZeroMeansAllWritten
PROPERTY NeverOverwrites
