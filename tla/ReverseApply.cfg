SPECIFICATION Spec
CONSTANTS
    Cells = {"a1", "b"}
    Paths = {"a", "b"}
    PathOf <- MCPathOf
    Values = {"v1", "v2"}
    None = None
    Conflict = Conflict
    Ignored = {}
    Options <- MCReverseApply
    Starts <- MCClean
    MaxEdits = 0
    MaxWrites = 1
    MaxAnswers = 0
    MaxFaults = 0
    MaxSignals = 0
INVARIANTS
    ReverseIsApplied
