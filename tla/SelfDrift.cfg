SPECIFICATION Spec
CONSTANTS
    Cells = {"a1", "b"}
    Paths = {"a", "b"}
    PathOf <- MCPathOf
    Values = {"v1", "v2"}
    None = None
    Conflict = Conflict
    Ignored = {}
    Options <- MCSaveInside
    Starts <- MCClean
    MaxEdits = 1
    MaxWrites = 1
    MaxAnswers = 0
    MaxFaults = 0
    MaxSignals = 0
INVARIANTS
    DriftIsByOthers
