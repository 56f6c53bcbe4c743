SPECIFICATION Spec
CONSTANTS
    Cells = {"a1", "a2", "b"}
    Paths = {"a", "b"}
    PathOf <- MCPathOf
    Values = {"v1", "v2"}
    None = None
    Conflict = Conflict
    Ignored = {}
    Options <- MCApply
    Starts <- MCAny
    MaxEdits = 2
    MaxWrites = 2
    MaxAnswers = 0
    MaxFaults = 0
    MaxSignals = 0
INVARIANTS
    OnlyTheCommand
    DriftedHeadIsLeftAlone
PROPERTIES
    ImplementsGate
    RefusedPatchIsKept
