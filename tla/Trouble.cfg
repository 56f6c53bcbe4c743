SPECIFICATION Spec
CONSTANTS
    Cells = {"a1", "b"}
    Paths = {"a", "b"}
    PathOf <- MCPathOf
    Values = {"v1", "v2"}
    None = None
    Conflict = Conflict
    Ignored = {}
    Options <- MCTrouble
    Starts <- MCAny
    MaxEdits = 1
    MaxWrites = 1
    MaxAnswers = 0
    MaxFaults = 1
    MaxSignals = 1
INVARIANTS
    TypeOK
    CleansUp
    KeptWorktreeStays
    ReportHolds
PROPERTIES
    RefusalLeavesTree
