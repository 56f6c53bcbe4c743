SPECIFICATION Spec
CONSTANTS
    Cells = {"a1", "b", "i"}
    Paths = {"a", "b", "i"}
    PathOf <- MCPathOf
    Values = {"v1", "v2"}
    None = None
    Conflict = Conflict
    Ignored = {"i"}
    Options <- MCMenu
    Starts <- MCAnyHidden
    MaxEdits = 1
    MaxWrites = 2
    MaxAnswers = 3
    MaxFaults = 0
    MaxSignals = 0
INVARIANTS
    AppliedIsWhatRan
    SuccessMeansDelivered
    CheckForetells
