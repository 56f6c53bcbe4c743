SPECIFICATION UnattendedSpec
CONSTANTS
    Cells = {"a1", "b"}
    Paths = {"a", "b"}
    PathOf <- MCPathOf
    Values = {"v1", "v2"}
    None = None
    Conflict = Conflict
    Ignored = {}
    Options <- MCPolicy
    Starts <- MCAny
    MaxEdits = 0
    MaxWrites = 1
    MaxAnswers = 2
    MaxFaults = 1
    MaxSignals = 1
INVARIANTS
    SuccessMeansDelivered
    FailureKeepsPatch
PROPERTIES
    Terminates
    TimeoutEndsRun
    SignalEndsRun
