SPECIFICATION Spec
CONSTANTS
    Jobs = {"p", "q"}
    Size <- MCSize
    MaxTime = 2
    MaxTroubles = 3
INVARIANTS
    NoDebris
    SavedStays
    SidecarMatches
    AppliesItsOwn
    CopyIsWhole
PROPERTIES
    ImplementsStore
