SPECIFICATION Spec
CONSTANTS
    Paths <- MCPaths
    Numerals = {"0", "2"}
    Number <- MCNumber
    MaxRecords = 2
    MaxLost = 3
INVARIANTS
    StatusIsRead
    SummaryAgrees
    CutIsNoticed
