SPECIFICATION FairSpec
CONSTANTS
    Helpers = {"helper"}
    MaxTyped = 2
INVARIANTS
    NoMenuAfterSharing
    MenuIsHeard
    TerminalRestored
    KilledIsNoSuccess
    NobodyOverlooked
PROPERTIES
    PromptReturn
    CutOffEnds
