SPECIFICATION Spec
CONSTANTS
    Helpers = {"helper"}
    MaxTyped = 1
INVARIANTS
    EachLineToItsReader
