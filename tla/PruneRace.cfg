SPECIFICATION Spec
CONSTANTS
    Runs = {r1, r2}
    Lookalikes = {own}
    Foreign = {notes}
    Utilities = {u1}
    Repos = {plain, module}
    Derivable = {plain}
    MaxTroubles = 0
SYMMETRY Symmetry
INVARIANTS
    CapturedIsWhatRan
