SPECIFICATION Spec
CONSTANTS
    Families = {f1, f2, f3, f4}
    Attempts = {a1}
    Scenarios <- Undone
    SetupLife = 1
    ProgressLife = 3
    None = None
SYMMETRY Symmetry
CHECK_DEADLOCK FALSE
INVARIANTS
    CompensationMeansUnchanged
