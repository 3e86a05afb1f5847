SPECIFICATION Spec
CONSTANTS
    Families = {f1, f2, f3, f4}
    Attempts = {a1, a2}
    Scenarios <- Overlaps
    SetupLife = 1
    ProgressLife = 1
    None = None
SYMMETRY Symmetry
CHECK_DEADLOCK FALSE
INVARIANTS
    NeverStranded
