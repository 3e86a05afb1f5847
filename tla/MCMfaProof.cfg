SPECIFICATION Spec
CONSTANTS
    Requests = {r1, r2}
    Families = {f1, f2}
    Nonces = {n1}
    Ops = {"login", "mint", "setup", "enable", "disable", "regenerate"}
    Numbers = {c1, c2, c3}
    Threshold = 1
    FreshWindow = 0
    NonceLife = 1
    SetupLife = 1
    MaxBatches = 2
    MaxTime = 2
    Null = Null
SYMMETRY Symmetry
INVARIANTS
    TypeOK
    NonceAuthorisesOnce
    CodeSpentOnce
    NeverRunsDry
