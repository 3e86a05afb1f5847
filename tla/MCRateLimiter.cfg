SPECIFICATION Spec
CONSTANTS
    change = change
    read = read
    list = list
    Keys = {change, read, list}
    Procs = {p1, p2}
    Requests = {r1, r2, r3}
    Route <- MCRoute
    Max <- MCMax
    Critical = {"mfaVerification", "sensitiveOperations"}
    Refunding = {"mfaVerification"}
    Window = 2
    CleanupInterval = 1
    MaxKeys = 2
    MaxTime = 2
    MaxFaults = 2
    Null = Null
SYMMETRY Symmetry
CHECK_DEADLOCK FALSE
INVARIANTS
    TypeOK
    WindowBudget
    SharedBudget
PROPERTIES
    WindowEnds
    EvictsLast
