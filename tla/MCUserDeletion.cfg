SPECIFICATION Spec
CONSTANTS
    Requests = {r1, r2, r3}
    Ops = {"list", "add", "update", "delete", "create", "setUser", "remove"}
    MaxKeys = 2
    Limits = {1, 2}
    MaxRecords = 3
    MaxTime = 2
    Null = Null
    Abort = Abort
    Earlier = Earlier
SYMMETRY Symmetry
CHECK_DEADLOCK FALSE
INVARIANT DeletionRetryable
