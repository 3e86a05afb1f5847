SPECIFICATION Spec
CONSTANTS
    Users = {u1, u2}
    Devices = {d1, d2}
    Tokens = {t1, t2}
    Requests = {r1, r2}
    Ops = {"save", "deleteToken", "deleteUser", "notify"}
    MaxRequests = 4
    Null = Null
SYMMETRY Symmetry
CHECK_DEADLOCK FALSE
INVARIANTS
    TypeOK
    NotifiesOwner
    NewRegistrationSurvives
    DeletedNotNotified
