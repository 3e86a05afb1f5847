SPECIFICATION Spec
CONSTANTS
    Users = {u1, u2}
    Devices = {d1}
    Families = {f1, f2, f3}
    RefreshTokens = {t1, t2, t3}
    AccessTokens = {a1}
    Requests = {r1, r2}
    None = None
    AccessLife = 1
    RefreshLife = 1
    MfaMaxAge = 1
    PageSize = 2
    MaxPages = 2
    MaxTime = 0
    Routes = {"login", "refresh", "signOut", "revokeAll"}
SYMMETRY Symmetry
INVARIANT RevocationComplete
PROPERTY DeletedByOwnUser
CHECK_DEADLOCK FALSE
