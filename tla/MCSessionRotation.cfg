SPECIFICATION Spec
CONSTANTS
    Users = {u1}
    Devices = {}
    Families = {f1}
    RefreshTokens = {t1, t2, t3}
    AccessTokens = {a1, a2}
    Requests = {r1, r2}
    None = None
    AccessLife = 1
    RefreshLife = 2
    MfaMaxAge = 1
    PageSize = 2
    MaxPages = 1
    MaxTime = 2
    Routes = {"login", "refresh", "mfa", "signOut"}
SYMMETRY Symmetry
INVARIANTS TypeOK LinearChain
PROPERTIES RevocationSticks LapsedIsFinal ImplementsLedger
CHECK_DEADLOCK FALSE
