SPECIFICATION FairSpec
CONSTANTS
    Users = {u1}
    Devices = {}
    Families = {f1, f2}
    RefreshTokens = {t1, t2, t3}
    AccessTokens = {a1}
    Requests = {r1}
    None = None
    AccessLife = 1
    RefreshLife = 1
    MfaMaxAge = 1
    PageSize = 1
    MaxPages = 2
    MaxTime = 2
    Routes = {"login", "refresh", "cleanup"}
PROPERTIES ExpiredFamiliesSwept CleanupKeepsActive
CHECK_DEADLOCK FALSE
