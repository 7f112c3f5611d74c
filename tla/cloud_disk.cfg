CONSTANTS
    Users = {a, b}
    Files = {f1, f2, f3}
    Md5s = {m1, m2}
    f1 = f1
    f2 = f2
    f3 = f3
    m1 = m1
    m2 = m2
    md5 <- MCmd5
    Fids = {i, j}
    SHARE_COUNT = shares
    Null = null
    Sessions = 1
    Stale = FALSE
    MaxKills = 0
    MaxRequests = 12
SPECIFICATION Spec
SYMMETRY Symmetric
CHECK_DEADLOCK FALSE
INVARIANTS
    TypeOK
    ZeroMeansUnreferenced
    RefCountsAgree
    UserCountsAgree
    ShareCountBounded
