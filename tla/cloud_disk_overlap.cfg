CONSTANTS
    Users = {a, b}
    Files = {f1}
    Md5s = {m1}
    f1 = f1
    f2 = f2
    f3 = f3
    m1 = m1
    m2 = m2
    md5 <- MCmd5
    Fids = {i, j}
    SHARE_COUNT = shares
    Null = null
    Sessions = 3
    Stale = TRUE
    MaxKills = 1
    MaxRequests = 5
SPECIFICATION Spec
SYMMETRY Symmetric
CHECK_DEADLOCK FALSE
INVARIANTS
    UniqueSharer
    RowHasFile
