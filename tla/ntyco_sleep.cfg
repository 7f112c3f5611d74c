CONSTANTS
    Co = {c1, c2, c3}
    Fd = {f1, f2}
    None = None
    Msecs = {1}
    MaxTime = 5
    UsecPerMs = 2
    MsPerSec = 2
    DefaultTimeout = 8
    ReniceOps = 2
    YieldAfterSleep = FALSE
SPECIFICATION Spec
INVARIANT SleeperSuspended
