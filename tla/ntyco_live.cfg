CONSTANTS
    Co = {c1, c2, c3}
    Fd = {f1}
    None = None
    Msecs = {1}
    MaxTime = 2
    UsecPerMs = 1
    MsPerSec = 2
    DefaultTimeout = 2
    ReniceOps = 1
    YieldAfterSleep = TRUE
SPECIFICATION LiveSpec
PROPERTIES ReadyRuns SleepersWake IoServed
