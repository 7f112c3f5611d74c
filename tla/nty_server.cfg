CONSTANTS
    server = server
    r1 = r1
    r2 = r2
    r3 = r3
    listen = listen
    bad = bad
    f1 = f1
    f2 = f2
    Co <- MCCo
    Fd <- MCFd
    Server = server
    Listen = listen
    BadFd = bad
    None = None
    Msecs = {}
    MaxTime = 0
    UsecPerMs = 1
    MsPerSec = 1
    DefaultTimeout = 1
    ReniceOps = 1
    YieldAfterSleep = TRUE
    MaxFailures = 2
SPECIFICATION ServerSpec
INVARIANTS OnlyBadFdAborts OneReaderPerConnection
PROPERTIES ConnectionsAccepted ReadersServed
