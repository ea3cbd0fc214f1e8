\* Two threads that send two requests through one limiter.
CONSTANTS
    t1 = t1  t2 = t2
    Threads = {t1, t2}
    Switched = {t1}
    Downloads = {t2}
    ReadInterval = 1
    WriteInterval = 2
    TotalInterval = 1
    Delays = {2}
    MaxCooldown = 1
    MaxAttempts = 2
    MaxTransport = 1
    MaxSends = 2
    MaxSwitches = 1
    MaxTime = 0
SPECIFICATION Spec
INVARIANTS TypeOK Paced
PROPERTIES CooldownKept CutStaysCut
CHECK_DEADLOCK FALSE
