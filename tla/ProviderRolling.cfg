SPECIFICATION SpecAccess
CONSTANTS
    t1 = t1  t2 = t2
    Threads = {t1}
    Interval = 0
    Quota = 4
    Window = 8
    Requests = 2
    MaxLag = 6
    MaxTime = 14
    FirstDay = 1  Today = 3  MaxDays = 2
    MaxRetries = 0  BackoffBase = 2
    Hints <- MCHints
    DayLength = 99
    CycleInterval = 4  Grace = 1
    PVIds = {1, 2, 3}
    Blocking <- MCBlocking
    BranchRequired <- MCBranches
    Files <- MCFiles
    Tokens <- MCTokens
    MaxTokens = 0
    Horizon = 0
INVARIANTS
    RollingQuota
CHECK_DEADLOCK FALSE
