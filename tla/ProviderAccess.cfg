SPECIFICATION FairAccess
CONSTANTS
    t1 = t1  t2 = t2
    Threads = {t1, t2}
    Interval = 1
    Quota = 3
    Window = 6
    Requests = 2
    MaxLag = 1
    MaxTime = 42
    FirstDay = 1  Today = 3  MaxDays = 2
    MaxRetries = 1  BackoffBase = 2
    Hints <- MCHints
    DayLength = 9
    CycleInterval = 16  Grace = 0
    PVIds = {1, 2, 3}
    Blocking <- MCBlocking
    BranchRequired <- MCBranches
    Files <- MCFiles
    Tokens <- MCTokens
    MaxTokens = 1
    Horizon = 26
INVARIANTS
    AccessTypeOK
    SpacingKept
    QuotaKept
    FetchIsWhole
    AskedOnlyWhenValidated
PROPERTIES
    FetchesEnd
CHECK_DEADLOCK FALSE
