SPECIFICATION FairSpec
CONSTANTS
    cycle = cycle  command = command
    Jobs = {cycle, command}
    DayLen = 3
    SessionLen = 3
    TradingDays = {0, 1}
    Warmup = 0
    Cooldown = 0
    Grace = 1
    AggGrace = 1
    LookbackDays = 1
    RepairBars = 1
    Interval = 2
    MaxTime = 4
    MaxTrades = 2
    MaxFrames = 2
    MaxConnects = 2
    MaxFetches = 1
PROPERTIES
    BackfillEnds
CHECK_DEADLOCK FALSE
