SPECIFICATION Spec
CONSTANTS
    cycle = cycle  command = command
    Jobs = {cycle, command}
    DayLen = 3
    SessionLen = 3
    TradingDays = {0, 1}
    Warmup = 0
    Cooldown = 0
    Grace = 1
    AggGrace = 1
    LookbackDays = 1
    RepairBars = 1
    Interval = 2
    MaxTime = 4
    MaxTrades = 2
    MaxFrames = 2
    MaxConnects = 2
    MaxFetches = 2
CHECK_DEADLOCK FALSE
\* One at a time, the code keeps none of them:
PROPERTY FinalBarsKept
\* PROPERTY DailyWatermarkForward
\* INVARIANT DamageAlwaysInReach with DayLen = 2, SessionLen = 2, LookbackDays = 2, RepairBars = 0
