SPECIFICATION Spec
CONSTANTS
    cycle = cycle  command = command
    Jobs = {cycle, command}
    DayLen = 2
    SessionLen = 2
    TradingDays = {0, 1}
    Warmup = 0
    Cooldown = 0
    Grace = 1
    AggGrace = 1
    LookbackDays = 2
    RepairBars = 0
    Interval = 2
    MaxTime = 4
    MaxTrades = 2
    MaxFrames = 2
    MaxConnects = 2
    MaxFetches = 2
INVARIANTS
    DamageInReach
    VolumeNotInvented
    AggregatesWhole
PROPERTIES
    WatermarkForward
CHECK_DEADLOCK FALSE
SYMMETRY Callers
