SPECIFICATION Spec
CONSTANTS
    SessionLen = 7
    TpoLen = 2
    PartialPolicy = "KEEP"
    IbPeriods = 1
    MinPeriods = 2
    MinBins = 2
    Bin = 1
    ValueAreaPct = 70
    Expansion = 2
    NoPrice = NoPrice
    NoProfile = NoProfile
    Brackets = 2
    AcceptPct = 80
    ShiftPct = 25
    OverlapPct = 60
    OneSidedPct = 100
    TwoSidedPct = 50
    PoorTpo = 2
    ExcessMin = 2
    DriftMin = 2
    DriftPct = 15
    Atr = 6
    OneTfPct = 70
    TrendWidthPct = 50
    TrendIbPct = 35
    NormalIbPct = 85
    DeadPct = 15
    EdgePct = 15
    NoPrior = NoPrior
    NoRow = NoRow
    Prints <- MCPrints
    PrintSlots = {0, 2, 4, 6}
    Delay = 0
INVARIANTS
    ValueAreaSound
    AcceptancesNest
    ReadingsAgree
PROPERTIES
    NoRepaint
CHECK_DEADLOCK FALSE
