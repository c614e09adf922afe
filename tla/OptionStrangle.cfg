SPECIFICATION Spec
CONSTANTS
    Recent = 15  TraceStep = 15  Grace = 10
    WingSteps = 2  NearExpiryDays = 2  MaxSuggestions = 4  MinRewardRisk = 0  Spread = 25
    Contracts <- MCContracts
    Dte <- MCDte
    Close = 150  Lot = 5
    Minutes0 <- MCYesterday
    Tapes <- MCTapes
INVARIANTS
    StrangleBreaksEven
CHECK_DEADLOCK FALSE
