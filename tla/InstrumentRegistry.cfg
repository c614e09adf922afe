SPECIFICATION Spec
CONSTANTS
    Order <- MCOrder
    Symbols = {s1, s2, s3}
    Days = 10
    MonthlyFutures = 1
    MaxExpiries = 1
    StrikeWindow = 1
    Spots = {1}
    NoSpot = NoSpot
    NoUnderlying = NoUnderlying
    MaxChanges = 4
INVARIANTS
    SymbolsAreTheirs
CHECK_DEADLOCK FALSE
