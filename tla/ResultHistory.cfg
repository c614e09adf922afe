SPECIFICATION Spec
CONSTANTS
    TFs <- OneTF
    Sessions = {1, 2}
    Requests = {{"ANALYZE", "SCORE"}}
    MinBars = 1
    MaxRuns = 3
    MaxChanges = 2
INVARIANTS
    CarriedFromRoot
    CarryIsFresh
    FactorsTraceable
    ScoresRebuilt
    AnalysesRebuilt
CHECK_DEADLOCK FALSE
