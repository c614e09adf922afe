SPECIFICATION LiveSpec
CONSTANTS
    N = 2
    Workers = 2
    Requests <- AllRequests
INVARIANTS
    SucceededIsComplete
    DownstreamOnlyFit
    StatusExplained
    HooksReportStatus
PROPERTIES
    CycleEnds
CHECK_DEADLOCK FALSE
