SPECIFICATION Spec
CONSTANTS
    N = 2
    Workers = 2
    Requests = {{"INGEST", "ANALYZE", "SCORE"}}
CHECK_DEADLOCK FALSE
\* One at a time, the code keeps none of them:
INVARIANT FetchErrorsContained
\* INVARIANT InstrumentProblemsRecorded
\* INVARIANT HooksAfterTheFact
