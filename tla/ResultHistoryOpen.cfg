SPECIFICATION Spec
CONSTANTS
    TFs <- TwoTFs
    Sessions = {1, 2}
    Requests = {{"ANALYZE", "SCORE"}, {"ANALYZE"}, {"SCORE"}}
    MinBars = 1
    MaxRuns = 3
    MaxChanges = 3
CHECK_DEADLOCK FALSE
\* One at a time, the code keeps none of them:
INVARIANT LinksExact
\* INVARIANT RebuildKeepsSession
\* INVARIANT RebuildKeepsScores
\* INVARIANT RebuildKeepsSummaries
\* INVARIANT AdvancedOIRecomputed
\* INVARIANT ReingestedRecomputed
\* PROPERTY ClosedProfileCompleted
