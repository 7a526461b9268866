\* The program stops when it has been left and is not started again.
SPECIFICATION FairSpec
CONSTANTS
    Values = {v0, v1}
    Default = v0
    MaxRev = 4
    MaxFailures = 2
    MaxRuns = 2
PROPERTIES
    ImplementsDurableSettings
    EveryChangeIsSaved
    CloseEnds
CHECK_DEADLOCK FALSE
