\* The program has exited, or goes on with something else.
SPECIFICATION FairElevation
CONSTANTS
    MaxFailures = 2
INVARIANTS
    OneGoesOn
PROPERTIES
    ElevationEnds
CHECK_DEADLOCK FALSE
