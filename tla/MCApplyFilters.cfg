\* The program may have exited, or the user does nothing more.
SPECIFICATION FairSpec
CONSTANTS
    w1 = w1
    w2 = w2
    d1 = d1
    d2 = d2
    Windows = {w1, w2}
    Desktops = {d1, d2}
    RuleLists <- MCRuleLists
    InitialPins <- MCInitialPins
    InitialPlaces <- MCInitialPlaces
    NoFilters = NoFilters
    NoJob = NoJob
    NoTarget = NoTarget
    HideChecks = 2
    MoveAttempts = 2
    MaxRequests = 2
    MaxEvents = 1
INVARIANTS
    NothingForgotten
    ExitShowsWindows
    WindowsWhereWanted
PROPERTIES
    HiddenReappear
    ExitEnds
CHECK_DEADLOCK FALSE
