\* The user may never do anything again.
SPECIFICATION FairSpec
CONSTANTS
    Choices = {"a", "b"}
    MaxChanges = 3
    Initial = "a"
    MaxOpens = 3
    MaxRebuilds = 1
INVARIANTS
    WindowShowsDesired
PROPERTIES
    OnlyOthersRollBack
    Converges
CHECK_DEADLOCK FALSE
