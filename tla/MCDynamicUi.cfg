\* The program stops when the message loop has ended.
SPECIFICATION FairSpec
CONSTANTS
    Counts = {1, 2}
    Shortcuts = {s1, s2}
    MaxEvents = 4
INVARIANTS
    TypeOK
    MenuInOrder
    MenuIsCurrent
PROPERTIES
    ComesToRest
CHECK_DEADLOCK FALSE
