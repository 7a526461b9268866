SPECIFICATION MenuSwitchSpec
CONSTANTS
    DesktopCounts <- MCDesktopCounts
    Shortcuts <- MCShortcuts
    MaxUses <- MCMaxUses
INVARIANTS
    SpaceIsTheNumberSoFar
CHECK_DEADLOCK FALSE
