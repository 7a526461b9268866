\* The user may never do anything again.
SPECIFICATION FairMenuSwitch
CONSTANTS
    DesktopCounts <- MCDesktopCounts
    Shortcuts <- MCShortcuts
    MaxUses <- MCMaxUses
INVARIANTS
    MenuSwitchTypeOK
    DigitsAreTheNumber
    EveryDesktopIsReached
    WindowIsNotCutShort
PROPERTIES
    FocusReturns
CHECK_DEADLOCK FALSE
