\* The user may never do anything again.
SPECIFICATION FairSpec
CONSTANTS
    Rules <- MCRules
    StartRules <- MCStartRules
    ImportedRules <- MCImportedRules
    OpenWindows <- MCOpenWindows
    TextOrder <- MCTextOrder
    MaxRules = 3
    MaxInputs = 3
    MaxRollBacks = 1
INVARIANTS
    TypeOK
    RowsMatchFilters
    WindowsShowRules
    EditsReachTheirRule
PROPERTIES
    RefreshServed
CHECK_DEADLOCK FALSE
