SPECIFICATION FieldSpec
CONSTANTS
    Letters <- MCLetters
    TypedDigits = {"1"}
    MaxTarget = 11
    MaxText = 3
    Elsewhere <- MCElsewhere
    Titles <- MCTitles
    Indexes = {0, 1}
INVARIANTS
    FieldShowsShortcuts
    SelectionOffNewlines
    GlobIsSplit
    XmlKeepsRules
