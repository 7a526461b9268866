SPECIFICATION FairSpec
CONSTANTS
    Hotkeys = {h1, h2}
    NoText = NoText
    Invalid = Invalid
    MaxPresses = 1
    MaxEvents = 2
INVARIANTS
    RegisteredIsKnown
    HotkeysFollowSettings
PROPERTIES
    PressIsHandled
