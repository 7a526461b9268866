\* Bounded: the user stops changing desktops.
SPECIFICATION Spec
CONSTANTS
    Ids = {d1, d2, d3}
    MaxChanges = 3
    MaxOutages = 1
INVARIANTS
    CountTracksWindows
    IconTracksSwitches
CHECK_DEADLOCK FALSE
