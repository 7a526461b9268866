\* Bounded: the clock stops and every thread waits for good.
SPECIFICATION FairSpec
CONSTANTS
    Timers = {t1}
    Tasks = {1}
    Delays = {1, 2}
    OtherDelays = {0}
    OthersFrom = 2
    MaxOthers = 1
    MaxTime = 3
    MaxSignals = 2
    MaxSleeps = 1
INVARIANTS
    OnlyLateIsStale
    NoBurst
PROPERTIES
    TimerFires
    DelayEnds
CHECK_DEADLOCK FALSE
