SPECIFICATION FairSpec
CONSTANTS
    Count = 2
    Tries = 2
    Interval = 3
    Entries = 2
    Late = 1
    MaxClock = 13
INVARIANTS
    LastDay
    StaysMeasured
    NeverCorrupt
PROPERTIES
    WorkerGoesOn
CHECK_DEADLOCK FALSE
