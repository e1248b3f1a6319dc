SPECIFICATION FairSpec
CONSTANTS
    Timers = {t1, t2, t3}
    Reactions <- MCReactions
    Duration = 3
    Options = {1}
    Travel = 2
    None = None
INVARIANTS
    PositionFromTelegram
    EndReached
    OneTimer
PROPERTIES
    StuckOnlyByLock
    MotionEnds
