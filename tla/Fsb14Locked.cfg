SPECIFICATION FairSpec
CONSTANTS
    Timers = {t1, t2}
    Reactions = {}
    Duration = 3
    Options = {}
    Travel = 2
    None = None
PROPERTIES
    LockedIgnores
