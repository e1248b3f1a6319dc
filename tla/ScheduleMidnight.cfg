SPECIFICATION FairSpec
CONSTANTS
    Cycle = 4
    Minute = 4
    Half = 2
    Late = 2
    Early = 0
    Files <- MCFiles
    None = None
PROPERTIES
    LatestBeforeNow
