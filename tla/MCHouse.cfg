SPECIFICATION HouseFairSpec
CONSTANTS
    sw = sw
    night = night
    away = away
    lamp = lamp
    stair = stair
    tick = tick
    fan = fan
    pilot = pilot
    NoFile = NoFile
    Devices <- MCDevices
    Kind <- MCKind
    Rules <- MCRules
    Commands <- MCCommands
    Rank <- MCRank
    MaxRank = 3
    DimMax = 7
    DimInterval = 3
INVARIANTS
    TimerHandles
    BoundedDepth
    NoStaleEvent
    FollowersAgree
    NeverBoth
    RepeatsStop
PROPERTIES
    DimKeepsLight
    WorkShrinks
    LampGoesOut
