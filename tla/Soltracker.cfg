SPECIFICATION TrackFairSpec
CONSTANTS
    kitchen = kitchen
    attic = attic
    Devices = {kitchen, attic}
    DeviceList <- MCDeviceList
    None = None
    Trackers <- MCTrackers
    Positions <- MCPositions
    Follows <- MCFollows
INVARIANTS
    InProgress
    BlindsFollowSun
PROPERTIES
    SettlesTruly
    WishesEnd
