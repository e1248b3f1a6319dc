SPECIFICATION RemoteFairSpec
CONSTANTS
    user = user
    cron = cron
    Domctls = {user}
    Scripts = {cron}
    Room = 2
    MaxAsked = 2
    Messages <- MCMessages
    MaxMessages = 4
    Gap = 2
    Period = 1
    Late = 2
    ClockSteps <- MCClockSteps
INVARIANTS
    NoStall
    Obeyed
PROPERTIES
    Spacing
    FifoOrder
    CommandsLeave
