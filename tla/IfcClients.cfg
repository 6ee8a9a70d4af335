SPECIFICATION Spec
CONSTANTS
    mmc0 = mmc0
    mmc1 = mmc1
    sg0 = sg0
    sg1 = sg1
    Requests = {mmc0, mmc1, sg0, sg1}
    Sg = {sg0, sg1}
    NoRequest = NoRequest
    Channels = {0, 1, 2}
    NoChannel = 15
    SgLens = {1, 2}
    SgChannels = {0}
INVARIANTS TypeOK OwnerStops OneUser VotesMatchUse NoChannelLost
CHECK_DEADLOCK FALSE
