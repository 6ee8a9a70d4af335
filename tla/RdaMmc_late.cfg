SPECIFICATION Spec
CONSTANTS
    mmc0 = mmc0
    other = other
    Host = mmc0
    Other = other
    Requests = {mmc0, other}
    NoRequest = NoRequest
    Channels = {0, 1}
    NoChannel = 255
    Directions = {"read", "write"}
    Parts = {1, 2}
    MaxRequests = 2
    MaxDetects = 3
    Punctual = FALSE
INVARIANTS ChannelIsOurs
CHECK_DEADLOCK FALSE
