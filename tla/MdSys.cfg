SPECIFICATION Spec
CONSTANTS
    t1 = t1
    t2 = t2
    k1 = k1
    k2 = k2
    Threads = {t1, t2}
    Keys = {k1, k2}
    SlotCount = 2
    MaxTries = 2
    MaxCap = 2
    MaxCalls = 4
    MaxEvents = 4
    Settings <- MCSettings
INVARIANTS TypeOK PendingIsLive SlotsAccounted EventsKept NoStrandedFrame
PROPERTIES CallsReturn CallsEnd HeldEventsHandled ImplementsRpc
CHECK_DEADLOCK FALSE
