SPECIFICATION Spec
CONSTANTS
    Bufs = {b1, b2, b3}
    None = None
    MaxOverflows = 1
INVARIANTS TypeOK WritesHeld DoneIsFilled
PROPERTY BuffersReturned
CHECK_DEADLOCK FALSE
