SPECIFICATION Spec
CONSTANTS
    Size = 8
    Hdr = 2
    ExtLens = {0, 1, 3, 5}
    MaxFrames = 4
INVARIANT FramesInOrder
PROPERTY AllFramesRead
CHECK_DEADLOCK FALSE
