\* A packet port with bare headers of 2 and longer packets, and a stream port,
\* where partial writes are allowed.
SPECIFICATION Spec
CONSTANTS
    Size = 8
    Hdr = 2
    PacketLens = {2, 3, 4, 7}
    StreamLens = {1, 3, 9}
    MaxUnits = 20
INVARIANTS TypeOK UnreadIntact AcceptedMeansWritten
PROPERTY ImplementsFifo
CHECK_DEADLOCK FALSE
