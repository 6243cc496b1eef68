\* Two connections created concurrently with one free RX_BUFFER slot.
CONSTANTS
    c1 = c1
    c2 = c2
    c3 = c3
    Conn <- MCConn2
    MAX_CONNS = 1
    MaxPackets = 1
    DialAfterShutdown = FALSE
SPECIFICATION Spec
INVARIANT ConnIdInRange
CHECK_DEADLOCK FALSE
