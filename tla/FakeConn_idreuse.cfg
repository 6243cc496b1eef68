\* Three connections, one shut down while the other two are open.
CONSTANTS
    c1 = c1
    c2 = c2
    c3 = c3
    Conn <- MCConn3
    MAX_CONNS = 2
    MaxPackets = 1
    DialAfterShutdown = TRUE
SPECIFICATION Spec
INVARIANT ConnIdsDistinct
CHECK_DEADLOCK FALSE
