\* One connection of one request under the spdk backend adapter, dropped after end-of-stream.
CONSTANTS
    c1 = c1
    c2 = c2
    Conn <- MCConn1
    MAX_CONNS = 1
    MaxPackets = 1
    DialAfterShutdown = FALSE
SPECIFICATION Spec
INVARIANT DropWaitsForSubmissions
CHECK_DEADLOCK FALSE
