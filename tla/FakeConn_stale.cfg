\* Two connections in sequence on one RX_BUFFER slot; the first is shut down with a request in flight.
CONSTANTS
    c1 = c1
    c2 = c2
    c3 = c3
    Conn <- MCConn2
    MAX_CONNS = 1
    MaxPackets = 1
    DialAfterShutdown = TRUE
SPECIFICATION Spec
INVARIANT ResponsesGenuine
CHECK_DEADLOCK FALSE
