\* One load-generator run, as in FakeConn_safety.
CONSTANTS
    c1 = c1
    c2 = c2
    c3 = c3
    Conn <- MCConn2
    MAX_CONNS = 2
    MaxPackets = 2
    DialAfterShutdown = FALSE
SPECIFICATION Spec
PROPERTY CompletionOrder
CHECK_DEADLOCK FALSE
