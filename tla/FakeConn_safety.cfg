\* One load-generator run: two connections, two requests each, two RX_BUFFER slots.
CONSTANTS
    c1 = c1
    c2 = c2
    c3 = c3
    Conn <- MCConn2
    MAX_CONNS = 2
    MaxPackets = 2
    DialAfterShutdown = FALSE
SPECIFICATION Spec
INVARIANTS TypeOK ResponsesGenuine AnsweredAtMostOnce ReadPathFaithful
PROPERTIES WrittenEventuallyAnswered 
\* The run ends when every connection is shut down and drained.
CHECK_DEADLOCK FALSE
