\* Two sender threads of one request each, interactive mode.
CONSTANTS
    t1 = t1
    t2 = t2
    Threads <- MCThreads
    Requests = 1
    Interactive = TRUE
    NSectors = 2097152
    PctWrites = 0
    Draws = {300, 4194303}
SPECIFICATION Spec
INVARIANT GenOnlyWhenReady
\* The run ends once the protocol object is dropped or the user aborts.
CHECK_DEADLOCK FALSE
