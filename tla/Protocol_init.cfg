\* Two sender threads of three requests each, interactive mode; the lba
\* draws wrap past nsectors and cross byte boundaries, and half the
\* requests are writes.
CONSTANTS
    t1 = t1
    t2 = t2
    Threads <- MCThreads
    Requests = 3
    Interactive = TRUE
    NSectors = 2097152
    PctWrites = 500
    Draws = {300, 4194303}
SPECIFICATION Spec
INVARIANTS  InitAtMostOnce RequestWellFormed TeardownMatchesInit
\* The run ends once the protocol object is dropped or the user aborts.
CHECK_DEADLOCK FALSE
