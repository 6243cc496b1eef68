\* Two issue slots in the run.
CONSTANTS
    Cap = 2
    Delay = 1
    Duration = 3
SPECIFICATION Spec
INVARIANT ReportAfterDrain
\* The run ends: after print_stats or an abort nothing is left to do.
CHECK_DEADLOCK FALSE
