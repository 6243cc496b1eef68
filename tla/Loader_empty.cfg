\* duration_us = delay_us: rate * duration = 1.
CONSTANTS
    Cap = 2
    Delay = 2
    Duration = 2
SPECIFICATION Spec
INVARIANT StatsNonEmpty
\* The run ends: after print_stats or an abort nothing is left to do.
CHECK_DEADLOCK FALSE
