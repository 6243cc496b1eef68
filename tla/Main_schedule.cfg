\* Four issue slots in the worker's run, at most two operations in flight.
CONSTANTS
    Cap = 2
    Delay = 1
    Duration = 5
SPECIFICATION Spec
INVARIANTS TypeOK ReturnOnlyAfterReport
PROPERTIES MainReturns
\* The process ends: after main_handler returns or a panic nothing is left to do.
CHECK_DEADLOCK FALSE
