\* Up to two commands and one spurious wake-up: the worker's timed wait
\* can be left early by a start on an active timer or by a spurious return.
CONSTANTS
    Periods = {100}
    Contexts = {ctx1}
    MaxCmds = 2
    MaxSpurious = 1

SPECIFICATION Spec
CHECK_DEADLOCK FALSE
PROPERTY DeadlineMovesOnlyOnRestart
