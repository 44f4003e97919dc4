\* Commands from a caller or from the callback racing the worker's expiry,
\* no spurious wake-ups.
CONSTANTS
    Periods = {100, 200}
    Contexts = {ctx1}
    MaxCmds = 3
    MaxSpurious = 0

SPECIFICATION Spec
CHECK_DEADLOCK FALSE
PROPERTY FireReflectsLatestCommand
