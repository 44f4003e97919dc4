\* The callback deletes its own timer.
CONSTANTS
    Periods = {100}
    Contexts = {ctx1}
    MaxCmds = 1
    MaxSpurious = 0

SPECIFICATION Spec
CHECK_DEADLOCK FALSE
PROPERTY DeleteReleases
