CONSTANTS
    Periods = {100, 200}
    Contexts = {ctx1, ctx2}
    MaxCmds = 4
    MaxSpurious = 1

SPECIFICATION Spec

\* After osal_timer_delete returns the timer no longer exists: that final
\* state has no successor.
CHECK_DEADLOCK FALSE

INVARIANT TypeOK
PROPERTY OneShotFiresOncePerArm
PROPERTY ActiveTimerFires
PROPERTY DeleteJoins
