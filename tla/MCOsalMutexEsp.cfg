\* ESP backend, two tasks.  A task blocked on a deleted mutex or on
\* itself never returns, so the program may stop, and a
\* configASSERT stops it.
CONSTANTS
    Backend = "esp"
    Tasks = {t1, t2}
    NoTask = NoTask
    MaxStrayUnlocks = 1
SPECIFICATION Spec
INVARIANT MutexExclusive
CHECK_DEADLOCK FALSE
