CONSTANTS
    QUEUE_LEN = 20
    STATS_BATCH = 10
    MaxReadings = 21
    MaxExpires = 1

SPECIFICATION Spec

\* After app_init fails before any task exists the program really stops.
CHECK_DEADLOCK FALSE

INVARIANT TypeOK
INVARIANT ReadingsConserved
PROPERTY StatsReported
