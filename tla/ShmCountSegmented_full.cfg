\* As many processes in their output as a semaphore has units.
SPECIFICATION SegFairSpec
CONSTANTS
    Procs = {p1, p2, p3}
    ALPHA_SIZE = 1
    SEM_SIZE = 1
    SEM_LIMIT = 3
    MaxInput = 1
    MaxKills = 0
INVARIANT ShowsOutput
CHECK_DEADLOCK FALSE
