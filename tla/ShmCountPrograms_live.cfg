\* Two processes, three counters of which two share a semaphore.
SPECIFICATION ProgramFairSpec
CONSTANTS
    Programs = {"count", "output-semaphore", "segmented-semaphore"}
    Procs = {p1, p2}
    ALPHA_SIZE = 3
    SEM_SIZE = 2
    SEM_LIMIT = 10
    MaxInput = 2
    MaxKills = 1
INVARIANTS NoUnitLost OwnInputShown
PROPERTY Termination
CHECK_DEADLOCK FALSE
