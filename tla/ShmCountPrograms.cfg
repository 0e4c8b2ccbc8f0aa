\* Three processes, so that one can count while two show.
SPECIFICATION ProgramSpec
CONSTANTS
    Programs = {"count", "output-semaphore", "segmented-semaphore"}
    Procs = {p1, p2, p3}
    ALPHA_SIZE = 2
    SEM_SIZE = 1
    SEM_LIMIT = 10
    MaxInput = 2
    MaxKills = 1
INVARIANTS ReadersWriters OneOutputAtATime
PROPERTIES ImplementsCount OutputFrozen
CHECK_DEADLOCK FALSE
