\* Five threads on four elements with a stable algorithm: the first segment is
\* empty; rounds with two merges at the same time, with threads that have no
\* partner, and with segments of different lengths.
CONSTANTS
    nmemb = 4
    thread_count = 5
    sort_type = "MERGE_SORT"
    Keys = {1, 2}
SPECIFICATION FairSpec
INVARIANTS BarrierLockstep NoConflictingAccess FinishesLast
PROPERTIES ImplementsSort Termination
CHECK_DEADLOCK FALSE
