\* Three commands under all circumstances.
SPECIFICATION FairSpec
CONSTANTS
    Procs = {p1, p2, p3}
    Circumstances = {"starts", "orderly", "any"}
    NumAddrs = 2
    MaxKills = 1
    Old = Old
    NONE = NONE
INVARIANTS LockNamesServer OnlyKilledLeaveLock
PROPERTIES Recovers StopStops
CHECK_DEADLOCK FALSE
