\* A stop and two starts that overlap on a fresh system.
SPECIFICATION Spec
CONSTANTS
    Procs = {p1, p2, p3}
    Circumstances = {"fresh"}
    NumAddrs = 1
    MaxKills = 0
    Old = Old
    NONE = NONE
INVARIANT ServerNamed
CHECK_DEADLOCK FALSE
