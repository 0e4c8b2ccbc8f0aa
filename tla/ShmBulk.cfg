SPECIFICATION FairSpec
CONSTANTS
    Procs = {p1, p2, p3}
    ALPHA_SIZE = 2
    Programs = {"simple", "simple-posix", "shorts-simple-posix"}
    MaxCount = 1
    MaxKills = 1
INVARIANTS NoLostUpdate WholeInputsShown BlocksWhole CopiesAreMoments
PROPERTY EndsUnlessBlocked
CHECK_DEADLOCK FALSE
