\* Memory with and without store buffers.
SPECIFICATION FairSpec
CONSTANTS
    REQUESTS = 4
    BufferSizes = {0, 1, 3}
INVARIANTS ResultOfLastRequest TurnsExclusive SignalsItsParent
PROPERTIES AllRequestsSent Termination
CHECK_DEADLOCK FALSE
