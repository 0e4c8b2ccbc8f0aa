\* Two threads in the programs with many of them, three in the sorts, so that
\* there are two rounds of merges, one of them without a partner; senders of three messages
\* and a queue that holds all that a sender of types sends.
CONSTANTS
    Programs <- AllPrograms
    Crowd = 2
    Sorters = 3
    Numbers = 3
    QueueRoom = 4
SPECIFICATION FairSpec
INVARIANTS NoDataRace UsedReady ResultsRight  DaemonOrphaned OutlinesHold
PROPERTIES NoMessageLost Ends
CHECK_DEADLOCK FALSE
