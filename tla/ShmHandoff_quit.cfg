\* The smallest store buffer is enough.
SPECIFICATION FairSpec
CONSTANTS
    REQUESTS = 2
    BufferSizes = {1}
PROPERTY QuitObeyed
CHECK_DEADLOCK FALSE
