CONSTANTS
    MaxEvents = 3
    MaxEventBytes = 3
    MaxQueuedBytes = 4
    Sizes = {1, 2, 3, 4}
    MaxReceived = 8
SPECIFICATION FairSpec
CHECK_DEADLOCK FALSE
INVARIANTS
    QueueWithinLimits
PROPERTIES
    ImplementsChannel
