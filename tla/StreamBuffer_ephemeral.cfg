SPECIFICATION FairSpec
CONSTANTS
    Consumers = {c1}
    Capacity = 2
    Persist = FALSE
    EventKinds = {"content", "trace"}
    MaxBlocks = 6
PROPERTY ImplementsChannel
CHECK_DEADLOCK FALSE
