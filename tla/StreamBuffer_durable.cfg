SPECIFICATION FairSpec
CONSTANTS
    Consumers = {c1, c2}
    Capacity = 2
    Persist = TRUE
    EventKinds = {"trace"}
    MaxBlocks = 3
INVARIANT StoresAligned
INVARIANT ReadsTold
INVARIANT RecordTold
PROPERTY DoneEndsConsumers
CHECK_DEADLOCK FALSE
