SPECIFICATION Spec
CONSTANTS
    Buffers = {a, b}
    Capacity = 1
    DiskLimit = 1
    MaxBlocks = 2
    MaxFaults = 1
    MaxSweeps = 1
SYMMETRY Symmetry
INVARIANT RemovalIsWhole
PROPERTY PassSettles
CHECK_DEADLOCK FALSE
