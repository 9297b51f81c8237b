SPECIFICATION Spec
CONSTANTS
    MaxSize = 5
    ChunkSizes = {1, 2, 3}
    MayFail = TRUE
PROPERTY ReaderSettles
CHECK_DEADLOCK FALSE
