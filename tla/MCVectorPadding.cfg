CONSTANTS
    VecMax = 6
    VecResized = 9
    VecChunk = 3
    LenCells = 1
    Items = {0, 1}
SPECIFICATION VectorSpec
INVARIANT PaddingFlagged
CHECK_DEADLOCK FALSE
