CONSTANTS
    P = 11
    LookupCols = 2
    MaxBitLen = 2
    ByteBits = 2
SPECIFICATION DivRemSpec
INVARIANT DivRemExact
CHECK_DEADLOCK FALSE
