CONSTANTS
    Log2Base = 2
    BigP = 67
    BigLoads = {}
    BigConstants = {1, 5}
    Exponents = {}
    MaxBigInputs = 2
    MaxBigs = 3
    MaxSearchBits = 8
SPECIFICATION BigSpec
INVARIANT NumbersExact
CHECK_DEADLOCK FALSE
