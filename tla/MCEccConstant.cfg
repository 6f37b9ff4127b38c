CONSTANTS
    EccField = 7
    EccB = 3
    EccOrder = 13
    EccGenerator <- MCGenerator
    ZetaBase = 2
    ZetaScalar = 3
    EccWindow = 2
    DigitBits = 1
    EccNative = 97
    IdCoordinates <- MCIdCoordinates
    EccLoads = {0, 5}
    EccScalars <- MCScalars
    ConstantScalars = {2}
    MsmCalls = {}
    MaxEccLoads = 2
    MaxEccPoints = 4
SPECIFICATION EccSpec
INVARIANT EccExact
CHECK_DEADLOCK FALSE
