CONSTANTS
    key1 = key1
    key2 = key2
    key3 = key3
    fixed1 = fixed1
    point1 = point1
    point2 = point2
    point3 = point3
    Keys <- MCKeys
    FixedKeys <- MCFixedKeys
    Points <- MCPoints
    X = point1
    MaxQueries = 5
    FieldSize = 5
    UsableRows = 2
    BlindingRows = 1
    ParallelLookups = 2
    PerChunk = 1
    LookupValues = {0, 1}
    P = 11
    LookupCols = 2
    MaxBitLen = 2
    ByteBits = 2
    Inputs = {0, 3, 4}
    FixedBounds = {3, 5}
    MaxCells = 2
    Alphabet = 2
    RegexLeaves <- MCLeaves
    Library <- MCLibrary
    MaxCalls = 2
    MaxWord = 3
    MaxInput = 3
    VecMax = 6
    VecResized = 9
    VecChunk = 3
    LenCells = 1
    Items = {0, 1}
    IndexBytes = 2
    IndexByteBits = 2
    KeyPositions <- MCKeyPositions
    MapValues = {0, 1}
    Rate = 2
    SpongeItems = {0, 1}
    InputLens = {{}, {1}}
    MaxAbsorbed = 2
    MaxSqueezes = 3
    IvcStates = {0, 1, 9}
    Genesis = 0
    Transitions <- MCTransitions
    Decided = {1, 9}
    MaxProofs = 3
    Log2Base = 2
    BigP = 67
    BigLoads <- MCBigLoads
    BigConstants = {0, 1, 5}
    Exponents = {0, 1, 2, 3}
    MaxBigInputs = 2
    MaxBigs = 3
    MaxSearchBits = 8
    VmField = 7
    VmLimbs = 2
    U8Slots = 3
    RunMinLen = 2
    InlineGates = 1
    NativeGates = 1
    Selectors = 2
    GateExprs <- MCGateExprs
    ArgumentExpr <- MCArgumentExpr
    MaxWeight = 3
    Memories <- MCMemories
    BatchChallenges = {3}
    ContractShapes <- MCContractShapes
    EccField = 7
    EccB = 3
    EccOrder = 13
    EccGenerator <- MCGenerator
    ZetaBase = 2
    ZetaScalar = 3
    EccWindow = 2
    DigitBits = 1
    EccNative = 97
    IdCoordinates <- MCIdCoordinates
    EccLoads = {0, 5}
    EccScalars <- MCScalars
    ConstantScalars = {0, 1, 11}
    MsmCalls <- MCMsmCalls
    MaxEccLoads = 2
    MaxEccPoints = 4
    EdField = 13
    EdD = 6
    EdOrder = 5
    EdCofactor = 4
    EdScalars <- MCEdScalars
    EdConstants = {0, 1, 3}
    MaxEdLoads = 2
    MaxEdPoints = 3
    FfParams <- MCFfParams
    RcColumns = 2
    RcBits = 2
    RcSearch = 4
    LimitDivisor = 4
    ConstantDivisor = 4
    FfLoads <- MCFfLoads
    FfConstants = {0, 1, 3}
    FfDigits = {0, 3, 13, 29}
    FfByteBits = 2
    MaxFields = 4
SYMMETRY Symmetry
SPECIFICATION ComponentsSpec
INVARIANTS
    ScanExact
    GroupingExact
    PaddingSafe
    LookupExact
    CallsExact
    GadgetSound
    RegexExact
    ScannerExact
    VectorsExact
    MapExact
    SpongeBinds
    AcceptedIsReached
    BigUintsSound
    NumeratorLowered
    MemorySafe
    EccSound
    EdwardsSound
    FieldSound
PROPERTIES
    StepsStayAccepted
CHECK_DEADLOCK FALSE
