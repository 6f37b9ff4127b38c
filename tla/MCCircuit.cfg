CONSTANTS
    Advice = {a}
    Fixed = {f}
    Selectors = {s}
    TableColumns = {t1, t2}
    ConstantsColumns = {f}
    Values = {v, w}
    Zero = zero
    UsableRows = 2
    MaxRegions = 2
    MaxOps = 2
    MaxOffset = 1
    MaxTableRow = 2
    MaxTables = 1
    a1 = a1
    a2 = a2
    g = g
    s1 = s1
    x = x
    y = y
    MaxFixed = 1
    MaxAdvice = 2
    MaxInstance = 1
    MaxSelectors = 2
    MaxChallenges = 1
    MaxGates = 1
    MaxLookups = 1
    MaxPolys = 1
    PhaseSet = {0, 1}
    Rotations = {0, 1}
    Degrees = {1, 3}
    MinimumDegrees = {4}
    MaxCalls = 5
CONSTRAINTS CallBound TablesFirst
SYMMETRY Symmetry
SPECIFICATION CircuitSpec
INVARIANTS
    TypeOK
    NoCellShared
    ConstantsHold
    TablesFilled
    NeverPanics
    V1Sound
    QueriesResolve
    PhasesContiguous
    KeyCoversCircuit
PROPERTIES
    EarliestFit
CHECK_DEADLOCK FALSE
