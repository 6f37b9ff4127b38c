CONSTANTS
    MaxFixed = 0
    MaxAdvice = 1
    MaxInstance = 0
    MaxSelectors = 1
    MaxChallenges = 0
    MaxGates = 1
    MaxLookups = 0
    MaxPolys = 2
    PhaseSet = {0}
    Rotations = {0}
    Degrees = {1}
    MinimumDegrees = {}
SPECIFICATION ConfigSpec
INVARIANT LinearizationFactorIsOwn
CHECK_DEADLOCK FALSE
