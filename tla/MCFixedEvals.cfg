CONSTANTS
    Keys <- FixedReadTwice
    FlagPairs <- EqualFlags
    CallerAssertsEmpty = TRUE
SPECIFICATION Spec
PROPERTY HonestProofAccepted
CHECK_DEADLOCK FALSE
