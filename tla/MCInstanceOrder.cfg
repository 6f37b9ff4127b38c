CONSTANTS
    Keys <- MixedInstances
    FlagPairs <- EqualFlags
    CallerAssertsEmpty = TRUE
SPECIFICATION Spec
INVARIANT ChallengesAgree
CHECK_DEADLOCK FALSE
