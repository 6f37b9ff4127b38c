CONSTANTS
    Keys <- MCAllKeys
    FlagPairs <- AllFlags
    CallerAssertsEmpty = TRUE
    PermColumns = {c1, c2}
    OtherColumns = {d1}
    N = 2
    RowLimit = 3
    Values = {0, 1}
    MaxCopies = 2
SPECIFICATION ProofSpec
CONSTRAINT CopyBound
INVARIANTS
    TranscriptsAgree
    ChallengesBind
    OnlyWholeProofAccepted
    GadgetFollowsVerifier
    ContractFollowsVerifier
    CopiesEnforced
    LabelsAreCycles
    SizesExact
PROPERTIES
    HonestProofAccepted
    CopyReturns
    ImplementsClasses
CHECK_DEADLOCK FALSE
