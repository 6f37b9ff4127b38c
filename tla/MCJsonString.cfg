CONSTANTS
    Alphabet = 19
    RegexLeaves = {}
    MaxCalls = 0
    MaxWord = 0
    MaxText = 4
SPECIFICATION LibrarySpec
INVARIANTS JsonStringsAccepted
CHECK_DEADLOCK FALSE
