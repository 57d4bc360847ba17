CONSTANTS
    Alphabet <- MCAlphabet
    MacaroonLength = 3
    Inputs <- MCInputs
    Accepted0 <- MCAccepted0
    MaxStarts = 2
    MaxTime = 15
    MaxFaults = 2
SPECIFICATION Spec
CHECK_DEADLOCK FALSE
INVARIANTS
    SettingsAreFound
    TokenIsFresh
    TokenIsKept
    ReleasedInOrder
PROPERTIES
    StartEnds
