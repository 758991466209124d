CONSTANTS
    a = a
    b = b
    Tokens = {a, b}
    Stop = Stop
    NoToken = NoToken
    MaxT = 8
    MaxDraft = 2
    PromptReserve = 3
    GenReserve = 2
    NGen = {3}
    MaxLine = 1
    MaxTurns = 3
SPECIFICATION Spec
SYMMETRY TokenSymmetry
INVARIANTS RowsMatchShown
PROPERTIES PlainSpec
CHECK_DEADLOCK FALSE
