\* CTX and the record layout (DSA=0/1) may change between two starts; a crash anywhere.
SPECIFICATION Spec
CONSTANTS
    a = a
    b = b
    dense = dense
    sparse = sparse
    Tokens = {a, b}
    Junk = Junk
    Layouts = {dense, sparse}
    Contexts = {5, 7}
    PromptReserve = 2
    GenReserve = 1
    MaxGen = 2
    MaxTurns = 2
    MaxCrashes = 2
    MaxFails = 0
CHECK_DEADLOCK FALSE
INVARIANTS RowsMatchHistory
