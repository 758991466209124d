\* One build and one CTX; a crash between any two steps, a disk that may fill up once.
SPECIFICATION Spec
CONSTANTS
    a = a
    b = b
    dense = dense
    sparse = sparse
    Tokens = {a, b}
    Junk = Junk
    Layouts = {dense}
    Contexts = {5}
    PromptReserve = 2
    GenReserve = 1
    MaxGen = 2
    MaxTurns = 3
    MaxCrashes = 2
    MaxFails = 1
SYMMETRY TokenSymmetry
CHECK_DEADLOCK FALSE
INVARIANTS TypeOK RowsMatchHistory SkippedRecordsAreThere
