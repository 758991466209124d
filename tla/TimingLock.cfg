\* Four drivers contend for what one that died before, or nobody, left.
SPECIFICATION Spec
CONSTANTS
    Drivers = {d1, d2, d3, d4}
    Past = past
    NoOne = none
SYMMETRY AnyOrder
\* Every driver calls acquire once and ends.
CHECK_DEADLOCK FALSE
INVARIANTS TypeOK OneDriverUnlessCrossed HolderIsRecorded LoneDriverWins
