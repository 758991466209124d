\* One owner that releases, one driver that reclaims, one on the fast path.
SPECIFICATION Spec
CONSTANTS
    Drivers = {d1, d2, d3}
    Past = past
    NoOne = none
SYMMETRY AnyOrder
CHECK_DEADLOCK FALSE
INVARIANTS OneDriver
