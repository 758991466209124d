\* Two I/O threads, the second block larger than the first.
SPECIFICATION Spec
CONSTANTS
    w1 = w1
    w2 = w2
    Workers = {w1, w2}
    MaxJobs = 3
    Plans <- Growing
CHECK_DEADLOCK FALSE
INVARIANTS NoWrongGeneration
