\* Two I/O threads; blocks that never grow, and blocks that shrink and grow.
SPECIFICATION FairSpec
CONSTANTS
    w1 = w1
    w2 = w2
    Workers = {w1, w2}
    MaxJobs = 3
    Plans <- ShrinkingAndNot
CHECK_DEADLOCK FALSE
INVARIANTS NoWrongGenerationUnlessGrowing MatmulReadsItsExpert QuietAtPromotion
PROPERTIES AllBlocksDone
