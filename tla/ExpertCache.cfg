\* Two sparse layers, three experts, two cache slots, blocks of two.
SPECIFICATION FairSpec
CONSTANTS
    Experts = {e1, e2, e3}
    NLayers = 3
    Sparse <- TwoSparseLayers
    Cap = 2
    NPin <- PinInTheSecond
    Block = 2
    MaxNeed = 3
    Ring = 1
    None = none
    Torn = torn
INVARIANTS TypeOK MatmulReadsLoaded NoExpertTwice
PROPERTIES KeepsWhatItUsed BarrierOpens
