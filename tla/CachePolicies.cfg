CONSTANTS
    Experts <- FourExperts
    NLayers = 3
    MaxCap = 4
    Cases <- SomeCases
    Totals = {0, 2, 5, 8, 13}
SPECIFICATION WaterFillSpec
INVARIANTS GdsIsLru CurveIsExact UniformIsSlotLru BeladyBounds WaterFillIsBest
CHECK_DEADLOCK FALSE
