\* Two trials in two phases, two strangers, confirmed in two samples.
SPECIFICATION FairCampaign
CONSTANTS
    p = p
    q = q
    Strangers = {p, q}
    Required = 2
    MaxTrials = 2
\* A campaign ends.
CHECK_DEADLOCK FALSE
INVARIANTS CleanMeansClean NoFalseAlarm LockCoversTrials
PROPERTIES EveryoneStops
