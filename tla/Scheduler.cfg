\* Four handler threads on a queue of two, so that it fills up and overflows.
\* Threads are scheduled; nothing else is fair.
SPECIFICATION FairSpec
CONSTANTS
    r1 = r1
    r2 = r2
    r3 = r3
    r4 = r4
    Requests = {r1, r2, r3, r4}
    MaxQueue = 2
CHECK_DEADLOCK FALSE
INVARIANTS NoOvertaking NoLostWakeup Conservation
PROPERTIES HungEngineIsSurvived LineMoves LeaseSpec
