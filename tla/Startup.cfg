\* Three connections of both sorts, one with CheckAlive.
SPECIFICATION FairSpec
CONSTANTS
    WG = {w1, w2}
    TS = {n1}
    CheckAlive = {w1}
INVARIANTS
    TypeOK
    GivesUpOnlyIfIdle
    HealthSeesAll
    FailureLeavesNothing
PROPERTIES
    StartedIsServed
    SignalStops
\* The process may end.
CHECK_DEADLOCK FALSE
