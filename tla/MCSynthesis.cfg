CONSTANTS
    Sessions = {s}
    None = none
    Worker = worker
    Requests = {r1, r2}
    Levels <- ThreeLevels
    Periodic = 2
    Full = 5
    FailLimit = 2
    MaxTurns = 4
    MaxFailures = 3
SPECIFICATION FairSpec
INVARIANTS
    OneCallPerSession
    FullnessIsCurrent
    NotifiedOncePerStreak
    RewrittenOncePerCrossing
PROPERTIES
    KeepsUp
CHECK_DEADLOCK FALSE
