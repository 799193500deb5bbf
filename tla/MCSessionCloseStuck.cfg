CONSTANTS
    Sessions = {s1}
    None = none
    Modes <- TwoModes
    Idle = 1
    HasLLM = TRUE
    MaxFaults = 0
    MaxCrashes = 1
SPECIFICATION FairSpec
PROPERTIES
    EveryIdleSessionReported
CHECK_DEADLOCK FALSE
