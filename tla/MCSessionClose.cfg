CONSTANTS
    Sessions = {s1, s2}
    None = none
    Modes <- TwoModes
    Idle = 1
    HasLLM = TRUE
    MaxFaults = 1
    MaxCrashes = 1
SPECIFICATION FairSpec
INVARIANTS
    ReportComplete
    ShownReportCovers
    LlmForLiveOnly
    SingleReportReady
PROPERTIES
    QuietSessionsReported
CHECK_DEADLOCK FALSE
