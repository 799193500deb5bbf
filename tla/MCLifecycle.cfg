CONSTANTS
    Commands = {c1, c2}
    MaxProcs = 2
    MaxShells = 1
    MaxCrashes = 1
SPECIFICATION FairSpec
INVARIANTS
    CalmUseIsSafe
    ShellExitAccounted
PROPERTY
    ToldDies
CHECK_DEADLOCK FALSE
