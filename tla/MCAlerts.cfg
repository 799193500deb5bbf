CONSTANTS
    ci = ci
    src = src
    mem = mem
    push = push
    w = w
    only = only
    force = force
    verify = verify
    x = x
    Sessions = {s1}
    Patterns = {w, only, force, verify}
    Matches <- Matching1
    Memory = {mem}
    NotAllowed = notallowed
    Base <- Baseline
    Overlays <- RuleSets
    Unreadable = unreadable
    Calls <- ToolCalls
    Texts <- OneVerb
    Names = {x}
    NFiles = 2
    Budget = 2
    Debounce = 2
    MaxItems = 2
    MaxEdits = 1
    MaxTime = 3
    MaxFaults = 1
SPECIFICATION AlertsSpec
INVARIANTS
    ViolationsAccounted
    ViolationsShown
    ToastsDebounced
    VerdictGrounded
CHECK_DEADLOCK FALSE
