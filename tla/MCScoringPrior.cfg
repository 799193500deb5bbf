CONSTANTS
    Old1 = old1
    Old2 = old2
    Sessions = {s}
    Earlier = {old1, old2}
    None = none
    Scope = scope
    Rubric = rubric
    User = user
    Files = {f1, f2, f3}
    Lines <- Edits
    History <- OneEarlier
    Window = 5
    Floor = 2
    Factor = 2
    Interval = 2
    UserInterval = 2
    MaxTurns = 3
    MaxLines = 3
    MaxPrompts = 0
    MaxFaults = 0
SPECIFICATION Spec
INVARIANTS
    OutgrowsPriorSessions
CHECK_DEADLOCK FALSE
