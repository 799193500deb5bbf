CONSTANTS
    Old1 = old1
    Old2 = old2
    Sessions = {s}
    Earlier = {old1, old2}
    None = none
    Scope = scope
    Rubric = rubric
    User = user
    Files = {f1, f2}
    Lines <- SomeLines
    History <- TwoEarlier
    Window = 3
    Floor = 1
    Factor = 1
    Interval = 2
    UserInterval = 2
    MaxTurns = 4
    MaxLines = 3
    MaxPrompts = 4
    MaxFaults = 1
SPECIFICATION FairSpec
INVARIANTS
    OneRunPerSession
    CadenceOncePerTurn
    CreepAccounted
    UserCadence
PROPERTIES
    AllJudged
CHECK_DEADLOCK FALSE
