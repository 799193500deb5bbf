CONSTANTS
    m1 = m1
    m2 = m2
    m3 = m3
    c1 = c1
    c2 = c2
    c3 = c3
    x = x
    y = y
    Watch = watch
    Seeder = seeder
    None = none
    Messages = {m1, m2, m3}
    Calls = {c1, c2, c3}
    Modes = {x, y}
    Transcripts <- SomeTranscripts
    Cap = 2
    Drop = 1
    MaxCrashes = 1
    MaxSeeds = 1
    MaxFaults = 1
SPECIFICATION Spec
INVARIANTS
    TurnsAccounted
    EachTurnShownOnce
    ModeChangesTrue
    InterruptsNamed
CHECK_DEADLOCK FALSE
