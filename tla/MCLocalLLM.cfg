CONSTANTS
    drift = drift
    synth = synth
    rubric = rubric
    user = user
    Drift = drift
    Synth = synth
    Rubric = rubric
    UserRubric = user
    Graders = {user}
    Settings <- OnAndOff
    MaxChanges = 1
SPECIFICATION FairSpec
INVARIANTS
    MetricsAccounted
    SettingsApply
    TurnsJudged
PROPERTIES
    DriftKeepsUp
    EveryoneServed
