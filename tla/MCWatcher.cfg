CONSTANTS
    Files = {f}
    Project = {f}
    Watch = watch
    Seeders = {s}
    Msg <- Msg3
    MaxSeeds = 1
    MaxCrashes = 1
SPECIFICATION FairSpec
INVARIANTS
    NoLineSkipped
    ATurnPerMessage
PROPERTIES
    ImplementsDelivery
    EventuallyRecorded
CHECK_DEADLOCK FALSE
