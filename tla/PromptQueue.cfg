CONSTANTS
    Kind <- Mixed
    Commands <- MixedNames
    MaxTurns = 3
    MaxLost = 1
SPECIFICATION FairSpec
INVARIANTS
    GuardHasOwner
    NothingLost
    HeardOnce
PROPERTIES
    QueueDrains
CHECK_DEADLOCK FALSE
