CONSTANTS
    w1 = w1
    w2 = w2
    p1 = p1
    p2 = p2
    NoOne = NoOne
    Writers <- MCWriters
    Urgency <- MCUrgency
    Polls <- MCPolls
    MaxFailures = 1
    MaxDeaths = 1
SPECIFICATION FairSpec
INVARIANTS
    NoneVanish
    ReadMeansTaken
    DeliveredOnce
PROPERTIES
    Arrives
CHECK_DEADLOCK FALSE
