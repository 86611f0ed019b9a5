CONSTANTS
    w1 = w1
    w2 = w2
    p1 = p1
    p2 = p2
    NoOne = NoOne
    Writers <- MCWriters
    Urgency <- MCUrgency
    Polls <- MCPolls
    MaxFailures = 0
    MaxDeaths = 0
SPECIFICATION Spec
INVARIANTS
    NonePassedOver
CHECK_DEADLOCK FALSE
