CONSTANTS
    Models = 2
    RecoveryLimit = 1
    FailureLimit = 2
    TurnLimits <- MCTurnLimits
    Widths <- MCWidths
    MaxCalls = 4
    MaxRequests = 2
    MaxTrouble = 3
SPECIFICATION Spec
INVARIANTS
    RequestPaired
    ShownPaired
    RetriesBounded
    BreakerHolds
    AbortStops
    FailureShown
