CONSTANTS
    MaxTools = 4
    Cap = 2
    MaxUpdates = 2
SPECIFICATION FairSpec
INVARIANTS
    ContextInBlockOrder
PROPERTIES
    AllToolsEnd
    ImplementsSlots
CHECK_DEADLOCK FALSE
