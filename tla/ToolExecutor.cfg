CONSTANTS
    MaxTools = 2
    Calls <- MainCalls
SPECIFICATION FairSpec
PROPERTIES
    NothingSucceedsAfterCancel
    ImplementsSlots
    DrainEnds
CHECK_DEADLOCK FALSE
