SPECIFICATION FairSpec
CONSTANTS
    Procs = {s1, s2}
    NoProc = NoProc
    Menu <- ReturnMenu
    Initial = 1
    MaxCalls = 3
    MaxCrashes = 1
INVARIANTS LinksMatch
PROPERTIES CallsReturn
CHECK_DEADLOCK FALSE
