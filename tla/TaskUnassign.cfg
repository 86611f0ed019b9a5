SPECIFICATION Spec
CONSTANTS
    Procs = {s1, s2}
    NoProc = NoProc
    Menu <- UnassignMenu
    Initial = 1
    MaxCalls = 3
    MaxCrashes = 0
PROPERTIES UnassignsOwnOpenTasks
CHECK_DEADLOCK FALSE
