SPECIFICATION Spec
CONSTANTS
    Procs = {s1, s2, s3}
    NoProc = NoProc
    Menu <- BoardMenu
    Initial = 1
    MaxCalls = 3
    MaxCrashes = 1
SYMMETRY Symmetry
INVARIANTS MarkCovers HolderIsOwner
PROPERTIES FreshIds ClaimExclusive CompletedStays
CHECK_DEADLOCK FALSE
