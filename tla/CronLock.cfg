CONSTANTS
    Procs <- MCProcs
    SessionOf <- MCSessionOf
    Absent = Absent
SPECIFICATION FairLockSpec
INVARIANTS
    OneOwner
PROPERTIES
    TakenOver
CHECK_DEADLOCK FALSE
