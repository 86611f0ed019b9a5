CONSTANTS
    Sessions = {s1, s2}
    OneShots = {"a"}
    Recurring = {"r"}
    Old = {"r"}
    Due <- MCDue
    Expires <- MCExpires
    MaxTime = 3
    MaxFailures = 1
SPECIFICATION FairSpec
INVARIANTS
    OneShotOnce
    RecurringSpaced
    NoneForgotten
PROPERTIES
    DueFires
CONSTRAINT MCNoOverlap
CHECK_DEADLOCK FALSE
