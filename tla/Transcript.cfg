CONSTANTS
    main = main
    r1 = r1
    side = side
    None = None
    Hole = Hole
    Inserts <- MCInserts
    Messages <- MCMessages
    Message <- MCMessage
    Files = {main, side}
    Main = main
    FileOf <- MCFileOf
    Timers = {t1, t2}
    Flushes = {w1}
    Removals = {r1}
    Target <- MCTarget
    Window = 1
    MaxFailures = 1
SPECIFICATION FairSpec
INVARIANTS
    WrittenOnce
    NothingLost
    InOrder
    FlushCovers
    NeverStranded
    RemovedIsGone
PROPERTIES
    EventuallyWritten
CHECK_DEADLOCK FALSE
