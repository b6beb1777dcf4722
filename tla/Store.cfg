SPECIFICATION Machines
CONSTANTS
    t1 = t1
    t2 = t2
    o1 = o1
    Tasks = {t1, t2}
    Others = {o1}
    Logged = {t1, o1}
    Casts <- MCCasts
    Lulls <- MCLulls
    MaxEndedTasks = 1
    MaxMoves = 2
INVARIANTS
    ChildrenInv
    ShutdownSettles
    TaskEndsRun
    StoreInv
PROPERTIES
    ShutdownEnds
    RunEnds
    EventsSuffice
    PagesCatchUp
CHECK_DEADLOCK FALSE
