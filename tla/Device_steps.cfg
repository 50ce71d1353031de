SPECIFICATION WSpec
CONSTANTS
    p1 = p1
    p2 = p2
    p3 = p3
    Proc <- Procs3
    Nobody = Nobody
    SliceInIncrement = FALSE
INVARIANTS SchedulerSeesWaiters
SYMMETRY Procs3Symmetry
CHECK_DEADLOCK FALSE
