SPECIFICATION FairSpec
CONSTANTS
    p1 = p1
    p2 = p2
    p3 = p3
    a = a
    b = b
    z = z
    Proc <- Procs2
    Msg = {a}
    Size <- OneSize
    NoMsg = NoMsg
    MaxMbox = 1
    MaxDevices = 0
    DeviceSlots = 2
    IntSize = 1
    SlotCounts = {0, 2}
    SlotSizes = {1}
    BufSizes = {1}
    MallocMayFail = TRUE
    SignalsAllowed = FALSE
PROPERTIES FreedWaitersLeave
CHECK_DEADLOCK FALSE
