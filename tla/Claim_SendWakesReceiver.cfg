SPECIFICATION Spec
CONSTANTS
    p1 = p1
    p2 = p2
    p3 = p3
    a = a
    b = b
    z = z
    Proc <- Procs3
    Msg = {a}
    Size <- OneSize
    NoMsg = NoMsg
    MaxMbox = 2
    MaxDevices = 1
    DeviceSlots = 2
    IntSize = 1
    SlotCounts = {2}
    SlotSizes = {1}
    BufSizes = {1}
    MallocMayFail = FALSE
    SignalsAllowed = FALSE
INVARIANTS SendWakesReceiver
SYMMETRY Procs3Symmetry
CHECK_DEADLOCK FALSE
