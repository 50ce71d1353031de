SPECIFICATION Spec
CONSTANTS
    p1 = p1
    p2 = p2
    p3 = p3
    a = a
    b = b
    z = z
    Proc <- Procs3
    Msg = {a, b}
    Size <- MixedSize
    NoMsg = NoMsg
    MaxMbox = 2
    MaxDevices = 1
    DeviceSlots = 2
    IntSize = 1
    SlotCounts = {2}
    SlotSizes = {2}
    BufSizes = {2}
    MallocMayFail = TRUE
    SignalsAllowed = TRUE
INVARIANTS TypeOK SlotsPrefix WaitersBlocked BlockedListed ReleasedDrained
SYMMETRY Procs3Symmetry
CHECK_DEADLOCK FALSE
