SPECIFICATION Spec
CONSTANTS
    p1 = p1
    p2 = p2
    p3 = p3
    a = a
    b = b
    z = z
    Proc <- Procs2
    Msg = {a, b, z}
    Size <- ThreeSizes
    NoMsg = NoMsg
    MaxMbox = 2
    MaxDevices = 1
    DeviceSlots = 2
    IntSize = 1
    SlotCounts <- AnyCounts
    SlotSizes <- AnySizes
    BufSizes = {2}
    MallocMayFail = TRUE
    SignalsAllowed = TRUE
INVARIANTS SlotsFit
PROPERTIES ImplementsQueues
SYMMETRY Procs2Symmetry
CHECK_DEADLOCK FALSE
