SPECIFICATION SSpec
CONSTANTS
    p1 = p1
    p2 = p2
    a = a
    b = b
    Proc <- Procs
    Msg <- Messages
    Size <- SameSize
    NoMsg = NoMsg
    MaxMbox = 2
    MaxDevices = 1
    DeviceSlots = 2
    IntSize = 2
    SlotCounts = {0, 2}
    SlotSizes = {1}
    BufSizes = {1}
    MallocMayFail = TRUE
    SignalsAllowed = FALSE
PROPERTIES StretchesAreSteps
SYMMETRY Symmetry
VIEW ButResult
CHECK_DEADLOCK FALSE
