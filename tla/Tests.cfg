SPECIFICATION RFairSpec
CONSTANTS
    Main = 0
    Proc <- Procs
    Msg <- Texts
    Size <- TextLength
    NoMsg = NoMsg
    MaxMbox = 12
    MaxDevices = 6
    DeviceSlots = 2
    IntSize = 4
    SlotCounts <- Counts
    SlotSizes <- Lengths
    BufSizes <- Buffers
    MallocMayFail = FALSE
    SignalsAllowed = FALSE
    MAXMBOX = 12
    MAXSLOTS = 3
    MAX_MESSAGE = 256
    TerminalWrites = 2
    FirstFreed = 1
    FreedCount = 2
    LateCreates = 3
    Cases <- Handled
    Device0 <- Handles
CHECK_DEADLOCK FALSE
INVARIANTS NoOrphans TestsHang SendersKeepUp
PROPERTIES TestsEnd ChecksPass
