SPECIFICATION DFairSpec
CONSTANTS
    Main = Main
    p1 = p1
    p2 = p2
    a = a
    Proc <- Procs
    Msg = {a}
    Size <- OneSize
    NoMsg = NoMsg
    MaxMbox = 2
    MaxDevices = 2
    DeviceSlots = 2
    IntSize = 1
    SlotCounts = {2}
    SlotSizes = {1}
    BufSizes = {1}
    MallocMayFail = TRUE
    SignalsAllowed = TRUE
INVARIANTS DTypeOK DeviceMailboxesOwn CheckIoTruthful
PROPERTIES BootEstablishesInit DeviceWaitersReturn
CHECK_DEADLOCK FALSE
