------------------------------ MODULE Devices ------------------------------
(***************************************************************************)
(* The start of the system and the devices: SchedulerEntryPoint, which     *)
(* gives each device a mailbox and then starts the first test process, and *)
(* wait_device, which waits on the mailbox of a device.  The mailboxes and *)
(* their operations are those of Messaging.                                *)
(*                                                                         *)
(* No interrupt handler is registered (InitializeHandlers leaves that to   *)
(* be done), so nothing but a process ever sends to a device's mailbox.    *)
(***************************************************************************)
EXTENDS Messaging

CONSTANT Main           \* the process that runs SchedulerEntryPoint
ASSUME MainAssumption == Main \in Proc

VARIABLES
    phase,              \* "booting", "up", or "stopped" after stop()
    nextDevice,         \* the device SchedulerEntryPoint makes a mailbox for
    deviceMbox,         \* devices[h].deviceMbox
    waitingOnDevice,    \* what check_io_messaging looks at
    waiting,            \* the device a process is inside wait_device for
    interrupts          \* are interrupts enabled while the process runs?

dvars == <<phase, nextDevice, deviceMbox, waitingOnDevice, waiting, interrupts>>
allvars == <<vars, dvars>>

Device == 0 .. MaxDevices - 1
Clock == 0                          \* THREADS_CLOCK_DEVICE_ID
NoDevice == -1
Users == Proc \ {Main}

DInit ==
    /\ mailboxes = [id \in Id |-> EmptyMailbox]
    /\ nextMailboxId = 0
    /\ call = [p \in Proc |-> NoCall]
    /\ pstate = [p \in Proc |-> "ready"]
    /\ signal = [p \in Proc |-> FALSE]
    /\ result = [p \in Proc |-> NoResult]
    /\ phase = "booting"
    /\ nextDevice = 0
    /\ deviceMbox = [h \in Device |-> 0]
    /\ waitingOnDevice = 0
    /\ waiting = [p \in Proc |-> NoDevice]
    /\ interrupts = [p \in Proc |-> p # Main]

-----------------------------------------------------------------------------
(* SchedulerEntryPoint: the clock first, then the other devices            *)

SlotsOf(h) == IF h = Clock THEN 0 ELSE DeviceSlots

(* A wrong form of BootCreate: the id is recorded before mailbox_create    *)
(* has succeeded.                                                          *)
BootCreateRecordsId ==
    /\ phase = "booting"
    /\ nextDevice < MaxDevices
    /\ \/ CreateMailbox(Main, SlotsOf(nextDevice), IntSize)
       \/ CreateNoMemory(Main, SlotsOf(nextDevice), IntSize)
    /\ deviceMbox' = [deviceMbox EXCEPT ![nextDevice] = nextMailboxId]
    /\ nextDevice' = nextDevice + 1
    /\ UNCHANGED <<phase, waitingOnDevice, waiting, interrupts>>

(* the value mailbox_create returns is kept, a failure's -1 as well *)
BootCreate ==
    /\ phase = "booting"
    /\ nextDevice < MaxDevices
    /\ \/ CreateMailbox(Main, SlotsOf(nextDevice), IntSize)
       \/ CreateNoMemory(Main, SlotsOf(nextDevice), IntSize)
    /\ deviceMbox' = [deviceMbox EXCEPT ![nextDevice] = result'[Main].code]
    /\ nextDevice' = nextDevice + 1
    /\ UNCHANGED <<phase, waitingOnDevice, waiting, interrupts>>

(* A wrong form of BootFinish: the first id to hand out is one too low. *)
BootFinishLow ==
    /\ phase = "booting"
    /\ nextDevice = MaxDevices
    /\ nextMailboxId' = MaxDevices - 1
    /\ phase' = "up"
    /\ interrupts' = [interrupts EXCEPT ![Main] = TRUE]
    /\ UNCHANGED <<mailboxes, call, pstate, signal, result,
                   nextDevice, deviceMbox, waitingOnDevice, waiting>>

(* whatever failed, the ids of the devices are not handed out again *)
BootFinish ==
    /\ phase = "booting"
    /\ nextDevice = MaxDevices
    /\ nextMailboxId' = MaxDevices
    /\ phase' = "up"
    /\ interrupts' = [interrupts EXCEPT ![Main] = TRUE]
    /\ UNCHANGED <<mailboxes, call, pstate, signal, result,
                   nextDevice, deviceMbox, waitingOnDevice, waiting>>

-----------------------------------------------------------------------------
(* wait_device                                                             *)

Outside(p) == Idle(p) /\ waiting[p] = NoDevice

(* Up to the first return or block() of mailbox_receive.  The code enables *)
(* interrupts first and counts up without protection; that this is one     *)
(* step is the assumption of Messaging that no stretch is interrupted.     *)
(* DeviceSteps does without it.                                            *)
WaitDevice(p, h) ==
    /\ Outside(p)
    /\ waitingOnDevice' = waitingOnDevice + 1
    /\ waiting' = [waiting EXCEPT ![p] = h]
    /\ interrupts' = [interrupts EXCEPT ![p] = TRUE]
    /\ ReceiveTurn(p, deviceMbox[h], IntSize, TRUE)
    /\ UNCHANGED <<phase, nextDevice, deviceMbox>>

(* device_handle knows no such device: stop(-1) *)
WaitUnknownDevice(p) ==
    /\ Outside(p)
    /\ phase' = "stopped"
    /\ interrupts' = [interrupts EXCEPT ![p] = TRUE]
    /\ UNCHANGED <<vars, nextDevice, deviceMbox, waitingOnDevice, waiting>>

(* A wrong form of WaitDeviceReturn: a signalled process stays counted. *)
WaitDeviceReturnEarly(p) ==
    /\ Idle(p) /\ waiting[p] # NoDevice
    /\ interrupts' = [interrupts EXCEPT ![p] = FALSE]
    /\ waitingOnDevice' = IF signal[p] THEN waitingOnDevice ELSE waitingOnDevice - 1
    /\ waiting' = [waiting EXCEPT ![p] = NoDevice]
    /\ result' = [result EXCEPT ![p].code = IF signal[p] THEN -5 ELSE 0]
    /\ UNCHANGED <<mailboxes, nextMailboxId, call, pstate, signal,
                   phase, nextDevice, deviceMbox>>

(* mailbox_receive has returned, with whatever result *)
WaitDeviceReturn(p) ==
    /\ Idle(p) /\ waiting[p] # NoDevice
    /\ interrupts' = [interrupts EXCEPT ![p] = FALSE]
    /\ waitingOnDevice' = waitingOnDevice - 1
    /\ waiting' = [waiting EXCEPT ![p] = NoDevice]
    /\ result' = [result EXCEPT ![p].code = IF signal[p] THEN -5 ELSE 0]
    /\ UNCHANGED <<mailboxes, nextMailboxId, call, pstate, signal,
                   phase, nextDevice, deviceMbox>>

-----------------------------------------------------------------------------
(* check_io_messaging, which the scheduler asks before it reports deadlock *)
CheckIo == waitingOnDevice # 0

(* the mailbox calls of a process that is not inside wait_device, and what *)
(* is left of a call it is inside of                                       *)
MailboxStep(p) ==
    /\ \/ Outside(p) /\ Start(p)
       \/ Continue(p)
       \/ Signal(p)
    /\ UNCHANGED dvars

UserStep(p) ==
    /\ phase = "up"
    /\ \/ MailboxStep(p)
       \/ \E h \in Device : WaitDevice(p, h)
       \/ WaitUnknownDevice(p)
       \/ WaitDeviceReturn(p)

DNext == BootCreate \/ BootFinish \/ \E p \in Users : UserStep(p)

DSpec == DInit /\ [][DNext]_allvars

(* A process that is ready inside a call is given the CPU again. *)
Resume(p) ==
    /\ phase = "up"
    /\ \/ Continue(p) /\ UNCHANGED dvars
       \/ WaitDeviceReturn(p)

DFairSpec == DSpec /\ \A p \in Users : WF_allvars(Resume(p))

-----------------------------------------------------------------------------
(* Properties                                                              *)

(* Every variable has the values the C declarations allow. *)
DTypeOK ==
    /\ TypeOK
    /\ phase \in {"booting", "up", "stopped"}
    /\ nextDevice \in 0 .. MaxDevices
    /\ deviceMbox \in [Device -> -1 .. MaxMbox - 1]
    /\ waitingOnDevice \in 0 .. Cardinality(Proc)
    /\ waiting \in [Proc -> -1 .. MaxDevices - 1]
    /\ interrupts \in [Proc -> BOOLEAN]

(* What SchedulerEntryPoint hands to the test, if no mailbox_create of it  *)
(* failed, is a state in which Messaging starts, and device h has mailbox  *)
(* h: the processes and wait_device speak of the same mailboxes.           *)
BootEstablishesInit ==
    [][(phase = "booting" /\ phase' = "up" /\ \A h \in Device : deviceMbox[h] # -1) =>
         /\ mailboxes' = [id \in Id |-> IF id < MaxDevices THEN DeviceMailbox(id)
                                                           ELSE EmptyMailbox]
         /\ nextMailboxId' = MaxDevices
         /\ \A h \in Device : deviceMbox'[h] = h]_allvars

(* Even if creates of SchedulerEntryPoint failed, no two devices share a   *)
(* mailbox, each has all its slots, and no process can be handed the       *)
(* mailbox of a device by mailbox_create.                                  *)
DeviceMailboxesOwn ==
    phase = "up" => \A h \in Device :
        LET id == deviceMbox[h]
        IN  id # -1 =>
              /\ \A g \in Device \ {h} : deviceMbox[g] # id
              /\ Len(mailboxes[id].slots) = Allocated(SlotsOf(h))
              /\ id < nextMailboxId

(* check_io_messaging answers yes exactly while a process is inside        *)
(* wait_device, however its mailbox_receive ends and whoever else waits:   *)
(* the scheduler's test for deadlock neither misses a waiter nor sees one  *)
(* that has gone.                                                          *)
CheckIoTruthful == CheckIo <=> \E p \in Proc : waiting[p] # NoDevice

(* Freeing the mailbox of a device ends the waits on that device: whoever  *)
(* is inside wait_device when the mailbox is released comes back, unless   *)
(* the machine is stopped.                                                 *)
DeviceWaitersReturn ==
    \A p \in Users :
        (/\ waiting[p] # NoDevice
         /\ deviceMbox[waiting[p]] # -1
         /\ mailboxes[deviceMbox[waiting[p]]].status = "released")
        ~> (waiting[p] = NoDevice \/ phase = "stopped")
=============================================================================
