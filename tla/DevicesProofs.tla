--------------------------- MODULE DevicesProofs ---------------------------
(***************************************************************************)
(* Theorems of Devices, for every value of its constants.  What Messaging  *)
(* promises from a table with its device mailboxes on, it still promises   *)
(* when the table comes from SchedulerEntryPoint, whichever creates of the *)
(* boot fail, and when processes wait for devices: the second half proves  *)
(* the invariants of Messaging of Devices.                                 *)
(***************************************************************************)
EXTENDS Devices, WakeupProofs, FiniteSetTheorems

(* the processes inside wait_device, which waitingOnDevice counts *)
InsideWait == {p \in Proc : waiting[p] # NoDevice}

DInv == Inv1 /\ DTypeOK /\ waitingOnDevice = Cardinality(InsideWait)

-----------------------------------------------------------------------------
(* The mailboxes under the devices *)

(* The table is empty before the boot. *)
LEMMA DInitInv1 == DInit => Inv1
  <1> SUFFICES ASSUME DInit PROVE Inv1 OBVIOUS
  <1> USE TableAssumption
  <1>1. EmptyMailbox \in Mailbox /\ EmptyMailbox.slots = <<>>
    BY DEF EmptyMailbox, Mailbox
  <1>2. TypeOK
    BY <1>1 DEF DInit, TypeOK, NoCall, Call, NoResult, NoCode, Slot, Id
  <1>3. CallOK BY DEF DInit, CallOK, NoCall
  <1>4. SlotsPrefix
    <2> SUFFICES ASSUME NEW id \in Id
                 PROVE  \E n \in 0 .. Len(mailboxes[id].slots) :
                            \A i \in 1 .. Len(mailboxes[id].slots) :
                                mailboxes[id].slots[i] # NoMsg <=> i <= n
      BY DEF SlotsPrefix
    <2>1. mailboxes[id].slots = <<>> BY <1>1 DEF DInit
    <2>2. Len(<<>>) = 0 OBVIOUS
    <2> QED BY <2>1, <2>2
  <1> QED BY <1>2, <1>3, <1>4 DEF Inv1

LEMMA DeviceArgs ==
    ASSUME NEW h \in Device, DTypeOK
    PROVE  /\ SlotsOf(h) \in Int /\ IntSize \in Int
           /\ deviceMbox[h] \in Int
  BY TableAssumption DEF SlotsOf, DTypeOK, Device

(* A step of a process is a step of Messaging, the start of a receive from *)
(* a device's mailbox, or leaves the mailboxes alone.                      *)
LEMMA MailboxStepNext ==
    ASSUME NEW p \in Proc, MailboxStep(p)
    PROVE  Next /\ UNCHANGED dvars
  BY DEF MailboxStep, Next

LEMMA ResultCode ==
    ASSUME NEW p \in Proc, NEW code \in Int, TypeOK
    PROVE  [result EXCEPT ![p].code = code] \in [Proc -> [code : Int, msg : Slot]]
  BY DEF TypeOK

LEMMA DStepInv1 == DInv /\ [DNext]_allvars => Inv1'
  <1> SUFFICES ASSUME DInv, [DNext]_allvars PROVE Inv1' OBVIOUS
  <1> USE TableAssumption, MainAssumption
  <1>0. Inv1 /\ DTypeOK BY DEF DInv
  <1>1. CASE UNCHANGED allvars
    <2>1. UNCHANGED vars BY <1>1 DEF allvars
    <2> QED BY <1>0, <2>1, StepInv1
  <1>2. CASE BootCreate
    <2>1. nextDevice \in Device BY <1>0, <1>2 DEF BootCreate, DTypeOK, Device
    <2>2. \/ CreateMailbox(Main, SlotsOf(nextDevice), IntSize)
          \/ CreateNoMemory(Main, SlotsOf(nextDevice), IntSize)
      BY <1>2 DEF BootCreate
    <2> QED BY <1>0, <2>1, <2>2, DeviceArgs, MakeInv1
  <1>3. CASE BootFinish
    <2>1. UNCHANGED <<mailboxes, call, pstate, signal, result>> BY <1>3 DEF BootFinish
    <2>2. nextMailboxId' \in 0 .. MaxMbox BY <1>3 DEF BootFinish
    <2> QED BY <1>0, <2>1, <2>2 DEF Inv1, TypeOK, CallOK, SlotsPrefix, Id
  <1>4. ASSUME NEW p \in Users, MailboxStep(p) PROVE Inv1'
    <2>1. p \in Proc BY DEF Users
    <2>2. Next BY <1>4, <2>1, MailboxStepNext
    <2> QED BY <1>0, <2>2, StepInv1
  <1>5. ASSUME NEW p \in Users, NEW h \in Device, WaitDevice(p, h) PROVE Inv1'
    <2>1. p \in Proc BY DEF Users
    <2>2. ReceiveTurn(p, deviceMbox[h], IntSize, TRUE) BY <1>5 DEF WaitDevice
    <2> QED BY <1>0, <2>1, <2>2, DeviceArgs, ReceiveTurnInv1
  <1>6. ASSUME NEW p \in Users, WaitUnknownDevice(p) PROVE Inv1'
    <2>1. UNCHANGED vars BY <1>6 DEF WaitUnknownDevice
    <2> QED BY <1>0, <2>1, StepInv1
  <1>7. ASSUME NEW p \in Users, WaitDeviceReturn(p) PROVE Inv1'
    <2>1. p \in Proc /\ (IF signal[p] THEN -5 ELSE 0) \in Int BY DEF Users
    <2>2. UNCHANGED <<mailboxes, nextMailboxId, call, pstate, signal>>
      BY <1>7 DEF WaitDeviceReturn
    <2>3. result' = [result EXCEPT ![p].code = IF signal[p] THEN -5 ELSE 0]
      BY <1>7 DEF WaitDeviceReturn
    <2>4. result' \in [Proc -> [code : Int, msg : Slot]]
      BY <1>0, <2>1, <2>3, ResultCode DEF Inv1
    <2> QED BY <1>0, <2>2, <2>4 DEF Inv1, TypeOK, CallOK, SlotsPrefix, Id
  <1> QED BY <1>1, <1>2, <1>3, <1>4, <1>5, <1>6, <1>7 DEF DNext, UserStep

-----------------------------------------------------------------------------
(* waitingOnDevice *)

(* One process more, or one less, inside wait_device. *)
LEMMA CountIn ==
    ASSUME DInv, NEW p \in Proc, waiting[p] = NoDevice, NEW h \in Device,
           waiting' = [waiting EXCEPT ![p] = h],
           waitingOnDevice' = waitingOnDevice + 1
    PROVE  waitingOnDevice' = Cardinality(InsideWait')
  <1>1. InsideWait' = InsideWait \union {p} /\ p \notin InsideWait
    BY DEF InsideWait, DInv, DTypeOK, Device, NoDevice
  <1>2. IsFiniteSet(InsideWait)
    BY ProcessesAssumption, FS_Subset DEF InsideWait
  <1>3. Cardinality(InsideWait \union {p}) = Cardinality(InsideWait) + 1
    BY <1>1, <1>2, FS_AddElement
  <1> QED BY <1>1, <1>3 DEF DInv

LEMMA CountOut ==
    ASSUME DInv, NEW p \in Proc, waiting[p] # NoDevice,
           waiting' = [waiting EXCEPT ![p] = NoDevice],
           waitingOnDevice' = waitingOnDevice - 1
    PROVE  waitingOnDevice' = Cardinality(InsideWait')
  <1>1. InsideWait' = InsideWait \ {p} /\ p \in InsideWait
    BY DEF InsideWait, DInv, DTypeOK, NoDevice
  <1>2. IsFiniteSet(InsideWait)
    BY ProcessesAssumption, FS_Subset DEF InsideWait
  <1>3. Cardinality(InsideWait \ {p}) = Cardinality(InsideWait) - 1
    BY <1>1, <1>2, FS_RemoveElement
  <1> QED BY <1>1, <1>3 DEF DInv

LEMMA CountBound == Cardinality(InsideWait) \in 0 .. Cardinality(Proc)
  <1>1. InsideWait \subseteq Proc BY DEF InsideWait
  <1>2. /\ IsFiniteSet(InsideWait)
        /\ Cardinality(InsideWait) <= Cardinality(Proc)
    BY <1>1, ProcessesAssumption, FS_Subset
  <1>3. Cardinality(InsideWait) \in Nat /\ Cardinality(Proc) \in Nat
    BY <1>2, ProcessesAssumption, FS_CardinalityType
  <1> QED BY <1>2, <1>3

(* The variables that only the boot and wait_device change. *)
LEMMA DStepDInv == DInv /\ [DNext]_allvars => DInv'
  <1> SUFFICES ASSUME DInv, [DNext]_allvars PROVE DInv' OBVIOUS
  <1> USE TableAssumption, MainAssumption
  <1>0. Inv1' BY DStepInv1
  <1>1. TypeOK' BY <1>0 DEF Inv1
  <1> DEFINE
        Others == /\ phase' \in {"booting", "up", "stopped"}
                  /\ nextDevice' \in 0 .. MaxDevices
                  /\ deviceMbox' \in [Device -> -1 .. MaxMbox - 1]
                  /\ waiting' \in [Proc -> -1 .. MaxDevices - 1]
                  /\ interrupts' \in [Proc -> BOOLEAN]
        Count == waitingOnDevice' = Cardinality(InsideWait')
  <1>2. SUFFICES Others /\ Count
    <2>1. Cardinality(InsideWait') \in 0 .. Cardinality(Proc)
      <3>1. InsideWait' \subseteq Proc BY DEF InsideWait
      <3>2. /\ IsFiniteSet(InsideWait')
            /\ Cardinality(InsideWait') <= Cardinality(Proc)
        BY <3>1, ProcessesAssumption, FS_Subset
      <3>3. Cardinality(InsideWait') \in Nat /\ Cardinality(Proc) \in Nat
        BY <3>2, ProcessesAssumption, FS_CardinalityType
      <3> QED BY <3>2, <3>3
    <2> QED BY <1>0, <1>1, <1>2, <2>1 DEF DInv, DTypeOK, Device
  <1>3. /\ phase \in {"booting", "up", "stopped"}
        /\ nextDevice \in 0 .. MaxDevices
        /\ deviceMbox \in [Device -> -1 .. MaxMbox - 1]
        /\ waiting \in [Proc -> -1 .. MaxDevices - 1]
        /\ interrupts \in [Proc -> BOOLEAN]
        /\ waitingOnDevice = Cardinality(InsideWait)
    BY DEF DInv, DTypeOK
  <1> HIDE DEF Others, Count
  <1>4. ASSUME UNCHANGED <<waitingOnDevice, waiting>> PROVE Count
    BY <1>3, <1>4 DEF InsideWait, Count
  <1>5. CASE UNCHANGED dvars
    BY <1>3, <1>4, <1>5 DEF dvars, Others
  <1>6. CASE BootCreate
    <2>1. nextDevice + 1 \in 0 .. MaxDevices /\ nextDevice \in Device
      BY <1>3, <1>6 DEF BootCreate, Device
    <2>2. result'[Main].code \in -1 .. MaxMbox - 1
      BY <1>6 DEF BootCreate, CreateMailbox, CreateNoMemory, Return, DInv, Inv1, TypeOK
    <2>3. deviceMbox' \in [Device -> -1 .. MaxMbox - 1]
      BY <1>3, <1>6, <2>1, <2>2 DEF BootCreate
    <2>4. Count BY <1>4, <1>6 DEF BootCreate
    <2> QED BY <1>3, <1>6, <2>1, <2>3, <2>4 DEF BootCreate, Others
  <1>7. CASE BootFinish
    <2>1. Count BY <1>4, <1>7 DEF BootFinish
    <2> QED BY <1>3, <1>7, <2>1 DEF BootFinish, Others
  <1>8. ASSUME NEW p \in Users, NEW h \in Device, WaitDevice(p, h) PROVE Others /\ Count
    <2>1. p \in Proc /\ waiting[p] = NoDevice BY <1>8 DEF WaitDevice, Outside, Users
    <2>2. Count BY <1>8, <2>1, CountIn DEF WaitDevice, Count
    <2> QED BY <1>3, <1>8, <2>1, <2>2 DEF WaitDevice, Others, Device
  <1>9. ASSUME NEW p \in Users, WaitUnknownDevice(p) PROVE Others /\ Count
    <2>1. Count BY <1>4, <1>9 DEF WaitUnknownDevice
    <2> QED BY <1>3, <1>9, <2>1 DEF WaitUnknownDevice, Others
  <1>10. ASSUME NEW p \in Users, WaitDeviceReturn(p) PROVE Others /\ Count
    <2>1. p \in Proc /\ waiting[p] # NoDevice BY <1>10 DEF WaitDeviceReturn, Users
    <2>2. Count BY <1>10, <2>1, CountOut DEF WaitDeviceReturn, Count
    <2> QED BY <1>3, <1>10, <2>1, <2>2 DEF WaitDeviceReturn, Others, NoDevice
  <1>11. ASSUME NEW p \in Users, MailboxStep(p) PROVE Others /\ Count
    BY <1>5, <1>11 DEF MailboxStep
  <1>12. UNCHANGED allvars => UNCHANGED dvars BY DEF allvars
  <1> QED BY <1>5, <1>6, <1>7, <1>8, <1>9, <1>10, <1>11, <1>12 DEF DNext, UserStep

LEMMA DInitDInv == DInit => DInv
  <1> SUFFICES ASSUME DInit PROVE DInv OBVIOUS
  <1> USE TableAssumption
  <1>1. Inv1 BY DInitInv1
  <1>2. InsideWait = {} BY DEF DInit, InsideWait
  <1>3. waitingOnDevice = Cardinality(InsideWait) BY <1>2, FS_EmptySet DEF DInit
  <1>4. waitingOnDevice \in 0 .. Cardinality(Proc) BY <1>3, CountBound
  <1>5. deviceMbox \in [Device -> -1 .. MaxMbox - 1] BY DEF DInit, Device
  <1>6. waiting \in [Proc -> -1 .. MaxDevices - 1] BY DEF DInit, NoDevice
  <1>7. DTypeOK BY <1>1, <1>4, <1>5, <1>6 DEF DInit, DTypeOK, Inv1
  <1> QED BY <1>1, <1>3, <1>7 DEF DInv

LEMMA DInvHolds == DSpec => []DInv
  <1>1. DInit => DInv BY DInitDInv
  <1>2. DInv /\ [DNext]_allvars => DInv' BY DStepDInv
  <1> QED BY <1>1, <1>2, PTL DEF DSpec

(* The variables of the devices keep to their types: the counter that      *)
(* check_io_messaging reads never leaves 0 .. number of processes.         *)
THEOREM DevicesTypeCorrect == DSpec => []DTypeOK
  <1>1. DInv => DTypeOK BY DEF DInv
  <1> QED BY <1>1, DInvHolds, PTL

(* check_io_messaging tells the truth: waitingOnDevice counts the          *)
(* processes inside wait_device, through every way a receive can end.      *)
THEOREM CheckIoTellsTruth == DSpec => []CheckIoTruthful
  <1>1. DInv => CheckIoTruthful
    <2> SUFFICES ASSUME DInv PROVE CheckIoTruthful OBVIOUS
    <2>1. IsFiniteSet(InsideWait) BY ProcessesAssumption, FS_Subset DEF InsideWait
    <2>2. Cardinality(InsideWait) = 0 <=> InsideWait = {} BY <2>1, FS_EmptySet
    <2>3. InsideWait # {} <=> \E p \in Proc : waiting[p] # NoDevice BY DEF InsideWait
    <2> QED BY <2>2, <2>3 DEF CheckIoTruthful, CheckIo, DInv
  <1> QED BY <1>1, DInvHolds, PTL

-----------------------------------------------------------------------------
(* The mailboxes of the devices *)

(* Calls never change how many slots a mailbox has that has been handed    *)
(* out, and never hand out an id a second time.                            *)
SameLengths ==
    /\ nextMailboxId' >= nextMailboxId
    /\ \A id \in Id : id < nextMailboxId =>
           Len(mailboxes'[id].slots) = Len(mailboxes[id].slots)

LEMMA UnchangedLengths ==
    ASSUME TypeOK, UNCHANGED nextMailboxId,
           \A id \in Id : mailboxes'[id].slots = mailboxes[id].slots
    PROVE  SameLengths
  BY DEF SameLengths, TypeOK

LEMMA FailLengths ==
    ASSUME TypeOK, NEW p \in Proc, NEW code \in Int, Fail(p, code)
    PROVE  SameLengths
  BY UnchangedLengths DEF Fail

(* One mailbox changes; its list of slots stays as long as it was. *)
LEMMA OneLength ==
    ASSUME TypeOK, UNCHANGED nextMailboxId, NEW id \in Id, NEW b,
           mailboxes' = [mailboxes EXCEPT ![id] = b],
           Len(b.slots) = Len(mailboxes[id].slots)
    PROVE  SameLengths
  BY TableAssumption DEF SameLengths, TypeOK

LEMMA SendTurnLengths ==
    ASSUME NEW p \in Proc, NEW id \in Int, NEW m \in Msg, NEW wait \in BOOLEAN,
           TypeOK, SendTurn(p, id, m, wait)
    PROVE  SameLengths
  <1>1. CASE SendInvalid(p, id, m) BY <1>1, FailLengths DEF SendInvalid
  <1>2. CASE SendDeposit(p, id, m)
    <2> DEFINE s == mailboxes[id].slots
               k == Min(EmptySlots(id))
               t == [s EXCEPT ![k] = Stored(m)]
               b == [mailboxes[id] EXCEPT !.slots = t]
    <2>1. id \in Id BY <1>2 DEF SendDeposit, SendValid
    <2>2. mailboxes[id] \in Mailbox /\ s \in Seq(Slot) BY <2>1 DEF TypeOK, Mailbox
    <2>3. mailboxes' = [mailboxes EXCEPT ![id] = b] BY <1>2 DEF SendDeposit
    <2>4. b.slots = t BY <2>2 DEF Mailbox
    <2>5. DOMAIN t = DOMAIN s BY DEF t
    <2>6. Len(t) = Len(s) BY <2>2, <2>5
    <2>7. UNCHANGED nextMailboxId BY <1>2 DEF SendDeposit
    <2> HIDE DEF b, t, k
    <2> QED BY <2>1, <2>3, <2>4, <2>6, <2>7, OneLength
  <1>3. CASE SendWouldBlock(p, id, m) BY <1>3, FailLengths DEF SendWouldBlock
  <1>4. CASE SendNoMemory(p, id, m) BY <1>4, FailLengths DEF SendNoMemory
  <1>5. CASE SendBlock(p, id, m)
    <2> DEFINE b == [mailboxes[id] EXCEPT !.blockedSendList = Append(@, p)]
    <2>1. id \in Id BY <1>5 DEF SendBlock, NoRoom, SendValid
    <2>2. mailboxes' = [mailboxes EXCEPT ![id] = b] BY <1>5 DEF SendBlock
    <2>3. b.slots = mailboxes[id].slots BY <2>1 DEF TypeOK, Mailbox
    <2>4. UNCHANGED nextMailboxId BY <1>5 DEF SendBlock, Block
    <2> HIDE DEF b
    <2> QED BY <2>1, <2>2, <2>3, <2>4, OneLength
  <1> QED BY <1>1, <1>2, <1>3, <1>4, <1>5 DEF SendTurn

LEMMA ReceiveTurnLengths ==
    ASSUME NEW p \in Proc, NEW id \in Int, NEW size \in Int, NEW wait \in BOOLEAN,
           TypeOK, ReceiveTurn(p, id, size, wait)
    PROVE  SameLengths
  <1>1. CASE ReceiveInvalid(p, id, size) BY <1>1, FailLengths DEF ReceiveInvalid
  <1>2. CASE ReceiveDeliver(p, id, size)
    <2> DEFINE s == mailboxes[id].slots
               f == Min(FullSlots(id))
               t == Shifted(s, f, RunEnd(id, f))
               b == WithoutFirst(id)
    <2>1. id \in Id BY <1>2 DEF ReceiveDeliver, ReceiveValid
    <2>2. mailboxes[id] \in Mailbox /\ s \in Seq(Slot) BY <2>1 DEF TypeOK, Mailbox
    <2>3. mailboxes' = [mailboxes EXCEPT ![id] = b] BY <1>2 DEF ReceiveDeliver
    <2>4. b.slots = t BY <2>2 DEF Mailbox, WithoutFirst
    <2>5. DOMAIN t = DOMAIN s /\ t = [i \in DOMAIN s |-> t[i]] BY DEF Shifted
    <2>6. Len(t) = Len(s)
      <3>1. Len(s) \in Nat /\ DOMAIN s = 1 .. Len(s) BY <2>2
      <3> HIDE DEF t, s
      <3> QED BY <2>5, <3>1
    <2>7. UNCHANGED nextMailboxId BY <1>2 DEF ReceiveDeliver
    <2> HIDE DEF b, t, f
    <2> QED BY <2>1, <2>3, <2>4, <2>6, <2>7, OneLength
  <1>3. CASE ReceiveWouldBlock(p, id, size) BY <1>3, FailLengths DEF ReceiveWouldBlock
  <1>4. CASE ReceiveNoMemory(p, id, size) BY <1>4, FailLengths DEF ReceiveNoMemory
  <1>5. CASE ReceiveBlock(p, id, size)
    <2> DEFINE b == [mailboxes[id] EXCEPT !.blockedReceiveList = Append(@, p)]
    <2>1. id \in Id BY <1>5 DEF ReceiveBlock, NothingThere, ReceiveValid
    <2>2. mailboxes' = [mailboxes EXCEPT ![id] = b] BY <1>5 DEF ReceiveBlock
    <2>3. b.slots = mailboxes[id].slots BY <2>1 DEF TypeOK, Mailbox
    <2>4. UNCHANGED nextMailboxId BY <1>5 DEF ReceiveBlock, Block
    <2> HIDE DEF b
    <2> QED BY <2>1, <2>2, <2>3, <2>4, OneLength
  <1> QED BY <1>1, <1>2, <1>3, <1>4, <1>5 DEF ReceiveTurn

(* A mailbox_create makes the next entry and leaves the others alone. *)
LEMMA CreateLengths ==
    ASSUME NEW p \in Proc, TypeOK, Create(p)
    PROVE  SameLengths
  <1> USE TableAssumption
  <1>1. CASE CreateTableFull(p) BY <1>1, FailLengths DEF CreateTableFull
  <1>2. ASSUME NEW slots \in SlotCounts, NEW slotSize \in SlotSizes,
               CreateMailbox(p, slots, slotSize)
        PROVE  SameLengths
    <2>1. /\ mailboxes' = [mailboxes EXCEPT ![nextMailboxId] =
                 Initialised(@, slots, slotSize, Allocated(slots))]
          /\ nextMailboxId' = nextMailboxId + 1
      BY <1>2 DEF CreateMailbox
    <2> QED BY <2>1 DEF SameLengths, TypeOK, Id
  <1>3. ASSUME NEW slots \in SlotCounts, NEW slotSize \in SlotSizes,
               CreateNoMemory(p, slots, slotSize)
        PROVE  SameLengths
    <2>1. PICK n \in 0 .. Allocated(slots) - 1 :
              mailboxes' = [mailboxes EXCEPT ![nextMailboxId] =
                                Initialised(@, slots, slotSize, n)]
      BY <1>3 DEF CreateNoMemory
    <2>2. UNCHANGED nextMailboxId BY <1>3 DEF CreateNoMemory
    <2> QED BY <2>1, <2>2 DEF SameLengths, TypeOK, Id
  <1> QED BY <1>1, <1>2, <1>3 DEF Create

(* mailbox_free changes a status and takes nodes from the lists. *)
LEMMA FreeLengths ==
    ASSUME NEW p \in Proc, TypeOK, CallOK,
           Free(p) \/ FreeSender(p) \/ FreeReceiver(p) \/ FreeReturn(p)
    PROVE  SameLengths
  <1>1. ASSUME NEW id \in MboxArg, FreeInvalid(p, id) PROVE SameLengths
    BY <1>1, FailLengths DEF FreeInvalid
  <1>2. ASSUME NEW id \in MboxArg, FreeRelease(p, id) PROVE SameLengths
    <2> DEFINE b == [mailboxes[id] EXCEPT !.status = "released"]
    <2>1. id \in Id /\ mailboxes' = [mailboxes EXCEPT ![id] = b]
      BY <1>2 DEF FreeRelease
    <2>2. b.slots = mailboxes[id].slots BY <2>1 DEF TypeOK, Mailbox
    <2>3. UNCHANGED nextMailboxId BY <1>2 DEF FreeRelease
    <2> HIDE DEF b
    <2> QED BY <2>1, <2>2, <2>3, OneLength
  <1>3. CASE FreeSender(p)
    <2> DEFINE id == call[p].mb
               b == [mailboxes[id] EXCEPT !.blockedSendList = Rest(@)]
    <2>1. id \in Id BY <1>3 DEF FreeSender, Running, CallOK
    <2>2. mailboxes' = [mailboxes EXCEPT ![id] = b] BY <1>3 DEF FreeSender
    <2>3. b.slots = mailboxes[id].slots BY <2>1 DEF TypeOK, Mailbox
    <2>4. UNCHANGED nextMailboxId BY <1>3 DEF FreeSender
    <2> HIDE DEF b, id
    <2> QED BY <2>1, <2>2, <2>3, <2>4, OneLength
  <1>4. CASE FreeReceiver(p)
    <2> DEFINE id == call[p].mb
               b == [mailboxes[id] EXCEPT !.blockedReceiveList = Rest(@)]
    <2>1. id \in Id BY <1>4 DEF FreeReceiver, SendersFreed, Running, CallOK
    <2>2. mailboxes' = [mailboxes EXCEPT ![id] = b] BY <1>4 DEF FreeReceiver
    <2>3. b.slots = mailboxes[id].slots BY <2>1 DEF TypeOK, Mailbox
    <2>4. UNCHANGED nextMailboxId BY <1>4 DEF FreeReceiver
    <2> HIDE DEF b, id
    <2> QED BY <2>1, <2>2, <2>3, <2>4, OneLength
  <1>5. CASE FreeReturn(p) BY <1>5, UnchangedLengths DEF FreeReturn
  <1> QED BY <1>1, <1>2, <1>3, <1>4, <1>5 DEF Free

LEMMA NextLengths == Inv1 /\ Next => SameLengths
  <1> SUFFICES ASSUME Inv1, Next PROVE SameLengths OBVIOUS
  <1> USE TableAssumption
  <1>0. TypeOK /\ CallOK BY DEF Inv1
  <1>1. PICK p \in Proc : Start(p) \/ Continue(p) \/ Signal(p) BY DEF Next
  <1>2. CASE Create(p) BY <1>0, <1>2, CreateLengths
  <1>3. CASE Send(p)
    <2>1. PICK id \in MboxArg, m \in Msg, wait \in BOOLEAN : SendTurn(p, id, m, wait)
      BY <1>3 DEF Send
    <2>2. id \in Int BY DEF MboxArg
    <2> QED BY <1>0, <2>1, <2>2, SendTurnLengths
  <1>4. CASE Receive(p)
    <2>1. PICK id \in MboxArg, size \in BufSizes, wait \in BOOLEAN :
              ReceiveTurn(p, id, size, wait)
      BY <1>4 DEF Receive
    <2>2. id \in Int /\ size \in Int BY ArgumentAssumption DEF MboxArg
    <2> QED BY <1>0, <2>1, <2>2, ReceiveTurnLengths
  <1>5. CASE Free(p) \/ FreeSender(p) \/ FreeReceiver(p) \/ FreeReturn(p)
    BY <1>0, <1>5, FreeLengths
  <1>6. CASE SendInterrupted(p) \/ ReceiveInterrupted(p)
    <2>1. Fail(p, -5) BY <1>6 DEF SendInterrupted, ReceiveInterrupted
    <2> QED BY <1>0, <2>1, FailLengths
  <1>7. CASE SendRetry(p)
    <2>1. call[p].mb \in Int /\ call[p].msg \in Msg
      BY <1>0, <1>7 DEF SendRetry, Running, TypeOK, Call, CallOK
    <2>2. SendTurn(p, call[p].mb, call[p].msg, TRUE) BY <1>7 DEF SendRetry
    <2> QED BY <1>0, <2>1, <2>2, SendTurnLengths
  <1>8. CASE ReceiveRetry(p)
    <2>1. call[p].mb \in Int /\ call[p].size \in Int BY <1>0 DEF TypeOK, Call
    <2>2. ReceiveTurn(p, call[p].mb, call[p].size, TRUE) BY <1>8 DEF ReceiveRetry
    <2> QED BY <1>0, <2>1, <2>2, ReceiveTurnLengths
  <1>9. CASE Signal(p) BY <1>0, <1>9, UnchangedLengths DEF Signal
  <1> QED BY <1>1, <1>2, <1>3, <1>4, <1>5, <1>6, <1>7, <1>8, <1>9 DEF Start, Continue

(* During the boot what DeviceMailboxesOwn says of all devices holds of    *)
(* those that have been given their mailbox; afterwards nextMailboxId has  *)
(* passed all of them.                                                     *)
Made(h) == phase = "booting" => h < nextDevice

Own(h) ==
    deviceMbox[h] # -1 =>
        /\ deviceMbox[h] \in Id
        /\ deviceMbox[h] < nextMailboxId
        /\ Len(mailboxes[deviceMbox[h]].slots) = Allocated(SlotsOf(h))
        /\ \A g \in Device : (g # h /\ Made(g)) => deviceMbox[g] # deviceMbox[h]

BootInv ==
    /\ phase = "booting" => nextMailboxId <= nextDevice
    /\ \A h \in Device : Made(h) => Own(h)

(* A step after the boot. *)
LEMMA UserBootInv ==
    ASSUME DInv, BootInv, TypeOK', SameLengths, phase = "up",
           phase' # "booting", UNCHANGED deviceMbox
    PROVE  BootInv'
  <1>1. /\ nextMailboxId \in Int /\ nextMailboxId' \in Int
        /\ nextMailboxId' >= nextMailboxId
    BY DEF SameLengths, DInv, Inv1, TypeOK
  <1>2. ASSUME NEW h \in Device PROVE Own(h)'
    <2>1. Own(h) BY DEF BootInv, Made
    <2>2. \A g \in Device : Made(g) BY DEF Made
    <2>3. CASE deviceMbox[h] = -1 BY <2>3 DEF Own
    <2>4. CASE deviceMbox[h] # -1
      <3>1. deviceMbox[h] \in Id /\ deviceMbox[h] < nextMailboxId
        BY <2>1, <2>4 DEF Own
      <3>2. Len(mailboxes'[deviceMbox[h]].slots) = Len(mailboxes[deviceMbox[h]].slots)
        BY <3>1 DEF SameLengths
      <3>3. deviceMbox[h] < nextMailboxId'
        BY <1>1, <3>1, TableAssumption DEF Id
      <3> QED BY <2>1, <2>2, <2>4, <3>1, <3>2, <3>3 DEF Own, Id
    <2> QED BY <2>3, <2>4
  <1> QED BY <1>2 DEF BootInv

LEMMA BootCreateInv == DInv /\ BootInv /\ BootCreate => BootInv'
  <1> SUFFICES ASSUME DInv, BootInv, BootCreate PROVE BootInv' OBVIOUS
  <1> USE TableAssumption, MainAssumption
  <1> DEFINE slots == SlotsOf(nextDevice)
  <1>1. /\ TypeOK /\ DTypeOK
        /\ phase = "booting" /\ UNCHANGED phase
        /\ nextDevice \in Device /\ nextDevice' = nextDevice + 1
        /\ deviceMbox' = [deviceMbox EXCEPT ![nextDevice] = result'[Main].code]
    BY DEF BootCreate, DInv, Inv1, DTypeOK, Device
  <1>2. nextMailboxId \in 0 .. MaxMbox /\ nextMailboxId <= nextDevice
    BY <1>1 DEF TypeOK, BootInv
  <1>3. Allocated(slots) \in Nat BY <1>1, DeviceArgs DEF Allocated
  <1> HIDE DEF slots
  <1>4. CASE CreateMailbox(Main, slots, IntSize)
    <2>1. nextMailboxId \in Id /\ nextMailboxId' = nextMailboxId + 1
      BY <1>2, <1>4 DEF CreateMailbox, Id
    <2>2. result'[Main].code = nextMailboxId
      BY <1>1, <1>4 DEF CreateMailbox, Return, TypeOK
    <2>3. mailboxes' = [mailboxes EXCEPT ![nextMailboxId] =
              Initialised(@, slots, IntSize, Allocated(slots))]
      BY <1>4 DEF CreateMailbox
    <2>4. Len(mailboxes'[nextMailboxId].slots) = Allocated(slots)
      BY <1>1, <1>3, <2>1, <2>3 DEF Initialised, TypeOK, Mailbox
    <2>5. \A id \in Id : id # nextMailboxId => mailboxes'[id] = mailboxes[id]
      BY <1>1, <2>3 DEF TypeOK
    <2>6. deviceMbox'[nextDevice] = nextMailboxId
      BY <1>1, <2>2 DEF DTypeOK
    <2>7. \A h \in Device : h # nextDevice => deviceMbox'[h] = deviceMbox[h]
      BY <1>1 DEF DTypeOK
    <2>8. ASSUME NEW h \in Device, Made(h)' PROVE Own(h)'
      <3>1. CASE h = nextDevice
        <4>1. \A g \in Device : (g # h /\ Made(g)') =>
                  deviceMbox[g] # nextMailboxId
          BY <1>1, <1>2, <3>1 DEF Made, Own, BootInv, Device
        <4> QED BY <1>2, <2>1, <2>4, <2>6, <2>7, <3>1, <4>1 DEF Own, Id, slots
      <3>2. CASE h # nextDevice
        <4>1. Made(h) BY <1>1, <2>8, <3>2 DEF Made, Device
        <4>2. Own(h) BY <4>1 DEF BootInv
        <4>3. \A g \in Device : (g # h /\ Made(g)' /\ g # nextDevice) => Made(g)
          BY <1>1 DEF Made, Device
        <4> QED BY <1>2, <2>1, <2>5, <2>6, <2>7, <3>2, <4>2, <4>3 DEF Own, Id
      <3> QED BY <3>1, <3>2
    <2> QED BY <1>1, <1>2, <2>1, <2>8 DEF BootInv, Device
  <1>5. CASE CreateNoMemory(Main, slots, IntSize)
    <2>1. UNCHANGED nextMailboxId /\ nextMailboxId \in Id
      BY <1>2, <1>5 DEF CreateNoMemory, Id
    <2>2. result'[Main].code = -1 BY <1>1, <1>5 DEF CreateNoMemory, Return, TypeOK
    <2>3. \A id \in Id : id # nextMailboxId => mailboxes'[id] = mailboxes[id]
      BY <1>1, <1>5 DEF CreateNoMemory, TypeOK
    <2>4. deviceMbox'[nextDevice] = -1 BY <1>1, <2>2 DEF DTypeOK
    <2>5. \A h \in Device : h # nextDevice => deviceMbox'[h] = deviceMbox[h]
      BY <1>1 DEF DTypeOK
    <2>6. ASSUME NEW h \in Device, Made(h)', h # nextDevice PROVE Own(h)'
      <3>1. Own(h) BY <1>1, <2>6 DEF Made, BootInv, Device
      <3>2. \A g \in Device : (g # h /\ Made(g)' /\ g # nextDevice) => Made(g)
        BY <1>1 DEF Made, Device
      <3> QED BY <1>2, <2>1, <2>3, <2>4, <2>5, <2>6, <3>1, <3>2 DEF Own, Id
    <2>7. ASSUME NEW h \in Device, h = nextDevice PROVE Own(h)'
      BY <1>1, <2>4, <2>7 DEF Own
    <2> QED BY <1>1, <1>2, <2>1, <2>6, <2>7 DEF BootInv, Device
  <1> QED BY <1>4, <1>5 DEF BootCreate, slots

LEMMA DStepBootInv == DInv /\ BootInv /\ [DNext]_allvars => BootInv'
  <1> SUFFICES ASSUME DInv, BootInv, [DNext]_allvars PROVE BootInv' OBVIOUS
  <1> USE TableAssumption, MainAssumption
  <1>0. Inv1 /\ TypeOK /\ DTypeOK /\ TypeOK' BY DStepInv1 DEF DInv, Inv1
  <1>1. CASE UNCHANGED allvars
    BY <1>1 DEF allvars, vars, dvars, BootInv, Made, Own, Id, Device
  <1>2. CASE BootCreate BY <1>2, BootCreateInv
  <1>3. CASE BootFinish
    <2>1. /\ phase = "booting" /\ phase' = "up" /\ nextDevice = MaxDevices
          /\ nextMailboxId' = MaxDevices
          /\ UNCHANGED <<mailboxes, deviceMbox>>
      BY <1>3 DEF BootFinish
    <2>2. \A h \in Device : Made(h) BY <1>0, <2>1 DEF Made, Device, DTypeOK
    <2>3. \A h \in Device : Own(h) /\ nextMailboxId <= MaxDevices
      BY <2>1, <2>2 DEF BootInv
    <2>4. nextMailboxId \in Int BY <1>0 DEF TypeOK
    <2> QED BY <2>1, <2>2, <2>3, <2>4 DEF BootInv, Own, Id, Made, Device
  <1>4. ASSUME NEW p \in Users, phase = "up", MailboxStep(p) PROVE BootInv'
    <2>1. p \in Proc BY DEF Users
    <2>2. Next /\ UNCHANGED dvars BY <1>4, <2>1, MailboxStepNext
    <2>3. SameLengths BY <1>0, <2>2, NextLengths
    <2>4. UNCHANGED <<phase, deviceMbox>> BY <2>2 DEF dvars
    <2> QED BY <1>0, <1>4, <2>3, <2>4, UserBootInv
  <1>5. ASSUME NEW p \in Users, phase = "up", NEW h \in Device, WaitDevice(p, h)
        PROVE  BootInv'
    <2>1. p \in Proc BY DEF Users
    <2>2. ReceiveTurn(p, deviceMbox[h], IntSize, TRUE) /\ UNCHANGED <<phase, deviceMbox>>
      BY <1>5 DEF WaitDevice
    <2>3. SameLengths BY <1>0, <2>1, <2>2, DeviceArgs, ReceiveTurnLengths
    <2> QED BY <1>0, <1>5, <2>2, <2>3, UserBootInv
  <1>6. ASSUME NEW p \in Users, phase = "up", WaitUnknownDevice(p) PROVE BootInv'
    <2>1. UNCHANGED <<mailboxes, nextMailboxId, deviceMbox>> /\ phase' = "stopped"
      BY <1>6 DEF WaitUnknownDevice, vars
    <2>2. SameLengths BY <1>0, <2>1, UnchangedLengths
    <2> QED BY <1>0, <1>6, <2>1, <2>2, UserBootInv
  <1>7. ASSUME NEW p \in Users, phase = "up", WaitDeviceReturn(p) PROVE BootInv'
    <2>1. UNCHANGED <<mailboxes, nextMailboxId, deviceMbox, phase>>
      BY <1>7 DEF WaitDeviceReturn
    <2>2. SameLengths BY <1>0, <2>1, UnchangedLengths
    <2> QED BY <1>0, <1>7, <2>1, <2>2, UserBootInv
  <1> QED BY <1>1, <1>2, <1>3, <1>4, <1>5, <1>6, <1>7 DEF DNext, UserStep

(* No two devices share a mailbox, each has its slots, and no process is   *)
(* handed a device's mailbox, whichever creates of the boot failed and     *)
(* whatever the processes do afterwards.                                   *)
THEOREM DevicesKeepMailboxes == DSpec => []DeviceMailboxesOwn
  <1>1. DInit => BootInv
    BY TableAssumption DEF DInit, BootInv, Made, Device
  <1>2. DInv /\ BootInv /\ [DNext]_allvars => BootInv' BY DStepBootInv
  <1>3. BootInv => DeviceMailboxesOwn
    BY DEF BootInv, Made, Own, DeviceMailboxesOwn
  <1> QED BY <1>1, <1>2, <1>3, DInvHolds, PTL DEF DSpec

-----------------------------------------------------------------------------
(* The boot *)

(* While no create of the boot has failed, the devices made so far have    *)
(* the first mailboxes of the table, in order, and the rest is untouched.  *)
BootSoFar ==
    (phase = "booting" /\ \A h \in Device : h < nextDevice => deviceMbox[h] # -1) =>
        /\ nextMailboxId = nextDevice
        /\ \A id \in Id : mailboxes[id] = IF id < nextDevice THEN DeviceMailbox(id)
                                                             ELSE EmptyMailbox
        /\ \A h \in Device : h < nextDevice => deviceMbox[h] = h

LEMMA BootCreateSoFar == DInv /\ BootSoFar /\ BootCreate => BootSoFar'
  <1> SUFFICES ASSUME DInv, BootSoFar, BootCreate,
                      \A h \in Device : h < nextDevice' => deviceMbox'[h] # -1
               PROVE  /\ nextMailboxId' = nextDevice'
                      /\ \A id \in Id : mailboxes'[id] =
                             IF id < nextDevice' THEN DeviceMailbox(id) ELSE EmptyMailbox
                      /\ \A h \in Device : h < nextDevice' => deviceMbox'[h] = h
    BY DEF BootSoFar, Id, Device, DeviceMailbox, EmptyMailbox
  <1> USE TableAssumption, MainAssumption
  <1> DEFINE d == nextDevice
  <1>1. /\ TypeOK /\ DTypeOK
        /\ phase = "booting" /\ d \in Device /\ d \in Id /\ nextDevice' = d + 1
        /\ deviceMbox' = [deviceMbox EXCEPT ![d] = result'[Main].code]
    BY DEF BootCreate, DInv, Inv1, DTypeOK, Device, Id
  <1>2. deviceMbox'[d] = result'[Main].code BY <1>1 DEF DTypeOK
  <1>3. \A h \in Device : h < d => h < nextDevice' /\ deviceMbox'[h] = deviceMbox[h]
    BY <1>1 DEF DTypeOK, Device
  <1>4. /\ nextMailboxId = d
        /\ \A id \in Id : mailboxes[id] = IF id < d THEN DeviceMailbox(id)
                                                    ELSE EmptyMailbox
        /\ \A h \in Device : h < d => deviceMbox[h] = h
    BY <1>1, <1>3 DEF BootSoFar
  <1>5. ~CreateNoMemory(Main, SlotsOf(d), IntSize)
    <2> SUFFICES ASSUME CreateNoMemory(Main, SlotsOf(d), IntSize) PROVE FALSE OBVIOUS
    <2>1. result'[Main].code = -1 BY <1>1 DEF CreateNoMemory, Return, TypeOK
    <2> QED BY <1>1, <1>2, <2>1 DEF Device
  <1>6. CreateMailbox(Main, SlotsOf(d), IntSize) BY <1>5 DEF BootCreate
  <1>7. result'[Main].code = d /\ nextMailboxId' = d + 1
    BY <1>1, <1>4, <1>6 DEF CreateMailbox, Return, TypeOK
  <1>8. mailboxes' = [mailboxes EXCEPT ![d] = DeviceMailbox(d)]
    <2>1. mailboxes[d] = EmptyMailbox BY <1>1, <1>4 DEF Device
    <2>2. mailboxes' = [mailboxes EXCEPT ![d] =
              Initialised(mailboxes[d], SlotsOf(d), IntSize, Allocated(SlotsOf(d)))]
      BY <1>4, <1>6 DEF CreateMailbox
    <2> QED BY <2>1, <2>2 DEF DeviceMailbox, SlotsOf, Clock
  <1>9. \A id \in Id : mailboxes'[id] = IF id = d THEN DeviceMailbox(d) ELSE mailboxes[id]
    BY <1>1, <1>8 DEF TypeOK
  <1>10. \A id \in Id : mailboxes'[id] =
             IF id < nextDevice' THEN DeviceMailbox(id) ELSE EmptyMailbox
    BY <1>1, <1>4, <1>9 DEF Id, Device
  <1>11. \A h \in Device : h < nextDevice' => deviceMbox'[h] = h
    BY <1>1, <1>2, <1>3, <1>4, <1>7 DEF Device
  <1> QED BY <1>1, <1>7, <1>10, <1>11

LEMMA DStepSoFar == DInv /\ BootSoFar /\ [DNext]_allvars => BootSoFar'
  <1> SUFFICES ASSUME DInv, BootSoFar, [DNext]_allvars PROVE BootSoFar' OBVIOUS
  <1>1. CASE UNCHANGED allvars
    BY <1>1 DEF allvars, vars, dvars, BootSoFar, Id, Device, DeviceMailbox, EmptyMailbox
  <1>2. CASE BootCreate BY <1>2, BootCreateSoFar
  <1>3. CASE BootFinish BY <1>3 DEF BootFinish, BootSoFar
  <1>4. ASSUME NEW p \in Users, UserStep(p) PROVE BootSoFar'
    <2>1. phase = "up" BY <1>4 DEF UserStep
    <2>2. phase' # "booting"
      BY <1>4, <2>1 DEF UserStep, MailboxStep, WaitDevice, WaitUnknownDevice,
                        WaitDeviceReturn, dvars
    <2> QED BY <2>2 DEF BootSoFar
  <1> QED BY <1>1, <1>2, <1>3, <1>4 DEF DNext

(* A boot in which no mailbox_create fails hands the test a state in which *)
(* Messaging starts, device h with mailbox h.                              *)
THEOREM BootHandsOverInit == DSpec => BootEstablishesInit
  <1> DEFINE Handed ==
          (phase = "booting" /\ phase' = "up" /\ \A h \in Device : deviceMbox[h] # -1) =>
              /\ mailboxes' = [id \in Id |-> IF id < MaxDevices THEN DeviceMailbox(id)
                                                                ELSE EmptyMailbox]
              /\ nextMailboxId' = MaxDevices
              /\ \A h \in Device : deviceMbox'[h] = h
  <1>1. DInit => BootSoFar
    BY TableAssumption DEF DInit, BootSoFar, Id, Device
  <1>2. DInv /\ BootSoFar /\ [DNext]_allvars => BootSoFar' BY DStepSoFar
  <1>3. DInv /\ BootSoFar /\ [DNext]_allvars => [Handed]_allvars
    <2> SUFFICES ASSUME DInv, BootSoFar, DNext, phase = "booting", phase' = "up",
                        \A h \in Device : deviceMbox[h] # -1
                 PROVE  /\ mailboxes' = [id \in Id |-> IF id < MaxDevices
                                             THEN DeviceMailbox(id) ELSE EmptyMailbox]
                        /\ nextMailboxId' = MaxDevices
                        /\ \A h \in Device : deviceMbox'[h] = h
      OBVIOUS
    <2>1. BootFinish BY DEF DNext, UserStep, BootCreate
    <2>2. /\ nextDevice = MaxDevices /\ nextMailboxId' = MaxDevices
          /\ UNCHANGED <<mailboxes, deviceMbox>>
      BY <2>1 DEF BootFinish
    <2>3. \A h \in Device : h < nextDevice BY <2>2, TableAssumption DEF Device
    <2>4. mailboxes \in [Id -> Mailbox] BY DEF DInv, Inv1, TypeOK
    <2> QED BY <2>2, <2>3, <2>4 DEF BootSoFar
  <1> QED BY <1>1, <1>2, <1>3, DInvHolds, PTL DEF DSpec, BootEstablishesInit

-----------------------------------------------------------------------------
(* The mailboxes of Messaging under the devices *)

(* nobody is inside a call before the boot is over *)
QuietBoot == phase = "booting" => \A p \in Proc : Idle(p)

LEMMA DStepQuiet == DInv /\ QuietBoot /\ [DNext]_allvars => QuietBoot'
  <1> SUFFICES ASSUME DInv, QuietBoot, [DNext]_allvars, phase' = "booting",
                      NEW p \in Proc
               PROVE  Idle(p)'
    BY DEF QuietBoot
  <1> USE MainAssumption
  <1>1. CASE UNCHANGED allvars
    BY <1>1 DEF allvars, vars, dvars, QuietBoot, Idle
  <1>2. CASE BootCreate
    <2>1. \E code : Return(Main, code, NoMsg)
      BY <1>2 DEF BootCreate, CreateMailbox, CreateNoMemory
    <2>2. phase = "booting" BY <1>2 DEF BootCreate
    <2> QED BY <2>1, <2>2 DEF Return, QuietBoot, Idle, DInv, Inv1, TypeOK
  <1>3. ASSUME BootFinish PROVE FALSE BY <1>3 DEF BootFinish
  <1>4. ASSUME NEW q \in Users, UserStep(q) PROVE FALSE
    BY <1>4 DEF UserStep, MailboxStep, dvars, WaitDevice, WaitUnknownDevice,
                WaitDeviceReturn
  <1> QED BY <1>1, <1>2, <1>3, <1>4 DEF DNext

-----------------------------------------------------------------------------
(* What a step of Devices is for the mailboxes *)

(* a create of the boot, with an argument that no process may have given *)
Making == \E slots \in Int :
    /\ Idle(Main)
    /\ \/ CreateMailbox(Main, slots, IntSize)
       \/ CreateNoMemory(Main, slots, IntSize)

(* the receive of a process that starts to wait for a device *)
Waiting == \E p \in Proc, id \in Int : Idle(p) /\ ReceiveTurn(p, id, IntSize, TRUE)

(* the end of the boot or of a wait *)
Aside ==
    /\ UNCHANGED <<mailboxes, call, pstate, signal>>
    /\ nextMailboxId' >= nextMailboxId

LEMMA DStepKinds ==
    DInv /\ BootInv /\ QuietBoot /\ [DNext]_allvars =>
        [Next]_vars \/ Making \/ Waiting \/ Aside
  <1> SUFFICES ASSUME DInv, BootInv, QuietBoot, [DNext]_allvars
               PROVE  [Next]_vars \/ Making \/ Waiting \/ Aside
    OBVIOUS
  <1> USE MainAssumption, TableAssumption
  <1>0. TypeOK /\ DTypeOK BY DEF DInv, Inv1
  <1>1. ASSUME UNCHANGED allvars PROVE [Next]_vars BY <1>1 DEF allvars
  <1>2. ASSUME BootCreate PROVE Making
    <2>1. nextDevice \in Device BY <1>0, <1>2 DEF BootCreate, DTypeOK, Device
    <2>2. SlotsOf(nextDevice) \in Int BY <1>0, <2>1, DeviceArgs
    <2>3. Idle(Main) BY <1>2 DEF BootCreate, QuietBoot
    <2> QED BY <1>2, <2>2, <2>3 DEF BootCreate, Making
  <1>3. ASSUME BootFinish PROVE Aside
    <2>1. nextMailboxId \in Int /\ nextMailboxId <= MaxDevices
      BY <1>0, <1>3 DEF BootFinish, BootInv, TypeOK
    <2> QED BY <1>3, <2>1 DEF BootFinish, Aside
  <1>4. ASSUME NEW p \in Users, MailboxStep(p) PROVE [Next]_vars
    <2>1. p \in Proc BY DEF Users
    <2> QED BY <1>4, <2>1, MailboxStepNext
  <1>5. ASSUME NEW p \in Users, NEW h \in Device, WaitDevice(p, h) PROVE Waiting
    <2>1. p \in Proc /\ deviceMbox[h] \in Int BY <1>0, DeviceArgs DEF Users
    <2> QED BY <1>5, <2>1 DEF WaitDevice, Outside, Waiting
  <1>6. ASSUME NEW p \in Users, WaitUnknownDevice(p) PROVE [Next]_vars
    BY <1>6 DEF WaitUnknownDevice
  <1>7. ASSUME NEW p \in Users, WaitDeviceReturn(p) PROVE Aside
    BY <1>0, <1>7 DEF WaitDeviceReturn, Aside, TypeOK
  <1> QED BY <1>1, <1>2, <1>3, <1>4, <1>5, <1>6, <1>7 DEF DNext, UserStep

-----------------------------------------------------------------------------
(* The invariants of Messaging, one by one *)

SystemInv ==
    /\ DInv /\ BootInv /\ QuietBoot
    /\ Waiters /\ ReleasedDrained /\ SlotsFit
    /\ NoFaults => Good

LEMMA SystemReady ==
    ASSUME SystemInv, NEW p \in Proc, Idle(p)
    PROVE  /\ Inv1 /\ Inv2
           /\ pstate[p] = "ready" /\ call[p].op \notin Frees
           /\ call[p].op # "send" /\ ~Running(p, "send")
  <1>1. Inv1 /\ Inv2 BY DEF SystemInv, DInv, Inv2
  <1> QED BY <1>1, IdleReady DEF Idle, NoCall, Frees, Running

LEMMA DStepWaiters == SystemInv /\ [DNext]_allvars => Waiters'
  <1> SUFFICES ASSUME SystemInv, [DNext]_allvars PROVE Waiters' OBVIOUS
  <1>0. Inv2 BY DEF SystemInv, DInv, Inv2
  <1>1. CASE [Next]_vars BY <1>0, <1>1, StepWaiters
  <1>2. CASE Making
    BY <1>0, <1>2, SystemReady, MakeWaiters, MainAssumption, TableAssumption DEF Making
  <1>3. CASE Waiting
    <2>1. PICK p \in Proc, id \in Int : Idle(p) /\ ReceiveTurn(p, id, IntSize, TRUE)
      BY <1>3 DEF Waiting
    <2>2. IntSize \in Int /\ TRUE \in BOOLEAN BY TableAssumption
    <2> QED BY <1>0, <2>1, <2>2, SystemReady, ReceiveTurnWaiters
  <1>4. CASE Aside
    <2>1. \A op \in Side, id \in Id : ListOf(op, id)' = ListOf(op, id)
      BY <1>4 DEF Aside, ListOf
    <2> QED BY <1>0, <1>4, <2>1, QuietStep DEF Aside
  <1> QED BY <1>1, <1>2, <1>3, <1>4, DStepKinds DEF SystemInv

LEMMA DStepDrained == SystemInv /\ [DNext]_allvars => ReleasedDrained'
  <1> SUFFICES ASSUME SystemInv, [DNext]_allvars PROVE ReleasedDrained' OBVIOUS
  <1>0. Inv1 /\ ReleasedDrained BY DEF SystemInv, DInv
  <1>1. CASE [Next]_vars BY <1>0, <1>1, StepDrained
  <1>2. CASE Making
    BY <1>0, <1>2, SystemReady, MakeDrained, MainAssumption, TableAssumption DEF Making
  <1>3. CASE Waiting
    <2>1. PICK p \in Proc, id \in Int : Idle(p) /\ ReceiveTurn(p, id, IntSize, TRUE)
      BY <1>3 DEF Waiting
    <2>2. IntSize \in Int /\ TRUE \in BOOLEAN BY TableAssumption
    <2> QED BY <1>0, <2>1, <2>2, SystemReady, ReceiveTurnDrained
  <1>4. CASE Aside BY <1>0, <1>4, KeepDrained DEF Aside
  <1> QED BY <1>1, <1>2, <1>3, <1>4, DStepKinds DEF SystemInv

LEMMA DStepFit == SystemInv /\ [DNext]_allvars => SlotsFit'
  <1> SUFFICES ASSUME SystemInv, [DNext]_allvars PROVE SlotsFit' OBVIOUS
  <1>0. Inv1 /\ SlotsFit BY DEF SystemInv, DInv
  <1>1. CASE [Next]_vars BY <1>0, <1>1, StepFit
  <1>2. CASE Making
    BY <1>0, <1>2, MakeFit, MainAssumption, TableAssumption DEF Making
  <1>3. CASE Waiting
    <2>1. PICK p \in Proc, id \in Int : Idle(p) /\ ReceiveTurn(p, id, IntSize, TRUE)
      BY <1>3 DEF Waiting
    <2>2. IntSize \in Int /\ TRUE \in BOOLEAN BY TableAssumption
    <2> QED BY <1>0, <2>1, <2>2, ReceiveTurnFit
  <1>4. CASE Aside BY <1>0, <1>4, KeepFit DEF Aside
  <1> QED BY <1>1, <1>2, <1>3, <1>4, DStepKinds DEF SystemInv

LEMMA DStepGood == SystemInv /\ NoFaults /\ [DNext]_allvars => Good'
  <1> SUFFICES ASSUME SystemInv, NoFaults, [DNext]_allvars PROVE Good' OBVIOUS
  <1>0. Inv1 /\ Inv2 /\ Good BY DEF SystemInv, DInv, Inv2
  <1>1. CASE [Next]_vars BY <1>0, <1>1, StepGood
  <1>2. CASE Making
    <2>1. PICK slots \in Int :
              /\ Idle(Main)
              /\ \/ CreateMailbox(Main, slots, IntSize)
                 \/ CreateNoMemory(Main, slots, IntSize)
      BY <1>2 DEF Making
    <2>2. CreateMailbox(Main, slots, IntSize)
      BY <2>1 DEF CreateNoMemory, NoFaults
    <2>3. ~Running(Main, "send") BY <2>1, MainAssumption, SystemReady
    <2> QED BY <1>0, <2>2, <2>3, MakeGood, MainAssumption, TableAssumption DEF NoFaults
  <1>3. CASE Waiting
    <2>1. PICK p \in Proc, id \in Int : Idle(p) /\ ReceiveTurn(p, id, IntSize, TRUE)
      BY <1>3 DEF Waiting
    <2>2. IntSize \in Int /\ TRUE \in BOOLEAN BY TableAssumption
    <2> QED BY <1>0, <2>1, <2>2, SystemReady, ReceiveTurnGood
  <1>4. CASE Aside
    <2>1. /\ UNCHANGED <<mailboxes, call, pstate, signal>>
          /\ nextMailboxId \in Int /\ nextMailboxId' >= nextMailboxId
      BY <1>0, <1>4 DEF Aside, Inv1, TypeOK
    <2>2. nextMailboxId' \in Int BY DStepInv1 DEF SystemInv, Inv1, TypeOK
    <2>3. Fresh' BY <1>0, <2>1, <2>2 DEF Good, Fresh, Id
    <2>4. PendingFits' BY <1>0, <2>1 DEF Good, PendingFits
    <2>5. \A id : Spoken(id)' <=> Spoken(id)
      BY <2>1 DEF Spoken, EmptySlots, WokenSenders, Running
    <2> QED BY <1>0, <2>1, <2>3, <2>4, <2>5 DEF Good, Calm
  <1> QED BY <1>1, <1>2, <1>3, <1>4, DStepKinds DEF SystemInv

LEMMA DInitSystem == DInit => SystemInv
  <1> SUFFICES ASSUME DInit PROVE SystemInv OBVIOUS
  <1> USE TableAssumption
  <1>1. DInv BY DInitDInv
  <1>2. BootInv BY DEF DInit, BootInv, Made, Device
  <1>3. QuietBoot BY DEF DInit, QuietBoot, Idle
  <1>4. \A id \in Id :
            /\ mailboxes[id].status = "empty" /\ mailboxes[id].slotSize = 0
            /\ mailboxes[id].slots = <<>>
            /\ mailboxes[id].blockedSendList = <<>>
            /\ mailboxes[id].blockedReceiveList = <<>>
    BY DEF DInit, EmptyMailbox
  <1>5. Len(<<>>) = 0 OBVIOUS
  <1>6. Waiters
    <2>1. \A op \in Side, id \in Id : ListOf(op, id) = <<>> BY <1>4 DEF ListOf
    <2>2. WaitersBlocked BY <1>5, <2>1 DEF WaitersBlocked, Side
    <2>3. BlockedListed BY DEF BlockedListed, DInit
    <2> QED BY <2>2, <2>3 DEF Waiters
  <1>7. ReleasedDrained BY <1>4 DEF ReleasedDrained
  <1>8. SlotsFit BY <1>4, <1>5 DEF SlotsFit
  <1>9. Good
    <2>1. Fresh BY <1>4 DEF Fresh
    <2>2. PendingFits BY DEF DInit, PendingFits, NoCall
    <2>3. \A id \in Id : Spoken(id) BY <1>4 DEF Spoken
    <2> QED BY <2>1, <2>2, <2>3 DEF Good
  <1> QED BY <1>1, <1>2, <1>3, <1>6, <1>7, <1>8, <1>9 DEF SystemInv

LEMMA SystemInvHolds == DSpec => []SystemInv
  <1>1. DInit => SystemInv BY DInitSystem
  <1>2. SystemInv /\ [DNext]_allvars => SystemInv'
    <2> SUFFICES ASSUME SystemInv, [DNext]_allvars PROVE SystemInv' OBVIOUS
    <2>1. DInv' /\ BootInv' /\ QuietBoot'
      BY DStepDInv, DStepBootInv, DStepQuiet DEF SystemInv
    <2>2. Waiters' /\ ReleasedDrained' /\ SlotsFit'
      BY DStepWaiters, DStepDrained, DStepFit
    <2>3. (NoFaults => Good)'
      <3>1. NoFaults' <=> NoFaults BY DEF NoFaults
      <3> QED BY <3>1, DStepGood
    <2> QED BY <2>1, <2>2, <2>3 DEF SystemInv
  <1> QED BY <1>1, <1>2, PTL DEF DSpec

-----------------------------------------------------------------------------
(* The theorems *)

(* Full slots come first in every mailbox, those of the devices included.  *)
THEOREM DevicesKeepOrder == DSpec => []SlotsPrefix
  <1>1. SystemInv => SlotsPrefix BY DEF SystemInv, DInv, Inv1
  <1> QED BY <1>1, SystemInvHolds, PTL

(* No message is longer than its slot, though wait_device receives with a  *)
(* buffer of its own size from whatever mailbox the boot gave the device.  *)
THEOREM DevicesKeepFit == DSpec => []SlotsFit
  <1>1. SystemInv => SlotsFit BY DEF SystemInv
  <1> QED BY <1>1, SystemInvHolds, PTL

(* Whoever is in a waiting list is asleep in that call, also a process     *)
(* that waits for a device, and also on an entry that a failing create of  *)
(* the boot has left half made.                                            *)
THEOREM DevicesKeepWaiters == DSpec => []WaitersBlocked
  <1>1. SystemInv => WaitersBlocked BY DEF SystemInv, Waiters
  <1> QED BY <1>1, SystemInvHolds, PTL

(* Whoever sleeps, in wait_device too, is in the list of its mailbox, so   *)
(* that a send to or a free of that mailbox can find it.                   *)
THEOREM DevicesKeepListed == DSpec => []BlockedListed
  <1>1. SystemInv => BlockedListed BY DEF SystemInv, Waiters
  <1> QED BY <1>1, SystemInvHolds, PTL

(* Freeing a mailbox, one of a device too, leaves nobody behind on it.     *)
THEOREM DevicesKeepDrained == DSpec => []ReleasedDrained
  <1>1. SystemInv => ReleasedDrained BY DEF SystemInv
  <1> QED BY <1>1, SystemInvHolds, PTL

(* No wakeup of a sender is lost by a receive inside wait_device either.   *)
THEOREM DevicesLoseNoWakeup == DSpec => []NoLostWakeup
  <1>1. SystemInv => NoLostWakeup
    BY DEF SystemInv, NoLostWakeup, NoFaults, Good, Calm, Spoken
  <1> QED BY <1>1, SystemInvHolds, PTL
=============================================================================
