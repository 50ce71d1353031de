----------------------------- MODULE Messaging -----------------------------
(***************************************************************************)
(* The mailbox system of Messaging.c: a table of mailboxes, each a fixed   *)
(* list of slots and two lists of blocked processes, used by the processes *)
(* of one CPU through mailbox_create, mailbox_send, mailbox_receive and    *)
(* mailbox_free.                                                           *)
(*                                                                         *)
(* A step is one stretch of a call between two points where the kernel may *)
(* dispatch another process: a call runs from its start to its return or   *)
(* to block(), and from the return of block() on; mailbox_free also yields *)
(* at each unblock().  Any ready process may take the next step, whatever  *)
(* its priority.  (A time slice inside a stretch is not modelled here.)    *)
(***************************************************************************)
EXTENDS Integers, Sequences, FiniteSets, FiniteSetsExt

CONSTANTS
    Proc,           \* the processes
    Msg,            \* the messages that are sent
    Size,           \* msg_size of each message
    NoMsg,          \* what an empty slot (messageSize = 0) holds
    MaxMbox,        \* MAXMBOX
    MaxDevices,     \* THREADS_MAX_DEVICES
    DeviceSlots,    \* slots of the mailbox of a device other than the clock
    IntSize,        \* sizeof(int), the slot size of the device mailboxes
    SlotCounts,     \* the values of mailbox_create's slots
    SlotSizes,      \* the values of mailbox_create's slot_size
    BufSizes,       \* the values of mailbox_receive's msg_size
    MallocMayFail,  \* may malloc return NULL?
    SignalsAllowed  \* may a process be k_killed by a process of its own?

ASSUME ProcessesAssumption == IsFiniteSet(Proc)
ASSUME SizeAssumption == Size \in [Msg -> Nat]
ASSUME NoMsgAssumption == NoMsg \notin Msg
ASSUME TableAssumption ==
    /\ MaxMbox \in Nat /\ MaxDevices \in Nat /\ MaxDevices <= MaxMbox
    /\ DeviceSlots \in Nat /\ IntSize \in Nat
ASSUME ArgumentAssumption ==
    /\ SlotCounts \subseteq Int /\ SlotSizes \subseteq Int
    /\ BufSizes \subseteq Nat
ASSUME FlagAssumption == MallocMayFail \in BOOLEAN /\ SignalsAllowed \in BOOLEAN

VARIABLES
    mailboxes,      \* the table
    nextMailboxId,  \* the id the next mailbox_create uses
    call,           \* the call each process is inside of, NoCall if none
    pstate,         \* "ready" or "blocked", as the scheduler knows a process
    signal,         \* has the process been k_killed?  (what signaled() reads)
    result          \* what the last call of each process returned

vars == <<mailboxes, nextMailboxId, call, pstate, signal, result>>

Id == 0 .. MaxMbox - 1
MboxArg == -1 .. MaxMbox            \* valid ids and one on each side
Slot == Msg \union {NoMsg}

Mailbox == [status : {"empty", "inuse", "released"},
            slotSize : Int, slotCount : Int,
            slots : Seq(Slot),
            blockedSendList : Seq(Proc), blockedReceiveList : Seq(Proc)]

(* op names the call and where it is: "send" and "receive" are inside      *)
(* block() or have just left it; "free_send" and "free_receive" are in     *)
(* the first and in the second loop of mailbox_free.                       *)
Call == [op : {"none", "send", "receive", "free_send", "free_receive"},
         mb : Int, msg : Slot, size : Int]

NoCall == [op |-> "none", mb |-> -1, msg |-> NoMsg, size |-> 0]
NoCode == -9                        \* no call ever returns it
NoResult == [code |-> NoCode, msg |-> NoMsg]

-----------------------------------------------------------------------------
(* The table when the first process of a test starts.                      *)

(* slots entries are allocated for MB_MULTISLOT mailboxes only *)
Allocated(slots) == IF slots \in {0, 1} \/ slots < 0 THEN 0 ELSE slots

EmptyMailbox ==
    [status |-> "empty", slotSize |-> 0, slotCount |-> 0, slots |-> <<>>,
     blockedSendList |-> <<>>, blockedReceiveList |-> <<>>]

(* A wrong form of Initialised: it empties the waiting lists as well, and  *)
(* forgets who waits on an entry that an earlier create left half made.    *)
InitialisedAnew(b, slots, slotSize, n) ==
    [EmptyMailbox EXCEPT !.status = "inuse", !.slotSize = slotSize,
                         !.slotCount = slots, !.slots = [i \in 1 .. n |-> NoMsg]]

(* b initialised by mailbox_create, with n of its slots allocated *)
Initialised(b, slots, slotSize, n) ==
    [b EXCEPT !.status = "inuse", !.slotSize = slotSize, !.slotCount = slots,
              !.slots = [i \in 1 .. n |-> NoMsg]]

DeviceMailbox(id) ==
    LET slots == IF id = 0 THEN 0 ELSE DeviceSlots
    IN  Initialised(EmptyMailbox, slots, IntSize, Allocated(slots))

Init ==
    /\ mailboxes = [id \in Id |-> IF id < MaxDevices THEN DeviceMailbox(id)
                                                     ELSE EmptyMailbox]
    /\ nextMailboxId = MaxDevices
    /\ call = [p \in Proc |-> NoCall]
    /\ pstate = [p \in Proc |-> "ready"]
    /\ signal = [p \in Proc |-> FALSE]
    /\ result = [p \in Proc |-> NoResult]

-----------------------------------------------------------------------------
(* What the operations are made of.                                        *)

Idle(p) == call[p] = NoCall
Running(p, op) == call[p].op = op /\ pstate[p] = "ready"

(* p's call returns code, and hands over message m *)
Return(p, code, m) ==
    /\ call' = [call EXCEPT ![p] = NoCall]
    /\ result' = [result EXCEPT ![p] = [code |-> code, msg |-> m]]

(* p's call fails and changes nothing else *)
Fail(p, code) ==
    /\ Return(p, code, NoMsg)
    /\ UNCHANGED <<mailboxes, nextMailboxId, pstate, signal>>

(* p sleeps in block(), its call pending *)
Block(p, c) ==
    /\ call' = [call EXCEPT ![p] = c]
    /\ pstate' = [pstate EXCEPT ![p] = "blocked"]
    /\ result' = [result EXCEPT ![p] = NoResult]
    /\ UNCHANGED <<nextMailboxId, signal>>

EmptySlots(id) == {i \in DOMAIN mailboxes[id].slots : mailboxes[id].slots[i] = NoMsg}
FullSlots(id) == {i \in DOMAIN mailboxes[id].slots : mailboxes[id].slots[i] # NoMsg}

(* a message of size 0 leaves messageSize = 0, an empty slot *)
Stored(m) == IF Size[m] = 0 THEN NoMsg ELSE m

-----------------------------------------------------------------------------
(* mailbox_create                                                          *)

CreateTableFull(p) ==
    /\ nextMailboxId >= MaxMbox
    /\ Fail(p, -1)

(* A wrong form of CreateMailbox: the bound of the table is off by one. *)
CreateOffByOne(p, slots, slotSize) ==
    /\ nextMailboxId <= MaxMbox
    /\ mailboxes' = [mailboxes EXCEPT ![nextMailboxId] =
                         Initialised(@, slots, slotSize, Allocated(slots))]
    /\ nextMailboxId' = nextMailboxId + 1
    /\ Return(p, nextMailboxId, NoMsg)
    /\ UNCHANGED <<pstate, signal>>

CreateMailbox(p, slots, slotSize) ==
    /\ nextMailboxId < MaxMbox
    /\ mailboxes' = [mailboxes EXCEPT ![nextMailboxId] =
                         Initialised(@, slots, slotSize, Allocated(slots))]
    /\ nextMailboxId' = nextMailboxId + 1
    /\ Return(p, nextMailboxId, NoMsg)
    /\ UNCHANGED <<pstate, signal>>

(* malloc fails after n slots: -1, and the entry stays half made *)
CreateNoMemory(p, slots, slotSize) ==
    /\ MallocMayFail
    /\ nextMailboxId < MaxMbox
    /\ \E n \in 0 .. Allocated(slots) - 1 :
           mailboxes' = [mailboxes EXCEPT ![nextMailboxId] =
                             Initialised(@, slots, slotSize, n)]
    /\ Return(p, -1, NoMsg)
    /\ UNCHANGED <<nextMailboxId, pstate, signal>>

Create(p) ==
    /\ Idle(p)
    /\ \/ CreateTableFull(p)
       \/ \E slots \in SlotCounts, slotSize \in SlotSizes :
              \/ CreateMailbox(p, slots, slotSize)
              \/ CreateNoMemory(p, slots, slotSize)

-----------------------------------------------------------------------------
(* mailbox_send: one turn of its loop, up to a return or to block()        *)

(* A wrong form of SendValid: the size of the message is not looked at. *)
SendValidAnySize(id, m) == id \in Id /\ mailboxes[id].status # "released"

(* A wrong form of SendValid: a released mailbox is not noticed. *)
SendValidReleased(id, m) == id \in Id /\ Size[m] <= mailboxes[id].slotSize

SendValid(id, m) ==
    /\ id \in Id
    /\ mailboxes[id].status # "released"
    /\ Size[m] <= mailboxes[id].slotSize

SendInvalid(p, id, m) ==
    /\ ~SendValid(id, m)
    /\ Fail(p, -1)

(* A wrong form of SendDeposit: the last empty slot is taken. *)
SendDepositLast(p, id, m) ==
    /\ SendValid(id, m)
    /\ EmptySlots(id) # {}
    /\ mailboxes' = [mailboxes EXCEPT ![id].slots[Max(EmptySlots(id))] = Stored(m)]
    /\ Return(p, 0, NoMsg)
    /\ UNCHANGED <<nextMailboxId, pstate, signal>>

SendDeposit(p, id, m) ==
    /\ SendValid(id, m)
    /\ EmptySlots(id) # {}
    /\ mailboxes' = [mailboxes EXCEPT ![id].slots[Min(EmptySlots(id))] = Stored(m)]
    /\ Return(p, 0, NoMsg)
    /\ UNCHANGED <<nextMailboxId, pstate, signal>>

NoRoom(id, m) == SendValid(id, m) /\ EmptySlots(id) = {}

SendWouldBlock(p, id, m) ==
    /\ NoRoom(id, m)
    /\ Fail(p, -2)

SendNoMemory(p, id, m) ==
    /\ MallocMayFail
    /\ NoRoom(id, m)
    /\ Fail(p, -1)

SendBlock(p, id, m) ==
    /\ NoRoom(id, m)
    /\ mailboxes' = [mailboxes EXCEPT ![id].blockedSendList = Append(@, p)]
    /\ Block(p, [op |-> "send", mb |-> id, msg |-> m, size |-> 0])

SendTurn(p, id, m, wait) ==
    \/ SendInvalid(p, id, m)
    \/ SendDeposit(p, id, m)
    \/ ~wait /\ SendWouldBlock(p, id, m)
    \/ wait /\ SendNoMemory(p, id, m)
    \/ wait /\ SendBlock(p, id, m)

Send(p) ==
    /\ Idle(p)
    /\ \E id \in MboxArg, m \in Msg, wait \in BOOLEAN : SendTurn(p, id, m, wait)

(* A wrong form of Interrupted: a released mailbox is not noticed. *)
InterruptedBySignal(p) == signal[p]

(* block() has returned.  -5 if signalled or if the mailbox is gone, else  *)
(* the loop starts over.                                                   *)
Interrupted(p) == signal[p] \/ mailboxes[call[p].mb].status = "released"

SendInterrupted(p) ==
    /\ Running(p, "send")
    /\ Interrupted(p)
    /\ Fail(p, -5)

SendRetry(p) ==
    /\ Running(p, "send")
    /\ ~Interrupted(p)
    /\ SendTurn(p, call[p].mb, call[p].msg, TRUE)

-----------------------------------------------------------------------------
(* mailbox_receive                                                         *)

(* A wrong form of ReceiveValid: the size of the buffer is not looked at. *)
ReceiveValidAnySize(id, size) == id \in Id /\ mailboxes[id].status # "released"

ReceiveValid(id, size) ==
    /\ id \in Id
    /\ mailboxes[id].status # "released"
    /\ size >= mailboxes[id].slotSize

ReceiveInvalid(p, id, size) ==
    /\ ~ReceiveValid(id, size)
    /\ Fail(p, -1)

(* the last of the full slots that follow slot f without a gap *)
RunEnd(id, f) ==
    Max({l \in FullSlots(id) : f <= l /\ f .. l \subseteq FullSlots(id)})

(* A wrong form of Shifted: the slots do not move. *)
NotShifted(slots, f, l) == [slots EXCEPT ![f] = NoMsg]

(* slots f+1 .. l move down by one and slot l becomes empty *)
Shifted(slots, f, l) ==
    [i \in DOMAIN slots |-> IF i = l THEN NoMsg
                            ELSE IF i \in f .. l - 1 THEN slots[i + 1]
                            ELSE slots[i]]

(* A wrong form of Rest: the node stays in the list. *)
Unpopped(list) == list

(* a list of blocked processes without its first node, if it has one *)
Rest(list) == IF list = <<>> THEN list ELSE Tail(list)

(* the scheduler's view after unblock() of the first node's process, if any *)
WakeFirst(list) ==
    IF list = <<>> THEN pstate ELSE [pstate EXCEPT ![Head(list)] = "ready"]

FirstMessage(id) == mailboxes[id].slots[Min(FullSlots(id))]

(* the mailbox with its first message and its first blocked sender gone *)
WithoutFirst(id) ==
    LET f == Min(FullSlots(id))
    IN  [mailboxes[id] EXCEPT !.slots = Shifted(@, f, RunEnd(id, f)),
                              !.blockedSendList = Rest(@)]

(* A wrong form of ReceiveDeliver: a sender is woken only if the mailbox   *)
(* was full.                                                               *)
ReceiveWakeIfFull(p, id, size) ==
    LET list == mailboxes[id].blockedSendList
        wake == EmptySlots(id) = {}
    IN  /\ ReceiveValid(id, size)
        /\ FullSlots(id) # {}
        /\ mailboxes' = [mailboxes EXCEPT ![id] =
               IF wake THEN WithoutFirst(id)
                       ELSE [WithoutFirst(id) EXCEPT !.blockedSendList = list]]
        /\ Return(p, Size[FirstMessage(id)], FirstMessage(id))
        /\ pstate' = IF wake THEN WakeFirst(list) ELSE pstate
        /\ UNCHANGED <<nextMailboxId, signal>>

(* the first full slot is delivered and one blocked sender is made ready *)
ReceiveDeliver(p, id, size) ==
    /\ ReceiveValid(id, size)
    /\ FullSlots(id) # {}
    /\ mailboxes' = [mailboxes EXCEPT ![id] = WithoutFirst(id)]
    /\ Return(p, Size[FirstMessage(id)], FirstMessage(id))
    /\ pstate' = WakeFirst(mailboxes[id].blockedSendList)
    /\ UNCHANGED <<nextMailboxId, signal>>

NothingThere(id, size) == ReceiveValid(id, size) /\ FullSlots(id) = {}

ReceiveWouldBlock(p, id, size) ==
    /\ NothingThere(id, size)
    /\ Fail(p, -2)

ReceiveNoMemory(p, id, size) ==
    /\ MallocMayFail
    /\ NothingThere(id, size)
    /\ Fail(p, -1)

ReceiveBlock(p, id, size) ==
    /\ NothingThere(id, size)
    /\ mailboxes' = [mailboxes EXCEPT ![id].blockedReceiveList = Append(@, p)]
    /\ Block(p, [op |-> "receive", mb |-> id, msg |-> NoMsg, size |-> size])

ReceiveTurn(p, id, size, wait) ==
    \/ ReceiveInvalid(p, id, size)
    \/ ReceiveDeliver(p, id, size)
    \/ ~wait /\ ReceiveWouldBlock(p, id, size)
    \/ wait /\ ReceiveNoMemory(p, id, size)
    \/ wait /\ ReceiveBlock(p, id, size)

Receive(p) ==
    /\ Idle(p)
    /\ \E id \in MboxArg, size \in BufSizes, wait \in BOOLEAN :
           ReceiveTurn(p, id, size, wait)

ReceiveInterrupted(p) ==
    /\ Running(p, "receive")
    /\ Interrupted(p)
    /\ Fail(p, -5)

ReceiveRetry(p) ==
    /\ Running(p, "receive")
    /\ ~Interrupted(p)
    /\ ReceiveTurn(p, call[p].mb, call[p].size, TRUE)

-----------------------------------------------------------------------------
(* mailbox_free: mark the mailbox, then empty the two lists, one process   *)
(* per step.                                                               *)

FreeInvalid(p, id) ==
    /\ id \in Id => mailboxes[id].status # "inuse"
    /\ Fail(p, -1)

FreeRelease(p, id) ==
    /\ id \in Id
    /\ mailboxes[id].status = "inuse"
    /\ mailboxes' = [mailboxes EXCEPT ![id].status = "released"]
    /\ call' = [call EXCEPT ![p] =
                    [op |-> "free_send", mb |-> id, msg |-> NoMsg, size |-> 0]]
    /\ result' = [result EXCEPT ![p] = NoResult]
    /\ UNCHANGED <<nextMailboxId, pstate, signal>>

Free(p) ==
    /\ Idle(p)
    /\ \E id \in MboxArg : FreeInvalid(p, id) \/ FreeRelease(p, id)

(* a blocked sender is k_killed, so that signaled() is true, and made ready *)
FreeSender(p) ==
    LET id == call[p].mb
        list == mailboxes[id].blockedSendList
    IN  /\ Running(p, "free_send")
        /\ list # <<>>
        /\ mailboxes' = [mailboxes EXCEPT ![id].blockedSendList = Rest(@)]
        /\ signal' = [signal EXCEPT ![Head(list)] = TRUE]
        /\ pstate' = WakeFirst(list)
        /\ UNCHANGED <<nextMailboxId, call, result>>

(* the first loop is over, or was over already *)
SendersFreed(p) ==
    \/ Running(p, "free_send") /\ mailboxes[call[p].mb].blockedSendList = <<>>
    \/ Running(p, "free_receive")

(* a blocked receiver is made ready, and not k_killed *)
FreeReceiver(p) ==
    LET id == call[p].mb
        list == mailboxes[id].blockedReceiveList
    IN  /\ SendersFreed(p)
        /\ list # <<>>
        /\ mailboxes' = [mailboxes EXCEPT ![id].blockedReceiveList = Rest(@)]
        /\ pstate' = WakeFirst(list)
        /\ call' = [call EXCEPT ![p].op = "free_receive"]
        /\ UNCHANGED <<nextMailboxId, signal, result>>

(* A wrong form of FreeReturn: the loop over the receivers is missing. *)
FreeReturnEarly(p) ==
    /\ SendersFreed(p)
    /\ Return(p, 0, NoMsg)
    /\ UNCHANGED <<mailboxes, nextMailboxId, pstate, signal>>

FreeReturn(p) ==
    /\ SendersFreed(p)
    /\ mailboxes[call[p].mb].blockedReceiveList = <<>>
    /\ Return(p, 0, NoMsg)
    /\ UNCHANGED <<mailboxes, nextMailboxId, pstate, signal>>

-----------------------------------------------------------------------------
(* k_kill(p, SIG_TERM) by another process, outside of mailbox_free: it     *)
(* sets what signaled() reads and wakes nobody.                            *)
Signal(p) ==
    /\ SignalsAllowed
    /\ ~signal[p]
    /\ signal' = [signal EXCEPT ![p] = TRUE]
    /\ UNCHANGED <<mailboxes, nextMailboxId, call, pstate, result>>

(* p starts a call *)
Start(p) == Create(p) \/ Send(p) \/ Receive(p) \/ Free(p)

(* p goes on with the call it is inside of *)
Continue(p) ==
    \/ SendInterrupted(p) \/ SendRetry(p)
    \/ ReceiveInterrupted(p) \/ ReceiveRetry(p)
    \/ FreeSender(p) \/ FreeReceiver(p) \/ FreeReturn(p)

Next == \E p \in Proc : Start(p) \/ Continue(p) \/ Signal(p)

Spec == Init /\ [][Next]_vars

(* A process that is ready inside a call is given the CPU again.           *)
FairSpec == Spec /\ \A p \in Proc : WF_vars(Continue(p))

-----------------------------------------------------------------------------
(* Properties                                                              *)

(* Every variable has the values the C declarations allow. *)
TypeOK ==
    /\ mailboxes \in [Id -> Mailbox]
    /\ nextMailboxId \in 0 .. MaxMbox
    /\ call \in [Proc -> Call]
    /\ pstate \in [Proc -> {"ready", "blocked"}]
    /\ signal \in [Proc -> BOOLEAN]
    /\ result \in [Proc -> [code : Int, msg : Slot]]

(* The full slots of a mailbox come first and the empty ones last: only    *)
(* then do "first empty slot" in mailbox_send and "first full slot" in     *)
(* mailbox_receive keep the messages in order.                             *)
SlotsPrefix ==
    \A id \in Id : \E n \in 0 .. Len(mailboxes[id].slots) :
        \A i \in 1 .. Len(mailboxes[id].slots) :
            mailboxes[id].slots[i] # NoMsg <=> i <= n

(* A message lies only in a slot that it fits, so that mailbox_receive,    *)
(* which compares the caller's buffer with slotSize and not with the       *)
(* message, never copies more than the buffer holds.                       *)
SlotsFit ==
    \A id \in Id : \A i \in 1 .. Len(mailboxes[id].slots) :
        LET m == mailboxes[id].slots[i]
        IN  m # NoMsg => Size[m] <= mailboxes[id].slotSize

ListOf(op, id) == IF op = "send" THEN mailboxes[id].blockedSendList
                                 ELSE mailboxes[id].blockedReceiveList

(* A node of a waiting list stands for a process that is blocked inside    *)
(* that very call on that mailbox, and no process has two nodes: unblock() *)
(* is never called for a process that is not waiting there.                *)
WaitersBlocked ==
    \A op \in {"send", "receive"}, id \in Id :
        \A i \in 1 .. Len(ListOf(op, id)) :
            LET p == ListOf(op, id)[i]
            IN  /\ pstate[p] = "blocked"
                /\ call[p].op = op
                /\ call[p].mb = id
                /\ \A j \in 1 .. Len(ListOf(op, id)) : ListOf(op, id)[j] = p => j = i

(* A blocked process has a node in the list of its call: whoever sleeps in *)
(* block() can still be found by mailbox_receive or mailbox_free.          *)
BlockedListed ==
    \A p \in Proc : pstate[p] = "blocked" =>
        \E op \in {"send", "receive"}, id \in Id :
            /\ call[p].op = op
            /\ call[p].mb = id
            /\ \E i \in 1 .. Len(ListOf(op, id)) : ListOf(op, id)[i] = p

(* Processes that were made ready by mailbox_receive or mailbox_free and   *)
(* have not yet run again.                                                 *)
WokenSenders(id) == {p \in Proc : Running(p, "send") /\ call[p].mb = id}

(* Unless a signal, a failing malloc or a message of no bytes interferes,  *)
(* a sender sleeps only while every empty slot of the mailbox is spoken    *)
(* for by a sender that is already awake: no wakeup is lost, and the       *)
(* senders that come first without having slept take none away.            *)
NoLostWakeup ==
    (/\ ~MallocMayFail
     /\ \A m \in Msg : Size[m] > 0
     /\ \A p \in Proc : ~signal[p]) =>
        \A id \in Id :
            (mailboxes[id].status = "inuse" /\ mailboxes[id].blockedSendList # <<>>) =>
                Cardinality(EmptySlots(id)) <= Cardinality(WokenSenders(id))

(* If mallocs do not fail, every mailbox_free comes to an end, though      *)
(* processes that it wakes, and others, run between two turns of its loops *)
(* and make new calls on the mailbox.                                      *)
FreeTerminates ==
    ~MallocMayFail =>
        \A p \in Proc : call[p].op \in {"free_send", "free_receive"} ~> Idle(p)

(* If mallocs do not fail, whoever is inside mailbox_send or               *)
(* mailbox_receive when the mailbox is released gets out of it with -5.    *)
(* With failing ones a released entry may be made again before a receiver  *)
(* that was woken looks at it: see FreedWaitersLeave in MessagingClaims.   *)
WaitersReturn ==
    ~MallocMayFail =>
        \A p \in Proc :
            (/\ call[p].op \in {"send", "receive"}
             /\ mailboxes[call[p].mb].status = "released")
            ~> (Idle(p) /\ result[p].code = -5)

(* Nobody is left waiting on a released mailbox: while its lists are not   *)
(* empty, a mailbox_free is still in the loop that empties them.           *)
ReleasedDrained ==
    \A id \in Id : mailboxes[id].status = "released" =>
        /\ mailboxes[id].blockedSendList # <<>> =>
               \E p \in Proc : call[p].op = "free_send" /\ call[p].mb = id
        /\ mailboxes[id].blockedReceiveList # <<>> =>
               \E p \in Proc : /\ call[p].op \in {"free_send", "free_receive"}
                               /\ call[p].mb = id

=============================================================================
