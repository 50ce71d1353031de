---------------------------- MODULE MailboxSteps ----------------------------
(***************************************************************************)
(* Messaging.c statement by statement: the loops that look for a slot,     *)
(* shift the messages and append to a list take a step per turn, and a     *)
(* message is copied into its slot before messageSize says that it is      *)
(* there.                                                                  *)
(*                                                                         *)
(* A stretch of a call, which is one step in Messaging, is many steps      *)
(* here, and a time slice may fall between any two of them: the calls do   *)
(* not disable interrupts.  What is assumed of the processes that run in   *)
(* between is that they use another mailbox (Alone).  Under this           *)
(* assumption the stretches have the effects of the steps of Messaging.    *)
(***************************************************************************)
EXTENDS Integers, Sequences, FiniteSets

CONSTANTS Proc, Msg, Size, NoMsg, MaxMbox, MaxDevices, DeviceSlots, IntSize,
          SlotCounts, SlotSizes, BufSizes, MallocMayFail, SignalsAllowed

ASSUME ConstantsAssumption ==
    /\ IsFiniteSet(Proc)
    /\ Size \in [Msg -> Nat]
    /\ NoMsg \notin Msg
    /\ MaxMbox \in Nat /\ MaxDevices \in Nat /\ MaxDevices <= MaxMbox
    /\ DeviceSlots \in Nat /\ IntSize \in Nat
    /\ SlotCounts \subseteq Int /\ SlotSizes \subseteq Int
    /\ BufSizes \subseteq Nat
    /\ MallocMayFail \in BOOLEAN /\ SignalsAllowed \in BOOLEAN

VARIABLES
    table,          \* the mailboxes; a slot has a message and a messageSize
    shown,          \* each mailbox as it was between two stretches that use it
    frame,          \* where in its stretch a process is, and its C variables
    nextMailboxId, call, pstate, signal, result     \* as in Messaging

svars == <<table, shown, frame, nextMailboxId, call, pstate, signal, result>>

Id == 0 .. MaxMbox - 1
NoFrame == [op |-> "none", at |-> "outside", mb |-> -1, msg |-> NoMsg, size |-> 0,
            wait |-> FALSE, i |-> 0, n |-> 0, node |-> <<>>]

EmptySlot == [message |-> NoMsg, messageSize |-> 0]

(* a mailbox b as Messaging sees it *)
ViewOf(b) ==
    [b EXCEPT !.slots = [i \in DOMAIN b.slots |->
        IF b.slots[i].messageSize = 0 THEN NoMsg ELSE b.slots[i].message]]

View(id) == ViewOf(table[id])

Inside(p) == frame[p].at # "outside"
Uses(p, id) == Inside(p) /\ frame[p].mb = id

(* Messaging sees a mailbox only when no stretch is in the middle of it.   *)
M == INSTANCE Messaging WITH mailboxes <- shown

SInit ==
    /\ table = [id \in Id |->
           LET slots == IF id = 0 THEN 0 ELSE DeviceSlots
           IN  IF id < MaxDevices
               THEN [M!EmptyMailbox EXCEPT
                        !.status = "inuse", !.slotSize = IntSize, !.slotCount = slots,
                        !.slots = [i \in 1 .. M!Allocated(slots) |-> EmptySlot]]
               ELSE M!EmptyMailbox]
    /\ shown = [id \in Id |-> View(id)]
    /\ frame = [p \in Proc |-> NoFrame]
    /\ nextMailboxId = MaxDevices
    /\ call = [p \in Proc |-> M!NoCall]
    /\ pstate = [p \in Proc |-> "ready"]
    /\ signal = [p \in Proc |-> FALSE]
    /\ result = [p \in Proc |-> M!NoResult]

-----------------------------------------------------------------------------
(* Stretches                                                               *)

(* A wrong form of Alone: a time slice lets anyone in. *)
Overlapping(p, id) == id \in Int

(* no other process is in the middle of a stretch on mailbox id *)
Alone(p, id) == \A q \in Proc \ {p} : ~Uses(q, id)

At(p, op, label) == frame[p].op = op /\ frame[p].at = label
Outside(p) == ~Inside(p)

Local(p, f) ==
    /\ frame' = [frame EXCEPT ![p] = f]
    /\ UNCHANGED shown

Enter(p, f) ==
    /\ Alone(p, f.mb)
    /\ Local(p, f)

Go(p, label) == Local(p, [frame[p] EXCEPT !.at = label])

Leave(p) ==
    /\ frame' = [frame EXCEPT ![p] = NoFrame]
    /\ shown' = [id \in Id |-> IF Uses(p, id) THEN View(id)' ELSE shown[id]]

Kernel == <<nextMailboxId, call, pstate, signal, result>>

(* the end of a stretch: a return, or block() *)
Return(p, code, m) == Leave(p) /\ M!Return(p, code, m)

(* a return that changes nothing else *)
Answer(p, code) ==
    /\ UNCHANGED <<table, nextMailboxId, pstate, signal>>
    /\ Return(p, code, NoMsg)

(* the list that a process in op puts its node into *)
ListIn(b, op) == IF op = "send" THEN b.blockedSendList ELSE b.blockedReceiveList

WithList(b, op, list) ==
    IF op = "send" THEN [b EXCEPT !.blockedSendList = list]
                   ELSE [b EXCEPT !.blockedReceiveList = list]

(* n is the place of the last node of the list, 0 if there is none; malloc *)
(* of the node may fail                                                    *)
FindTail(p, op) ==
    /\ At(p, op, "node")
    /\ \/ /\ Local(p, [frame[p] EXCEPT !.at = "link",
                                       !.n = Len(ListIn(table[frame[p].mb], op))])
          /\ UNCHANGED <<table, Kernel>>
       \/ MallocMayFail /\ Answer(p, -1)

(* A wrong form of Link: the new node becomes the head of the list. *)
LinkFirst(p, op) ==
    /\ At(p, op, "link")
    /\ table' = [table EXCEPT ![frame[p].mb] = WithList(@, op, <<p>> \o ListIn(@, op))]
    /\ Go(p, "block")
    /\ UNCHANGED Kernel

Link(p, op) ==
    /\ At(p, op, "link")
    /\ table' = [table EXCEPT ![frame[p].mb] =
                     WithList(@, op, Append(SubSeq(ListIn(@, op), 1, frame[p].n), p))]
    /\ Go(p, "block")
    /\ UNCHANGED Kernel

Block(p, op) ==
    /\ At(p, op, "block")
    /\ UNCHANGED table
    /\ Leave(p)
    /\ M!Block(p, [op |-> op, mb |-> frame[p].mb, msg |-> frame[p].msg,
                   size |-> frame[p].size])

Sleep(p, op) == FindTail(p, op) \/ Link(p, op) \/ Block(p, op)

(* A turn of the loop starts with the checks of the arguments.             *)
Valid(op, f) ==
    /\ f.mb \in Id
    /\ table[f.mb].status # "released"
    /\ IF op = "send" THEN Size[f.msg] <= table[f.mb].slotSize
                      ELSE f.size >= table[f.mb].slotSize

Turn(p, op, f) ==
    /\ Alone(p, f.mb)
    /\ \/ ~Valid(op, f) /\ Answer(p, -1)
       \/ /\ Valid(op, f)
          /\ Enter(p, [f EXCEPT !.op = op, !.at = "look", !.i = 1])
          /\ UNCHANGED <<table, Kernel>>

(* block() has returned *)
Awake(p, op) ==
    /\ Outside(p) /\ M!Running(p, op)
    /\ Alone(p, call[p].mb)
    /\ IF signal[p] \/ table[call[p].mb].status = "released"
       THEN Answer(p, -5)
       ELSE Turn(p, op, [NoFrame EXCEPT !.mb = call[p].mb, !.msg = call[p].msg,
                                        !.size = call[p].size, !.wait = TRUE])

-----------------------------------------------------------------------------
(* mailbox_send                                                            *)

SendStart(p) ==
    /\ Outside(p) /\ M!Idle(p)
    /\ \E id \in M!MboxArg, m \in Msg, wait \in BOOLEAN :
           Turn(p, "send", [NoFrame EXCEPT !.mb = id, !.msg = m, !.wait = wait])

(* one turn of the loop over the slots, and what follows its last *)
SendLook(p) ==
    LET f == frame[p]
        slots == table[f.mb].slots
    IN  /\ At(p, "send", "look")
        /\ \/ /\ f.i > Len(slots) /\ ~f.wait
              /\ Answer(p, -2)
           \/ /\ \/ f.i > Len(slots) /\ f.wait /\ Go(p, "node")
                 \/ f.i <= Len(slots) /\ slots[f.i].messageSize = 0 /\ Go(p, "copy")
                 \/ /\ f.i <= Len(slots) /\ slots[f.i].messageSize # 0
                    /\ Local(p, [f EXCEPT !.i = @ + 1])
              /\ UNCHANGED <<table, Kernel>>

SendCopy(p) ==
    /\ At(p, "send", "copy")
    /\ table' = [table EXCEPT ![frame[p].mb].slots[frame[p].i].message = frame[p].msg]
    /\ Go(p, "size")
    /\ UNCHANGED Kernel

SendSize(p) ==
    /\ At(p, "send", "size")
    /\ table' = [table EXCEPT ![frame[p].mb].slots[frame[p].i].messageSize =
                     Size[frame[p].msg]]
    /\ Return(p, 0, NoMsg)
    /\ UNCHANGED <<nextMailboxId, pstate, signal>>

SendSteps(p) ==
    \/ SendStart(p) \/ SendLook(p) \/ SendCopy(p) \/ SendSize(p)
    \/ Sleep(p, "send") \/ Awake(p, "send")

-----------------------------------------------------------------------------
(* mailbox_receive                                                         *)

ReceiveStart(p) ==
    /\ Outside(p) /\ M!Idle(p)
    /\ \E id \in M!MboxArg, size \in BufSizes, wait \in BOOLEAN :
           Turn(p, "receive", [NoFrame EXCEPT !.mb = id, !.size = size, !.wait = wait])

(* receivedSize and the message go to the caller: n and msg *)
ReceiveLook(p) ==
    LET f == frame[p]
        slots == table[f.mb].slots
    IN  /\ At(p, "receive", "look")
        /\ \/ /\ f.i > Len(slots) /\ ~f.wait
              /\ Answer(p, -2)
           \/ /\ \/ f.i > Len(slots) /\ f.wait /\ Go(p, "node")
                 \/ /\ f.i <= Len(slots) /\ slots[f.i].messageSize > 0
                    /\ Local(p, [f EXCEPT !.at = "shift",
                                          !.n = slots[f.i].messageSize,
                                          !.msg = slots[f.i].message])
                 \/ /\ f.i <= Len(slots) /\ slots[f.i].messageSize = 0
                    /\ Local(p, [f EXCEPT !.i = @ + 1])
              /\ UNCHANGED <<table, Kernel>>

(* i is cur: the next slot moves down if it is full *)
ReceiveShift(p) ==
    LET f == frame[p]
        slots == table[f.mb].slots
    IN  /\ At(p, "receive", "shift")
        /\ IF f.i < Len(slots) /\ slots[f.i + 1].messageSize > 0
           THEN /\ table' = [table EXCEPT ![f.mb].slots[f.i] = slots[f.i + 1]]
                /\ Local(p, [f EXCEPT !.i = @ + 1])
           ELSE /\ table' = [table EXCEPT ![f.mb].slots[f.i] = EmptySlot]
                /\ Go(p, "pop")
        /\ UNCHANGED Kernel

ReceivePop(p) ==
    LET list == table[frame[p].mb].blockedSendList
    IN  /\ At(p, "receive", "pop")
        /\ \/ /\ list = <<>>
              /\ UNCHANGED <<table, nextMailboxId, pstate, signal>>
              /\ Return(p, frame[p].n, frame[p].msg)
           \/ /\ list # <<>>
              /\ table' = [table EXCEPT ![frame[p].mb].blockedSendList = Tail(@)]
              /\ Local(p, [frame[p] EXCEPT !.at = "unblock",
                                           !.node = <<Head(list)>>])
              /\ UNCHANGED Kernel

ReceiveUnblock(p) ==
    /\ At(p, "receive", "unblock")
    /\ pstate' = [pstate EXCEPT ![Head(frame[p].node)] = "ready"]
    /\ UNCHANGED <<table, nextMailboxId, signal>>
    /\ Return(p, frame[p].n, frame[p].msg)

ReceiveSteps(p) ==
    \/ ReceiveStart(p) \/ ReceiveLook(p) \/ ReceiveShift(p)
    \/ ReceivePop(p) \/ ReceiveUnblock(p)
    \/ Sleep(p, "receive") \/ Awake(p, "receive")

-----------------------------------------------------------------------------
(* mailbox_free                                                            *)

FreeStart(p) ==
    /\ Outside(p) /\ M!Idle(p)
    /\ \E id \in M!MboxArg :
        /\ Alone(p, id)
        /\ \/ /\ id \in Id => table[id].status # "inuse"
              /\ Answer(p, -1)
           \/ /\ id \in Id /\ table[id].status = "inuse"
              /\ table' = [table EXCEPT ![id].status = "released"]
              /\ call' = [call EXCEPT ![p] = [M!NoCall EXCEPT !.op = "free_send",
                                                              !.mb = id]]
              /\ result' = [result EXCEPT ![p] = M!NoResult]
              /\ shown' = [shown EXCEPT ![id] = View(id)']
              /\ UNCHANGED <<frame, nextMailboxId, pstate, signal>>

SendListEmpty(p) == table[call[p].mb].blockedSendList = <<>>
ReceiveListEmpty(p) == table[call[p].mb].blockedReceiveList = <<>>

(* a turn of one of the two loops: the first node leaves its list *)
FreePop(p, op) ==
    LET id == call[p].mb
    IN  /\ Outside(p) /\ call[p].op \in {"free_send", "free_receive"}
        /\ IF op = "send" THEN call[p].op = "free_send" /\ ~SendListEmpty(p)
           ELSE /\ call[p].op = "free_send" => SendListEmpty(p)
                /\ ~ReceiveListEmpty(p)
        /\ Enter(p, [NoFrame EXCEPT !.op = "free", !.at = op, !.mb = id,
                                    !.node = <<Head(ListIn(table[id], op))>>])
        /\ table' = [table EXCEPT ![id] = WithList(@, op, Tail(ListIn(@, op)))]
        /\ UNCHANGED Kernel

(* a sender is k_killed, and whoever it is is unblocked *)
FreeUnblock(p, op) ==
    LET q == Head(frame[p].node)
    IN  /\ At(p, "free", op)
        /\ signal' = IF op = "send" THEN [signal EXCEPT ![q] = TRUE] ELSE signal
        /\ pstate' = [pstate EXCEPT ![q] = "ready"]
        /\ call' = [call EXCEPT ![p].op = IF op = "send" THEN "free_send"
                                                         ELSE "free_receive"]
        /\ UNCHANGED <<table, nextMailboxId, result>>
        /\ Leave(p)

FreeReturn(p) ==
    /\ Outside(p) /\ call[p].op \in {"free_send", "free_receive"}
    /\ Alone(p, call[p].mb)
    /\ call[p].op = "free_send" => SendListEmpty(p)
    /\ ReceiveListEmpty(p)
    /\ Answer(p, 0)

FreeSteps(p) ==
    \/ FreeStart(p) \/ FreeReturn(p)
    \/ \E op \in {"send", "receive"} : FreePop(p, op) \/ FreeUnblock(p, op)

-----------------------------------------------------------------------------
(* mailbox_create                                                          *)

CreateStart(p) ==
    /\ Outside(p) /\ M!Idle(p)
    /\ \/ nextMailboxId >= MaxMbox /\ Answer(p, -1)
       \/ /\ nextMailboxId < MaxMbox
          /\ \E slots \in SlotCounts, size \in SlotSizes :
                 Enter(p, [NoFrame EXCEPT !.op = "create", !.at = "entry",
                                          !.mb = nextMailboxId,
                                          !.size = size, !.n = slots])
          /\ UNCHANGED <<table, Kernel>>

CreateEntry(p) ==
    /\ At(p, "create", "entry")
    /\ table' = [table EXCEPT ![frame[p].mb] =
                     [@ EXCEPT !.status = "inuse", !.slotSize = frame[p].size,
                               !.slotCount = frame[p].n, !.slots = <<>>]]
    /\ Go(p, "slots")
    /\ UNCHANGED Kernel

(* one turn of the loop; malloc of the slot may fail *)
CreateSlot(p) ==
    /\ At(p, "create", "slots")
    /\ Len(table[frame[p].mb].slots) < M!Allocated(frame[p].n)
    /\ \/ /\ table' = [table EXCEPT ![frame[p].mb].slots = Append(@, EmptySlot)]
          /\ UNCHANGED <<shown, frame, Kernel>>
       \/ MallocMayFail /\ Answer(p, -1)

CreateReturn(p) ==
    /\ At(p, "create", "slots")
    /\ Len(table[frame[p].mb].slots) >= M!Allocated(frame[p].n)
    /\ nextMailboxId' = nextMailboxId + 1
    /\ UNCHANGED <<table, pstate, signal>>
    /\ Return(p, nextMailboxId, NoMsg)

CreateSteps(p) == CreateStart(p) \/ CreateEntry(p) \/ CreateSlot(p) \/ CreateReturn(p)

-----------------------------------------------------------------------------
SNext == \E p \in Proc : CreateSteps(p) \/ SendSteps(p) \/ ReceiveSteps(p) \/ FreeSteps(p)

SSpec == SInit /\ [][SNext]_svars

-----------------------------------------------------------------------------
(* Properties                                                              *)

(* However the time slices fall, a call has the effect of the steps of     *)
(* Messaging, with all that is shown of them, as long as no two stretches  *)
(* on one mailbox overlap: the calls of mailboxes that differ do not       *)
(* disturb each other at any statement, and within a mailbox the loops     *)
(* find, shift and append as the operators of Messaging say.               *)
StretchesAreSteps == M!Spec
=============================================================================
