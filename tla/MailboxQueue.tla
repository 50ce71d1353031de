---------------------------- MODULE MailboxQueue ----------------------------
(***************************************************************************)
(* What the mailboxes promise their callers, with no slots, no lists and   *)
(* no scheduler: each mailbox is a bounded FIFO queue that is handed out   *)
(* once, may be closed, and from then on changes only by a call that       *)
(* returns success.  The entry that will be handed out next is nobody's,   *)
(* and a create that fails may leave it changed.                           *)
(***************************************************************************)
EXTENDS Integers, Sequences

CONSTANTS
    Proc, Msg, Size, NoMsg, MaxMbox,
    SlotCounts,             \* how many slots a caller may ask for
    MaxDevices,             \* the mailboxes there are from the start,
    DeviceSlots,            \* and how many slots all but the first ask for
    NoCode      \* stands for the result of a call that has not returned

VARIABLES
    status,     \* of each mailbox: "empty", "inuse" or "released"
    capacity,   \* how many messages it holds
    queue,      \* the messages in it, oldest first
    published,  \* the ids below this one have been handed out
    result      \* what the last call of each process returned

avars == <<status, capacity, queue, published, result>>

Answer(p, code, m) == result' = [result EXCEPT ![p] = [code |-> code, msg |-> m]]

(* How many messages a mailbox holds that was asked for so many slots:     *)
(* one slot is as good as none.                                            *)
Room(slots) == IF slots > 1 THEN slots ELSE 0

(* The next entry becomes an empty queue for n messages. *)
Make(n) ==
    /\ published < MaxMbox
    /\ status' = [status EXCEPT ![published] = "inuse"]
    /\ capacity' = [capacity EXCEPT ![published] = n]
    /\ queue' = [queue EXCEPT ![published] = <<>>]

(* A mailbox with room for what was asked for is handed out.  This never   *)
(* happens to it again.                                                    *)
Open(p) ==
    /\ \E slots \in SlotCounts : Make(Room(slots))
    /\ published' = published + 1
    /\ Answer(p, published, NoMsg)

(* A create runs out of memory: it hands out nothing, and the entry stays  *)
(* behind with too little room.  Messages that were sent to it, on an id   *)
(* no create had returned, are forgotten; no other mailbox changes.        *)
OpenHalfWay(p) ==
    /\ \E slots \in SlotCounts : \E n \in 0 .. Room(slots) - 1 : Make(n)
    /\ Answer(p, -1, NoMsg)
    /\ UNCHANGED published

(* A send that returns 0 has put its message last, if it has any bytes. *)
Accept(p, id, m) ==
    /\ status[id] # "released"
    /\ Len(queue[id]) < capacity[id]
    /\ queue' = [queue EXCEPT ![id] = IF Size[m] = 0 THEN @ ELSE Append(@, m)]
    /\ Answer(p, 0, NoMsg)
    /\ UNCHANGED <<status, capacity, published>>

(* A receive that returns a size has taken the first message. *)
Deliver(p, id) ==
    /\ status[id] # "released"
    /\ queue[id] # <<>>
    /\ queue' = [queue EXCEPT ![id] = Tail(@)]
    /\ Answer(p, Size[Head(queue[id])], Head(queue[id]))
    /\ UNCHANGED <<status, capacity, published>>

Close(p, id) ==
    /\ status[id] = "inuse"
    /\ status' = [status EXCEPT ![id] = "released"]
    /\ Answer(p, 0, NoMsg)
    /\ UNCHANGED <<capacity, queue, published>>

(* Any other call that fails, or one that starts to wait, changes nothing. *)
NoEffect(p) ==
    /\ \E code \in {NoCode, -1, -2, -5} : Answer(p, code, NoMsg)
    /\ UNCHANGED <<status, capacity, queue, published>>

QInit ==
    /\ published = MaxDevices
    /\ status = [id \in 0 .. MaxMbox - 1 |->
                     IF id < published THEN "inuse" ELSE "empty"]
    /\ capacity = [id \in 0 .. MaxMbox - 1 |->
                       IF id \in 1 .. published - 1 THEN Room(DeviceSlots) ELSE 0]
    /\ queue = [id \in 0 .. MaxMbox - 1 |-> <<>>]
    /\ result = [p \in Proc |-> [code |-> NoCode, msg |-> NoMsg]]

QNext == \E p \in Proc :
    \/ Open(p)
    \/ OpenHalfWay(p)
    \/ NoEffect(p)
    \/ \E id \in 0 .. MaxMbox - 1 :
           \/ Deliver(p, id)
           \/ Close(p, id)
           \/ \E m \in Msg : Accept(p, id, m)

QSpec == QInit /\ [][QNext]_avars
=============================================================================
