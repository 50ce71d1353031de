---------------------------- MODULE StepsProofs ----------------------------
(***************************************************************************)
(* The statements of the calls implement the steps of Messaging, for every *)
(* value of the constants: MailboxSteps implements Messaging.              *)
(*                                                                         *)
(* The theorems of Messaging are used for the mailboxes as they are shown  *)
(* (P below is Messaging with its proofs): a step of Messaging that a      *)
(* stretch has taken keeps the lists and the blocked processes in          *)
(* agreement, and that is why no stretch wakes or signals a process that   *)
(* is in the middle of another one.                                        *)
(***************************************************************************)
EXTENDS MailboxSteps, TLAPS, SequenceTheorems

P == INSTANCE RefinementProofs WITH mailboxes <- shown

-----------------------------------------------------------------------------
(* The inductive invariant                                                 *)

(* A slot whose messageSize is not 0 has a message of that length. *)
SlotRecord ==
    {r \in [message : Msg \union {NoMsg}, messageSize : Nat] :
        r.messageSize # 0 => r.message \in Msg /\ r.messageSize = Size[r.message]}

Box == [status : {"empty", "inuse", "released"}, slotSize : Int, slotCount : Int,
        slots : Seq(SlotRecord),
        blockedSendList : Seq(Proc), blockedReceiveList : Seq(Proc)]

Frame == [op : {"none", "send", "receive", "free", "create"},
          at : {"outside", "look", "copy", "size", "node", "link", "block",
                "shift", "pop", "unblock", "send", "receive", "entry", "slots"},
          mb : Int, msg : Msg \union {NoMsg}, size : Int, wait : BOOLEAN,
          i : Int, n : Int, node : Seq(Proc)]

FrameTypeOK == table \in [Id -> Box] /\ frame \in [Proc -> Frame]

(* What a call that is pending since block() has kept of its arguments. *)
CallRecord(op, f) == [op |-> op, mb |-> f.mb,
                      msg |-> IF op = "send" THEN f.msg ELSE NoMsg,
                      size |-> IF op = "send" THEN 0 ELSE f.size]

PendingCallsOK ==
    \A p \in Proc : /\ call[p].op = "send" => call[p].size = 0
                    /\ call[p].op = "receive" => call[p].msg = NoMsg

AllFull(slots, first, last) == \A j \in first .. last : slots[j] # NoMsg
AllEmpty(slots, first, last) == \A j \in first .. last : slots[j] = NoMsg

(* Where a stretch is: f is the frame of process p, b its mailbox as it    *)
(* is, s the mailbox as it is shown, c the call of p.                      *)
Listing(p, op, f, b, s) ==
    /\ f.wait
    /\ f.at \in {"node", "link"} => ViewOf(b) = s
    /\ f.at = "link" => f.n = Len(ListIn(s, op))
    /\ f.at = "block" => ViewOf(b) = WithList(s, op, Append(ListIn(s, op), p))

InSend(p, f, b, s, c) ==
    /\ f.at \in {"look", "copy", "size", "node", "link", "block"}
    /\ f.msg \in Msg /\ f.size = 0
    /\ s.status # "released" /\ Size[f.msg] <= s.slotSize
    /\ c = M!NoCall \/ (f.wait /\ c = CallRecord("send", f))
    /\ f.at \in {"look", "copy", "size"} => ViewOf(b) = s /\ AllFull(s.slots, 1, f.i - 1)
    /\ f.at = "look" => f.i \in 1 .. Len(s.slots) + 1
    /\ f.at \in {"copy", "size"} => f.i \in 1 .. Len(s.slots) /\ s.slots[f.i] = NoMsg
    /\ f.at = "size" => b.slots[f.i].message = f.msg
    /\ f.at \in {"node", "link", "block"} =>
           Listing(p, "send", f, b, s) /\ AllFull(s.slots, 1, Len(s.slots))

(* the message that is being delivered is the first of the mailbox *)
Delivers(f, s, first) ==
    /\ first \in 1 .. Len(s.slots)
    /\ AllEmpty(s.slots, 1, first - 1)
    /\ s.slots[first] # NoMsg
    /\ f.msg = s.slots[first]
    /\ f.n = Size[f.msg]

(* slots first .. i-1 have moved down *)
ShiftedUpTo(s, first, i) ==
    [s EXCEPT !.slots = [j \in DOMAIN s.slots |->
        IF j \in first .. i - 1 THEN s.slots[j + 1] ELSE s.slots[j]]]

Delivered(s, first, last) == [s EXCEPT !.slots = M!Shifted(s.slots, first, last)]

Taking(f, b, s) ==
    \E first \in 1 .. Len(s.slots) :
        /\ Delivers(f, s, first)
        /\ f.at = "shift" =>
               /\ f.i \in first .. Len(s.slots)
               /\ AllFull(s.slots, first, f.i)
               /\ ViewOf(b) = ShiftedUpTo(s, first, f.i)
        /\ f.at \in {"pop", "unblock"} =>
               \E last \in first .. Len(s.slots) :
                   /\ AllFull(s.slots, first, last)
                   /\ last < Len(s.slots) => s.slots[last + 1] = NoMsg
                   /\ f.at = "pop" => ViewOf(b) = Delivered(s, first, last)
                   /\ f.at = "unblock" =>
                          /\ s.blockedSendList # <<>>
                          /\ f.node = <<Head(s.blockedSendList)>>
                          /\ ViewOf(b) = [Delivered(s, first, last) EXCEPT
                                             !.blockedSendList = Tail(s.blockedSendList)]

InReceive(p, f, b, s, c) ==
    /\ f.at \in {"look", "shift", "pop", "unblock", "node", "link", "block"}
    /\ s.status # "released" /\ f.size >= s.slotSize
    /\ \/ c = M!NoCall /\ f.size \in BufSizes
       \/ f.wait /\ c = CallRecord("receive", f)
    /\ f.at = "look" => /\ ViewOf(b) = s /\ f.msg = NoMsg
                        /\ f.i \in 1 .. Len(s.slots) + 1
                        /\ AllEmpty(s.slots, 1, f.i - 1)
    /\ f.at \in {"node", "link", "block"} =>
           /\ Listing(p, "receive", f, b, s) /\ f.msg = NoMsg
           /\ AllEmpty(s.slots, 1, Len(s.slots))
    /\ f.at \in {"shift", "pop", "unblock"} => Taking(f, b, s)

InFree(f, b, s, c) ==
    LET list == ListIn(s, f.at)
    IN  /\ f.at \in {"send", "receive"}
        /\ list # <<>>
        /\ f.node = <<Head(list)>>
        /\ ViewOf(b) = WithList(s, f.at, Tail(list))
        /\ c.mb = f.mb
        /\ \/ c.op = "free_send" /\ (f.at = "receive" => s.blockedSendList = <<>>)
           \/ c.op = "free_receive" /\ f.at = "receive"

InCreate(f, b, s, c) ==
    /\ f.at \in {"entry", "slots"}
    /\ c = M!NoCall
    /\ f.n \in SlotCounts /\ f.size \in SlotSizes
    /\ f.at = "entry" => ViewOf(b) = s
    /\ f.at = "slots" => /\ Len(b.slots) <= M!Allocated(f.n)
                         /\ ViewOf(b) = M!Initialised(s, f.n, f.size, Len(b.slots))

Stage(p, f, b, s, c) ==
    \/ f.op = "send" /\ InSend(p, f, b, s, c)
    \/ f.op = "receive" /\ InReceive(p, f, b, s, c)
    \/ f.op = "free" /\ InFree(f, b, s, c)
    \/ f.op = "create" /\ InCreate(f, b, s, c)

(* A process in the middle of a stretch has not been signalled, if it was  *)
(* not when the stretch began; nobody has taken the id it creates.         *)
StretchesOK ==
    \A p \in Proc : Inside(p) =>
        /\ frame[p].mb \in Id
        /\ pstate[p] = "ready"
        /\ call[p].op \in {"send", "receive"} => ~signal[p]
        /\ frame[p].op = "create" => frame[p].mb = nextMailboxId
        /\ Stage(p, frame[p], table[frame[p].mb], shown[frame[p].mb], call[p])

Apart == \A p, q \in Proc :
             Inside(p) /\ Inside(q) /\ frame[p].mb = frame[q].mb => p = q

ShownIsView ==
    \A id \in Id : (\A p \in Proc : ~Uses(p, id)) => shown[id] = View(id)

StepInv == /\ FrameTypeOK /\ PendingCallsOK /\ StretchesOK /\ Apart /\ ShownIsView
           /\ P!Inv2

-----------------------------------------------------------------------------
(* Views of a mailbox                                                      *)

LEMMA ViewTyped ==
    ASSUME NEW b \in Box
    PROVE  LET v == ViewOf(b)
           IN  /\ v \in P!Mailbox
               /\ b.slots \in Seq(SlotRecord) /\ Len(b.slots) \in Nat
               /\ v.slots \in Seq(P!Slot) /\ Len(v.slots) = Len(b.slots)
               /\ DOMAIN v.slots = 1 .. Len(b.slots)
               /\ \A i \in 1 .. Len(b.slots) :
                      /\ b.slots[i] \in SlotRecord
                      /\ v.slots[i] = IF b.slots[i].messageSize = 0 THEN NoMsg
                                      ELSE b.slots[i].message
                      /\ v.slots[i] = NoMsg <=> b.slots[i].messageSize = 0
               /\ v.status = b.status /\ v.slotSize = b.slotSize
               /\ v.slotCount = b.slotCount
               /\ v.blockedSendList = b.blockedSendList
               /\ v.blockedReceiveList = b.blockedReceiveList
  <1> DEFINE v == ViewOf(b)
             t == [i \in DOMAIN b.slots |->
                      IF b.slots[i].messageSize = 0 THEN NoMsg ELSE b.slots[i].message]
  <1>1. b.slots \in Seq(SlotRecord) /\ Len(b.slots) \in Nat
        /\ DOMAIN b.slots = 1 .. Len(b.slots)
    BY DEF Box
  <1>2. \A i \in 1 .. Len(b.slots) : b.slots[i] \in SlotRecord
    BY <1>1, ElementOfSeq
  <1>3. \A i \in 1 .. Len(b.slots) :
            /\ t[i] = IF b.slots[i].messageSize = 0 THEN NoMsg ELSE b.slots[i].message
            /\ t[i] \in P!Slot
            /\ t[i] = NoMsg <=> b.slots[i].messageSize = 0
    BY <1>1, <1>2, ConstantsAssumption DEF SlotRecord, P!Slot
  <1>4. t \in Seq(P!Slot) /\ Len(t) = Len(b.slots) /\ DOMAIN t = 1 .. Len(b.slots)
    <2>1. t \in [1 .. Len(b.slots) -> P!Slot] BY <1>1, <1>3
    <2> HIDE DEF t
    <2> QED BY <1>1, <2>1
  <1>5. v = [b EXCEPT !.slots = t] BY DEF ViewOf
  <1> HIDE DEF t, v
  <1>6. /\ v.slots = t
        /\ v.status = b.status /\ v.slotSize = b.slotSize /\ v.slotCount = b.slotCount
        /\ v.blockedSendList = b.blockedSendList
        /\ v.blockedReceiveList = b.blockedReceiveList
    BY <1>5 DEF Box
  <1>7. v \in P!Mailbox BY <1>4, <1>5 DEF Box, P!Mailbox
  <1> QED BY <1>1, <1>2, <1>3, <1>4, <1>6, <1>7 DEF v

LEMMA ViewListIn ==
    ASSUME NEW b \in Box, NEW op \in {"send", "receive"}
    PROVE  /\ ListIn(ViewOf(b), op) = ListIn(b, op)
           /\ ListIn(b, op) \in Seq(Proc)
  BY DEF Box, ViewOf, ListIn

LEMMA ViewList ==
    ASSUME NEW b \in Box, NEW op \in {"send", "receive"}, NEW l \in Seq(Proc)
    PROVE  /\ WithList(b, op, l) \in Box
           /\ ViewOf(WithList(b, op, l)) = WithList(ViewOf(b), op, l)
  BY DEF Box, ViewOf, WithList

(* the value of slot record r *)
Held(r) == IF r.messageSize = 0 THEN NoMsg ELSE r.message

LEMMA ViewSlot ==
    ASSUME NEW b \in Box, NEW i \in 1 .. Len(b.slots), NEW r \in SlotRecord
    PROVE  LET t == [b.slots EXCEPT ![i] = r]
           IN  /\ [b EXCEPT !.slots = t] \in Box
               /\ ViewOf([b EXCEPT !.slots = t]) =
                      [ViewOf(b) EXCEPT !.slots = [ViewOf(b).slots EXCEPT ![i] = Held(r)]]
  <1> DEFINE t == [b.slots EXCEPT ![i] = r]
             c == [b EXCEPT !.slots = t]
             u == [j \in DOMAIN b.slots |-> Held(b.slots[j])]
             w == [j \in DOMAIN t |-> Held(t[j])]
  <1>1. b.slots \in Seq(SlotRecord) /\ Len(b.slots) \in Nat
        /\ DOMAIN b.slots = 1 .. Len(b.slots)
    BY DEF Box
  <1>2. t \in Seq(SlotRecord) /\ DOMAIN t = DOMAIN b.slots BY <1>1, ExceptSeq
  <1>3. c \in Box /\ c.slots = t BY <1>2 DEF Box
  <1>4. w = [u EXCEPT ![i] = Held(r)] BY <1>1, <1>2
  <1>5. ViewOf(b) = [b EXCEPT !.slots = u] /\ ViewOf(c) = [c EXCEPT !.slots = w]
    BY <1>3 DEF ViewOf, Held
  <1> HIDE DEF t, u, w
  <1>6. ViewOf(b).slots = u BY <1>5 DEF Box
  <1>7. ViewOf(c) = [ViewOf(b) EXCEPT !.slots = w] BY <1>3, <1>5 DEF Box
  <1> QED BY <1>3, <1>4, <1>6, <1>7 DEF t

LEMMA ViewAppend ==
    ASSUME NEW b \in Box
    PROVE  LET t == Append(b.slots, EmptySlot)
           IN  /\ [b EXCEPT !.slots = t] \in Box
               /\ Len(t) = Len(b.slots) + 1
               /\ ViewOf([b EXCEPT !.slots = t]) =
                      [ViewOf(b) EXCEPT !.slots = Append(ViewOf(b).slots, NoMsg)]
  <1> DEFINE t == Append(b.slots, EmptySlot)
             c == [b EXCEPT !.slots = t]
             u == [j \in DOMAIN b.slots |-> Held(b.slots[j])]
             w == [j \in DOMAIN t |-> Held(t[j])]
  <1>0. EmptySlot \in SlotRecord /\ Held(EmptySlot) = NoMsg
    BY DEF EmptySlot, SlotRecord, Held
  <1>1. b.slots \in Seq(SlotRecord) /\ Len(b.slots) \in Nat
        /\ DOMAIN b.slots = 1 .. Len(b.slots)
    BY DEF Box
  <1>2. /\ t \in Seq(SlotRecord) /\ Len(t) = Len(b.slots) + 1
        /\ DOMAIN t = 1 .. Len(b.slots) + 1
        /\ \A j \in 1 .. Len(b.slots) : t[j] = b.slots[j]
        /\ t[Len(b.slots) + 1] = EmptySlot
    BY <1>0, <1>1, AppendProperties
  <1>3. c \in Box /\ c.slots = t BY <1>2 DEF Box
  <1> HIDE DEF t
  <1>4. w = Append(u, NoMsg)
    <2>1. u \in Seq(P!Slot) /\ Len(u) = Len(b.slots)
      <3>1. \A j \in 1 .. Len(b.slots) : u[j] \in P!Slot
        BY <1>1, ElementOfSeq DEF SlotRecord, Held, P!Slot
      <3>2. u \in [1 .. Len(b.slots) -> P!Slot] BY <1>1, <3>1
      <3> HIDE DEF u
      <3> QED BY <1>1, <3>2
    <2>2. /\ DOMAIN Append(u, NoMsg) = 1 .. Len(b.slots) + 1
          /\ \A j \in 1 .. Len(b.slots) : Append(u, NoMsg)[j] = u[j]
          /\ Append(u, NoMsg)[Len(b.slots) + 1] = NoMsg
      <3>1. NoMsg \in P!Slot BY DEF P!Slot
      <3> HIDE DEF u
      <3> QED BY <1>1, <2>1, <3>1, AppendProperties
    <2>3. \A j \in 1 .. Len(b.slots) + 1 : w[j] = Append(u, NoMsg)[j]
      BY <1>0, <1>1, <1>2, <2>2
    <2>4. w \in Seq(P!Slot) /\ Len(w) = Len(b.slots) + 1
      <3>1. \A j \in 1 .. Len(b.slots) + 1 : w[j] \in P!Slot
        BY <1>2, ElementOfSeq DEF SlotRecord, Held, P!Slot
      <3>2. w \in [1 .. Len(b.slots) + 1 -> P!Slot] BY <1>2, <3>1
      <3> HIDE DEF w
      <3> QED BY <1>1, <3>2
    <2>5. Append(u, NoMsg) \in Seq(P!Slot) /\ Len(Append(u, NoMsg)) = Len(b.slots) + 1
      <3>1. NoMsg \in P!Slot BY DEF P!Slot
      <3> HIDE DEF u
      <3> QED BY <2>1, <3>1, AppendProperties
    <2> HIDE DEF u, w
    <2> QED BY <2>3, <2>4, <2>5, SeqEqual
  <1>5. ViewOf(b) = [b EXCEPT !.slots = u] /\ ViewOf(c) = [c EXCEPT !.slots = w]
    BY <1>3 DEF ViewOf, Held
  <1> HIDE DEF u, w
  <1>6. ViewOf(b).slots = u BY <1>5 DEF Box
  <1>7. ViewOf(c) = [ViewOf(b) EXCEPT !.slots = w] BY <1>3, <1>5 DEF Box
  <1> QED BY <1>2, <1>3, <1>4, <1>6, <1>7 DEF t

(* The shift, one slot more. *)
LEMMA ShiftMore ==
    ASSUME NEW s \in P!Mailbox, NEW first \in 1 .. Len(s.slots),
           NEW i \in first .. Len(s.slots) - 1
    PROVE  LET v == ShiftedUpTo(s, first, i)
           IN  [v EXCEPT !.slots = [v.slots EXCEPT ![i] = s.slots[i + 1]]]
                   = ShiftedUpTo(s, first, i + 1)
  <1>1. s.slots \in Seq(P!Slot) /\ Len(s.slots) \in Nat
        /\ DOMAIN s.slots = 1 .. Len(s.slots)
    BY DEF P!Mailbox
  <1> DEFINE t(k) == [j \in DOMAIN s.slots |->
                         IF j \in first .. k - 1 THEN s.slots[j + 1] ELSE s.slots[j]]
  <1>2. [t(i) EXCEPT ![i] = s.slots[i + 1]] = t(i + 1)
    <2>1. \A j \in 1 .. Len(s.slots) : /\ j \in first .. i - 1 => j # i
                                      /\ j \in first .. (i + 1) - 1
                                             <=> j = i \/ j \in first .. i - 1
      BY <1>1
    <2> QED BY <1>1, <2>1
  <1>3. /\ ShiftedUpTo(s, first, i) = [s EXCEPT !.slots = t(i)]
        /\ ShiftedUpTo(s, first, i + 1) = [s EXCEPT !.slots = t(i + 1)]
    BY DEF ShiftedUpTo
  <1> HIDE DEF t
  <1> QED BY <1>2, <1>3 DEF P!Mailbox

(* The end of the shift: the last slot of the run becomes empty. *)
LEMMA ShiftEnd ==
    ASSUME NEW s \in P!Mailbox, NEW first \in 1 .. Len(s.slots),
           NEW i \in first .. Len(s.slots)
    PROVE  LET v == ShiftedUpTo(s, first, i)
           IN  [v EXCEPT !.slots = [v.slots EXCEPT ![i] = NoMsg]] = Delivered(s, first, i)
  <1>1. s.slots \in Seq(P!Slot) /\ Len(s.slots) \in Nat
        /\ DOMAIN s.slots = 1 .. Len(s.slots)
    BY DEF P!Mailbox
  <1> DEFINE t == [j \in DOMAIN s.slots |->
                      IF j \in first .. i - 1 THEN s.slots[j + 1] ELSE s.slots[j]]
             u == M!Shifted(s.slots, first, i)
  <1>2. [t EXCEPT ![i] = NoMsg] = u BY <1>1 DEF M!Shifted
  <1>3. /\ ShiftedUpTo(s, first, i) = [s EXCEPT !.slots = t]
        /\ Delivered(s, first, i) = [s EXCEPT !.slots = u]
    BY DEF ShiftedUpTo, Delivered
  <1> HIDE DEF t, u
  <1> QED BY <1>2, <1>3 DEF P!Mailbox

LEMMA ShiftStart ==
    ASSUME NEW s \in P!Mailbox, NEW first \in 1 .. Len(s.slots)
    PROVE  ShiftedUpTo(s, first, first) = s
  <1>1. s.slots \in Seq(P!Slot) /\ Len(s.slots) \in Nat
        /\ DOMAIN s.slots = 1 .. Len(s.slots)
    BY DEF P!Mailbox
  <1> DEFINE t == [j \in DOMAIN s.slots |->
                      IF j \in first .. first - 1 THEN s.slots[j + 1] ELSE s.slots[j]]
  <1>2. t = [j \in DOMAIN s.slots |-> s.slots[j]] BY <1>1
  <1>3. s.slots \in [1 .. Len(s.slots) -> P!Slot] BY <1>1
  <1>4. t = s.slots BY <1>1, <1>2, <1>3
  <1>5. ShiftedUpTo(s, first, first) = [s EXCEPT !.slots = t] BY DEF ShiftedUpTo
  <1> HIDE DEF t
  <1> QED BY <1>4, <1>5 DEF P!Mailbox

(* What the loops over the slots find is what Messaging looks for. *)
LEMMA FirstEmpty ==
    ASSUME NEW id \in Id, shown[id] \in P!Mailbox, NEW i \in 1 .. Len(shown[id].slots),
           AllFull(shown[id].slots, 1, i - 1), shown[id].slots[i] = NoMsg
    PROVE  M!EmptySlots(id) # {} /\ M!Min(M!EmptySlots(id)) = i
  <1>1. Len(shown[id].slots) \in Nat /\ DOMAIN shown[id].slots = 1 .. Len(shown[id].slots)
    BY DEF P!Mailbox
  <1>2. /\ i \in M!EmptySlots(id)
        /\ \A j \in M!EmptySlots(id) : j \in Int /\ i <= j
    BY <1>1 DEF M!EmptySlots, AllFull
  <1>3. \A x \in M!EmptySlots(id) : (\A y \in M!EmptySlots(id) : x <= y) => x = i
    BY <1>1, <1>2
  <1> QED BY <1>2, <1>3 DEF M!Min

LEMMA FirstFull ==
    ASSUME NEW id \in Id, shown[id] \in P!Mailbox,
           NEW first \in 1 .. Len(shown[id].slots),
           AllEmpty(shown[id].slots, 1, first - 1), shown[id].slots[first] # NoMsg
    PROVE  M!FullSlots(id) # {} /\ M!Min(M!FullSlots(id)) = first
  <1>1. Len(shown[id].slots) \in Nat /\ DOMAIN shown[id].slots = 1 .. Len(shown[id].slots)
    BY DEF P!Mailbox
  <1>2. /\ first \in M!FullSlots(id)
        /\ \A j \in M!FullSlots(id) : j \in Int /\ first <= j
    BY <1>1 DEF M!FullSlots, AllEmpty
  <1>3. \A x \in M!FullSlots(id) : (\A y \in M!FullSlots(id) : x <= y) => x = first
    BY <1>1, <1>2
  <1> QED BY <1>2, <1>3 DEF M!Min

LEMMA EndOfRun ==
    ASSUME NEW id \in Id, shown[id] \in P!Mailbox,
           NEW first \in 1 .. Len(shown[id].slots),
           NEW last \in first .. Len(shown[id].slots),
           AllFull(shown[id].slots, first, last),
           last < Len(shown[id].slots) => shown[id].slots[last + 1] = NoMsg
    PROVE  M!RunEnd(id, first) = last
  <1> DEFINE s == shown[id].slots
             ends == {l \in M!FullSlots(id) : first <= l /\ first .. l \subseteq M!FullSlots(id)}
  <1>1. Len(s) \in Nat /\ DOMAIN s = 1 .. Len(s) BY DEF P!Mailbox
  <1>2. last \in ends BY <1>1 DEF M!FullSlots, AllFull
  <1>3. ASSUME NEW l \in ends PROVE l <= last
    <2>1. l \in 1 .. Len(s) /\ first .. l \subseteq M!FullSlots(id)
      BY <1>1 DEF M!FullSlots
    <2>2. l > last => last + 1 \in M!FullSlots(id) BY <1>1, <2>1
    <2>3. last + 1 \notin M!FullSlots(id) BY <1>1 DEF M!FullSlots
    <2> QED BY <1>1, <2>1, <2>2, <2>3
  <1>4. \A l \in ends : l \in Int BY <1>1 DEF M!FullSlots
  <1>5. M!RunEnd(id, first) = M!Max(ends) BY DEF M!RunEnd
  <1> HIDE DEF ends
  <1> QED BY <1>2, <1>3, <1>4, <1>5 DEF M!Max

-----------------------------------------------------------------------------
(* What a statement of p leaves alone                                      *)

(* The other processes' calls, and what is known of those that are in the  *)
(* middle of a stretch.                                                    *)
OthersKept(p) ==
    \A q \in Proc \ {p} :
        /\ call'[q] = call[q]
        /\ Inside(q) => pstate'[q] = "ready" /\ signal'[q] = signal[q]

PendingOK(c) == /\ c.op = "send" => c.size = 0
                /\ c.op = "receive" => c.msg = NoMsg

(* A statement of p on mailbox mb: p goes on in frame f, or has left its   *)
(* stretch and shows the mailbox as it is.                                 *)
LEMMA Statement ==
    ASSUME StepInv, P!Inv2', NEW p \in Proc, NEW mb, Alone(p, mb),
           Inside(p) => frame[p].mb = mb,
           NEW f \in Frame, frame' = [frame EXCEPT ![p] = f],
           table' \in [Id -> Box],
           \A id \in Id : id # mb => table'[id] = table[id] /\ shown'[id] = shown[id],
           OthersKept(p), PendingOK(call'[p]),
           nextMailboxId' = nextMailboxId \/ mb = nextMailboxId,
           f.at = "outside" => (mb \in Id => shown'[mb] = ViewOf(table'[mb])),
           f.at # "outside" =>
               /\ f.mb = mb /\ mb \in Id
               /\ pstate'[p] = "ready"
               /\ call'[p].op \in {"send", "receive"} => ~signal'[p]
               /\ f.op = "create" => mb = nextMailboxId'
               /\ Stage(p, f, table'[mb], shown'[mb], call'[p])
    PROVE  StepInv'
  <1> USE DEF Inside
  <1>1. \A q \in Proc : frame'[q] = IF q = p THEN f ELSE frame[q]
    BY DEF StepInv, FrameTypeOK
  <1>2. FrameTypeOK' BY DEF StepInv, FrameTypeOK, Id
  <1>3. PendingCallsOK'
    <2> SUFFICES ASSUME NEW q \in Proc PROVE PendingOK(call'[q])
      BY DEF PendingCallsOK, PendingOK
    <2>1. CASE q = p BY <2>1
    <2>2. CASE q # p BY <2>2 DEF OthersKept, StepInv, PendingCallsOK, PendingOK
    <2> QED BY <2>1, <2>2
  <1>4. \A q \in Proc \ {p} : Inside(q) => frame[q].mb # mb
    BY DEF Alone, Uses
  <1>5. StretchesOK'
    <2> SUFFICES ASSUME NEW q \in Proc, frame'[q].at # "outside"
                 PROVE  /\ frame'[q].mb \in Id
                        /\ pstate'[q] = "ready"
                        /\ call'[q].op \in {"send", "receive"} => ~signal'[q]
                        /\ frame'[q].op = "create" => frame'[q].mb = nextMailboxId'
                        /\ Stage(q, frame'[q], table'[frame'[q].mb], shown'[frame'[q].mb],
                                 call'[q])
      BY DEF StretchesOK, Id
    <2>1. CASE q = p BY <1>1, <2>1
    <2>2. CASE q # p
      <3>1. frame'[q] = frame[q] /\ Inside(q) BY <1>1, <2>2
      <3>2. /\ frame[q].mb \in Id /\ frame[q].mb # mb
            /\ call[q].op \in {"send", "receive"} => ~signal[q]
            /\ frame[q].op = "create" => frame[q].mb = nextMailboxId
            /\ Stage(q, frame[q], table[frame[q].mb], shown[frame[q].mb], call[q])
        BY <1>4, <2>2, <3>1 DEF StepInv, StretchesOK
      <3>3. /\ call'[q] = call[q] /\ pstate'[q] = "ready" /\ signal'[q] = signal[q]
        BY <2>2, <3>1 DEF OthersKept
      <3>4. /\ table'[frame[q].mb] = table[frame[q].mb]
            /\ shown'[frame[q].mb] = shown[frame[q].mb]
        BY <3>2
      <3>5. frame[q].op = "create" => frame[q].mb = nextMailboxId' BY <3>2
      <3> QED BY <3>1, <3>2, <3>3, <3>4, <3>5
    <2> QED BY <2>1, <2>2
  <1>6. Apart'
    <2> SUFFICES ASSUME NEW q \in Proc, NEW r \in Proc, q # r,
                        frame'[q].at # "outside", frame'[r].at # "outside"
                 PROVE  frame'[q].mb # frame'[r].mb
      BY DEF Apart
    <2> QED BY <1>1, <1>4 DEF StepInv, Apart
  <1>7. ShownIsView'
    <2> SUFFICES ASSUME NEW id \in Id,
                        \A q \in Proc : frame'[q].at # "outside" => frame'[q].mb # id
                 PROVE  shown'[id] = ViewOf(table'[id])
      BY DEF ShownIsView, Uses, View, Id
    <2>1. CASE id = mb BY <1>1, <2>1
    <2>2. CASE id # mb
      <3>1. \A q \in Proc : ~Uses(q, id) BY <1>1, <2>2 DEF Uses
      <3> QED BY <2>2, <3>1 DEF StepInv, ShownIsView, View
    <2> QED BY <2>1, <2>2
  <1> QED BY <1>2, <1>3, <1>5, <1>6, <1>7 DEF StepInv

-----------------------------------------------------------------------------
(* Messaging and its theorems                                              *)

(* M and P are both Messaging with shown for its mailboxes. *)
LEMMA SameSteps == M!Next => P!Next
  BY Zenon
     DEF M!Id, P!Id, M!MboxArg, P!MboxArg, M!NoCall, P!NoCall, M!NoCode,
         P!NoCode, M!NoResult, P!NoResult, M!Allocated, P!Allocated,
         M!EmptyMailbox, P!EmptyMailbox, M!Initialised, P!Initialised, M!Idle,
         P!Idle, M!Running, P!Running, M!Return, P!Return, M!Fail, P!Fail,
         M!Block, P!Block, M!EmptySlots, P!EmptySlots, M!FullSlots,
         P!FullSlots, M!Stored, P!Stored, M!CreateTableFull, P!CreateTableFull,
         M!CreateMailbox, P!CreateMailbox, M!CreateNoMemory, P!CreateNoMemory,
         M!Create, P!Create, M!SendValid, P!SendValid, M!SendInvalid,
         P!SendInvalid, M!SendDeposit, P!SendDeposit, M!NoRoom, P!NoRoom,
         M!SendWouldBlock, P!SendWouldBlock, M!SendNoMemory, P!SendNoMemory,
         M!SendBlock, P!SendBlock, M!SendTurn, P!SendTurn, M!Send, P!Send,
         M!Interrupted, P!Interrupted, M!SendInterrupted, P!SendInterrupted,
         M!SendRetry, P!SendRetry, M!ReceiveValid, P!ReceiveValid,
         M!ReceiveInvalid, P!ReceiveInvalid, M!RunEnd, P!RunEnd, M!Shifted,
         P!Shifted, M!Rest, P!Rest, M!WakeFirst, P!WakeFirst, M!FirstMessage,
         P!FirstMessage, M!WithoutFirst, P!WithoutFirst, M!ReceiveDeliver,
         P!ReceiveDeliver, M!NothingThere, P!NothingThere, M!ReceiveWouldBlock,
         P!ReceiveWouldBlock, M!ReceiveNoMemory, P!ReceiveNoMemory,
         M!ReceiveBlock, P!ReceiveBlock, M!ReceiveTurn, P!ReceiveTurn,
         M!Receive, P!Receive, M!ReceiveInterrupted, P!ReceiveInterrupted,
         M!ReceiveRetry, P!ReceiveRetry, M!FreeInvalid, P!FreeInvalid,
         M!FreeRelease, P!FreeRelease, M!Free, P!Free, M!FreeSender,
         P!FreeSender, M!SendersFreed, P!SendersFreed, M!FreeReceiver,
         P!FreeReceiver, M!FreeReturn, P!FreeReturn, M!Signal, P!Signal,
         M!Start, P!Start, M!Continue, P!Continue, M!Next, P!Next, M!Max,
         P!Max, M!Min, P!Min

LEMMA SameInit == M!Init => P!Init
  BY DEF M!Init, P!Init, M!DeviceMailbox, P!DeviceMailbox, M!Initialised,
         P!Initialised, M!EmptyMailbox, P!EmptyMailbox, M!Allocated,
         P!Allocated, M!Id, P!Id, M!NoCall, P!NoCall, M!NoResult, P!NoResult,
         M!NoCode, P!NoCode

(* A step of Messaging keeps what its theorems say of the shown mailboxes. *)
LEMMA ShownStep ==
    ASSUME P!Inv2, [M!Next]_(M!vars)
    PROVE  P!Inv2'
  <1>1. P!IsFiniteSet(Proc) BY ConstantsAssumption DEF IsFiniteSet, P!IsFiniteSet
  <1>2. [P!Next]_(P!vars) BY SameSteps DEF M!vars, P!vars
  <1>3. P!Inv1 /\ [P!Next]_(P!vars) => P!Inv1' BY <1>1, ConstantsAssumption, P!StepInv1
  <1>4. P!Inv2 /\ [P!Next]_(P!vars) => P!Waiters'
    BY <1>1, ConstantsAssumption, P!StepWaiters
  <1>5. P!Inv1' /\ P!Waiters' BY <1>2, <1>3, <1>4 DEF P!Inv2
  <1> QED BY <1>5 DEF P!Inv2

LEMMA ShownInit == M!Init => P!Inv2
  <1>1. P!IsFiniteSet(Proc) BY ConstantsAssumption DEF IsFiniteSet, P!IsFiniteSet
  <1>2. P!Init => P!Inv1 BY <1>1, ConstantsAssumption, P!InitInv1
  <1>3. P!Init => P!Waiters BY <1>1, ConstantsAssumption, P!InitWaiters
  <1> QED BY <1>2, <1>3, SameInit DEF P!Inv2

-----------------------------------------------------------------------------
(* The three kinds of statements: into a stretch, on in it, and out of it  *)

LEMMA InsideFacts ==
    ASSUME StepInv, NEW p \in Proc, Inside(p)
    PROVE  /\ frame[p] \in Frame /\ frame[p].mb \in Id
           /\ Alone(p, frame[p].mb)
           /\ pstate[p] = "ready"
           /\ table[frame[p].mb] \in Box
           /\ shown[frame[p].mb] \in P!Mailbox
           /\ Stage(p, frame[p], table[frame[p].mb], shown[frame[p].mb], call[p])
           /\ call[p].op \in {"send", "receive"} => ~signal[p]
           /\ frame[p].op = "create" => frame[p].mb = nextMailboxId
  <1>1. frame[p].mb \in Id BY DEF StepInv, StretchesOK
  <1>2. shown \in [Id -> P!Mailbox]
    BY DEF StepInv, P!Inv2, P!Inv1, P!TypeOK, P!Id, Id
  <1>3. Alone(p, frame[p].mb) BY DEF StepInv, Apart, Alone, Uses
  <1> QED BY <1>1, <1>2, <1>3 DEF StepInv, FrameTypeOK, StretchesOK

(* A mailbox that no stretch uses is what is shown. *)
LEMMA OutsideFacts ==
    ASSUME StepInv, NEW p \in Proc, Outside(p), NEW id \in Id, Alone(p, id)
    PROVE  /\ shown[id] = ViewOf(table[id])
           /\ table[id] \in Box
           /\ shown[id] \in P!Mailbox
  <1>1. shown \in [Id -> P!Mailbox]
    BY DEF StepInv, P!Inv2, P!Inv1, P!TypeOK, P!Id, Id
  <1>2. \A q \in Proc : ~Uses(q, id) BY DEF Alone, Outside, Uses
  <1> QED BY <1>1, <1>2 DEF StepInv, ShownIsView, View, FrameTypeOK

LEMMA NoFrameTyped == NoFrame \in Frame /\ NoFrame.at = "outside"
  BY DEF NoFrame, Frame

LEMMA LeaveShown ==
    ASSUME StepInv, NEW p \in Proc, Leave(p)
    PROVE  /\ frame' = [frame EXCEPT ![p] = NoFrame]
           /\ Inside(p) => shown' = [shown EXCEPT ![frame[p].mb] =
                                         ViewOf(table'[frame[p].mb])]
           /\ Outside(p) => shown' = shown
  <1>1. shown \in [Id -> P!Mailbox]
    BY DEF StepInv, P!Inv2, P!Inv1, P!TypeOK, P!Id, Id
  <1>2. shown' = [id \in Id |-> IF Uses(p, id) THEN ViewOf(table'[id]) ELSE shown[id]]
    BY DEF Leave, View
  <1>3. CASE Inside(p)
    <2>1. frame[p].mb \in Id BY <1>3, InsideFacts
    <2>2. \A id \in Id : Uses(p, id) <=> id = frame[p].mb BY <1>3 DEF Uses
    <2> QED BY <1>1, <1>2, <1>3, <2>1, <2>2 DEF Leave, Outside
  <1>4. CASE Outside(p)
    <2>1. \A id \in Id : ~Uses(p, id) BY <1>4 DEF Uses, Outside
    <2> QED BY <1>1, <1>2, <1>4, <2>1 DEF Leave, Outside
  <1> QED BY <1>3, <1>4 DEF Outside

(* Only p's call changes, and nobody is woken or signalled. *)
LEMMA OthersQuiet ==
    ASSUME StepInv, NEW p \in Proc, \A q \in Proc \ {p} : call'[q] = call[q],
           pstate' = pstate, signal' = signal
    PROVE  OthersKept(p)
  BY DEF StepInv, StretchesOK, OthersKept

LEMMA PendingFacts ==
    ASSUME StepInv, NEW p \in Proc
    PROVE  PendingOK(call[p])
  BY DEF StepInv, PendingCallsOK, PendingOK

(* p goes on with its stretch, and Messaging sees nothing of it. *)
LEMMA LocalStep ==
    ASSUME StepInv, NEW p \in Proc, Inside(p), NEW f \in Frame,
           f.op = frame[p].op, f.mb = frame[p].mb, f.at # "outside",
           Local(p, f), UNCHANGED Kernel,
           NEW b \in Box, table' = [table EXCEPT ![frame[p].mb] = b],
           Stage(p, f, b, shown[frame[p].mb], call[p])
    PROVE  UNCHANGED M!vars /\ StepInv'
  <1>1. UNCHANGED M!vars BY DEF Local, Kernel, M!vars
  <1>2. P!Inv2' BY <1>1, ShownStep DEF StepInv
  <1> DEFINE mb == frame[p].mb
  <1>3. /\ mb \in Id /\ Alone(p, mb) /\ pstate[p] = "ready"
        /\ call[p].op \in {"send", "receive"} => ~signal[p]
        /\ frame[p].op = "create" => mb = nextMailboxId
    BY InsideFacts
  <1>4. /\ table' \in [Id -> Box] /\ table'[mb] = b
        /\ \A id \in Id : id # mb => table'[id] = table[id]
    BY <1>3 DEF StepInv, FrameTypeOK
  <1>5. OthersKept(p) BY OthersQuiet DEF Kernel
  <1>6. PendingOK(call[p]) BY PendingFacts
  <1>7. frame' = [frame EXCEPT ![p] = f] /\ shown' = shown BY DEF Local
  <1> HIDE DEF mb
  <1>8. UNCHANGED <<nextMailboxId, call, pstate, signal>> BY DEF Kernel
  <1>9. StepInv'
    <2>1. f.mb = mb /\ (Inside(p) => frame[p].mb = mb) BY DEF mb
    <2>2. Stage(p, f, table'[mb], shown'[mb], call'[p]) BY <1>4, <1>7, <1>8 DEF mb
    <2>3. f.op = "create" => mb = nextMailboxId' BY <1>3, <1>8
    <2> QED BY <1>2, <1>3, <1>4, <1>5, <1>6, <1>7, <1>8, <2>1, <2>2, <2>3, Statement
  <1> QED BY <1>1, <1>9

(* p begins a stretch on mailbox f.mb. *)
LEMMA EnterStep ==
    ASSUME StepInv, NEW p \in Proc, Outside(p), NEW f \in Frame,
           f.at # "outside", f.mb \in Id, Enter(p, f), UNCHANGED Kernel,
           pstate[p] = "ready", call[p].op \in {"send", "receive"} => ~signal[p],
           f.op = "create" => f.mb = nextMailboxId,
           NEW b \in Box, table' = [table EXCEPT ![f.mb] = b],
           Stage(p, f, b, shown[f.mb], call[p])
    PROVE  UNCHANGED M!vars /\ StepInv'
  <1>1. UNCHANGED M!vars BY DEF Enter, Local, Kernel, M!vars
  <1>2. P!Inv2' BY <1>1, ShownStep DEF StepInv
  <1> DEFINE mb == f.mb
  <1>3. mb \in Id /\ Alone(p, mb) BY DEF Enter
  <1>4. /\ table' \in [Id -> Box] /\ table'[mb] = b
        /\ \A id \in Id : id # mb => table'[id] = table[id]
    BY <1>3 DEF StepInv, FrameTypeOK
  <1>5. OthersKept(p) BY OthersQuiet DEF Kernel
  <1>6. PendingOK(call[p]) BY PendingFacts
  <1>7. frame' = [frame EXCEPT ![p] = f] /\ shown' = shown BY DEF Enter, Local
  <1> HIDE DEF mb
  <1>8. UNCHANGED <<nextMailboxId, call, pstate, signal>> BY DEF Kernel
  <1>9. StepInv'
    <2>1. f.mb = mb /\ (Inside(p) => frame[p].mb = mb) BY DEF mb, Outside
    <2>2. Stage(p, f, table'[mb], shown'[mb], call'[p]) BY <1>4, <1>7, <1>8 DEF mb
    <2>3. f.op = "create" => mb = nextMailboxId' BY <1>8 DEF mb
    <2> QED BY <1>2, <1>3, <1>4, <1>5, <1>6, <1>7, <1>8, <2>1, <2>2, <2>3, Statement
  <1> QED BY <1>1, <1>9

(* p leaves its stretch, in a step of Messaging. *)
LEMMA LeaveStep ==
    ASSUME StepInv, NEW p \in Proc, Inside(p), Leave(p), [M!Next]_(M!vars),
           NEW b \in Box, table' = [table EXCEPT ![frame[p].mb] = b],
           OthersKept(p), PendingOK(call'[p]),
           nextMailboxId' = nextMailboxId \/ frame[p].mb = nextMailboxId
    PROVE  StepInv'
  <1> DEFINE mb == frame[p].mb
  <1>1. P!Inv2' BY ShownStep DEF StepInv
  <1>2. mb \in Id /\ Alone(p, mb) BY InsideFacts
  <1>3. frame' = [frame EXCEPT ![p] = NoFrame]
        /\ shown' = [shown EXCEPT ![mb] = ViewOf(table'[mb])]
    BY LeaveShown
  <1>4. shown \in [Id -> P!Mailbox]
    BY DEF StepInv, P!Inv2, P!Inv1, P!TypeOK, P!Id, Id
  <1>5. /\ table' \in [Id -> Box]
        /\ \A id \in Id : id # mb => table'[id] = table[id]
    BY <1>2 DEF StepInv, FrameTypeOK
  <1> HIDE DEF mb
  <1>6. /\ \A id \in Id : id # mb => shown'[id] = shown[id]
        /\ shown'[mb] = ViewOf(table'[mb])
    BY <1>2, <1>3, <1>4
  <1>7. /\ nextMailboxId' = nextMailboxId \/ mb = nextMailboxId
        /\ Inside(p) => frame[p].mb = mb
    BY DEF mb
  <1> QED BY <1>1, <1>2, <1>3, <1>5, <1>6, <1>7, NoFrameTyped, Statement

(* A step of Messaging that p takes outside of any stretch, and that does  *)
(* not change a mailbox.                                                   *)
LEMMA OutsideStep ==
    ASSUME StepInv, NEW p \in Proc, Outside(p), Leave(p), [M!Next]_(M!vars),
           table' = table, OthersKept(p), PendingOK(call'[p]),
           nextMailboxId' = nextMailboxId
    PROVE  StepInv'
  <1>1. P!Inv2' BY ShownStep DEF StepInv
  <1>2. frame' = [frame EXCEPT ![p] = NoFrame] /\ shown' = shown BY LeaveShown
  <1>3. table' \in [Id -> Box] BY DEF StepInv, FrameTypeOK
  <1>4. \A q \in Proc : Inside(q) => frame[q].mb \in Id BY InsideFacts
  <1>5. -1 \notin Id BY ConstantsAssumption DEF Id
  <1>6. Alone(p, -1) BY <1>4, <1>5 DEF Alone, Uses
  <1>7. Inside(p) => frame[p].mb = -1 BY DEF Outside
  <1> QED BY <1>1, <1>2, <1>3, <1>5, <1>6, <1>7, NoFrameTyped, Statement

-----------------------------------------------------------------------------
(* Turns of mailbox_send and mailbox_receive                               *)

LEMMA IdleFacts ==
    ASSUME StepInv, NEW p \in Proc, M!Idle(p)
    PROVE  pstate[p] = "ready" /\ call[p] = M!NoCall /\ call[p].op = "none"
  <1>1. P!IsFiniteSet(Proc) BY ConstantsAssumption DEF IsFiniteSet, P!IsFiniteSet
  <1>2. P!Idle(p) /\ call[p] = M!NoCall /\ call[p].op = "none"
    BY DEF M!Idle, P!Idle, M!NoCall, P!NoCall
  <1>3. P!Inv2 BY DEF StepInv
  <1>4. pstate[p] = "ready" BY <1>1, <1>2, <1>3, ConstantsAssumption, P!IdleReady
  <1> QED BY <1>2, <1>4

(* A call that is pending is on a mailbox of the table. *)
LEMMA PendingCall ==
    ASSUME StepInv, NEW p \in Proc, call[p].op # "none"
    PROVE  /\ call[p].mb \in Id
           /\ call[p].op = "send" => call[p].msg \in Msg
           /\ call[p].msg \in Msg \union {NoMsg} /\ call[p].size \in Int
           /\ call[p] = [op |-> call[p].op, mb |-> call[p].mb,
                         msg |-> call[p].msg, size |-> call[p].size]
  <1>1. P!TypeOK /\ P!CallOK BY DEF StepInv, P!Inv2, P!Inv1
  <1>2. call[p] \in P!Call BY <1>1 DEF P!TypeOK
  <1>3. /\ call[p].mb \in Id
        /\ call[p].op = "send" => call[p].msg \in Msg
    BY <1>1 DEF P!CallOK, P!Id, Id
  <1> QED BY <1>2, <1>3 DEF P!Call, P!Slot

(* p is given the turn of a call with these arguments: it has just called, *)
(* or it was asleep in that call and has not been interrupted.             *)
MaySend(p, id, m, wait) ==
    \/ M!Idle(p)
    \/ /\ wait
       /\ call[p] = [op |-> "send", mb |-> id, msg |-> m, size |-> 0]
       /\ pstate[p] = "ready" /\ ~signal[p] /\ shown[id].status # "released"

MayReceive(p, id, size, wait) ==
    \/ M!Idle(p) /\ size \in BufSizes
    \/ /\ wait
       /\ call[p] = [op |-> "receive", mb |-> id, msg |-> NoMsg, size |-> size]
       /\ pstate[p] = "ready" /\ ~signal[p] /\ shown[id].status # "released"

LEMMA SendTurnNext ==
    ASSUME NEW p \in Proc, NEW id \in M!MboxArg, NEW m \in Msg, NEW wait \in BOOLEAN,
           MaySend(p, id, m, wait), M!SendTurn(p, id, m, wait)
    PROVE  M!Next
  <1>1. CASE M!Idle(p) BY <1>1 DEF M!Send, M!Start, M!Next
  <1>2. CASE ~M!Idle(p)
    <2>1. /\ wait = TRUE
          /\ call[p].op = "send" /\ call[p].mb = id /\ call[p].msg = m
          /\ pstate[p] = "ready" /\ ~signal[p] /\ shown[id].status # "released"
      BY <1>2 DEF MaySend
    <2>2. M!SendRetry(p) BY <2>1 DEF M!SendRetry, M!Running, M!Interrupted
    <2> QED BY <2>2 DEF M!Continue, M!Next
  <1> QED BY <1>1, <1>2

LEMMA ReceiveTurnNext ==
    ASSUME NEW p \in Proc, NEW id \in M!MboxArg, NEW size, NEW wait \in BOOLEAN,
           MayReceive(p, id, size, wait), M!ReceiveTurn(p, id, size, wait)
    PROVE  M!Next
  <1>1. CASE M!Idle(p) /\ size \in BufSizes BY <1>1 DEF M!Receive, M!Start, M!Next
  <1>2. CASE ~(M!Idle(p) /\ size \in BufSizes)
    <2>1. /\ wait = TRUE
          /\ call[p].op = "receive" /\ call[p].mb = id /\ call[p].size = size
          /\ pstate[p] = "ready" /\ ~signal[p] /\ shown[id].status # "released"
      BY <1>2 DEF MayReceive
    <2>2. M!ReceiveRetry(p) BY <2>1 DEF M!ReceiveRetry, M!Running, M!Interrupted
    <2> QED BY <2>2 DEF M!Continue, M!Next
  <1> QED BY <1>1, <1>2

(* A return changes the call of p only. *)
LEMMA ReturnFacts ==
    ASSUME StepInv, NEW p \in Proc, NEW code, NEW m, M!Return(p, code, m)
    PROVE  /\ \A q \in Proc \ {p} : call'[q] = call[q]
           /\ PendingOK(call'[p])
  <1>1. call \in [Proc -> P!Call] BY DEF StepInv, P!Inv2, P!Inv1, P!TypeOK
  <1> QED BY <1>1 DEF M!Return, PendingOK, M!NoCall

(* A return that changes nothing is one of Messaging, if the mailbox is as *)
(* it is shown.                                                            *)
LEMMA AnswerFacts ==
    ASSUME StepInv, NEW p \in Proc, NEW code, Answer(p, code),
           Inside(p) => ViewOf(table[frame[p].mb]) = shown[frame[p].mb]
    PROVE  /\ M!Fail(p, code)
           /\ Leave(p) /\ table' = table /\ nextMailboxId' = nextMailboxId
           /\ OthersKept(p) /\ PendingOK(call'[p])
  <1>1. /\ Leave(p) /\ M!Return(p, code, NoMsg)
        /\ UNCHANGED <<table, nextMailboxId, pstate, signal>>
    BY DEF Answer, Return
  <1>2. shown' = shown
    <2>1. shown \in [Id -> P!Mailbox]
      BY DEF StepInv, P!Inv2, P!Inv1, P!TypeOK, P!Id, Id
    <2>2. CASE Inside(p)
      <3>1. shown' = [shown EXCEPT ![frame[p].mb] = ViewOf(table[frame[p].mb])]
        BY <1>1, <2>2, LeaveShown
      <3> QED BY <2>1, <2>2, <3>1
    <2>3. CASE Outside(p) BY <1>1, <2>3, LeaveShown
    <2> QED BY <2>2, <2>3 DEF Outside
  <1>3. M!Fail(p, code) BY <1>1, <1>2 DEF M!Fail
  <1>4. OthersKept(p) /\ PendingOK(call'[p]) BY <1>1, ReturnFacts, OthersQuiet
  <1> QED BY <1>1, <1>3, <1>4

(* An answer in the middle of a stretch ends it. *)
LEMMA InsideAnswer ==
    ASSUME StepInv, NEW p \in Proc, NEW code, Inside(p), Answer(p, code),
           ViewOf(table[frame[p].mb]) = shown[frame[p].mb],
           M!Fail(p, code) => M!Next
    PROVE  M!Next /\ StepInv'
  <1>1. /\ M!Fail(p, code)
        /\ Leave(p) /\ table' = table /\ nextMailboxId' = nextMailboxId
        /\ OthersKept(p) /\ PendingOK(call'[p])
    BY AnswerFacts
  <1>2. table[frame[p].mb] \in Box /\ frame[p].mb \in Id BY InsideFacts
  <1>3. table' = [table EXCEPT ![frame[p].mb] = table[frame[p].mb]]
    BY <1>1, <1>2 DEF StepInv, FrameTypeOK
  <1> QED BY <1>1, <1>2, <1>3, LeaveStep

LEMMA OutsideAnswer ==
    ASSUME StepInv, NEW p \in Proc, NEW code, Outside(p), Answer(p, code),
           M!Fail(p, code) => M!Next
    PROVE  M!Next /\ StepInv'
  <1>1. /\ M!Fail(p, code)
        /\ Leave(p) /\ table' = table /\ nextMailboxId' = nextMailboxId
        /\ OthersKept(p) /\ PendingOK(call'[p])
    BY AnswerFacts DEF Outside
  <1> QED BY <1>1, OutsideStep

(* the frames of the statements *)
LEMMA FrameAt ==
    ASSUME NEW f \in Frame,
           NEW l \in {"look", "copy", "size", "node", "link", "block", "shift", "pop",
                      "unblock", "slots"}
    PROVE  [f EXCEPT !.at = l] \in Frame
  BY DEF Frame

LEMMA FrameNumber ==
    ASSUME NEW f \in Frame, NEW i \in Int
    PROVE  [f EXCEPT !.i = i] \in Frame /\ [f EXCEPT !.n = i] \in Frame
  <1>1. [f EXCEPT !.i = i] \in Frame BY DEF Frame
  <1>2. [f EXCEPT !.n = i] \in Frame BY DEF Frame
  <1> QED BY <1>1, <1>2

LEMMA LookFrame ==
    ASSUME NEW f \in Frame, NEW op \in {"send", "receive"}
    PROVE  [f EXCEPT !.op = op, !.at = "look", !.i = 1] \in Frame
  <1> DEFINE g1 == [f EXCEPT !.op = op]
  <1>1. g1 \in Frame BY DEF Frame
  <1> HIDE DEF g1
  <1> DEFINE g2 == [g1 EXCEPT !.at = "look"]
  <1>2. g2 \in Frame BY <1>1 DEF Frame
  <1> HIDE DEF g2
  <1> DEFINE one == 1
  <1>3. one \in Int OBVIOUS
  <1> HIDE DEF one
  <1>4. [g2 EXCEPT !.i = one] \in Frame BY <1>2, <1>3, FrameNumber
  <1> QED BY <1>4 DEF g1, g2, one

LEMMA SendFrame ==
    ASSUME NEW id \in Int, NEW m \in Msg, NEW wait \in BOOLEAN
    PROVE  [NoFrame EXCEPT !.mb = id, !.msg = m, !.wait = wait] \in Frame
  <1>0. NoFrame \in Frame BY NoFrameTyped
  <1> USE ConstantsAssumption
  <1> DEFINE g1 == [NoFrame EXCEPT !.mb = id]
  <1>1. g1 \in Frame BY <1>0 DEF Frame
  <1> HIDE DEF g1
  <1> DEFINE g2 == [g1 EXCEPT !.msg = m]
  <1>2. g2 \in Frame BY <1>1 DEF Frame
  <1> HIDE DEF g2
  <1> DEFINE g3 == [g2 EXCEPT !.wait = wait]
  <1>3. g3 \in Frame BY <1>2 DEF Frame
  <1> HIDE DEF g3
  <1> QED BY <1>3 DEF g1, g2, g3

LEMMA ReceiveFrame ==
    ASSUME NEW id \in Int, NEW size \in Int, NEW wait \in BOOLEAN
    PROVE  [NoFrame EXCEPT !.mb = id, !.size = size, !.wait = wait] \in Frame
  <1>0. NoFrame \in Frame BY NoFrameTyped
  <1> USE ConstantsAssumption
  <1> DEFINE g1 == [NoFrame EXCEPT !.mb = id]
  <1>1. g1 \in Frame BY <1>0 DEF Frame
  <1> HIDE DEF g1
  <1> DEFINE g2 == [g1 EXCEPT !.size = size]
  <1>2. g2 \in Frame BY <1>1 DEF Frame
  <1> HIDE DEF g2
  <1> DEFINE g3 == [g2 EXCEPT !.wait = wait]
  <1>3. g3 \in Frame BY <1>2 DEF Frame
  <1> HIDE DEF g3
  <1> QED BY <1>3 DEF g1, g2, g3

LEMMA AwakeFrame ==
    ASSUME NEW id \in Int, NEW m \in Msg \union {NoMsg}, NEW size \in Int
    PROVE  [NoFrame EXCEPT !.mb = id, !.msg = m, !.size = size, !.wait = TRUE] \in Frame
  <1>0. NoFrame \in Frame BY NoFrameTyped
  <1> USE ConstantsAssumption
  <1> DEFINE g1 == [NoFrame EXCEPT !.mb = id]
  <1>1. g1 \in Frame BY <1>0 DEF Frame
  <1> HIDE DEF g1
  <1> DEFINE g2 == [g1 EXCEPT !.msg = m]
  <1>2. g2 \in Frame BY <1>1 DEF Frame
  <1> HIDE DEF g2
  <1> DEFINE g3 == [g2 EXCEPT !.size = size]
  <1>3. g3 \in Frame BY <1>2 DEF Frame
  <1> HIDE DEF g3
  <1> DEFINE g4 == [g3 EXCEPT !.wait = TRUE]
  <1>4. g4 \in Frame BY <1>3 DEF Frame
  <1> HIDE DEF g4
  <1> QED BY <1>4 DEF g1, g2, g3, g4

LEMMA SendTurnStep ==
    ASSUME StepInv, NEW p \in Proc, Outside(p), NEW f \in Frame,
           f.mb \in M!MboxArg, f.msg \in Msg, f.size = 0,
           MaySend(p, f.mb, f.msg, f.wait), Turn(p, "send", f)
    PROVE  [M!Next]_(M!vars) /\ StepInv'
  <1> DEFINE id == f.mb
             g == [f EXCEPT !.op = "send", !.at = "look", !.i = 1]
  <1>1. Alone(p, id) BY DEF Turn
  <1>2. id \in Id => /\ shown[id] = ViewOf(table[id]) /\ table[id] \in Box
                     /\ shown[id].status = table[id].status
                     /\ shown[id].slotSize = table[id].slotSize
    BY <1>1, OutsideFacts, ViewTyped
  <1>3. Valid("send", f) <=> M!SendValid(id, f.msg)
    BY <1>2 DEF Valid, M!SendValid, M!Id, Id
  <1>4. CASE ~Valid("send", f)
    <2>1. Answer(p, -1) BY <1>4 DEF Turn
    <2>2. ASSUME M!Fail(p, -1) PROVE M!Next
      <3>1. M!SendTurn(p, id, f.msg, f.wait)
        BY <1>3, <1>4, <2>2 DEF M!SendTurn, M!SendInvalid
      <3>2. f.wait \in BOOLEAN BY DEF Frame
      <3> QED BY <3>1, <3>2, SendTurnNext
    <2> QED BY <2>1, <2>2, OutsideAnswer
  <1>5. CASE Valid("send", f)
    <2>1. Enter(p, g) /\ UNCHANGED <<table, Kernel>> BY <1>5 DEF Turn
    <2>2. id \in Id /\ shown[id].status # "released" /\ Size[f.msg] <= shown[id].slotSize
      BY <1>2, <1>5 DEF Valid
    <2>0. g \in Frame BY LookFrame
    <2>3. /\ g.at = "look" /\ g.op = "send" /\ g.mb = id /\ g.i = 1
          /\ g.msg = f.msg /\ g.size = f.size /\ g.wait = f.wait
      BY DEF Frame
    <2>4. pstate[p] = "ready" /\ (call[p].op \in {"send", "receive"} => ~signal[p])
      BY IdleFacts DEF MaySend
    <2>5. call[p] = M!NoCall \/ (g.wait /\ call[p] = CallRecord("send", g))
      BY <2>3 DEF MaySend, M!Idle, CallRecord
    <2>6. table[id] \in Box /\ table' = [table EXCEPT ![id] = table[id]]
      BY <1>2, <2>1, <2>2 DEF StepInv, FrameTypeOK
    <2> HIDE DEF g
    <2>7. Len(shown[id].slots) \in Nat BY <1>2, <2>2, ViewTyped
    <2>8. Stage(p, g, table[id], shown[id], call[p])
      BY <1>2, <2>2, <2>3, <2>5, <2>7 DEF Stage, InSend, AllFull
    <2>9. UNCHANGED Kernel BY <2>1
    <2>10. UNCHANGED M!vars /\ StepInv'
      BY <2>0, <2>1, <2>2, <2>3, <2>4, <2>6, <2>8, <2>9, EnterStep
    <2> QED BY <2>10
  <1> QED BY <1>4, <1>5

LEMMA ReceiveTurnStep ==
    ASSUME StepInv, NEW p \in Proc, Outside(p), NEW f \in Frame,
           f.mb \in M!MboxArg, f.msg = NoMsg,
           MayReceive(p, f.mb, f.size, f.wait), Turn(p, "receive", f)
    PROVE  [M!Next]_(M!vars) /\ StepInv'
  <1> DEFINE id == f.mb
             g == [f EXCEPT !.op = "receive", !.at = "look", !.i = 1]
  <1>1. Alone(p, id) BY DEF Turn
  <1>2. id \in Id => /\ shown[id] = ViewOf(table[id]) /\ table[id] \in Box
                     /\ shown[id].status = table[id].status
                     /\ shown[id].slotSize = table[id].slotSize
    BY <1>1, OutsideFacts, ViewTyped
  <1>3. Valid("receive", f) <=> M!ReceiveValid(id, f.size)
    BY <1>2 DEF Valid, M!ReceiveValid, M!Id, Id
  <1>4. CASE ~Valid("receive", f)
    <2>1. Answer(p, -1) BY <1>4 DEF Turn
    <2>2. ASSUME M!Fail(p, -1) PROVE M!Next
      <3>1. M!ReceiveTurn(p, id, f.size, f.wait)
        BY <1>3, <1>4, <2>2 DEF M!ReceiveTurn, M!ReceiveInvalid
      <3>2. f.wait \in BOOLEAN BY DEF Frame
      <3> QED BY <3>1, <3>2, ReceiveTurnNext
    <2> QED BY <2>1, <2>2, OutsideAnswer
  <1>5. CASE Valid("receive", f)
    <2>1. Enter(p, g) /\ UNCHANGED <<table, Kernel>> BY <1>5 DEF Turn
    <2>2. id \in Id /\ shown[id].status # "released" /\ f.size >= shown[id].slotSize
      BY <1>2, <1>5 DEF Valid
    <2>0. g \in Frame BY LookFrame
    <2>3. /\ g.at = "look" /\ g.op = "receive" /\ g.mb = id /\ g.i = 1
          /\ g.msg = f.msg /\ g.size = f.size /\ g.wait = f.wait
      BY DEF Frame
    <2>4. pstate[p] = "ready" /\ (call[p].op \in {"send", "receive"} => ~signal[p])
      BY IdleFacts DEF MayReceive
    <2>5. \/ call[p] = M!NoCall /\ g.size \in BufSizes
          \/ g.wait /\ call[p] = CallRecord("receive", g)
      BY <2>3 DEF MayReceive, M!Idle, CallRecord
    <2>6. table[id] \in Box /\ table' = [table EXCEPT ![id] = table[id]]
      BY <1>2, <2>1, <2>2 DEF StepInv, FrameTypeOK
    <2> HIDE DEF g
    <2>7. Len(shown[id].slots) \in Nat BY <1>2, <2>2, ViewTyped
    <2>8. Stage(p, g, table[id], shown[id], call[p])
      BY <1>2, <2>2, <2>3, <2>5, <2>7 DEF Stage, InReceive, AllEmpty
    <2>9. UNCHANGED Kernel BY <2>1
    <2>10. UNCHANGED M!vars /\ StepInv'
      BY ZenonT(60), <2>0, <2>1, <2>2, <2>3, <2>4, <2>6, <2>8, <2>9, EnterStep
    <2> QED BY <2>10
  <1> QED BY <1>4, <1>5

LEMMA StartStep ==
    ASSUME StepInv, NEW p \in Proc, SendStart(p) \/ ReceiveStart(p)
    PROVE  [M!Next]_(M!vars) /\ StepInv'
  <1> USE ConstantsAssumption
  <1>1. ASSUME NEW id \in M!MboxArg, NEW m \in Msg, NEW wait \in BOOLEAN,
               Outside(p), M!Idle(p),
               Turn(p, "send", [NoFrame EXCEPT !.mb = id, !.msg = m, !.wait = wait])
        PROVE  [M!Next]_(M!vars) /\ StepInv'
    <2> DEFINE f == [NoFrame EXCEPT !.mb = id, !.msg = m, !.wait = wait]
    <2>0. id \in Int BY DEF M!MboxArg
    <2>1. f \in Frame BY <2>0, SendFrame
    <2>3. f.mb = id /\ f.msg = m /\ f.size = 0 /\ f.wait = wait BY DEF NoFrame
    <2>2. MaySend(p, f.mb, f.msg, f.wait) BY <1>1 DEF MaySend
    <2> HIDE DEF f
    <2>4. Turn(p, "send", f) BY <1>1 DEF f
    <2> QED BY <1>1, <2>1, <2>2, <2>3, <2>4, SendTurnStep
  <1>2. ASSUME NEW id \in M!MboxArg, NEW size \in BufSizes, NEW wait \in BOOLEAN,
               Outside(p), M!Idle(p),
               Turn(p, "receive", [NoFrame EXCEPT !.mb = id, !.size = size, !.wait = wait])
        PROVE  [M!Next]_(M!vars) /\ StepInv'
    <2> DEFINE f == [NoFrame EXCEPT !.mb = id, !.size = size, !.wait = wait]
    <2>0. id \in Int /\ size \in Int BY DEF M!MboxArg
    <2>1. f \in Frame BY <2>0, ReceiveFrame
    <2>3. f.mb = id /\ f.msg = NoMsg /\ f.size = size BY DEF NoFrame
    <2>2. MayReceive(p, f.mb, f.size, f.wait) BY <1>2, <2>3 DEF MayReceive
    <2> HIDE DEF f
    <2>4. Turn(p, "receive", f) BY <1>2 DEF f
    <2> QED BY <1>2, <2>1, <2>2, <2>3, <2>4, ReceiveTurnStep
  <1> QED BY <1>1, <1>2 DEF SendStart, ReceiveStart

(* block() has returned *)
LEMMA AwakeStep ==
    ASSUME StepInv, NEW p \in Proc, NEW op \in {"send", "receive"}, Awake(p, op)
    PROVE  [M!Next]_(M!vars) /\ StepInv'
  <1> DEFINE id == call[p].mb
             f == [NoFrame EXCEPT !.mb = id, !.msg = call[p].msg,
                                  !.size = call[p].size, !.wait = TRUE]
  <1>1. Outside(p) /\ Alone(p, id) /\ call[p].op = op /\ pstate[p] = "ready"
    BY DEF Awake, M!Running
  <1>2. /\ id \in Id /\ (op = "send" => call[p].msg \in Msg)
        /\ call[p].msg \in Msg \union {NoMsg} /\ call[p].size \in Int
        /\ call[p] = [op |-> op, mb |-> id, msg |-> call[p].msg, size |-> call[p].size]
    BY <1>1, PendingCall
  <1>3. (op = "send" => call[p].size = 0) /\ (op = "receive" => call[p].msg = NoMsg)
    BY <1>1, PendingFacts DEF PendingOK
  <1>4. shown[id].status = table[id].status
    BY <1>1, <1>2, OutsideFacts, ViewTyped
  <1>5. CASE signal[p] \/ table[id].status = "released"
    <2>1. Answer(p, -5) BY <1>5 DEF Awake
    <2>2. ASSUME M!Fail(p, -5) PROVE M!Next
      <3>1. M!SendInterrupted(p) \/ M!ReceiveInterrupted(p)
        BY <1>1, <1>4, <1>5, <2>2
           DEF M!SendInterrupted, M!ReceiveInterrupted, M!Running, M!Interrupted
      <3> QED BY <3>1 DEF M!Continue, M!Next
    <2> QED BY <1>1, <2>1, <2>2, OutsideAnswer
  <1>6. CASE ~(signal[p] \/ table[id].status = "released")
    <2>1. Turn(p, op, f) BY <1>6 DEF Awake
    <2>0. id \in Int BY <1>2 DEF Id
    <2>2. /\ f \in Frame /\ f.mb = id /\ f.msg = call[p].msg
          /\ f.size = call[p].size /\ f.wait = TRUE
      <3>1. f \in Frame BY <1>2, <2>0, AwakeFrame
      <3>2. /\ f.mb = id /\ f.msg = call[p].msg
            /\ f.size = call[p].size /\ f.wait = TRUE
        BY DEF NoFrame
      <3> QED BY <3>1, <3>2
    <2>3. id \in M!MboxArg BY <1>2, ConstantsAssumption DEF Id, M!MboxArg
    <2> HIDE DEF f
    <2>4. CASE op = "send"
      <3>1. MaySend(p, f.mb, f.msg, f.wait)
        BY <1>1, <1>2, <1>3, <1>4, <1>6, <2>2, <2>4 DEF MaySend
      <3> QED BY <1>1, <1>2, <1>3, <2>1, <2>2, <2>3, <2>4, <3>1, SendTurnStep
    <2>5. CASE op = "receive"
      <3>1. MayReceive(p, f.mb, f.size, f.wait)
        BY <1>1, <1>2, <1>3, <1>4, <1>6, <2>2, <2>5 DEF MayReceive
      <3> QED BY <1>1, <1>3, <2>1, <2>2, <2>3, <2>5, <3>1, ReceiveTurnStep
    <2> QED BY <2>4, <2>5
  <1> QED BY <1>5, <1>6

-----------------------------------------------------------------------------
(* Inside a turn of mailbox_send or mailbox_receive                        *)

LEMMA SendFacts ==
    ASSUME StepInv, NEW p \in Proc, Inside(p), frame[p].op = "send"
    PROVE  LET f == frame[p]
               s == shown[f.mb]
           IN  /\ InSend(p, f, table[f.mb], s, call[p])
               /\ f.mb \in M!MboxArg /\ f.msg \in Msg /\ f.wait \in BOOLEAN
               /\ MaySend(p, f.mb, f.msg, f.wait)
               /\ M!SendValid(f.mb, f.msg)
               /\ AllFull(s.slots, 1, Len(s.slots)) => M!NoRoom(f.mb, f.msg)
  <1> DEFINE f == frame[p]
             s == shown[f.mb]
  <1>1. /\ f \in Frame /\ f.mb \in Id /\ pstate[p] = "ready" /\ s \in P!Mailbox
        /\ call[p].op \in {"send", "receive"} => ~signal[p]
        /\ Stage(p, f, table[f.mb], s, call[p])
    BY InsideFacts
  <1>2. InSend(p, f, table[f.mb], s, call[p]) BY <1>1 DEF Stage
  <1>3. f.mb \in M!MboxArg /\ f.mb \in M!Id
    BY <1>1, ConstantsAssumption DEF M!MboxArg, M!Id, Id
  <1>4. f.wait \in BOOLEAN BY <1>1 DEF Frame
  <1>5. /\ f.msg \in Msg /\ s.status # "released" /\ Size[f.msg] <= s.slotSize
        /\ call[p] = M!NoCall \/ (f.wait /\ call[p] = CallRecord("send", f))
    BY <1>2 DEF InSend
  <1>6. MaySend(p, f.mb, f.msg, f.wait)
    BY <1>1, <1>5 DEF MaySend, M!Idle, CallRecord
  <1>7. M!SendValid(f.mb, f.msg) BY <1>3, <1>5 DEF M!SendValid
  <1>8. ASSUME AllFull(s.slots, 1, Len(s.slots)) PROVE M!EmptySlots(f.mb) = {}
    <2>1. DOMAIN s.slots = 1 .. Len(s.slots) BY <1>1 DEF P!Mailbox
    <2> QED BY <1>8, <2>1 DEF M!EmptySlots, AllFull
  <1> HIDE DEF f, s
  <1>9. AllFull(s.slots, 1, Len(s.slots)) => M!NoRoom(f.mb, f.msg)
    BY <1>7, <1>8 DEF M!NoRoom
  <1> QED BY <1>2, <1>3, <1>4, <1>5, <1>6, <1>7, <1>9 DEF f, s

LEMMA ReceiveFacts ==
    ASSUME StepInv, NEW p \in Proc, Inside(p), frame[p].op = "receive"
    PROVE  LET f == frame[p]
               s == shown[f.mb]
           IN  /\ InReceive(p, f, table[f.mb], s, call[p])
               /\ f.mb \in M!MboxArg /\ f.size \in Int /\ f.wait \in BOOLEAN
               /\ MayReceive(p, f.mb, f.size, f.wait)
               /\ M!ReceiveValid(f.mb, f.size)
               /\ AllEmpty(s.slots, 1, Len(s.slots)) => M!NothingThere(f.mb, f.size)
  <1> DEFINE f == frame[p]
             s == shown[f.mb]
  <1>1. /\ f \in Frame /\ f.mb \in Id /\ pstate[p] = "ready" /\ s \in P!Mailbox
        /\ call[p].op \in {"send", "receive"} => ~signal[p]
        /\ Stage(p, f, table[f.mb], s, call[p])
    BY InsideFacts
  <1>2. InReceive(p, f, table[f.mb], s, call[p]) BY <1>1 DEF Stage
  <1>3. f.mb \in M!MboxArg /\ f.mb \in M!Id
    BY <1>1, ConstantsAssumption DEF M!MboxArg, M!Id, Id
  <1>4. f.wait \in BOOLEAN /\ f.size \in Int BY <1>1 DEF Frame
  <1>5. /\ s.status # "released" /\ f.size >= s.slotSize
        /\ \/ call[p] = M!NoCall /\ f.size \in BufSizes
           \/ f.wait /\ call[p] = CallRecord("receive", f)
    BY <1>2 DEF InReceive
  <1>6. MayReceive(p, f.mb, f.size, f.wait)
    BY <1>1, <1>5 DEF MayReceive, M!Idle, CallRecord
  <1>7. M!ReceiveValid(f.mb, f.size) BY <1>3, <1>5 DEF M!ReceiveValid
  <1>8. ASSUME AllEmpty(s.slots, 1, Len(s.slots)) PROVE M!FullSlots(f.mb) = {}
    <2>1. DOMAIN s.slots = 1 .. Len(s.slots) BY <1>1 DEF P!Mailbox
    <2> QED BY <1>8, <2>1 DEF M!FullSlots, AllEmpty
  <1> HIDE DEF f, s
  <1>9. AllEmpty(s.slots, 1, Len(s.slots)) => M!NothingThere(f.mb, f.size)
    BY <1>7, <1>8 DEF M!NothingThere
  <1> QED BY <1>2, <1>3, <1>4, <1>5, <1>6, <1>7, <1>9 DEF f, s

(* A process that makes its node is in a turn that has to block. *)
LEMMA ListingFacts ==
    ASSUME StepInv, NEW p \in Proc, NEW op \in {"send", "receive"},
           At(p, op, "node") \/ At(p, op, "link") \/ At(p, op, "block")
    PROVE  LET f == frame[p]
               s == shown[f.mb]
           IN  /\ Inside(p) /\ f.op = op /\ f.wait = TRUE
               /\ Listing(p, op, f, table[f.mb], s)
               /\ op = "send" => AllFull(s.slots, 1, Len(s.slots))
               /\ op = "receive" => AllEmpty(s.slots, 1, Len(s.slots)) /\ f.msg = NoMsg
  <1> DEFINE f == frame[p]
             s == shown[f.mb]
  <1>1. Inside(p) /\ f.op = op /\ f.at \in {"node", "link", "block"}
    BY DEF At, Inside
  <1>2. f \in Frame BY <1>1, InsideFacts
  <1>3. CASE op = "send"
    <2>1. InSend(p, f, table[f.mb], s, call[p]) BY <1>1, <1>3, SendFacts
    <2> QED BY <1>1, <1>2, <1>3, <2>1 DEF InSend, Listing, Frame
  <1>4. CASE op = "receive"
    <2>1. InReceive(p, f, table[f.mb], s, call[p]) BY <1>1, <1>4, ReceiveFacts
    <2> QED BY <1>1, <1>2, <1>4, <2>1 DEF InReceive, Listing, Frame
  <1> QED BY <1>3, <1>4

(* The place of the node is found, or malloc fails; the node is linked. *)
LEMMA ListStage ==
    ASSUME StepInv, NEW p \in Proc, NEW op \in {"send", "receive"},
           At(p, op, "node") \/ At(p, op, "link") \/ At(p, op, "block"),
           NEW g \in Frame, NEW b,
           g.op = op, g.at \in {"node", "link", "block"},
           g.msg = frame[p].msg, g.size = frame[p].size, g.wait = frame[p].wait,
           g.mb = frame[p].mb, Listing(p, op, g, b, shown[g.mb])
    PROVE  Stage(p, g, b, shown[g.mb], call[p])
  <1> DEFINE f == frame[p]
             s == shown[f.mb]
  <1>1. /\ Inside(p) /\ f.op = op /\ f.wait = TRUE
        /\ op = "send" => AllFull(s.slots, 1, Len(s.slots))
        /\ op = "receive" => AllEmpty(s.slots, 1, Len(s.slots)) /\ f.msg = NoMsg
    BY ListingFacts
  <1>2. CallRecord(op, g) = CallRecord(op, f) BY DEF CallRecord
  <1>3. CASE op = "send"
    <2>1. InSend(p, f, table[f.mb], s, call[p]) BY <1>1, <1>3, SendFacts
    <2>2. InSend(p, g, b, s, call[p]) BY <1>1, <1>2, <1>3, <2>1 DEF InSend
    <2> QED BY <1>3, <2>2 DEF Stage
  <1>4. CASE op = "receive"
    <2>1. InReceive(p, f, table[f.mb], s, call[p]) BY <1>1, <1>4, ReceiveFacts
    <2>2. InReceive(p, g, b, s, call[p]) BY <1>1, <1>2, <1>4, <2>1 DEF InReceive
    <2> QED BY <1>4, <2>2 DEF Stage
  <1> QED BY <1>3, <1>4

LEMMA NoMemoryAnswer ==
    ASSUME StepInv, NEW p \in Proc, NEW op \in {"send", "receive"},
           At(p, op, "node"), MallocMayFail, Answer(p, -1)
    PROVE  M!Next /\ StepInv'
  <1> DEFINE f == frame[p]
             s == shown[f.mb]
  <1>1. /\ Inside(p) /\ f.op = op /\ f.wait = TRUE
        /\ op = "send" => AllFull(s.slots, 1, Len(s.slots))
        /\ op = "receive" => AllEmpty(s.slots, 1, Len(s.slots))
        /\ ViewOf(table[f.mb]) = s
    BY ListingFacts DEF Listing, At
  <1>2. ASSUME M!Fail(p, -1) PROVE M!Next
    <2>1. CASE op = "send"
      <3>1. /\ f.mb \in M!MboxArg /\ f.msg \in Msg /\ f.wait \in BOOLEAN
            /\ MaySend(p, f.mb, f.msg, f.wait) /\ M!NoRoom(f.mb, f.msg)
        BY <1>1, <2>1, SendFacts
      <3>2. M!SendTurn(p, f.mb, f.msg, f.wait)
        BY <1>1, <1>2, <3>1 DEF M!SendTurn, M!SendNoMemory
      <3> QED BY <3>1, <3>2, SendTurnNext
    <2>2. CASE op = "receive"
      <3>1. /\ f.mb \in M!MboxArg /\ f.wait \in BOOLEAN
            /\ MayReceive(p, f.mb, f.size, f.wait) /\ M!NothingThere(f.mb, f.size)
        BY <1>1, <2>2, ReceiveFacts
      <3>2. M!ReceiveTurn(p, f.mb, f.size, f.wait)
        BY <1>1, <1>2, <3>1 DEF M!ReceiveTurn, M!ReceiveNoMemory
      <3> QED BY <3>1, <3>2, ReceiveTurnNext
    <2> QED BY <2>1, <2>2
  <1> QED BY <1>1, <1>2, InsideAnswer

LEMMA FindTailStep ==
    ASSUME StepInv, NEW p \in Proc, NEW op \in {"send", "receive"}, FindTail(p, op)
    PROVE  [M!Next]_(M!vars) /\ StepInv'
  <1> DEFINE f == frame[p]
             b == table[f.mb]
             s == shown[f.mb]
             h == [f EXCEPT !.at = "link"]
             n == Len(ListIn(b, op))
             g == [h EXCEPT !.n = n]
  <1>1. At(p, op, "node") BY DEF FindTail
  <1>2. CASE MallocMayFail /\ Answer(p, -1) BY <1>1, <1>2, NoMemoryAnswer
  <1>3. CASE Local(p, g) /\ UNCHANGED <<table, Kernel>>
    <2>1. Inside(p) /\ f.op = op /\ f.wait = TRUE /\ ViewOf(b) = s
      BY <1>1, ListingFacts DEF Listing, At
    <2>2. f \in Frame /\ f.mb \in Id /\ b \in Box BY <2>1, InsideFacts
    <2>3. ListIn(b, op) \in Seq(Proc) /\ ListIn(b, op) = ListIn(s, op)
      BY <2>1, <2>2, ViewListIn
    <2>4. n \in Int /\ n = Len(ListIn(s, op)) BY <2>3
    <2>5. h \in Frame BY <2>2, FrameAt
    <2>6. /\ h.at = "link" /\ h.op = op /\ h.mb = f.mb /\ h.msg = f.msg
          /\ h.size = f.size /\ h.wait = f.wait
      BY <2>1, <2>2 DEF Frame
    <2>7. Local(p, g) /\ UNCHANGED <<table, Kernel>> BY <1>3
    <2> HIDE DEF n, h
    <2>8. g \in Frame BY <2>4, <2>5, FrameNumber
    <2>9. /\ g.at = "link" /\ g.op = op /\ g.mb = f.mb /\ g.msg = f.msg
          /\ g.size = f.size /\ g.wait = f.wait /\ g.n = n
      BY <2>5, <2>6 DEF Frame
    <2> HIDE DEF g
    <2>10. Listing(p, op, g, b, s) BY <2>1, <2>4, <2>9 DEF Listing
    <2>11. Stage(p, g, b, s, call[p])
      BY <1>1, <2>8, <2>9, <2>10, ListStage
    <2>12. table' = [table EXCEPT ![f.mb] = b] /\ UNCHANGED Kernel
      BY <2>2, <2>7 DEF StepInv, FrameTypeOK
    <2>13. g.op = f.op /\ g.at # "outside" BY <2>1, <2>9
    <2>14. UNCHANGED M!vars /\ StepInv'
      BY <2>1, <2>2, <2>7, <2>8, <2>9, <2>11, <2>12, <2>13, LocalStep
    <2> QED BY <2>14
  <1> QED BY <1>2, <1>3 DEF FindTail

LEMMA LinkStep ==
    ASSUME StepInv, NEW p \in Proc, NEW op \in {"send", "receive"}, Link(p, op)
    PROVE  [M!Next]_(M!vars) /\ StepInv'
  <1> DEFINE f == frame[p]
             b == table[f.mb]
             s == shown[f.mb]
             g == [f EXCEPT !.at = "block"]
             l == ListIn(b, op)
             c == WithList(b, op, Append(l, p))
  <1>1. /\ At(p, op, "link") /\ Local(p, g) /\ UNCHANGED Kernel
        /\ table' = [table EXCEPT ![f.mb] = WithList(b, op, Append(SubSeq(l, 1, f.n), p))]
    BY DEF Link, Go
  <1>2. Inside(p) /\ f.op = op /\ f.wait = TRUE /\ ViewOf(b) = s /\ f.n = Len(ListIn(s, op))
    BY <1>1, ListingFacts DEF Listing, At
  <1>3. f \in Frame /\ f.mb \in Id /\ b \in Box BY <1>2, InsideFacts
  <1>4. l \in Seq(Proc) /\ ListIn(s, op) = l BY <1>2, <1>3, ViewListIn
  <1>5. SubSeq(l, 1, f.n) = l BY <1>2, <1>4, SubSeqFull
  <1> HIDE DEF l
  <1> DEFINE t == Append(l, p)
  <1>6. t \in Seq(Proc) BY <1>4, AppendProperties
  <1> HIDE DEF t
  <1>7. c \in Box /\ ViewOf(c) = WithList(s, op, Append(ListIn(s, op), p))
    <2>1. WithList(b, op, t) \in Box /\ ViewOf(WithList(b, op, t)) = WithList(ViewOf(b), op, t)
      BY <1>3, <1>6, ViewList
    <2>2. c = WithList(b, op, t) /\ t = Append(ListIn(s, op), p) BY <1>4 DEF t
    <2> HIDE DEF c
    <2> QED BY <1>2, <2>1, <2>2
  <1>8. table' = [table EXCEPT ![f.mb] = c] BY <1>1, <1>5
  <1>9. g \in Frame BY <1>3, FrameAt
  <1>10. /\ g.at = "block" /\ g.op = op /\ g.mb = f.mb /\ g.msg = f.msg
         /\ g.size = f.size /\ g.wait = f.wait
    BY <1>2, <1>3 DEF Frame
  <1> HIDE DEF c, g
  <1>11. Listing(p, op, g, c, s) BY <1>2, <1>7, <1>10 DEF Listing
  <1>12. Stage(p, g, c, s, call[p]) BY <1>1, <1>9, <1>10, <1>11, ListStage
  <1>13. g.op = f.op /\ g.at # "outside" BY <1>2, <1>10
  <1>14. UNCHANGED M!vars /\ StepInv'
    BY <1>1, <1>2, <1>7, <1>8, <1>9, <1>10, <1>12, <1>13, LocalStep
  <1> QED BY <1>14

LEMMA BlockStep ==
    ASSUME StepInv, NEW p \in Proc, NEW op \in {"send", "receive"}, Block(p, op)
    PROVE  [M!Next]_(M!vars) /\ StepInv'
  <1> DEFINE f == frame[p]
             b == table[f.mb]
             s == shown[f.mb]
             r == [op |-> op, mb |-> f.mb, msg |-> f.msg, size |-> f.size]
  <1>1. At(p, op, "block") /\ table' = table /\ Leave(p) /\ M!Block(p, r)
    BY DEF Block
  <1>2. /\ Inside(p) /\ f.op = op /\ f.wait = TRUE
        /\ ViewOf(b) = WithList(s, op, Append(ListIn(s, op), p))
        /\ op = "send" => AllFull(s.slots, 1, Len(s.slots))
        /\ op = "receive" => AllEmpty(s.slots, 1, Len(s.slots)) /\ f.msg = NoMsg
    BY <1>1, ListingFacts DEF Listing, At
  <1>3. f \in Frame /\ f.mb \in Id /\ b \in Box BY <1>2, InsideFacts
  <1>4. shown' = [shown EXCEPT ![f.mb] = WithList(s, op, Append(ListIn(s, op), p))]
    BY <1>1, <1>2, LeaveShown
  <1>5. ASSUME op = "send" PROVE M!Next
    <2>1. /\ f.mb \in M!MboxArg /\ f.msg \in Msg /\ f.wait \in BOOLEAN
          /\ InSend(p, f, b, s, call[p])
          /\ MaySend(p, f.mb, f.msg, f.wait) /\ M!NoRoom(f.mb, f.msg)
      BY <1>2, <1>5, SendFacts
    <2>2. r = [op |-> "send", mb |-> f.mb, msg |-> f.msg, size |-> 0]
      BY <1>5, <2>1 DEF InSend
    <2>3. shown' = [shown EXCEPT ![f.mb].blockedSendList = Append(@, p)]
      BY <1>4, <1>5 DEF WithList, ListIn
    <2>4. M!SendBlock(p, f.mb, f.msg) BY <1>1, <2>1, <2>2, <2>3 DEF M!SendBlock
    <2>5. M!SendTurn(p, f.mb, f.msg, f.wait) BY <1>2, <2>4 DEF M!SendTurn
    <2> QED BY <2>1, <2>5, SendTurnNext
  <1>6. ASSUME op = "receive" PROVE M!Next
    <2>1. /\ f.mb \in M!MboxArg /\ f.wait \in BOOLEAN
          /\ MayReceive(p, f.mb, f.size, f.wait) /\ M!NothingThere(f.mb, f.size)
      BY <1>2, <1>6, ReceiveFacts
    <2>2. r = [op |-> "receive", mb |-> f.mb, msg |-> NoMsg, size |-> f.size]
      BY <1>2, <1>6
    <2>3. shown' = [shown EXCEPT ![f.mb].blockedReceiveList = Append(@, p)]
      BY <1>4, <1>6 DEF WithList, ListIn
    <2>4. M!ReceiveBlock(p, f.mb, f.size) BY <1>1, <2>1, <2>2, <2>3 DEF M!ReceiveBlock
    <2>5. M!ReceiveTurn(p, f.mb, f.size, f.wait) BY <1>2, <2>4 DEF M!ReceiveTurn
    <2> QED BY <2>1, <2>5, ReceiveTurnNext
  <1>7. M!Next BY <1>5, <1>6
  <1>8. /\ \A q \in Proc \ {p} : call'[q] = call[q] /\ pstate'[q] = pstate[q]
        /\ call'[p] = r /\ signal' = signal /\ nextMailboxId' = nextMailboxId
    <2>1. P!TypeOK BY DEF StepInv, P!Inv2, P!Inv1
    <2> HIDE DEF r
    <2> QED BY <1>1, <2>1 DEF M!Block, P!TypeOK
  <1>9. PendingOK(call'[p])
    <2>1. CASE op = "send"
      <3>1. f.size = 0 BY <1>2, <2>1, SendFacts DEF InSend
      <3> QED BY <1>8, <2>1, <3>1 DEF PendingOK
    <2>2. CASE op = "receive" BY <1>2, <1>8, <2>2 DEF PendingOK
    <2> QED BY <2>1, <2>2
  <1>10. OthersKept(p) BY <1>8 DEF OthersKept, StepInv, StretchesOK
  <1>11. table' = [table EXCEPT ![f.mb] = b] BY <1>1, <1>3 DEF StepInv, FrameTypeOK
  <1> QED BY <1>1, <1>2, <1>3, <1>7, <1>8, <1>9, <1>10, <1>11, LeaveStep

LEMMA SleepStep ==
    ASSUME StepInv, NEW p \in Proc, NEW op \in {"send", "receive"}, Sleep(p, op)
    PROVE  [M!Next]_(M!vars) /\ StepInv'
  BY FindTailStep, LinkStep, BlockStep DEF Sleep

-----------------------------------------------------------------------------
(* mailbox_send                                                            *)

LEMMA SendLookStep ==
    ASSUME StepInv, NEW p \in Proc, SendLook(p)
    PROVE  [M!Next]_(M!vars) /\ StepInv'
  <1> DEFINE f == frame[p]
             b == table[f.mb]
             s == shown[f.mb]
             slots == b.slots
  <1>1. Inside(p) /\ f.op = "send" /\ f.at = "look" BY DEF SendLook, At, Inside
  <1>2. /\ InSend(p, f, b, s, call[p])
        /\ f.mb \in M!MboxArg /\ f.msg \in Msg /\ f.wait \in BOOLEAN
        /\ MaySend(p, f.mb, f.msg, f.wait)
        /\ AllFull(s.slots, 1, Len(s.slots)) => M!NoRoom(f.mb, f.msg)
    BY <1>1, SendFacts
  <1>3. f \in Frame /\ f.mb \in Id /\ b \in Box BY <1>1, InsideFacts
  <1>4. ViewOf(b) = s /\ AllFull(s.slots, 1, f.i - 1) /\ f.i \in 1 .. Len(s.slots) + 1
    BY <1>1, <1>2 DEF InSend
  <1>5. /\ Len(slots) \in Nat /\ Len(s.slots) = Len(slots)
        /\ \A j \in 1 .. Len(slots) : s.slots[j] = NoMsg <=> slots[j].messageSize = 0
    BY <1>3, <1>4, ViewTyped
  <1>6. f.i \in Int /\ (f.i > Len(slots) => f.i - 1 = Len(s.slots))
    <2> DEFINE k == f.i
               n == Len(slots)
    <2>1. n \in Nat /\ k \in 1 .. n + 1 /\ Len(s.slots) = n BY <1>4, <1>5
    <2> HIDE DEF k, n
    <2>2. k \in Int /\ (k > n => k - 1 = n) BY <2>1
    <2> QED BY <2>1, <2>2 DEF k, n
  <1>7. f.i > Len(slots) => AllFull(s.slots, 1, Len(s.slots)) BY <1>4, <1>6
  <1>7a. ASSUME f.i <= Len(slots)
         PROVE  /\ f.i \in 1 .. Len(slots) /\ f.i \in 1 .. Len(s.slots)
                /\ s.slots[f.i] = NoMsg <=> slots[f.i].messageSize = 0
    <2> DEFINE k == f.i
               n == Len(slots)
    <2>1. n \in Nat /\ k \in 1 .. n + 1 /\ Len(s.slots) = n /\ k <= n
      BY <1>4, <1>5, <1>7a
    <2> HIDE DEF k, n
    <2>2. k \in 1 .. n BY <2>1
    <2>3. f.i \in 1 .. Len(slots) BY <2>2 DEF k, n
    <2> QED BY <1>5, <2>3
  <1>8. CASE f.i > Len(slots) /\ ~f.wait /\ Answer(p, -2)
    <2>1. ASSUME M!Fail(p, -2) PROVE M!Next
      <3>1. M!SendTurn(p, f.mb, f.msg, f.wait)
        BY <1>2, <1>7, <1>8, <2>1 DEF M!SendTurn, M!SendWouldBlock
      <3> QED BY <1>2, <3>1, SendTurnNext
    <2> QED BY <1>1, <1>4, <1>8, <2>1, InsideAnswer
  <1>9. ASSUME NEW g \in Frame, g.op = f.op, g.mb = f.mb, g.at # "outside",
               g.msg = f.msg, g.size = f.size, g.wait = f.wait,
               Local(p, g), UNCHANGED <<table, Kernel>>,
               g.at \in {"look", "copy", "node"},
               g.at \in {"look", "copy"} => AllFull(s.slots, 1, g.i - 1),
               g.at = "look" => g.i \in 1 .. Len(s.slots) + 1,
               g.at = "copy" => g.i \in 1 .. Len(s.slots) /\ s.slots[g.i] = NoMsg,
               g.at = "node" => g.wait /\ AllFull(s.slots, 1, Len(s.slots))
        PROVE  UNCHANGED M!vars /\ StepInv'
    <2>1. CallRecord("send", g) = CallRecord("send", f) BY <1>9 DEF CallRecord
    <2>2. InSend(p, g, b, s, call[p]) BY <1>1, <1>2, <1>4, <1>9, <2>1 DEF InSend, Listing
    <2>3. Stage(p, g, b, s, call[p]) BY <1>1, <1>9, <2>2 DEF Stage
    <2>4. table' = [table EXCEPT ![f.mb] = b] /\ UNCHANGED Kernel
      BY <1>3, <1>9 DEF StepInv, FrameTypeOK
    <2> QED BY <1>1, <1>3, <1>9, <2>3, <2>4, LocalStep
  <1>10. ASSUME NEW l \in {"node", "copy"}, Go(p, l), UNCHANGED <<table, Kernel>>,
                l = "node" => f.i > Len(slots) /\ f.wait,
                l = "copy" => f.i <= Len(slots) /\ slots[f.i].messageSize = 0
         PROVE  UNCHANGED M!vars /\ StepInv'
    <2> DEFINE g == [f EXCEPT !.at = l]
    <2>1. g \in Frame BY <1>3, FrameAt
    <2>2. /\ g.op = f.op /\ g.mb = f.mb /\ g.at = l /\ g.msg = f.msg
          /\ g.size = f.size /\ g.wait = f.wait /\ g.i = f.i
      BY <1>3 DEF Frame
    <2>3. Local(p, g) BY <1>10 DEF Go
    <2> HIDE DEF g
    <2>4. l = "copy" => f.i \in 1 .. Len(s.slots) /\ s.slots[f.i] = NoMsg
      BY <1>10, <1>7a
    <2> QED BY <1>4, <1>7, <1>9, <1>10, <2>1, <2>2, <2>3, <2>4
  <1>11. ASSUME Local(p, [f EXCEPT !.i = @ + 1]), UNCHANGED <<table, Kernel>>,
                f.i <= Len(slots), slots[f.i].messageSize # 0
         PROVE  UNCHANGED M!vars /\ StepInv'
    <2> DEFINE k == f.i + 1
               g == [f EXCEPT !.i = k]
    <2>1. k \in Int BY <1>4, <1>5
    <2>2. AllFull(s.slots, 1, k - 1) /\ k \in 1 .. Len(s.slots) + 1
      <3>1. f.i \in 1 .. Len(slots) /\ s.slots[f.i] # NoMsg BY <1>11, <1>7a
      <3>2. \A j \in 1 .. k - 1 : j = f.i \/ j \in 1 .. f.i - 1 BY <3>1
      <3> QED BY SMTT(60), <1>4, <1>5, <3>1, <3>2 DEF AllFull
    <2>3. Local(p, g) BY <1>11
    <2> HIDE DEF k
    <2>4. g \in Frame BY <1>3, <2>1, FrameNumber
    <2>5. /\ g.op = f.op /\ g.mb = f.mb /\ g.at = "look" /\ g.msg = f.msg
          /\ g.size = f.size /\ g.wait = f.wait /\ g.i = k
      BY <1>1, <1>3 DEF Frame
    <2> HIDE DEF g
    <2> QED BY <1>9, <1>11, <2>2, <2>3, <2>4, <2>5
  <1>12. CASE \/ f.i > Len(slots) /\ f.wait /\ Go(p, "node")
              \/ f.i <= Len(slots) /\ slots[f.i].messageSize = 0 /\ Go(p, "copy")
              \/ /\ f.i <= Len(slots) /\ slots[f.i].messageSize # 0
                 /\ Local(p, [f EXCEPT !.i = @ + 1])
    <2>1. CASE UNCHANGED <<table, Kernel>> BY <1>10, <1>11, <1>12, <2>1
    <2> QED BY <1>8, <2>1 DEF SendLook
  <1> QED BY <1>8, <1>12 DEF SendLook

(* The message is in the slot, but not yet its length: Messaging still     *)
(* sees an empty slot.                                                     *)
LEMMA SendCopyStep ==
    ASSUME StepInv, NEW p \in Proc, SendCopy(p)
    PROVE  [M!Next]_(M!vars) /\ StepInv'
  <1> DEFINE f == frame[p]
             b == table[f.mb]
             s == shown[f.mb]
             r == [b.slots[f.i] EXCEPT !.message = f.msg]
             t == [b.slots EXCEPT ![f.i] = r]
             c == [b EXCEPT !.slots = t]
             g == [f EXCEPT !.at = "size"]
  <1>1. Inside(p) /\ f.op = "send" /\ f.at = "copy" BY DEF SendCopy, At, Inside
  <1>2. InSend(p, f, b, s, call[p]) /\ f.msg \in Msg BY <1>1, SendFacts
  <1>3. f \in Frame /\ f.mb \in Id /\ b \in Box /\ s \in P!Mailbox BY <1>1, InsideFacts
  <1>4. ViewOf(b) = s /\ f.i \in 1 .. Len(s.slots) /\ s.slots[f.i] = NoMsg
    BY <1>1, <1>2 DEF InSend
  <1>5. /\ f.i \in 1 .. Len(b.slots) /\ b.slots[f.i] \in SlotRecord
        /\ b.slots[f.i].messageSize = 0
        /\ b.slots \in Seq(SlotRecord) /\ DOMAIN b.slots = 1 .. Len(b.slots)
    BY SMTT(60), <1>3, <1>4, ViewTyped DEF Box
  <1>6. r \in SlotRecord /\ Held(r) = NoMsg /\ r.message = f.msg
    BY <1>2, <1>5 DEF SlotRecord, Held
  <1>7. table' = [table EXCEPT ![f.mb] = c] /\ Local(p, g) /\ UNCHANGED Kernel
    BY DEF SendCopy, Go
  <1>8. g \in Frame BY <1>3, FrameAt
  <1>9. /\ g.op = f.op /\ g.mb = f.mb /\ g.at = "size" /\ g.msg = f.msg
        /\ g.size = f.size /\ g.wait = f.wait /\ g.i = f.i
    BY <1>3 DEF Frame
  <1>10. t[f.i] = r BY <1>5
  <1> HIDE DEF r, g
  <1>11. /\ c \in Box
         /\ ViewOf(c) = [s EXCEPT !.slots = [s.slots EXCEPT ![f.i] = NoMsg]]
    <2>1. Held(r) = NoMsg /\ r \in SlotRecord /\ b \in Box /\ f.i \in 1 .. Len(b.slots)
      BY <1>3, <1>5, <1>6
    <2>2. /\ c \in Box
          /\ ViewOf(c) =
                 [ViewOf(b) EXCEPT !.slots = [ViewOf(b).slots EXCEPT ![f.i] = Held(r)]]
      BY <2>1, ViewSlot
    <2> QED BY <1>4, <2>1, <2>2
  <1>12. c.slots = t BY <1>3 DEF Box
  <1> HIDE DEF t
  <1>13. ViewOf(c) = s
    <2>1. s.slots \in Seq(P!Slot) BY <1>3 DEF P!Mailbox
    <2>2. [s.slots EXCEPT ![f.i] = NoMsg] = s.slots BY <1>4, <2>1
    <2> QED BY <1>3, <1>11, <2>2 DEF P!Mailbox
  <1> HIDE DEF c
  <1>14. InSend(p, g, c, s, call[p])
    <2>1. CallRecord("send", g) = CallRecord("send", f) BY <1>9 DEF CallRecord
    <2> QED BY <1>1, <1>2, <1>6, <1>9, <1>10, <1>12, <1>13, <2>1 DEF InSend
  <1>15. Stage(p, g, c, s, call[p]) BY <1>1, <1>9, <1>14 DEF Stage
  <1>16. g.at # "outside" BY <1>9
  <1>17. UNCHANGED M!vars /\ StepInv'
    BY <1>1, <1>3, <1>7, <1>8, <1>9, <1>11, <1>15, <1>16, LocalStep
  <1> QED BY <1>17

(* The length is there, and with it the message. *)
LEMMA SendSizeStep ==
    ASSUME StepInv, NEW p \in Proc, SendSize(p)
    PROVE  [M!Next]_(M!vars) /\ StepInv'
  <1> DEFINE f == frame[p]
             b == table[f.mb]
             s == shown[f.mb]
             r == [b.slots[f.i] EXCEPT !.messageSize = Size[f.msg]]
             t == [b.slots EXCEPT ![f.i] = r]
             c == [b EXCEPT !.slots = t]
  <1>1. Inside(p) /\ f.op = "send" /\ f.at = "size" BY DEF SendSize, At, Inside
  <1>2. /\ InSend(p, f, b, s, call[p]) /\ f.msg \in Msg /\ f.mb \in M!MboxArg
        /\ f.wait \in BOOLEAN /\ MaySend(p, f.mb, f.msg, f.wait)
        /\ M!SendValid(f.mb, f.msg)
    BY <1>1, SendFacts
  <1>3. f \in Frame /\ f.mb \in Id /\ b \in Box /\ s \in P!Mailbox BY <1>1, InsideFacts
  <1>4. /\ ViewOf(b) = s /\ AllFull(s.slots, 1, f.i - 1)
        /\ f.i \in 1 .. Len(s.slots) /\ s.slots[f.i] = NoMsg
        /\ b.slots[f.i].message = f.msg
    BY <1>1, <1>2 DEF InSend
  <1>5. f.i \in 1 .. Len(b.slots) /\ b.slots[f.i] \in SlotRecord
    BY SMTT(60), <1>3, <1>4, ViewTyped
  <1>6. r \in SlotRecord /\ Held(r) = M!Stored(f.msg)
    BY <1>2, <1>4, <1>5, ConstantsAssumption DEF SlotRecord, Held, M!Stored
  <1>7. /\ table' = [table EXCEPT ![f.mb] = c] /\ Leave(p) /\ M!Return(p, 0, NoMsg)
        /\ UNCHANGED <<nextMailboxId, pstate, signal>>
    BY DEF SendSize, Return
  <1> HIDE DEF r
  <1>8. /\ c \in Box
        /\ ViewOf(c) = [ViewOf(b) EXCEPT !.slots = [ViewOf(b).slots EXCEPT ![f.i] = Held(r)]]
    BY <1>3, <1>5, <1>6, ViewSlot
  <1> HIDE DEF c
  <1>9. table'[f.mb] = c BY <1>3, <1>7 DEF StepInv, FrameTypeOK
  <1>10. shown' = [shown EXCEPT ![f.mb].slots[f.i] = M!Stored(f.msg)]
    <2> DEFINE m == M!Stored(f.msg)
    <2>1. ViewOf(c) = [s EXCEPT !.slots = [s.slots EXCEPT ![f.i] = m]]
      BY <1>4, <1>6, <1>8
    <2>2. shown' = [shown EXCEPT ![f.mb] = ViewOf(c)] BY <1>1, <1>7, <1>9, LeaveShown
    <2> HIDE DEF m
    <2>3. shown' = [shown EXCEPT ![f.mb].slots[f.i] = m] BY <2>1, <2>2
    <2> QED BY <2>3 DEF m
  <1>11. M!EmptySlots(f.mb) # {} /\ M!Min(M!EmptySlots(f.mb)) = f.i
    BY <1>3, <1>4, FirstEmpty
  <1>12. M!SendDeposit(p, f.mb, f.msg)
    BY <1>2, <1>7, <1>10, <1>11 DEF M!SendDeposit
  <1>13. M!Next
    <2>1. M!SendTurn(p, f.mb, f.msg, f.wait) BY <1>12 DEF M!SendTurn
    <2> QED BY <1>2, <2>1, SendTurnNext
  <1>14. OthersKept(p) /\ PendingOK(call'[p]) BY <1>7, ReturnFacts, OthersQuiet
  <1> QED BY <1>1, <1>7, <1>8, <1>13, <1>14, LeaveStep

-----------------------------------------------------------------------------
(* mailbox_receive                                                         *)

LEMMA ReceiveLookStep ==
    ASSUME StepInv, NEW p \in Proc, ReceiveLook(p)
    PROVE  [M!Next]_(M!vars) /\ StepInv'
  <1> DEFINE f == frame[p]
             b == table[f.mb]
             s == shown[f.mb]
             slots == b.slots
  <1>1. Inside(p) /\ f.op = "receive" /\ f.at = "look" BY DEF ReceiveLook, At, Inside
  <1>2. /\ InReceive(p, f, b, s, call[p])
        /\ f.mb \in M!MboxArg /\ f.wait \in BOOLEAN
        /\ MayReceive(p, f.mb, f.size, f.wait)
        /\ AllEmpty(s.slots, 1, Len(s.slots)) => M!NothingThere(f.mb, f.size)
    BY <1>1, ReceiveFacts
  <1>3. f \in Frame /\ f.mb \in Id /\ b \in Box /\ s \in P!Mailbox BY <1>1, InsideFacts
  <1>4. /\ ViewOf(b) = s /\ AllEmpty(s.slots, 1, f.i - 1) /\ f.msg = NoMsg
        /\ f.i \in 1 .. Len(s.slots) + 1
    BY <1>1, <1>2 DEF InReceive
  <1>5. /\ Len(slots) \in Nat /\ Len(s.slots) = Len(slots)
        /\ \A j \in 1 .. Len(slots) :
               /\ slots[j] \in SlotRecord
               /\ s.slots[j] = IF slots[j].messageSize = 0 THEN NoMsg ELSE slots[j].message
               /\ s.slots[j] = NoMsg <=> slots[j].messageSize = 0
    BY <1>3, <1>4, ViewTyped
  <1>6. f.i \in Int /\ (f.i > Len(slots) => f.i - 1 = Len(s.slots))
    <2> DEFINE k == f.i
               n == Len(slots)
    <2>1. n \in Nat /\ k \in 1 .. n + 1 /\ Len(s.slots) = n BY <1>4, <1>5
    <2> HIDE DEF k, n
    <2>2. k \in Int /\ (k > n => k - 1 = n) BY <2>1
    <2> QED BY <2>1, <2>2 DEF k, n
  <1>7. f.i > Len(slots) => AllEmpty(s.slots, 1, Len(s.slots)) BY <1>4, <1>6
  <1>8. ASSUME f.i <= Len(slots)
        PROVE  /\ f.i \in 1 .. Len(slots) /\ f.i \in 1 .. Len(s.slots)
               /\ slots[f.i] \in SlotRecord
               /\ s.slots[f.i] = IF slots[f.i].messageSize = 0 THEN NoMsg
                                 ELSE slots[f.i].message
               /\ s.slots[f.i] = NoMsg <=> slots[f.i].messageSize = 0
    <2> DEFINE k == f.i
               n == Len(slots)
    <2>1. n \in Nat /\ k \in 1 .. n + 1 /\ Len(s.slots) = n /\ k <= n
      BY <1>4, <1>5, <1>8
    <2> HIDE DEF k, n
    <2>2. k \in 1 .. n BY <2>1
    <2>3. f.i \in 1 .. Len(slots) BY <2>2 DEF k, n
    <2> QED BY <1>5, <2>3
  <1>9. CASE f.i > Len(slots) /\ ~f.wait /\ Answer(p, -2)
    <2>1. ASSUME M!Fail(p, -2) PROVE M!Next
      <3>1. M!ReceiveTurn(p, f.mb, f.size, f.wait)
        BY <1>2, <1>7, <1>9, <2>1 DEF M!ReceiveTurn, M!ReceiveWouldBlock
      <3> QED BY <1>2, <3>1, ReceiveTurnNext
    <2> QED BY <1>1, <1>4, <1>9, <2>1, InsideAnswer
  <1>10. ASSUME NEW g \in Frame, g.op = f.op, g.mb = f.mb, g.at # "outside",
                g.size = f.size, g.wait = f.wait,
                Local(p, g), UNCHANGED <<table, Kernel>>,
                g.at \in {"look", "shift", "node"},
                g.at \in {"look", "node"} => g.msg = NoMsg,
                g.at = "look" => /\ AllEmpty(s.slots, 1, g.i - 1)
                                 /\ g.i \in 1 .. Len(s.slots) + 1,
                g.at = "shift" => Taking(g, b, s),
                g.at = "node" => g.wait /\ AllEmpty(s.slots, 1, Len(s.slots))
         PROVE  UNCHANGED M!vars /\ StepInv'
    <2>1. CallRecord("receive", g) = CallRecord("receive", f) BY <1>10 DEF CallRecord
    <2>2. InReceive(p, g, b, s, call[p])
      BY <1>1, <1>2, <1>4, <1>10, <2>1 DEF InReceive, Listing
    <2>3. Stage(p, g, b, s, call[p]) BY <1>1, <1>10, <2>2 DEF Stage
    <2>4. table' = [table EXCEPT ![f.mb] = b] /\ UNCHANGED Kernel
      BY <1>3, <1>10 DEF StepInv, FrameTypeOK
    <2> QED BY <1>1, <1>3, <1>10, <2>3, <2>4, LocalStep
  <1>11. ASSUME Go(p, "node"), UNCHANGED <<table, Kernel>>, f.i > Len(slots), f.wait
         PROVE  UNCHANGED M!vars /\ StepInv'
    <2> DEFINE g == [f EXCEPT !.at = "node"]
    <2>1. g \in Frame BY <1>3, FrameAt
    <2>2. /\ g.op = f.op /\ g.mb = f.mb /\ g.at = "node" /\ g.msg = f.msg
          /\ g.size = f.size /\ g.wait = f.wait
      BY <1>3 DEF Frame
    <2>3. Local(p, g) BY <1>11 DEF Go
    <2> HIDE DEF g
    <2> QED BY <1>4, <1>7, <1>10, <1>11, <2>1, <2>2, <2>3
  <1>12. ASSUME Local(p, [f EXCEPT !.i = @ + 1]), UNCHANGED <<table, Kernel>>,
                f.i <= Len(slots), slots[f.i].messageSize = 0
         PROVE  UNCHANGED M!vars /\ StepInv'
    <2> DEFINE k == f.i + 1
               g == [f EXCEPT !.i = k]
    <2>1. k \in Int BY <1>6
    <2>2. AllEmpty(s.slots, 1, k - 1) /\ k \in 1 .. Len(s.slots) + 1
      <3>1. f.i \in 1 .. Len(slots) /\ s.slots[f.i] = NoMsg BY <1>8, <1>12
      <3>2. \A j \in 1 .. k - 1 : j = f.i \/ j \in 1 .. f.i - 1 BY <3>1
      <3>3. Len(slots) \in Nat /\ Len(s.slots) = Len(slots) BY <1>5
      <3>4. AllEmpty(s.slots, 1, k - 1) BY <1>4, <3>1, <3>2 DEF AllEmpty
      <3>5. k \in 1 .. Len(s.slots) + 1 BY <3>1, <3>3
      <3> QED BY <3>4, <3>5
    <2>3. Local(p, g) BY <1>12
    <2> HIDE DEF k
    <2>4. g \in Frame BY <1>3, <2>1, FrameNumber
    <2>5. /\ g.op = f.op /\ g.mb = f.mb /\ g.at = "look" /\ g.msg = f.msg
          /\ g.size = f.size /\ g.wait = f.wait /\ g.i = k
      BY <1>1, <1>3 DEF Frame
    <2> HIDE DEF g
    <2> QED BY <1>4, <1>10, <1>12, <2>2, <2>3, <2>4, <2>5
  <1>13. ASSUME Local(p, [f EXCEPT !.at = "shift", !.n = slots[f.i].messageSize,
                                   !.msg = slots[f.i].message]),
                UNCHANGED <<table, Kernel>>,
                f.i <= Len(slots), slots[f.i].messageSize > 0
         PROVE  UNCHANGED M!vars /\ StepInv'
    <2> DEFINE n == slots[f.i].messageSize
               m == slots[f.i].message
               h1 == [f EXCEPT !.at = "shift"]
               h2 == [h1 EXCEPT !.n = n]
               g == [h2 EXCEPT !.msg = m]
    <2>1. /\ f.i \in 1 .. Len(s.slots) /\ n \in Int /\ m \in Msg /\ n = Size[m]
          /\ s.slots[f.i] = m /\ m # NoMsg
      <3> DEFINE r == slots[f.i]
      <3>1. /\ f.i \in 1 .. Len(s.slots) /\ r \in SlotRecord /\ r.messageSize > 0
            /\ s.slots[f.i] = IF r.messageSize = 0 THEN NoMsg ELSE r.message
        BY <1>8, <1>13
      <3> HIDE DEF r
      <3>2. /\ r.messageSize \in Int /\ r.message \in Msg
            /\ r.messageSize = Size[r.message] /\ s.slots[f.i] = r.message
        BY <3>1 DEF SlotRecord
      <3>3. r.message # NoMsg BY <3>2, ConstantsAssumption
      <3> QED BY <3>1, <3>2, <3>3 DEF r
    <2>2. Local(p, g) BY <1>13
    <2> HIDE DEF n, m
    <2>3. h1 \in Frame BY <1>3, FrameAt
    <2>4. /\ h1.op = f.op /\ h1.mb = f.mb /\ h1.at = "shift" /\ h1.i = f.i
          /\ h1.size = f.size /\ h1.wait = f.wait
      BY <1>3 DEF Frame
    <2> HIDE DEF h1
    <2>5. h2 \in Frame BY <2>1, <2>3, FrameNumber
    <2>6. /\ h2.op = f.op /\ h2.mb = f.mb /\ h2.at = "shift" /\ h2.i = f.i
          /\ h2.size = f.size /\ h2.wait = f.wait /\ h2.n = n
      BY <2>3, <2>4 DEF Frame
    <2> HIDE DEF h2
    <2>7. g \in Frame BY <2>1, <2>5 DEF Frame
    <2>8. /\ g.op = f.op /\ g.mb = f.mb /\ g.at = "shift" /\ g.i = f.i
          /\ g.size = f.size /\ g.wait = f.wait /\ g.n = n /\ g.msg = m
      BY <2>5, <2>6 DEF Frame
    <2> HIDE DEF g
    <2>9. Taking(g, b, s)
      <3> DEFINE first == f.i
      <3>1. /\ first \in 1 .. Len(s.slots) /\ g.i = first
            /\ AllEmpty(s.slots, 1, first - 1)
            /\ s.slots[first] = m
        BY <1>4, <2>1, <2>8
      <3> HIDE DEF first
      <3>2. Delivers(g, s, first) BY <2>1, <2>8, <3>1 DEF Delivers
      <3>3. ViewOf(b) = ShiftedUpTo(s, first, first) BY <1>3, <1>4, <3>1, ShiftStart
      <3>4. first \in first .. Len(s.slots) /\ AllFull(s.slots, first, first)
        <4>1. first \in Int BY <1>5, <3>1
        <4>2. first \in first .. Len(s.slots) /\ \A j \in first .. first : j = first
          BY <3>1, <4>1
        <4>3. s.slots[first] # NoMsg BY <2>1, <3>1
        <4> QED BY <4>2, <4>3 DEF AllFull
      <3> QED BY <2>8, <3>1, <3>2, <3>3, <3>4 DEF Taking
    <2> QED BY <1>10, <1>13, <2>2, <2>7, <2>8, <2>9
  <1>14. CASE \/ f.i > Len(slots) /\ f.wait /\ Go(p, "node")
              \/ /\ f.i <= Len(slots) /\ slots[f.i].messageSize > 0
                 /\ Local(p, [f EXCEPT !.at = "shift", !.n = slots[f.i].messageSize,
                                       !.msg = slots[f.i].message])
              \/ /\ f.i <= Len(slots) /\ slots[f.i].messageSize = 0
                 /\ Local(p, [f EXCEPT !.i = @ + 1])
    <2>1. CASE UNCHANGED <<table, Kernel>> BY <1>11, <1>12, <1>13, <1>14, <2>1
    <2> QED BY <1>9, <2>1 DEF ReceiveLook
  <1> QED BY <1>9, <1>14 DEF ReceiveLook

(* A stretch that takes a message goes on with it. *)
LEMMA TakingGoesOn ==
    ASSUME StepInv, NEW p \in Proc, Inside(p), frame[p].op = "receive",
           frame[p].at \in {"shift", "pop"},
           NEW g \in Frame, g.op = "receive", g.mb = frame[p].mb, g.size = frame[p].size,
           g.wait = frame[p].wait, g.at \in {"shift", "pop", "unblock"},
           Local(p, g), UNCHANGED Kernel,
           NEW c \in Box, table' = [table EXCEPT ![frame[p].mb] = c],
           Taking(g, c, shown[frame[p].mb])
    PROVE  [M!Next]_(M!vars) /\ StepInv'
  <1> DEFINE f == frame[p]
             s == shown[f.mb]
  <1>1. InReceive(p, f, table[f.mb], s, call[p]) BY ReceiveFacts
  <1>2. CallRecord("receive", g) = CallRecord("receive", f) BY DEF CallRecord
  <1>3. InReceive(p, g, c, s, call[p]) BY <1>1, <1>2 DEF InReceive
  <1>4. Stage(p, g, c, s, call[p]) BY <1>3 DEF Stage
  <1>5. g.at # "outside" OBVIOUS
  <1>6. UNCHANGED M!vars /\ StepInv' BY <1>4, <1>5, LocalStep
  <1> QED BY <1>6

(* The slots from i on have not moved yet. *)
LEMMA NotMovedYet ==
    ASSUME NEW s \in P!Mailbox, NEW first \in 1 .. Len(s.slots),
           NEW i \in first .. Len(s.slots)
    PROVE  LET v == ShiftedUpTo(s, first, i)
           IN  /\ Len(v.slots) = Len(s.slots)
               /\ \A j \in i .. Len(s.slots) : v.slots[j] = s.slots[j]
  <1> DEFINE n == Len(s.slots)
             t == [j \in DOMAIN s.slots |->
                      IF j \in first .. i - 1 THEN s.slots[j + 1] ELSE s.slots[j]]
  <1>1. s.slots \in Seq(P!Slot) /\ n \in Nat /\ DOMAIN s.slots = 1 .. n
    BY DEF P!Mailbox
  <1>2. ShiftedUpTo(s, first, i).slots = t BY DEF ShiftedUpTo, P!Mailbox
  <1>3. Len(t) = n
    <2>1. \A j \in 1 .. n : s.slots[j] \in P!Slot BY <1>1, ElementOfSeq
    <2>2. \A j \in 1 .. n : j \in first .. i - 1 => j + 1 \in 1 .. n BY <1>1
    <2>3. t \in [1 .. n -> P!Slot] BY <1>1, <2>1, <2>2
    <2> HIDE DEF t, n
    <2> QED BY <1>1, <2>3
  <1>4. \A j \in i .. n : t[j] = s.slots[j] BY <1>1
  <1> HIDE DEF t
  <1> QED BY <1>2, <1>3, <1>4

LEMMA ReceiveShiftStep ==
    ASSUME StepInv, NEW p \in Proc, ReceiveShift(p)
    PROVE  [M!Next]_(M!vars) /\ StepInv'
  <1> DEFINE f == frame[p]
             b == table[f.mb]
             s == shown[f.mb]
             slots == b.slots
             i == f.i
             n == Len(slots)
  <1>1. Inside(p) /\ f.op = "receive" /\ f.at = "shift" /\ UNCHANGED Kernel
    BY DEF ReceiveShift, At, Inside
  <1>2. InReceive(p, f, b, s, call[p]) BY <1>1, ReceiveFacts
  <1>3. f \in Frame /\ f.mb \in Id /\ b \in Box /\ s \in P!Mailbox BY <1>1, InsideFacts
  <1>4. PICK first \in 1 .. Len(s.slots) :
            /\ Delivers(f, s, first) /\ i \in first .. Len(s.slots)
            /\ AllFull(s.slots, first, i) /\ ViewOf(b) = ShiftedUpTo(s, first, i)
    BY <1>1, <1>2 DEF InReceive, Taking
  <1> DEFINE v == ShiftedUpTo(s, first, i)
  <1>5. Len(v.slots) = Len(s.slots) /\ \A j \in i .. Len(s.slots) : v.slots[j] = s.slots[j]
    BY <1>3, <1>4, NotMovedYet
  <1> HIDE DEF v
  <1>6. /\ n \in Nat /\ Len(s.slots) = n
        /\ \A j \in 1 .. n : /\ slots[j] \in SlotRecord
                             /\ v.slots[j] = Held(slots[j])
                             /\ v.slots[j] = NoMsg <=> slots[j].messageSize = 0
    <2> DEFINE w == ViewOf(b)
    <2>1. v = w BY <1>4 DEF v
    <2>2. Len(v.slots) = Len(s.slots) BY <1>5
    <2>3. /\ Len(b.slots) \in Nat /\ Len(w.slots) = Len(b.slots)
          /\ \A j \in 1 .. Len(b.slots) :
                /\ b.slots[j] \in SlotRecord
                /\ w.slots[j] = IF b.slots[j].messageSize = 0 THEN NoMsg
                                ELSE b.slots[j].message
                /\ w.slots[j] = NoMsg <=> b.slots[j].messageSize = 0
      BY <1>3, ViewTyped
    <2> HIDE DEF w
    <2> QED BY <2>1, <2>2, <2>3 DEF Held
  <1> HIDE DEF n
  <1>7. i \in 1 .. n /\ i \in Int /\ first \in 1 .. n /\ i \in first .. n BY <1>4, <1>6
  <1>8. ASSUME i < n
        PROVE  /\ slots[i + 1] \in SlotRecord /\ Held(slots[i + 1]) = s.slots[i + 1]
               /\ s.slots[i + 1] = NoMsg <=> slots[i + 1].messageSize = 0
    <2>1. i + 1 \in 1 .. n /\ i + 1 \in i .. n BY <1>6, <1>7, <1>8
    <2> QED BY <1>5, <1>6, <2>1
  <1>9. CASE i < n /\ slots[i + 1].messageSize > 0
    <2> DEFINE k == i + 1
               c == [b EXCEPT !.slots = [slots EXCEPT ![i] = slots[k]]]
               g == [f EXCEPT !.i = k]
    <2>1. table' = [table EXCEPT ![f.mb] = c] /\ Local(p, g)
      BY <1>9 DEF ReceiveShift, n
    <2>2. k \in Int /\ k \in first .. n /\ i \in first .. n - 1 BY <1>6, <1>7, <1>9
    <2>3. /\ slots[k] \in SlotRecord /\ Held(slots[k]) = s.slots[k] /\ s.slots[k] # NoMsg
      BY <1>8, <1>9
    <2>4. /\ c \in Box
          /\ ViewOf(c) = [v EXCEPT !.slots = [v.slots EXCEPT ![i] = s.slots[k]]]
      <3> DEFINE r == slots[k]
      <3>1. r \in SlotRecord /\ Held(r) = s.slots[k] /\ i \in 1 .. Len(b.slots)
        BY <1>7, <2>3 DEF n
      <3> HIDE DEF r, k
      <3>2. LET t == [b.slots EXCEPT ![i] = r]
            IN  /\ [b EXCEPT !.slots = t] \in Box
                /\ ViewOf([b EXCEPT !.slots = t]) =
                       [ViewOf(b) EXCEPT !.slots = [ViewOf(b).slots EXCEPT ![i] = Held(r)]]
        BY <1>3, <3>1, ViewSlot
      <3> QED BY <1>4, <3>1, <3>2 DEF r, v
    <2> HIDE DEF c
    <2>5. ViewOf(c) = ShiftedUpTo(s, first, k)
      <3>1. i \in first .. Len(s.slots) - 1 BY <1>6, <2>2
      <3> QED BY ZenonT(60), <1>3, <1>4, <2>4, <3>1, ShiftMore DEF v
    <2>6. AllFull(s.slots, first, k)
      <3>1. \A j \in first .. k : j = k \/ j \in first .. i BY <1>7, <2>2
      <3> HIDE DEF k
      <3> QED BY <1>4, <2>3, <3>1 DEF AllFull
    <2> HIDE DEF k
    <2>7. g \in Frame BY <1>3, <2>2, FrameNumber
    <2>8. /\ g.op = "receive" /\ g.mb = f.mb /\ g.at = "shift" /\ g.i = k
          /\ g.size = f.size /\ g.wait = f.wait /\ g.n = f.n /\ g.msg = f.msg
      BY <1>1, <1>3 DEF Frame
    <2> HIDE DEF g
    <2>9. Delivers(g, s, first) BY <1>4, <2>8 DEF Delivers
    <2>10. Taking(g, c, s)
      <3>1. k \in first .. Len(s.slots) BY <1>6, <2>2
      <3> QED BY <2>5, <2>6, <2>8, <2>9, <3>1 DEF Taking
    <2> QED BY <1>1, <2>1, <2>4, <2>7, <2>8, <2>10, TakingGoesOn
  <1>10. CASE ~(i < n /\ slots[i + 1].messageSize > 0)
    <2> DEFINE c == [b EXCEPT !.slots = [slots EXCEPT ![i] = EmptySlot]]
               g == [f EXCEPT !.at = "pop"]
    <2>1. table' = [table EXCEPT ![f.mb] = c] /\ Local(p, g)
      BY <1>10 DEF ReceiveShift, Go, n
    <2>2. /\ c \in Box
          /\ ViewOf(c) = [v EXCEPT !.slots = [v.slots EXCEPT ![i] = NoMsg]]
      <3>1. EmptySlot \in SlotRecord /\ Held(EmptySlot) = NoMsg /\ i \in 1 .. Len(b.slots)
        BY <1>7 DEF n, EmptySlot, SlotRecord, Held
      <3>2. LET t == [b.slots EXCEPT ![i] = EmptySlot]
            IN  /\ [b EXCEPT !.slots = t] \in Box
                /\ ViewOf([b EXCEPT !.slots = t]) =
                       [ViewOf(b) EXCEPT
                           !.slots = [ViewOf(b).slots EXCEPT ![i] = Held(EmptySlot)]]
        BY ZenonT(60), <1>3, <3>1, ViewSlot
      <3> QED BY <1>4, <3>1, <3>2 DEF v
    <2> HIDE DEF c
    <2>3. ViewOf(c) = Delivered(s, first, i)
      BY <1>3, <1>4, <2>2, ShiftEnd DEF v
    <2>4. i < Len(s.slots) => s.slots[i + 1] = NoMsg
      <3>1. ASSUME i < n PROVE s.slots[i + 1] = NoMsg
        <4>1. slots[i + 1].messageSize \in Nat BY <1>8, <3>1 DEF SlotRecord
        <4>2. slots[i + 1].messageSize = 0 BY <1>10, <3>1, <4>1
        <4> QED BY <1>8, <3>1, <4>2
      <3> QED BY <1>6, <3>1
    <2>5. g \in Frame BY <1>3, FrameAt
    <2>6. /\ g.op = "receive" /\ g.mb = f.mb /\ g.at = "pop"
          /\ g.size = f.size /\ g.wait = f.wait /\ g.n = f.n /\ g.msg = f.msg
      BY <1>1, <1>3 DEF Frame
    <2> HIDE DEF g
    <2>7. Delivers(g, s, first) BY <1>4, <2>6 DEF Delivers
    <2>8. Taking(g, c, s) BY <1>4, <2>3, <2>4, <2>6, <2>7 DEF Taking
    <2> QED BY <1>1, <2>1, <2>2, <2>5, <2>6, <2>8, TakingGoesOn
  <1> QED BY <1>9, <1>10

(* When the slots have moved, the message is delivered as in Messaging. *)
LEMMA DeliverFacts ==
    ASSUME StepInv, NEW p \in Proc, Inside(p), frame[p].op = "receive",
           frame[p].at \in {"pop", "unblock"}
    PROVE  LET f == frame[p]
               b == table[f.mb]
               s == shown[f.mb]
           IN  /\ M!FullSlots(f.mb) # {}
               /\ M!FirstMessage(f.mb) = f.msg /\ f.n = Size[f.msg]
               /\ Taking(f, b, s)
               /\ f.at = "pop" => b.blockedSendList = s.blockedSendList
               /\ f.at = "pop" /\ s.blockedSendList = <<>> =>
                      ViewOf(b) = M!WithoutFirst(f.mb)
               /\ f.at = "unblock" =>
                      /\ s.blockedSendList # <<>>
                      /\ f.node = <<Head(s.blockedSendList)>>
                      /\ ViewOf(b) = M!WithoutFirst(f.mb)
  <1> DEFINE f == frame[p]
             b == table[f.mb]
             s == shown[f.mb]
             list == s.blockedSendList
  <1>1. Taking(f, b, s) BY ReceiveFacts DEF InReceive
  <1>2. f \in Frame /\ f.mb \in Id /\ b \in Box /\ s \in P!Mailbox BY InsideFacts
  <1>3. PICK first \in 1 .. Len(s.slots) :
            /\ Delivers(f, s, first)
            /\ \E last \in first .. Len(s.slots) :
                   /\ AllFull(s.slots, first, last)
                   /\ last < Len(s.slots) => s.slots[last + 1] = NoMsg
                   /\ f.at = "pop" => ViewOf(b) = Delivered(s, first, last)
                   /\ f.at = "unblock" =>
                          /\ s.blockedSendList # <<>>
                          /\ f.node = <<Head(s.blockedSendList)>>
                          /\ ViewOf(b) = [Delivered(s, first, last) EXCEPT
                                             !.blockedSendList = Tail(s.blockedSendList)]
    BY <1>1 DEF Taking
  <1>4. PICK last \in first .. Len(s.slots) :
            /\ AllFull(s.slots, first, last)
            /\ last < Len(s.slots) => s.slots[last + 1] = NoMsg
            /\ f.at = "pop" => ViewOf(b) = Delivered(s, first, last)
            /\ f.at = "unblock" =>
                   /\ list # <<>>
                   /\ f.node = <<Head(list)>>
                   /\ ViewOf(b) = [Delivered(s, first, last) EXCEPT
                                      !.blockedSendList = Tail(list)]
    BY <1>3
  <1>5. M!FullSlots(f.mb) # {} /\ M!Min(M!FullSlots(f.mb)) = first
    BY <1>2, <1>3, FirstFull DEF Delivers
  <1>6. M!RunEnd(f.mb, first) = last BY <1>2, <1>4, EndOfRun
  <1>7. M!FirstMessage(f.mb) = f.msg /\ f.n = Size[f.msg]
    BY <1>3, <1>5 DEF M!FirstMessage, Delivers
  <1>8. M!WithoutFirst(f.mb) = [Delivered(s, first, last) EXCEPT
                                   !.blockedSendList = M!Rest(list)]
    BY <1>2, <1>5, <1>6 DEF M!WithoutFirst, Delivered, P!Mailbox
  <1>9. Delivered(s, first, last).blockedSendList = list
    BY <1>2 DEF Delivered, P!Mailbox
  <1>10. ViewOf(b).blockedSendList = b.blockedSendList BY <1>2, ViewTyped
  <1>11. ASSUME f.at = "pop", list = <<>> PROVE ViewOf(b) = M!WithoutFirst(f.mb)
    <2> DEFINE d == Delivered(s, first, last)
    <2>1. d = [s EXCEPT !.slots = M!Shifted(s.slots, first, last)] BY DEF Delivered
    <2>2. [d EXCEPT !.blockedSendList = d.blockedSendList] = d
      BY <1>2, <2>1 DEF P!Mailbox
    <2> HIDE DEF d
    <2> QED BY <1>4, <1>8, <1>9, <1>11, <2>2 DEF M!Rest, d
  <1>12. ASSUME f.at = "unblock" PROVE ViewOf(b) = M!WithoutFirst(f.mb)
    BY <1>4, <1>8, <1>12 DEF M!Rest
  <1> QED BY <1>1, <1>4, <1>5, <1>7, <1>9, <1>10, <1>11, <1>12

LEMMA DeliverNext ==
    ASSUME StepInv, NEW p \in Proc, Inside(p), frame[p].op = "receive",
           frame[p].at \in {"pop", "unblock"},
           Return(p, frame[p].n, frame[p].msg), table' = table,
           UNCHANGED <<nextMailboxId, signal>>,
           ViewOf(table[frame[p].mb]) = M!WithoutFirst(frame[p].mb),
           pstate' = M!WakeFirst(shown[frame[p].mb].blockedSendList)
    PROVE  M!Next /\ StepInv'
  <1> DEFINE f == frame[p]
             b == table[f.mb]
             list == shown[f.mb].blockedSendList
  <1>1. Leave(p) /\ M!Return(p, f.n, f.msg) BY DEF Return
  <1>2. shown' = [shown EXCEPT ![f.mb] = M!WithoutFirst(f.mb)] BY <1>1, LeaveShown
  <1>3. /\ M!FullSlots(f.mb) # {}
        /\ M!FirstMessage(f.mb) = f.msg /\ f.n = Size[f.msg]
    BY DeliverFacts
  <1>4. /\ f.mb \in M!MboxArg /\ f.wait \in BOOLEAN
        /\ MayReceive(p, f.mb, f.size, f.wait)
        /\ M!ReceiveValid(f.mb, f.size)
    BY ReceiveFacts
  <1>5. M!ReceiveDeliver(p, f.mb, f.size)
    BY <1>1, <1>2, <1>3, <1>4 DEF M!ReceiveDeliver
  <1>6. M!Next
    <2>1. M!ReceiveTurn(p, f.mb, f.size, f.wait) BY <1>5 DEF M!ReceiveTurn
    <2> QED BY <1>4, <2>1, ReceiveTurnNext
  <1>7. OthersKept(p)
    <2>1. \A q \in Proc \ {p} : call'[q] = call[q] BY <1>1, ReturnFacts
    <2>2. \A q \in Proc : Inside(q) => pstate[q] = "ready" BY InsideFacts
    <2>3. pstate \in [Proc -> {"ready", "blocked"}]
      BY DEF StepInv, P!Inv2, P!Inv1, P!TypeOK
    <2>4. \A q \in Proc : Inside(q) => pstate'[q] = "ready"
      BY <2>2, <2>3 DEF M!WakeFirst
    <2> QED BY <2>1, <2>4 DEF OthersKept
  <1>8. PendingOK(call'[p]) BY <1>1, ReturnFacts
  <1>9. b \in Box /\ table' = [table EXCEPT ![f.mb] = b]
    BY InsideFacts DEF StepInv, FrameTypeOK
  <1> QED BY <1>1, <1>6, <1>7, <1>8, <1>9, LeaveStep

LEMMA ReceivePopStep ==
    ASSUME StepInv, NEW p \in Proc, ReceivePop(p)
    PROVE  [M!Next]_(M!vars) /\ StepInv'
  <1> DEFINE f == frame[p]
             b == table[f.mb]
             s == shown[f.mb]
             list == b.blockedSendList
  <1>1. Inside(p) /\ f.op = "receive" /\ f.at = "pop" BY DEF ReceivePop, At, Inside
  <1>2. f \in Frame /\ f.mb \in Id /\ b \in Box /\ s \in P!Mailbox BY <1>1, InsideFacts
  <1>3. /\ Taking(f, b, s) /\ list = s.blockedSendList
        /\ list = <<>> => ViewOf(b) = M!WithoutFirst(f.mb)
    BY <1>1, DeliverFacts
  <1>4. CASE list = <<>>
    <2>1. /\ Return(p, f.n, f.msg) /\ table' = table
          /\ UNCHANGED <<nextMailboxId, signal>> /\ pstate' = pstate
      BY <1>4 DEF ReceivePop
    <2>2. pstate' = M!WakeFirst(s.blockedSendList) BY <1>3, <1>4, <2>1 DEF M!WakeFirst
    <2> QED BY <1>1, <1>3, <1>4, <2>1, <2>2, DeliverNext
  <1>5. CASE list # <<>>
    <2> DEFINE t == Tail(list)
               q == <<Head(list)>>
               c == [b EXCEPT !.blockedSendList = t]
               h == [f EXCEPT !.at = "unblock"]
               g == [h EXCEPT !.node = q]
    <2>1. table' = [table EXCEPT ![f.mb] = c] /\ Local(p, g) /\ UNCHANGED Kernel
      BY <1>5 DEF ReceivePop
    <2>2. list \in Seq(Proc) BY <1>2 DEF Box
    <2>3. t \in Seq(Proc) /\ q \in Seq(Proc) BY <1>5, <2>2
    <2> HIDE DEF t, q
    <2>4. c \in Box /\ ViewOf(c) = [ViewOf(b) EXCEPT !.blockedSendList = t]
      <3>1. c = WithList(b, "send", t) BY DEF WithList
      <3>2. /\ WithList(b, "send", t) \in Box
            /\ ViewOf(WithList(b, "send", t)) = WithList(ViewOf(b), "send", t)
        BY <1>2, <2>3, ViewList
      <3> HIDE DEF c
      <3> QED BY <3>1, <3>2 DEF WithList
    <2> HIDE DEF c
    <2>5. h \in Frame BY <1>2, FrameAt
    <2>6. /\ h.op = "receive" /\ h.mb = f.mb /\ h.at = "unblock"
          /\ h.size = f.size /\ h.wait = f.wait /\ h.n = f.n /\ h.msg = f.msg
      BY <1>1, <1>2 DEF Frame
    <2> HIDE DEF h
    <2>7. g \in Frame BY <2>3, <2>5 DEF Frame
    <2>8. /\ g.op = "receive" /\ g.mb = f.mb /\ g.at = "unblock" /\ g.node = q
          /\ g.size = f.size /\ g.wait = f.wait /\ g.n = f.n /\ g.msg = f.msg
      BY <2>5, <2>6 DEF Frame
    <2> HIDE DEF g
    <2>9. Taking(g, c, s)
      <3>1. PICK first \in 1 .. Len(s.slots) :
                /\ Delivers(f, s, first)
                /\ \E last \in first .. Len(s.slots) :
                       /\ AllFull(s.slots, first, last)
                       /\ last < Len(s.slots) => s.slots[last + 1] = NoMsg
                       /\ ViewOf(b) = Delivered(s, first, last)
        BY <1>1, <1>3 DEF Taking
      <3>2. PICK last \in first .. Len(s.slots) :
                /\ AllFull(s.slots, first, last)
                /\ last < Len(s.slots) => s.slots[last + 1] = NoMsg
                /\ ViewOf(b) = Delivered(s, first, last)
        BY <3>1
      <3>3. Delivers(g, s, first) BY <2>8, <3>1 DEF Delivers
      <3>4. /\ s.blockedSendList # <<>> /\ g.node = <<Head(s.blockedSendList)>>
            /\ t = Tail(s.blockedSendList)
        BY <1>3, <1>5, <2>8 DEF t, q
      <3>5. ViewOf(c) = [Delivered(s, first, last) EXCEPT
                            !.blockedSendList = Tail(s.blockedSendList)]
        BY <2>4, <3>2, <3>4
      <3> QED BY <2>8, <3>2, <3>3, <3>4, <3>5 DEF Taking
    <2> QED BY <1>1, <2>1, <2>4, <2>7, <2>8, <2>9, TakingGoesOn
  <1> QED BY <1>4, <1>5

LEMMA ReceiveUnblockStep ==
    ASSUME StepInv, NEW p \in Proc, ReceiveUnblock(p)
    PROVE  [M!Next]_(M!vars) /\ StepInv'
  <1> DEFINE f == frame[p]
             b == table[f.mb]
             list == shown[f.mb].blockedSendList
  <1>1. /\ Inside(p) /\ f.op = "receive" /\ f.at = "unblock"
        /\ Return(p, f.n, f.msg) /\ table' = table /\ UNCHANGED <<nextMailboxId, signal>>
        /\ pstate' = [pstate EXCEPT ![Head(f.node)] = "ready"]
    BY DEF ReceiveUnblock, At, Inside
  <1>2. list # <<>> /\ f.node = <<Head(list)>> /\ ViewOf(b) = M!WithoutFirst(f.mb)
    BY <1>1, DeliverFacts
  <1>3. Head(f.node) = Head(list) BY <1>2
  <1>4. pstate' = M!WakeFirst(list) BY <1>1, <1>2, <1>3 DEF M!WakeFirst
  <1> QED BY <1>1, <1>2, <1>4, DeliverNext

LEMMA ReceiveStep ==
    ASSUME StepInv, NEW p \in Proc, ReceiveSteps(p)
    PROVE  [M!Next]_(M!vars) /\ StepInv'
  BY StartStep, ReceiveLookStep, ReceiveShiftStep, ReceivePopStep, ReceiveUnblockStep,
     SleepStep, AwakeStep DEF ReceiveSteps

LEMMA SendStep ==
    ASSUME StepInv, NEW p \in Proc, SendSteps(p)
    PROVE  [M!Next]_(M!vars) /\ StepInv'
  BY StartStep, SendLookStep, SendCopyStep, SendSizeStep, SleepStep, AwakeStep
     DEF SendSteps

-----------------------------------------------------------------------------
(* mailbox_free                                                            *)

LEMMA FreeStartStep ==
    ASSUME StepInv, NEW p \in Proc, FreeStart(p)
    PROVE  [M!Next]_(M!vars) /\ StepInv'
  <1>1. PICK id \in M!MboxArg :
            /\ Alone(p, id)
            /\ \/ /\ id \in Id => table[id].status # "inuse"
                  /\ Answer(p, -1)
               \/ /\ id \in Id /\ table[id].status = "inuse"
                  /\ table' = [table EXCEPT ![id].status = "released"]
                  /\ call' = [call EXCEPT ![p] = [M!NoCall EXCEPT !.op = "free_send",
                                                                  !.mb = id]]
                  /\ result' = [result EXCEPT ![p] = M!NoResult]
                  /\ shown' = [shown EXCEPT ![id] = View(id)']
                  /\ UNCHANGED <<frame, nextMailboxId, pstate, signal>>
    BY DEF FreeStart
  <1>2. Outside(p) /\ M!Idle(p) BY DEF FreeStart
  <1>3. id \in Id => /\ shown[id] = ViewOf(table[id]) /\ table[id] \in Box
                     /\ shown[id].status = table[id].status
    BY <1>1, <1>2, OutsideFacts, ViewTyped
  <1>4. M!Id = Id BY DEF M!Id, Id
  <1>5. CASE (id \in Id => table[id].status # "inuse") /\ Answer(p, -1)
    <2>1. ASSUME M!Fail(p, -1) PROVE M!Next
      <3>1. M!FreeInvalid(p, id) BY <1>3, <1>4, <1>5, <2>1 DEF M!FreeInvalid
      <3> QED BY <1>2, <3>1 DEF M!Free, M!Start, M!Next
    <2> QED BY <1>2, <1>5, <2>1, OutsideAnswer
  <1>6. CASE /\ id \in Id /\ table[id].status = "inuse"
             /\ table' = [table EXCEPT ![id].status = "released"]
             /\ call' = [call EXCEPT ![p] = [M!NoCall EXCEPT !.op = "free_send",
                                                             !.mb = id]]
             /\ result' = [result EXCEPT ![p] = M!NoResult]
             /\ shown' = [shown EXCEPT ![id] = View(id)']
             /\ UNCHANGED <<frame, nextMailboxId, pstate, signal>>
    <2> DEFINE b == table[id]
               c == [b EXCEPT !.status = "released"]
               r == [op |-> "free_send", mb |-> id, msg |-> NoMsg, size |-> 0]
    <2>1. table' = [table EXCEPT ![id] = c] BY <1>6
    <2>2. c \in Box /\ ViewOf(c) = [ViewOf(b) EXCEPT !.status = "released"]
      BY ZenonT(60), <1>3, <1>6 DEF Box, ViewOf
    <2>3. call' = [call EXCEPT ![p] = r]
      <3> DEFINE h == [M!NoCall EXCEPT !.op = "free_send"]
      <3>1. h = [op |-> "free_send", mb |-> -1, msg |-> NoMsg, size |-> 0] BY DEF M!NoCall
      <3> HIDE DEF h
      <3>2. [h EXCEPT !.mb = id] = r BY <3>1
      <3>3. [M!NoCall EXCEPT !.op = "free_send", !.mb = id] = r BY <3>2 DEF h
      <3> QED BY <1>6, <3>3
    <2> HIDE DEF c, r
    <2>4. table' \in [Id -> Box] /\ table'[id] = c
          /\ \A j \in Id : j # id => table'[j] = table[j]
      BY <1>6, <2>1, <2>2 DEF StepInv, FrameTypeOK
    <2>5. shown' = [shown EXCEPT ![id] = ViewOf(c)] BY <1>6, <2>4 DEF View
    <2>6. shown' = [shown EXCEPT ![id].status = "released"] BY <1>3, <1>6, <2>2, <2>5
    <2>7. shown \in [Id -> P!Mailbox] /\ call \in [Proc -> P!Call]
      BY DEF StepInv, P!Inv2, P!Inv1, P!TypeOK, P!Id, Id
    <2>8. M!Next
      <3>1. M!FreeRelease(p, id)
        BY <1>3, <1>4, <1>6, <2>3, <2>6 DEF M!FreeRelease, r
      <3> QED BY <1>2, <3>1 DEF M!Free, M!Start, M!Next
    <2>9. P!Inv2' BY <2>8, ShownStep DEF StepInv
    <2>10. shown'[id] = ViewOf(table'[id]) /\ \A j \in Id : j # id => shown'[j] = shown[j]
      BY <1>6, <2>4, <2>5, <2>7
    <2>11. OthersKept(p) /\ PendingOK(call'[p])
      <3>1. \A q \in Proc \ {p} : call'[q] = call[q] BY <2>3, <2>7
      <3>2. call'[p] = r BY <2>3, <2>7
      <3>3. pstate' = pstate /\ signal' = signal BY <1>6
      <3> QED BY <3>1, <3>2, <3>3, OthersQuiet DEF PendingOK, r
    <2> DEFINE f == frame[p]
    <2>12. f \in Frame /\ frame' = [frame EXCEPT ![p] = f] /\ f.at = "outside"
      BY <1>2, <1>6 DEF StepInv, FrameTypeOK, Outside, Inside
    <2> HIDE DEF f
    <2>13. Inside(p) => frame[p].mb = id BY <1>2 DEF Outside
    <2>14. nextMailboxId' = nextMailboxId BY <1>6
    <2>15. /\ \A j \in Id : j # id => table'[j] = table[j] /\ shown'[j] = shown[j]
           /\ f.at = "outside" => (id \in Id => shown'[id] = ViewOf(table'[id]))
      BY <2>4, <2>10
    <2>16. StepInv'
      BY <1>1, <2>4, <2>9, <2>11, <2>12, <2>13, <2>14, <2>15, Statement
    <2> QED BY <2>8, <2>16
  <1> QED BY <1>1, <1>5, <1>6

(* A process inside mailbox_free is ready. *)
LEMMA FreeingFacts ==
    ASSUME StepInv, NEW p \in Proc, call[p].op \in {"free_send", "free_receive"}
    PROVE  pstate[p] = "ready" /\ call[p].mb \in Id
  <1>1. P!IsFiniteSet(Proc) BY ConstantsAssumption DEF IsFiniteSet, P!IsFiniteSet
  <1>2. P!Inv2 BY DEF StepInv
  <1>3. call[p].op \notin P!Side BY DEF P!Side
  <1>4. pstate[p] = "ready" BY <1>1, <1>2, <1>3, ConstantsAssumption, P!ActiveReady
  <1> QED BY <1>4, PendingCall

LEMMA FreeFrame ==
    ASSUME NEW op \in {"send", "receive"}, NEW id \in Int, NEW l \in Seq(Proc)
    PROVE  [NoFrame EXCEPT !.op = "free", !.at = op, !.mb = id, !.node = l] \in Frame
  <1>0. NoFrame \in Frame BY NoFrameTyped
  <1> DEFINE g1 == [NoFrame EXCEPT !.op = "free"]
  <1>1. g1 \in Frame BY <1>0 DEF Frame
  <1> HIDE DEF g1
  <1> DEFINE g2 == [g1 EXCEPT !.at = op]
  <1>2. g2 \in Frame BY <1>1 DEF Frame
  <1> HIDE DEF g2
  <1> DEFINE g3 == [g2 EXCEPT !.mb = id]
  <1>3. g3 \in Frame BY <1>2 DEF Frame
  <1> HIDE DEF g3
  <1> DEFINE g4 == [g3 EXCEPT !.node = l]
  <1>4. g4 \in Frame BY <1>3 DEF Frame
  <1> HIDE DEF g4
  <1> QED BY <1>4 DEF g1, g2, g3, g4

LEMMA FreePopStep ==
    ASSUME StepInv, NEW p \in Proc, NEW op \in {"send", "receive"}, FreePop(p, op)
    PROVE  [M!Next]_(M!vars) /\ StepInv'
  <1> DEFINE id == call[p].mb
             b == table[id]
             s == shown[id]
             l == ListIn(b, op)
             q == <<Head(l)>>
             t == Tail(l)
             g == [NoFrame EXCEPT !.op = "free", !.at = op, !.mb = id, !.node = q]
             c == WithList(b, op, t)
  <1>1. /\ Outside(p) /\ call[p].op \in {"free_send", "free_receive"}
        /\ IF op = "send" THEN call[p].op = "free_send" /\ ~SendListEmpty(p)
           ELSE /\ call[p].op = "free_send" => SendListEmpty(p)
                /\ ~ReceiveListEmpty(p)
        /\ Enter(p, g) /\ table' = [table EXCEPT ![id] = c] /\ UNCHANGED Kernel
    BY DEF FreePop
  <1>2. pstate[p] = "ready" /\ id \in Id /\ id \in Int BY <1>1, FreeingFacts DEF Id
  <1>3. g.op = "free" /\ g.at = op /\ g.mb = id /\ g.node = q BY DEF NoFrame
  <1>4. Alone(p, id) BY <1>1, <1>3 DEF Enter
  <1>5. s = ViewOf(b) /\ b \in Box /\ s \in P!Mailbox BY <1>1, <1>2, <1>4, OutsideFacts
  <1>6. l \in Seq(Proc) /\ ListIn(s, op) = l BY <1>5, ViewListIn
  <1>7. l # <<>> BY <1>1 DEF SendListEmpty, ReceiveListEmpty, ListIn
  <1> HIDE DEF l
  <1>8. q \in Seq(Proc) /\ t \in Seq(Proc) BY <1>6, <1>7
  <1> HIDE DEF q, t
  <1>9. g \in Frame BY <1>2, <1>8, FreeFrame
  <1> HIDE DEF g
  <1>10. c \in Box /\ ViewOf(c) = WithList(s, op, t) BY <1>5, <1>8, ViewList
  <1> HIDE DEF c
  <1>11. b.blockedSendList = s.blockedSendList BY <1>5, ViewTyped
  <1>12. InFree(g, c, s, call[p])
    BY <1>1, <1>3, <1>6, <1>7, <1>10, <1>11 DEF InFree, SendListEmpty, q, t
  <1>13. Stage(p, g, c, s, call[p]) BY <1>3, <1>12 DEF Stage
  <1>14. /\ g.at # "outside" /\ g.mb \in Id /\ g.op # "create"
         /\ call[p].op \notin {"send", "receive"}
         /\ table' = [table EXCEPT ![g.mb] = c] /\ UNCHANGED Kernel
         /\ Stage(p, g, c, shown[g.mb], call[p])
    BY <1>1, <1>2, <1>3, <1>13
  <1>15. UNCHANGED M!vars /\ StepInv'
    BY <1>1, <1>2, <1>9, <1>10, <1>14, EnterStep
  <1> QED BY <1>15

(* The first process of a list is blocked, and so in no stretch. *)
LEMMA FirstBlocked ==
    ASSUME StepInv, NEW id \in Id, NEW op \in {"send", "receive"},
           ListIn(shown[id], op) # <<>>
    PROVE  /\ Head(ListIn(shown[id], op)) \in Proc
           /\ ~Inside(Head(ListIn(shown[id], op)))
  <1> DEFINE l == ListIn(shown[id], op)
  <1>1. shown \in [Id -> P!Mailbox]
    BY DEF StepInv, P!Inv2, P!Inv1, P!TypeOK, P!Id, Id
  <1>2. l \in Seq(Proc) BY <1>1 DEF P!Mailbox, ListIn
  <1>3. P!ListOf(op, id) = l BY DEF P!ListOf, ListIn
  <1>4. \A i \in 1 .. Len(P!ListOf(op, id)) : pstate[P!ListOf(op, id)[i]] = "blocked"
    BY DEF StepInv, P!Inv2, P!Waiters, P!WaitersBlocked, P!Id, Id
  <1> HIDE DEF l
  <1>5. 1 \in 1 .. Len(l) /\ Head(l) = l[1] /\ l[1] \in Proc BY <1>2 DEF l
  <1>6. pstate[Head(l)] = "blocked" BY <1>3, <1>4, <1>5
  <1>7. ~Inside(Head(l)) BY <1>5, <1>6, InsideFacts
  <1> QED BY <1>5, <1>7 DEF l

LEMMA FreeUnblockStep ==
    ASSUME StepInv, NEW p \in Proc, NEW op \in {"send", "receive"}, FreeUnblock(p, op)
    PROVE  [M!Next]_(M!vars) /\ StepInv'
  <1> DEFINE f == frame[p]
             b == table[f.mb]
             s == shown[f.mb]
             l == ListIn(s, op)
             q == Head(l)
  <1>1. /\ Inside(p) /\ f.op = "free" /\ f.at = op
        /\ signal' = IF op = "send" THEN [signal EXCEPT ![Head(f.node)] = TRUE] ELSE signal
        /\ pstate' = [pstate EXCEPT ![Head(f.node)] = "ready"]
        /\ call' = [call EXCEPT ![p].op = IF op = "send" THEN "free_send"
                                                         ELSE "free_receive"]
        /\ UNCHANGED <<table, nextMailboxId, result>> /\ Leave(p)
    BY DEF FreeUnblock, At, Inside
  <1>2. /\ f.mb \in Id /\ b \in Box /\ s \in P!Mailbox /\ pstate[p] = "ready"
        /\ Stage(p, f, b, s, call[p])
    BY <1>1, InsideFacts
  <1>3. InFree(f, b, s, call[p]) BY <1>1, <1>2 DEF Stage
  <1>4. /\ l # <<>> /\ f.node = <<q>> /\ ViewOf(b) = WithList(s, op, Tail(l))
        /\ call[p].mb = f.mb
        /\ \/ call[p].op = "free_send" /\ (op = "receive" => s.blockedSendList = <<>>)
           \/ call[p].op = "free_receive" /\ op = "receive"
    BY <1>1, <1>3 DEF InFree
  <1>5. Head(f.node) = q BY <1>4
  <1>6. shown' = [shown EXCEPT ![f.mb] = WithList(s, op, Tail(l))]
    BY <1>1, <1>4, LeaveShown
  <1>7. /\ call \in [Proc -> P!Call] /\ pstate \in [Proc -> {"ready", "blocked"}]
        /\ signal \in [Proc -> BOOLEAN]
    BY DEF StepInv, P!Inv2, P!Inv1, P!TypeOK
  <1>8. q \in Proc /\ ~Inside(q) BY <1>2, <1>4, FirstBlocked
  <1>9. ASSUME op = "send" PROVE M!Next
    <2>1. call' = call
      BY <1>1, <1>4, <1>7, <1>9 DEF P!Call
    <2>2. shown' = [shown EXCEPT ![f.mb].blockedSendList = M!Rest(@)]
      BY <1>4, <1>6, <1>9 DEF WithList, ListIn, M!Rest
    <2>3. s.blockedSendList = l BY <1>9 DEF ListIn
    <2>4. pstate' = M!WakeFirst(l) /\ signal' = [signal EXCEPT ![q] = TRUE]
      BY <1>1, <1>4, <1>5, <1>9 DEF M!WakeFirst
    <2> HIDE DEF l
    <2>5. M!FreeSender(p)
      BY <1>1, <1>2, <1>4, <1>9, <2>1, <2>2, <2>3, <2>4 DEF M!FreeSender, M!Running
    <2> QED BY <2>5 DEF M!Continue, M!Next
  <1>10. ASSUME op = "receive" PROVE M!Next
    <2>1. shown' = [shown EXCEPT ![f.mb].blockedReceiveList = M!Rest(@)]
      BY <1>4, <1>6, <1>10 DEF WithList, ListIn, M!Rest
    <2>2. s.blockedReceiveList = l BY <1>10 DEF ListIn
    <2>3. pstate' = M!WakeFirst(l) BY <1>1, <1>4, <1>5 DEF M!WakeFirst
    <2>4. M!SendersFreed(p) BY <1>2, <1>4, <1>10 DEF M!SendersFreed, M!Running
    <2>5. call' = [call EXCEPT ![p].op = "free_receive"] BY <1>1, <1>10
    <2> HIDE DEF l
    <2>6. M!FreeReceiver(p)
      BY <1>1, <1>4, <1>10, <2>1, <2>2, <2>3, <2>4, <2>5 DEF M!FreeReceiver
    <2> QED BY <2>6 DEF M!Continue, M!Next
  <1>11. M!Next BY <1>9, <1>10
  <1>12. OthersKept(p)
    <2> SUFFICES ASSUME NEW o \in Proc, o # p
                 PROVE  /\ call'[o] = call[o]
                        /\ Inside(o) => pstate'[o] = "ready" /\ signal'[o] = signal[o]
      BY DEF OthersKept
    <2>1. call'[o] = call[o] BY <1>1, <1>7
    <2>2. ASSUME Inside(o) PROVE pstate'[o] = "ready" /\ signal'[o] = signal[o]
      <3>1. pstate[o] = "ready" /\ o # q BY <1>8, <2>2, InsideFacts
      <3> HIDE DEF q
      <3> QED BY <1>1, <1>5, <1>7, <3>1
    <2> QED BY <2>1, <2>2
  <1>13. PendingOK(call'[p]) BY <1>1, <1>7 DEF PendingOK, P!Call
  <1>14. table' = [table EXCEPT ![f.mb] = b] BY <1>1, <1>2 DEF StepInv, FrameTypeOK
  <1>15. nextMailboxId' = nextMailboxId BY <1>1
  <1>16. StepInv'
    BY <1>1, <1>2, <1>11, <1>12, <1>13, <1>14, <1>15, LeaveStep
  <1> QED BY <1>11, <1>16

LEMMA FreeReturnStep ==
    ASSUME StepInv, NEW p \in Proc, FreeReturn(p)
    PROVE  [M!Next]_(M!vars) /\ StepInv'
  <1> DEFINE id == call[p].mb
  <1>1. /\ Outside(p) /\ call[p].op \in {"free_send", "free_receive"} /\ Alone(p, id)
        /\ call[p].op = "free_send" => SendListEmpty(p)
        /\ ReceiveListEmpty(p) /\ Answer(p, 0)
    BY DEF FreeReturn
  <1>2. pstate[p] = "ready" /\ id \in Id BY <1>1, FreeingFacts
  <1>3. /\ shown[id].blockedSendList = table[id].blockedSendList
        /\ shown[id].blockedReceiveList = table[id].blockedReceiveList
    BY <1>1, <1>2, OutsideFacts, ViewTyped
  <1>4. ASSUME M!Fail(p, 0) PROVE M!Next
    <2>1. M!SendersFreed(p)
      BY <1>1, <1>2, <1>3 DEF M!SendersFreed, M!Running, SendListEmpty
    <2>2. M!FreeReturn(p)
      BY <1>1, <1>3, <1>4, <2>1 DEF M!FreeReturn, M!Fail, ReceiveListEmpty
    <2> QED BY <2>2 DEF M!Continue, M!Next
  <1> QED BY <1>1, <1>4, OutsideAnswer

LEMMA FreeStep ==
    ASSUME StepInv, NEW p \in Proc, FreeSteps(p)
    PROVE  [M!Next]_(M!vars) /\ StepInv'
  BY FreeStartStep, FreePopStep, FreeUnblockStep, FreeReturnStep DEF FreeSteps

-----------------------------------------------------------------------------
(* mailbox_create                                                          *)

(* b becomes a mailbox whose slots are l. *)
LEMMA MakeBox ==
    ASSUME NEW b \in Box, NEW size \in Int, NEW n \in Int
    PROVE  LET c == [b EXCEPT !.status = "inuse", !.slotSize = size,
                              !.slotCount = n, !.slots = <<>>]
           IN  /\ c \in Box /\ c.slots = <<>>
               /\ ViewOf(c) = M!Initialised(ViewOf(b), n, size, 0)
  <1> DEFINE c1 == [b EXCEPT !.status = "inuse"]
             c2 == [c1 EXCEPT !.slotSize = size]
             c3 == [c2 EXCEPT !.slotCount = n]
             c == [c3 EXCEPT !.slots = <<>>]
             v == ViewOf(b)
             w1 == [v EXCEPT !.status = "inuse"]
             w2 == [w1 EXCEPT !.slotSize = size]
             w3 == [w2 EXCEPT !.slotCount = n]
  <1>1. c1 \in Box /\ ViewOf(c1) = w1 BY DEF Box, ViewOf
  <1> HIDE DEF c1, w1
  <1>2. c2 \in Box /\ ViewOf(c2) = w2
    <2>1. c2 \in Box BY <1>1 DEF Box
    <2>2. ViewOf(c2) = [ViewOf(c1) EXCEPT !.slotSize = size] BY <1>1 DEF Box, ViewOf
    <2> QED BY <1>1, <2>1, <2>2
  <1> HIDE DEF c2, w2
  <1>3. c3 \in Box /\ ViewOf(c3) = w3
    <2>1. c3 \in Box BY <1>2 DEF Box
    <2>2. ViewOf(c3) = [ViewOf(c2) EXCEPT !.slotCount = n] BY <1>2 DEF Box, ViewOf
    <2> QED BY <1>2, <2>1, <2>2
  <1> HIDE DEF c3, w3
  <1> DEFINE none == <<>>
             noSlots == [i \in DOMAIN none |-> IF none[i].messageSize = 0 THEN NoMsg
                                              ELSE none[i].message]
  <1>4. none \in Seq(SlotRecord) /\ noSlots = [i \in 1 .. 0 |-> NoMsg]
    OBVIOUS
  <1>5. c = [c3 EXCEPT !.slots = none] OBVIOUS
  <1> HIDE DEF none
  <1>6. c \in Box /\ c.slots = none BY <1>3, <1>4, <1>5 DEF Box
  <1>7. ViewOf(c) = [c EXCEPT !.slots = noSlots] BY <1>6 DEF ViewOf
  <1> HIDE DEF noSlots
  <1>8. [c EXCEPT !.slots = noSlots] = [c3 EXCEPT !.slots = noSlots]
    BY <1>3, <1>5 DEF Box
  <1>9. [c3 EXCEPT !.slots = noSlots] = [ViewOf(c3) EXCEPT !.slots = noSlots]
    BY <1>3 DEF Box, ViewOf
  <1>10. ViewOf(c) = [w3 EXCEPT !.slots = noSlots] BY <1>3, <1>7, <1>8, <1>9
  <1>11. M!Initialised(v, n, size, 0) = [w3 EXCEPT !.slots = [i \in 1 .. 0 |-> NoMsg]]
    BY DEF M!Initialised, w1, w2, w3
  <1> QED BY <1>4, <1>6, <1>10, <1>11 DEF c1, c2, c3, none

(* One more slot of a mailbox that is being made. *)
LEMMA MoreSlots ==
    ASSUME NEW s \in P!Mailbox, NEW n, NEW size, NEW k \in Nat
    PROVE  LET v == M!Initialised(s, n, size, k)
           IN  [v EXCEPT !.slots = Append(v.slots, NoMsg)]
                   = M!Initialised(s, n, size, k + 1)
  <1> DEFINE t == [i \in 1 .. k |-> NoMsg]
             u == [i \in 1 .. k + 1 |-> NoMsg]
             w == [s EXCEPT !.status = "inuse", !.slotSize = size, !.slotCount = n]
  <1>1. Append(t, NoMsg) = u OBVIOUS
  <1>2. /\ M!Initialised(s, n, size, k) = [w EXCEPT !.slots = t]
        /\ M!Initialised(s, n, size, k + 1) = [w EXCEPT !.slots = u]
    BY DEF M!Initialised
  <1> HIDE DEF t, u
  <1>3. [w EXCEPT !.slots = t].slots = t BY DEF P!Mailbox
  <1> HIDE DEF w
  <1> QED BY <1>1, <1>2, <1>3

LEMMA CreateFrame ==
    ASSUME NEW id \in Int, NEW size \in Int, NEW n \in Int
    PROVE  [NoFrame EXCEPT !.op = "create", !.at = "entry", !.mb = id, !.size = size,
                           !.n = n] \in Frame
  <1>0. NoFrame \in Frame BY NoFrameTyped
  <1> DEFINE g1 == [NoFrame EXCEPT !.op = "create"]
  <1>1. g1 \in Frame BY <1>0 DEF Frame
  <1> HIDE DEF g1
  <1> DEFINE g2 == [g1 EXCEPT !.at = "entry"]
  <1>2. g2 \in Frame BY <1>1 DEF Frame
  <1> HIDE DEF g2
  <1> DEFINE g3 == [g2 EXCEPT !.mb = id]
  <1>3. g3 \in Frame BY <1>2 DEF Frame
  <1> HIDE DEF g3
  <1> DEFINE g4 == [g3 EXCEPT !.size = size]
  <1>4. g4 \in Frame BY <1>3 DEF Frame
  <1> HIDE DEF g4
  <1> DEFINE g5 == [g4 EXCEPT !.n = n]
  <1>5. g5 \in Frame BY <1>4, FrameNumber
  <1> HIDE DEF g5
  <1> QED BY <1>5 DEF g1, g2, g3, g4, g5

LEMMA CreateStartStep ==
    ASSUME StepInv, NEW p \in Proc, CreateStart(p)
    PROVE  [M!Next]_(M!vars) /\ StepInv'
  <1>1. Outside(p) /\ M!Idle(p) BY DEF CreateStart
  <1>2. CASE nextMailboxId >= MaxMbox /\ Answer(p, -1)
    <2>1. ASSUME M!Fail(p, -1) PROVE M!Next
      <3>1. M!CreateTableFull(p) BY <1>2, <2>1 DEF M!CreateTableFull
      <3> QED BY <1>1, <3>1 DEF M!Create, M!Start, M!Next
    <2> QED BY <1>1, <1>2, <2>1, OutsideAnswer
  <1>3. ASSUME NEW n \in SlotCounts, NEW size \in SlotSizes, nextMailboxId < MaxMbox,
               Enter(p, [NoFrame EXCEPT !.op = "create", !.at = "entry",
                                        !.mb = nextMailboxId, !.size = size, !.n = n]),
               UNCHANGED <<table, Kernel>>
        PROVE  UNCHANGED M!vars /\ StepInv'
    <2> DEFINE id == nextMailboxId
               b == table[id]
               s == shown[id]
               g == [NoFrame EXCEPT !.op = "create", !.at = "entry", !.mb = id,
                                    !.size = size, !.n = n]
    <2>1. id \in 0 .. MaxMbox BY DEF StepInv, P!Inv2, P!Inv1, P!TypeOK
    <2>2. id \in Id /\ id \in Int BY <1>3, <2>1, ConstantsAssumption DEF Id
    <2>3. n \in Int /\ size \in Int BY ConstantsAssumption
    <2>4. g.op = "create" /\ g.at = "entry" /\ g.mb = id /\ g.size = size /\ g.n = n
      BY DEF NoFrame
    <2>5. Enter(p, g) BY <1>3
    <2> HIDE DEF id
    <2>6. g \in Frame BY <2>2, <2>3, CreateFrame
    <2> HIDE DEF g
    <2>7. s = ViewOf(b) /\ b \in Box BY <1>1, <2>2, <2>4, <2>5, OutsideFacts DEF Enter
    <2>8. pstate[p] = "ready" /\ call[p] = M!NoCall /\ call[p].op = "none"
      BY <1>1, IdleFacts
    <2>9. Stage(p, g, b, s, call[p]) BY <2>4, <2>7, <2>8 DEF Stage, InCreate
    <2>10. /\ g.at # "outside" /\ g.mb \in Id /\ g.mb = nextMailboxId
           /\ table' = [table EXCEPT ![g.mb] = b] /\ UNCHANGED Kernel
           /\ Stage(p, g, b, shown[g.mb], call[p])
      BY <1>3, <2>2, <2>4, <2>9 DEF StepInv, FrameTypeOK, id
    <2> QED BY <1>1, <2>5, <2>6, <2>7, <2>8, <2>10, EnterStep
  <1> QED BY <1>2, <1>3 DEF CreateStart

LEMMA CreateFacts ==
    ASSUME StepInv, NEW p \in Proc, Inside(p), frame[p].op = "create"
    PROVE  LET f == frame[p]
               b == table[f.mb]
               s == shown[f.mb]
           IN  /\ InCreate(f, b, s, call[p])
               /\ f \in Frame /\ f.mb \in Id /\ b \in Box /\ s \in P!Mailbox
               /\ f.n \in Int /\ f.size \in Int /\ M!Allocated(f.n) \in Nat
               /\ f.mb = nextMailboxId /\ nextMailboxId < MaxMbox
               /\ M!Idle(p) /\ f.n \in SlotCounts /\ f.size \in SlotSizes
               /\ Len(b.slots) \in Nat
  <1> DEFINE f == frame[p]
             b == table[f.mb]
             s == shown[f.mb]
  <1>1. /\ f \in Frame /\ f.mb \in Id /\ b \in Box /\ s \in P!Mailbox
        /\ Stage(p, f, b, s, call[p]) /\ f.mb = nextMailboxId
    BY InsideFacts
  <1>2. InCreate(f, b, s, call[p]) BY <1>1 DEF Stage
  <1>3. f.n \in SlotCounts /\ f.size \in SlotSizes /\ M!Idle(p)
    BY <1>2 DEF InCreate, M!Idle
  <1>4. f.n \in Int /\ f.size \in Int BY <1>1 DEF Frame
  <1>5. M!Allocated(f.n) \in Nat BY <1>4 DEF M!Allocated
  <1>6. nextMailboxId < MaxMbox BY <1>1, ConstantsAssumption DEF Id
  <1>7. Len(b.slots) \in Nat BY <1>1, ViewTyped
  <1> QED BY <1>1, <1>2, <1>3, <1>4, <1>5, <1>6, <1>7

LEMMA CreateEntryStep ==
    ASSUME StepInv, NEW p \in Proc, CreateEntry(p)
    PROVE  [M!Next]_(M!vars) /\ StepInv'
  <1> DEFINE f == frame[p]
             b == table[f.mb]
             s == shown[f.mb]
             c == [b EXCEPT !.status = "inuse", !.slotSize = f.size,
                            !.slotCount = f.n, !.slots = <<>>]
             g == [f EXCEPT !.at = "slots"]
  <1>1. /\ Inside(p) /\ f.op = "create" /\ f.at = "entry"
        /\ table' = [table EXCEPT ![f.mb] = c] /\ Local(p, g) /\ UNCHANGED Kernel
    BY DEF CreateEntry, Go, At, Inside
  <1>2. /\ InCreate(f, b, s, call[p])
        /\ f \in Frame /\ f.mb \in Id /\ b \in Box /\ f.n \in Int /\ f.size \in Int
        /\ M!Allocated(f.n) \in Nat
    BY <1>1, CreateFacts
  <1>3. ViewOf(b) = s BY <1>1, <1>2 DEF InCreate
  <1>4. c \in Box /\ c.slots = <<>> /\ ViewOf(c) = M!Initialised(s, f.n, f.size, 0)
    <2> DEFINE n == f.n
               size == f.size
    <2>1. b \in Box /\ n \in Int /\ size \in Int BY <1>2
    <2> HIDE DEF n, size
    <2>2. LET d == [b EXCEPT !.status = "inuse", !.slotSize = size,
                             !.slotCount = n, !.slots = <<>>]
          IN  /\ d \in Box /\ d.slots = <<>>
              /\ ViewOf(d) = M!Initialised(ViewOf(b), n, size, 0)
      BY <2>1, MakeBox
    <2> QED BY <1>3, <2>2 DEF n, size
  <1>5. g \in Frame BY <1>2, FrameAt
  <1>6. /\ g.op = "create" /\ g.at = "slots" /\ g.mb = f.mb /\ g.size = f.size
        /\ g.n = f.n
    BY <1>1, <1>2 DEF Frame
  <1> HIDE DEF c, g
  <1>7. Len(c.slots) = 0 BY <1>4
  <1>8. InCreate(g, c, s, call[p]) BY <1>1, <1>2, <1>4, <1>6, <1>7 DEF InCreate
  <1>9. Stage(p, g, c, s, call[p]) BY <1>6, <1>8 DEF Stage
  <1>10. g.op = f.op /\ g.at # "outside" BY <1>1, <1>6
  <1>11. UNCHANGED M!vars /\ StepInv'
    BY <1>1, <1>4, <1>5, <1>6, <1>9, <1>10, LocalStep
  <1> QED BY <1>11

LEMMA CreateSlotStep ==
    ASSUME StepInv, NEW p \in Proc, CreateSlot(p)
    PROVE  [M!Next]_(M!vars) /\ StepInv'
  <1> DEFINE f == frame[p]
             b == table[f.mb]
             s == shown[f.mb]
             k == Len(b.slots)
  <1>1. Inside(p) /\ f.op = "create" /\ f.at = "slots" /\ k < M!Allocated(f.n)
    BY DEF CreateSlot, At, Inside
  <1>2. /\ InCreate(f, b, s, call[p]) /\ s \in P!Mailbox
        /\ f \in Frame /\ f.mb \in Id /\ b \in Box /\ f.n \in Int /\ f.size \in Int
        /\ M!Allocated(f.n) \in Nat /\ f.mb = nextMailboxId /\ nextMailboxId < MaxMbox
        /\ M!Idle(p) /\ f.n \in SlotCounts /\ f.size \in SlotSizes /\ k \in Nat
    BY <1>1, CreateFacts
  <1>3. ViewOf(b) = M!Initialised(s, f.n, f.size, k) BY <1>1, <1>2 DEF InCreate
  <1>4. CASE /\ table' = [table EXCEPT ![f.mb].slots = Append(@, EmptySlot)]
             /\ UNCHANGED <<shown, frame, Kernel>>
    <2> DEFINE c == [b EXCEPT !.slots = Append(b.slots, EmptySlot)]
    <2>1. /\ c \in Box /\ Len(Append(b.slots, EmptySlot)) = k + 1
          /\ ViewOf(c) = [ViewOf(b) EXCEPT !.slots = Append(ViewOf(b).slots, NoMsg)]
      BY <1>2, ViewAppend
    <2>2. table' = [table EXCEPT ![f.mb] = c] BY <1>4
    <2>3. c.slots = Append(b.slots, EmptySlot) BY <1>2 DEF Box
    <2> HIDE DEF c
    <2>4. Len(c.slots) = k + 1 BY <2>1, <2>3
    <2>5. ViewOf(c) = M!Initialised(s, f.n, f.size, k + 1)
      <3> DEFINE v == M!Initialised(s, f.n, f.size, k)
      <3> HIDE DEF k
      <3>1. [v EXCEPT !.slots = Append(v.slots, NoMsg)]
                = M!Initialised(s, f.n, f.size, k + 1)
        BY ZenonT(60), <1>2, MoreSlots
      <3> HIDE DEF v
      <3> QED BY <1>3, <2>1, <3>1 DEF v
    <2>6. Len(c.slots) <= M!Allocated(f.n)
      <3> HIDE DEF k
      <3> QED BY <1>1, <1>2, <2>4
    <2>7. InCreate(f, c, s, call[p]) BY <1>1, <1>2, <2>4, <2>5, <2>6 DEF InCreate
    <2>8. Stage(p, f, c, s, call[p]) BY <1>1, <2>7 DEF Stage
    <2>9. Local(p, f) BY <1>2, <1>4 DEF Local, StepInv, FrameTypeOK
    <2>10. UNCHANGED Kernel /\ f.at # "outside" BY <1>1, <1>4
    <2>11. UNCHANGED M!vars /\ StepInv'
      BY <1>1, <1>2, <2>1, <2>2, <2>8, <2>9, <2>10, LocalStep
    <2> QED BY <2>11
  <1>5. CASE MallocMayFail /\ Answer(p, -1)
    <2>1. /\ Leave(p) /\ M!Return(p, -1, NoMsg)
          /\ UNCHANGED <<table, nextMailboxId, pstate, signal>>
      BY <1>5 DEF Answer, Return
    <2>2. shown' = [shown EXCEPT ![f.mb] = M!Initialised(s, f.n, f.size, k)]
      BY <1>1, <1>3, <2>1, LeaveShown
    <2>3. k \in 0 .. M!Allocated(f.n) - 1
      <3> HIDE DEF k
      <3> QED BY <1>1, <1>2
    <2> HIDE DEF k
    <2>4. M!CreateNoMemory(p, f.n, f.size)
      BY <1>2, <1>5, <2>1, <2>2, <2>3 DEF M!CreateNoMemory
    <2>5. M!Next BY <1>2, <2>4 DEF M!Create, M!Start, M!Next
    <2>6. OthersKept(p) /\ PendingOK(call'[p]) BY <2>1, ReturnFacts, OthersQuiet
    <2>7. table' = [table EXCEPT ![f.mb] = b] BY <1>2, <2>1 DEF StepInv, FrameTypeOK
    <2> QED BY <1>1, <1>2, <2>1, <2>5, <2>6, <2>7, LeaveStep
  <1> QED BY <1>4, <1>5 DEF CreateSlot

LEMMA CreateReturnStep ==
    ASSUME StepInv, NEW p \in Proc, CreateReturn(p)
    PROVE  [M!Next]_(M!vars) /\ StepInv'
  <1> DEFINE f == frame[p]
             b == table[f.mb]
             s == shown[f.mb]
             k == Len(b.slots)
             id == nextMailboxId
  <1>1. /\ Inside(p) /\ f.op = "create" /\ f.at = "slots" /\ k >= M!Allocated(f.n)
        /\ nextMailboxId' = nextMailboxId + 1
        /\ table' = table /\ UNCHANGED <<pstate, signal>>
        /\ Leave(p) /\ M!Return(p, nextMailboxId, NoMsg)
    BY DEF CreateReturn, Return, At, Inside
  <1>2. /\ InCreate(f, b, s, call[p])
        /\ f \in Frame /\ f.mb \in Id /\ b \in Box /\ f.n \in Int /\ f.size \in Int
        /\ M!Allocated(f.n) \in Nat /\ f.mb = nextMailboxId /\ nextMailboxId < MaxMbox
        /\ M!Idle(p) /\ f.n \in SlotCounts /\ f.size \in SlotSizes /\ k \in Nat
    BY <1>1, CreateFacts
  <1>3. /\ ViewOf(b) = M!Initialised(s, f.n, f.size, k)
        /\ k <= M!Allocated(f.n)
    BY <1>1, <1>2 DEF InCreate
  <1>4. k = M!Allocated(f.n)
    <2> HIDE DEF k
    <2> QED BY <1>1, <1>2, <1>3
  <1>5. shown' = [shown EXCEPT ![f.mb] = M!Initialised(s, f.n, f.size, k)]
    BY <1>1, <1>3, LeaveShown
  <1> HIDE DEF k
  <1>6. M!CreateMailbox(p, f.n, f.size)
    BY <1>1, <1>2, <1>4, <1>5 DEF M!CreateMailbox
  <1>7. M!Next BY <1>2, <1>6 DEF M!Create, M!Start, M!Next
  <1>8. OthersKept(p) /\ PendingOK(call'[p]) BY <1>1, ReturnFacts, OthersQuiet
  <1>9. table' = [table EXCEPT ![f.mb] = b] BY <1>1, <1>2 DEF StepInv, FrameTypeOK
  <1> QED BY <1>1, <1>2, <1>7, <1>8, <1>9, LeaveStep

LEMMA CreateStep ==
    ASSUME StepInv, NEW p \in Proc, CreateSteps(p)
    PROVE  [M!Next]_(M!vars) /\ StepInv'
  BY CreateStartStep, CreateEntryStep, CreateSlotStep, CreateReturnStep DEF CreateSteps

-----------------------------------------------------------------------------
(* The theorem                                                             *)

LEMMA FirstBox ==
    M!EmptyMailbox \in Box /\ ViewOf(M!EmptyMailbox) = M!EmptyMailbox
  <1> DEFINE none == <<>>
             b == [status |-> "empty", slotSize |-> 0, slotCount |-> 0, slots |-> none,
                   blockedSendList |-> <<>>, blockedReceiveList |-> <<>>]
             v == [i \in DOMAIN none |-> IF none[i].messageSize = 0 THEN NoMsg
                                         ELSE none[i].message]
  <1>1. M!EmptyMailbox = b BY DEF M!EmptyMailbox
  <1>2. none \in Seq(SlotRecord) /\ v = none OBVIOUS
  <1> HIDE DEF none
  <1>3. b \in Box /\ b.slots = none BY <1>2 DEF Box
  <1>4. ViewOf(b) = [b EXCEPT !.slots = v] BY DEF ViewOf
  <1> HIDE DEF v
  <1>5. ViewOf(b) = b BY <1>2, <1>4
  <1> HIDE DEF b
  <1> QED BY <1>1, <1>3, <1>5

LEMMA DeviceBox ==
    ASSUME NEW n \in Int
    PROVE  LET c == [M!EmptyMailbox EXCEPT
                        !.status = "inuse", !.slotSize = IntSize, !.slotCount = n,
                        !.slots = [i \in 1 .. M!Allocated(n) |-> EmptySlot]]
           IN  /\ c \in Box
               /\ ViewOf(c) = M!Initialised(M!EmptyMailbox, n, IntSize, M!Allocated(n))
  <1> DEFINE k == M!Allocated(n)
             t == [i \in 1 .. k |-> EmptySlot]
             u == [i \in 1 .. k |-> NoMsg]
             c == [status |-> "inuse", slotSize |-> IntSize, slotCount |-> n, slots |-> t,
                   blockedSendList |-> <<>>, blockedReceiveList |-> <<>>]
             v == [i \in DOMAIN t |-> IF t[i].messageSize = 0 THEN NoMsg ELSE t[i].message]
             c1 == [M!EmptyMailbox EXCEPT !.status = "inuse"]
             c2 == [c1 EXCEPT !.slotSize = IntSize]
             c3 == [c2 EXCEPT !.slotCount = n]
  <1>1. k \in Nat BY DEF M!Allocated
  <1> HIDE DEF k
  <1>2. t \in Seq(SlotRecord)
    <2>1. EmptySlot \in SlotRecord BY DEF EmptySlot, SlotRecord
    <2>2. t \in [1 .. k -> SlotRecord] BY <2>1
    <2> HIDE DEF t
    <2> QED BY <1>1, <2>2
  <1>3. v = u BY DEF EmptySlot
  <1> HIDE DEF t, u
  <1>4. c \in Box /\ c.slots = t
    <2>1. c.slots = t OBVIOUS
    <2> QED BY <1>2, <2>1, ConstantsAssumption DEF Box
  <1>5. ViewOf(c) = [c EXCEPT !.slots = v] BY DEF ViewOf
  <1> HIDE DEF v
  <1>6. c3 = [status |-> "inuse", slotSize |-> IntSize, slotCount |-> n, slots |-> <<>>,
              blockedSendList |-> <<>>, blockedReceiveList |-> <<>>]
    <2>1. c1 = [status |-> "inuse", slotSize |-> 0, slotCount |-> 0, slots |-> <<>>,
                blockedSendList |-> <<>>, blockedReceiveList |-> <<>>]
      BY DEF M!EmptyMailbox
    <2> HIDE DEF c1
    <2>2. c2 = [status |-> "inuse", slotSize |-> IntSize, slotCount |-> 0, slots |-> <<>>,
                blockedSendList |-> <<>>, blockedReceiveList |-> <<>>]
      BY <2>1
    <2> HIDE DEF c2
    <2> QED BY <2>2
  <1>7. M!Initialised(M!EmptyMailbox, n, IntSize, k) = [c3 EXCEPT !.slots = u]
    BY DEF M!Initialised, u
  <1>8. [M!EmptyMailbox EXCEPT !.status = "inuse", !.slotSize = IntSize, !.slotCount = n,
                               !.slots = t] = [c3 EXCEPT !.slots = t]
    OBVIOUS
  <1> HIDE DEF c3
  <1>9. [c3 EXCEPT !.slots = t] = c /\ [c3 EXCEPT !.slots = u] = [c EXCEPT !.slots = u]
    BY <1>6
  <1> HIDE DEF c
  <1> QED BY <1>3, <1>4, <1>5, <1>7, <1>8, <1>9 DEF t, k

LEMMA InitSteps == SInit => M!Init /\ StepInv
  <1> SUFFICES ASSUME SInit PROVE M!Init /\ StepInv OBVIOUS
  <1> DEFINE n(id) == IF id = 0 THEN 0 ELSE DeviceSlots
             c(id) == [M!EmptyMailbox EXCEPT
                          !.status = "inuse", !.slotSize = IntSize, !.slotCount = n(id),
                          !.slots = [i \in 1 .. M!Allocated(n(id)) |-> EmptySlot]]
             b(id) == IF id < MaxDevices THEN c(id) ELSE M!EmptyMailbox
  <1>1. table = [id \in Id |-> b(id)] BY DEF SInit
  <1>2. ASSUME NEW id \in Id
        PROVE  c(id) \in Box /\ ViewOf(c(id)) = M!DeviceMailbox(id)
    <2>1. n(id) \in Int BY ConstantsAssumption
    <2>2. M!DeviceMailbox(id)
              = M!Initialised(M!EmptyMailbox, n(id), IntSize, M!Allocated(n(id)))
      BY DEF M!DeviceMailbox
    <2> HIDE DEF n
    <2> QED BY <2>1, <2>2, DeviceBox
  <1> HIDE DEF c
  <1>3. \A id \in Id :
            /\ b(id) \in Box
            /\ ViewOf(b(id)) = IF id < MaxDevices THEN M!DeviceMailbox(id)
                               ELSE M!EmptyMailbox
    BY <1>2, FirstBox
  <1> HIDE DEF b
  <1>4. table \in [Id -> Box] /\ \A id \in Id : table[id] = b(id) BY <1>1, <1>3
  <1>5. shown = [id \in Id |-> ViewOf(table[id])] BY DEF SInit, View
  <1>6. shown = [id \in Id |-> IF id < MaxDevices THEN M!DeviceMailbox(id)
                                                 ELSE M!EmptyMailbox]
    BY <1>3, <1>4, <1>5
  <1>7. M!Init BY <1>6 DEF SInit, M!Init, M!Id, Id
  <1>8. P!Inv2 BY <1>7, ShownInit
  <1>9. frame \in [Proc -> Frame] /\ \A p \in Proc : frame[p].at = "outside"
    BY NoFrameTyped DEF SInit
  <1>10. PendingCallsOK BY DEF SInit, PendingCallsOK, M!NoCall
  <1>11. StretchesOK /\ Apart BY <1>9 DEF StretchesOK, Apart, Inside
  <1>12. ShownIsView BY <1>5 DEF ShownIsView, View
  <1> QED BY <1>4, <1>7, <1>8, <1>9, <1>10, <1>11, <1>12 DEF StepInv, FrameTypeOK

LEMMA StepSteps ==
    StepInv /\ [SNext]_svars => [M!Next]_(M!vars) /\ StepInv'
  <1> SUFFICES ASSUME StepInv, [SNext]_svars
               PROVE  [M!Next]_(M!vars) /\ StepInv'
    OBVIOUS
  <1>1. CASE SNext
    <2>1. PICK p \in Proc : CreateSteps(p) \/ SendSteps(p) \/ ReceiveSteps(p) \/ FreeSteps(p)
      BY <1>1 DEF SNext
    <2> QED BY <2>1, CreateStep, SendStep, ReceiveStep, FreeStep
  <1>2. CASE UNCHANGED svars
    <2>1. UNCHANGED M!vars BY <1>2 DEF svars, M!vars
    <2>2. P!Inv2' BY <2>1, ShownStep DEF StepInv
    <2>3. UNCHANGED <<table, shown, frame, nextMailboxId, call, pstate, signal>>
      BY <1>2 DEF svars
    <2>4. FrameTypeOK' BY <2>3 DEF StepInv, FrameTypeOK
    <2>5. PendingCallsOK' BY <2>3 DEF StepInv, PendingCallsOK
    <2>6. StretchesOK' BY <2>3 DEF StepInv, StretchesOK, Inside
    <2>7. Apart' BY <2>3 DEF StepInv, Apart, Inside
    <2>8. ShownIsView' BY <2>3 DEF StepInv, ShownIsView, Uses, Inside, View
    <2> QED BY <2>1, <2>2, <2>4, <2>5, <2>6, <2>7, <2>8 DEF StepInv
  <1> QED BY <1>1, <1>2

(* The inductive invariant holds: a statement of a call finds its mailbox, *)
(* its list and its slot as the statements before it have left them.       *)
THEOREM StretchesInOrder == SSpec => []StepInv
  <1>1. SInit => StepInv BY InitSteps
  <1>2. StepInv /\ [SNext]_svars => StepInv' BY StepSteps
  <1> QED BY <1>1, <1>2, PTL DEF SSpec

(* The code statement by statement implements Messaging: with time slices  *)
(* at any statement, whatever the processes, the messages, the tables and  *)
(* the sizes, each call of Messaging.c does what the steps of Messaging    *)
(* say, if no two stretches on one mailbox overlap.                        *)
THEOREM StretchesImplementSteps == SSpec => StretchesAreSteps
  <1>1. SInit => M!Init BY InitSteps
  <1>2. StepInv /\ [SNext]_svars => [M!Next]_(M!vars) BY StepSteps
  <1> QED BY <1>1, <1>2, StretchesInOrder, PTL DEF SSpec, StretchesAreSteps, M!Spec

(* Statement by statement the code implements the queues of MailboxQueue:  *)
(* time slices lose, double or reorder no message.                         *)
THEOREM StatementsAreQueues == SSpec => P!ImplementsQueues
  <1>1. SInit => P!Queues!QInit
    <2>1. SInit => P!Init BY InitSteps, SameInit
    <2>2. P!IsFiniteSet(Proc) BY ConstantsAssumption DEF IsFiniteSet, P!IsFiniteSet
    <2>3. P!Init => P!Queues!QInit BY <2>2, ConstantsAssumption, P!InitQueues
    <2> QED BY <2>1, <2>3
  <1>2. StepInv /\ [SNext]_svars => [P!Queues!QNext]_(P!Queues!avars)
    <2> SUFFICES ASSUME StepInv, [SNext]_svars
                 PROVE  [P!Queues!QNext]_(P!Queues!avars)
      OBVIOUS
    <2>1. [M!Next]_(M!vars) BY StepSteps
    <2>2. [P!Next]_(P!vars) BY <2>1, SameSteps DEF M!vars, P!vars
    <2>3. P!Inv1 BY DEF StepInv, P!Inv2
    <2>4. P!IsFiniteSet(Proc) BY ConstantsAssumption DEF IsFiniteSet, P!IsFiniteSet
    <2> QED BY <2>2, <2>3, <2>4, ConstantsAssumption, P!StepQueues
  <1> QED BY <1>1, <1>2, StretchesInOrder, PTL
          DEF SSpec, P!ImplementsQueues, P!Queues!QSpec

(* In the table itself, not as it is shown: while no stretch is at a       *)
(* mailbox, the slots with messageSize # 0 come first, and the nodes of    *)
(* its lists stand for processes asleep in that call on that mailbox.      *)
QuietInOrder ==
    \A id \in Id : (\A p \in Proc : ~Uses(p, id)) =>
        /\ \E n \in 0 .. Len(table[id].slots) : \A i \in 1 .. Len(table[id].slots) :
               table[id].slots[i].messageSize # 0 <=> i <= n
        /\ \A op \in {"send", "receive"} : \A i \in 1 .. Len(ListIn(table[id], op)) :
               LET p == ListIn(table[id], op)[i]
               IN  pstate[p] = "blocked" /\ call[p].op = op /\ call[p].mb = id

THEOREM StatementsKeepOrder == SSpec => []QuietInOrder
  <1>1. StepInv => QuietInOrder
    <2> SUFFICES ASSUME StepInv, NEW id \in Id, \A p \in Proc : ~Uses(p, id)
                 PROVE
        /\ \E n \in 0 .. Len(table[id].slots) : \A i \in 1 .. Len(table[id].slots) :
               table[id].slots[i].messageSize # 0 <=> i <= n
        /\ \A op \in {"send", "receive"} : \A i \in 1 .. Len(ListIn(table[id], op)) :
               LET p == ListIn(table[id], op)[i]
               IN  pstate[p] = "blocked" /\ call[p].op = op /\ call[p].mb = id
      BY DEF QuietInOrder
    <2> DEFINE b == table[id]
    <2>1. b \in Box BY DEF StepInv, FrameTypeOK
    <2>2. shown[id] = ViewOf(b) BY DEF StepInv, ShownIsView, View
    <2>3. P!SlotsPrefix /\ P!WaitersBlocked /\ id \in P!Id
      BY DEF StepInv, P!Inv2, P!Inv1, P!Waiters, P!Id, Id
    <2> HIDE DEF b
    <2>4. \E n \in 0 .. Len(b.slots) : \A i \in 1 .. Len(b.slots) :
              b.slots[i].messageSize # 0 <=> i <= n
      <3> DEFINE v == ViewOf(b)
      <3>1. /\ b.slots \in Seq(SlotRecord) /\ Len(b.slots) \in Nat
            /\ DOMAIN b.slots = 1 .. Len(b.slots)
        BY <2>1 DEF Box
      <3>2. v.slots = [i \in DOMAIN b.slots |-> Held(b.slots[i])]
        BY <2>1 DEF Box, ViewOf, Held
      <3>3. Len(v.slots) = Len(b.slots) BY <3>1, <3>2
      <3>4. ASSUME NEW i \in 1 .. Len(b.slots)
            PROVE  b.slots[i].messageSize # 0 <=> v.slots[i] # NoMsg
        <4>1. b.slots[i] \in SlotRecord /\ v.slots[i] = Held(b.slots[i])
          BY <3>1, <3>2
        <4> QED BY <4>1, ConstantsAssumption DEF SlotRecord, Held
      <3>5. \E n \in 0 .. Len(v.slots) : \A i \in 1 .. Len(v.slots) :
                v.slots[i] # NoMsg <=> i <= n
        BY <2>2, <2>3 DEF P!SlotsPrefix
      <3> HIDE DEF v
      <3> QED BY <3>3, <3>4, <3>5
    <2>5. ASSUME NEW op \in {"send", "receive"}, NEW i \in 1 .. Len(ListIn(b, op))
          PROVE  LET p == ListIn(b, op)[i]
                 IN  pstate[p] = "blocked" /\ call[p].op = op /\ call[p].mb = id
      <3>1. P!ListOf(op, id) = ListIn(b, op)
        BY <2>1, <2>2, ViewListIn DEF P!ListOf, ListIn
      <3> QED BY <2>3, <3>1 DEF P!WaitersBlocked
    <2> QED BY <2>4, <2>5 DEF b
  <1> QED BY <1>1, StretchesInOrder, PTL
=============================================================================
