---------------------------- MODULE WakeupProofs ----------------------------
(***************************************************************************)
(* Messaging loses no wakeup: NoLostWakeup holds for every value of its    *)
(* constants.  It compares the sizes of two sets, the empty slots of a     *)
(* mailbox and the senders that are awake, and every step that enlarges    *)
(* the one or shrinks the other has to pay for it.                         *)
(***************************************************************************)
EXTENDS MessagingProofs, FiniteSetTheorems

(* what NoLostWakeup asks of the constants *)
NoFaults == ~MallocMayFail /\ \A m \in Msg : Size[m] > 0

Calm == \A p \in Proc : ~signal[p]

(* the empty slots of id are spoken for, or nobody sleeps *)
Spoken(id) ==
    (mailboxes[id].status = "inuse" /\ mailboxes[id].blockedSendList # <<>>) =>
        Cardinality(EmptySlots(id)) <= Cardinality(WokenSenders(id))

(* An entry of the table that mailbox_create has not reached is untouched: *)
(* its slot size 0 keeps every sender out.                                 *)
Fresh ==
    \A id \in Id : id >= nextMailboxId =>
        /\ mailboxes[id].status = "empty"
        /\ mailboxes[id].slotSize = 0
        /\ mailboxes[id].blockedSendList = <<>>

(* The message of a pending send fits the mailbox, so that a woken sender  *)
(* does not leave with -1.                                                 *)
PendingFits ==
    \A p \in Proc : call[p].op = "send" =>
        Size[call[p].msg] <= mailboxes[call[p].mb].slotSize

Good == Fresh /\ PendingFits /\ (Calm => \A id \in Id : Spoken(id))

-----------------------------------------------------------------------------
(* Counting *)

LEMMA WokenFinite ==
    ASSUME NEW id
    PROVE  /\ IsFiniteSet(WokenSenders(id))
           /\ IsFiniteSet(WokenSenders(id)')
           /\ Cardinality(WokenSenders(id)) \in Nat
           /\ Cardinality(WokenSenders(id)') \in Nat
  <1>1. WokenSenders(id) \in SUBSET Proc BY DEF WokenSenders
  <1>2. WokenSenders(id)' \in SUBSET Proc BY DEF WokenSenders
  <1>3. IsFiniteSet(WokenSenders(id)) BY <1>1, ProcessesAssumption, FS_Subset
  <1>4. IsFiniteSet(WokenSenders(id)') BY <1>2, ProcessesAssumption, FS_Subset
  <1> QED BY <1>3, <1>4, FS_CardinalityType

LEMMA EmptyFinite ==
    ASSUME TypeOK, SlotsPrefix, NEW id \in Id
    PROVE  /\ IsFiniteSet(EmptySlots(id))
           /\ Cardinality(EmptySlots(id)) \in Nat
  <1>1. PICK n \in 0 .. Len(mailboxes[id].slots) :
            EmptySlots(id) = n + 1 .. Len(mailboxes[id].slots)
    BY PrefixSlots
  <1>2. Len(mailboxes[id].slots) \in Nat BY DEF TypeOK, Mailbox
  <1>3. IsFiniteSet(EmptySlots(id)) BY <1>1, <1>2, FS_Interval
  <1> QED BY <1>3, FS_CardinalityType

(* Whoever is awake in a send stays so unless it is the one that moves. *)
LEMMA KeepWoken ==
    ASSUME NEW p \in Proc, NEW id,
           \A q \in Proc \ {p} : call'[q] = call[q],
           \A q \in Proc \ {p} : pstate'[q] \in {pstate[q], "ready"}
    PROVE  WokenSenders(id) \ {p} \subseteq WokenSenders(id)'
  BY DEF WokenSenders, Running

(* A mailbox whose slots and blocked senders stay and that gains senders   *)
(* awake.                                                                  *)
LEMMA KeepSpoken ==
    ASSUME NEW id \in Id, Spoken(id),
           mailboxes'[id].status = "inuse" => mailboxes[id].status = "inuse",
           mailboxes'[id].slots = mailboxes[id].slots,
           mailboxes'[id].blockedSendList = mailboxes[id].blockedSendList,
           TypeOK, SlotsPrefix,
           WokenSenders(id) \subseteq WokenSenders(id)'
    PROVE  Spoken(id)'
  <1>1. EmptySlots(id)' = EmptySlots(id) BY DEF EmptySlots
  <1>2. Cardinality(EmptySlots(id))' = Cardinality(EmptySlots(id)) BY <1>1
  <1>3. Cardinality(WokenSenders(id)) <= Cardinality(WokenSenders(id)')
    BY WokenFinite, FS_Subset
  <1>4. Cardinality(EmptySlots(id)) \in Nat BY EmptyFinite
  <1> QED BY <1>2, <1>3, <1>4, WokenFinite DEF Spoken

(* Fresh and PendingFits outlive a step that creates nothing and starts no *)
(* send that does not fit.                                                 *)
LEMMA KeepSupport ==
    ASSUME Inv1, Fresh, PendingFits, nextMailboxId' = nextMailboxId,
           \A id \in Id :
               /\ mailboxes'[id].slotSize = mailboxes[id].slotSize
               /\ mailboxes[id].status = "empty" => mailboxes'[id].status = "empty"
               /\ (mailboxes[id].slotSize = 0 /\ mailboxes[id].blockedSendList = <<>>)
                      => mailboxes'[id].blockedSendList = <<>>,
           \A q \in Proc : call'[q].op = "send" =>
               \/ call'[q] = call[q]
               \/ /\ call'[q].mb \in Id
                  /\ Size[call'[q].msg] <= mailboxes[call'[q].mb].slotSize
    PROVE  Fresh' /\ PendingFits'
  <1>1. Fresh' BY DEF Fresh, Id
  <1>2. ASSUME NEW q \in Proc, call'[q].op = "send"
        PROVE  Size[call'[q].msg] <= mailboxes'[call'[q].mb].slotSize
    <2>1. CASE call'[q] = call[q]
      <3>1. call[q].mb \in Id BY <1>2, <2>1 DEF Inv1, CallOK
      <3> QED BY <1>2, <2>1, <3>1 DEF PendingFits
    <2>2. CASE /\ call'[q].mb \in Id
               /\ Size[call'[q].msg] <= mailboxes[call'[q].mb].slotSize
      BY <2>2
    <2> QED BY <1>2, <2>1, <2>2
  <1> QED BY <1>1, <1>2 DEF PendingFits

-----------------------------------------------------------------------------
(* The steps *)

(* A step of p that touches no slot and no list of senders, where p was    *)
(* not awake in a send, or gives one up that is interrupted.               *)
LEMMA QuietGood ==
    ASSUME Inv1, Good, NEW p \in Proc, UNCHANGED <<nextMailboxId, signal>>,
           \A id \in Id :
               /\ mailboxes'[id].slotSize = mailboxes[id].slotSize
               /\ mailboxes'[id].slots = mailboxes[id].slots
               /\ mailboxes'[id].blockedSendList = mailboxes[id].blockedSendList
               /\ mailboxes[id].status = "empty" => mailboxes'[id].status = "empty"
               /\ mailboxes'[id].status = "inuse" => mailboxes[id].status = "inuse",
           \A q \in Proc \ {p} : call'[q] = call[q],
           \A q \in Proc \ {p} : pstate'[q] \in {pstate[q], "ready"},
           call'[p].op # "send",
           Running(p, "send") => Interrupted(p)
    PROVE  Good'
  <1>1. Fresh' /\ PendingFits'
    <2>1. \A q \in Proc : call'[q].op = "send" => call'[q] = call[q] OBVIOUS
    <2> QED BY <2>1, KeepSupport DEF Good
  <1>2. ASSUME Calm', NEW id \in Id PROVE Spoken(id)'
    <2>1. Calm BY <1>2 DEF Calm
    <2>2. Spoken(id) BY <2>1 DEF Good
    <2>3. CASE p \notin WokenSenders(id)
      <3>1. WokenSenders(id) \subseteq WokenSenders(id)' BY <2>3, KeepWoken
      <3> QED BY <2>2, <3>1, KeepSpoken DEF Inv1
    <2>4. CASE p \in WokenSenders(id)
      <3>1. mailboxes[id].status = "released"
        BY <2>1, <2>4 DEF Calm, WokenSenders, Interrupted
      <3> QED BY <3>1 DEF Spoken
    <2> QED BY <2>3, <2>4
  <1> QED BY <1>1, <1>2 DEF Good

LEMMA FailGood ==
    ASSUME Inv1, Good, NEW p \in Proc, NEW code, Fail(p, code),
           Running(p, "send") => Interrupted(p)
    PROVE  Good'
  <1>1. /\ \A q \in Proc \ {p} : call'[q] = call[q]
        /\ call'[p].op # "send"
    BY DEF Fail, Return, Inv1, TypeOK, NoCall
  <1>2. UNCHANGED <<mailboxes, nextMailboxId, pstate, signal>> BY DEF Fail
  <1> QED BY <1>1, <1>2, QuietGood

(* mailbox_create takes the first entry nobody has reached. *)
LEMMA MakeGood ==
    ASSUME Inv1, Good, NEW p \in Proc, ~Running(p, "send"), \A m \in Msg : Size[m] > 0,
           NEW slots \in Int, NEW slotSize \in Int, CreateMailbox(p, slots, slotSize)
    PROVE  Good'
  <1> USE DEF Inv1
  <1> DEFINE k == nextMailboxId
             b == Initialised(mailboxes[k], slots, slotSize, Allocated(slots))
  <1>1. k \in Id /\ nextMailboxId' = k + 1 /\ signal' = signal /\ pstate' = pstate
    BY TableAssumption DEF CreateMailbox, TypeOK, Id
  <1>2. mailboxes' = [mailboxes EXCEPT ![k] = b] BY DEF CreateMailbox
  <1>3. mailboxes[k].slotSize = 0 /\ mailboxes[k].blockedSendList = <<>>
    BY <1>1 DEF Good, Fresh, Id
  <1>4. b.blockedSendList = <<>>
    BY <1>1, <1>3 DEF Initialised, TypeOK, Mailbox
  <1> HIDE DEF b
  <1>5. mailboxes'[k].blockedSendList = <<>> BY <1>1, <1>2, <1>4 DEF TypeOK
  <1>6. \A id \in Id \ {k} : mailboxes'[id] = mailboxes[id]
    BY <1>2 DEF TypeOK
  <1>7. /\ \A q \in Proc \ {p} : call'[q] = call[q]
        /\ call'[p].op # "send"
    BY DEF CreateMailbox, Return, TypeOK, NoCall
  <1>8. Fresh'
    <2> SUFFICES ASSUME NEW id \in Id, id >= k + 1
                 PROVE  /\ mailboxes'[id].status = "empty"
                        /\ mailboxes'[id].slotSize = 0
                        /\ mailboxes'[id].blockedSendList = <<>>
      BY <1>1 DEF Fresh
    <2>1. id # k /\ id >= k BY <1>1 DEF Id
    <2> QED BY <1>6, <2>1 DEF Good, Fresh
  <1>9. PendingFits'
    <2> SUFFICES ASSUME NEW q \in Proc, call'[q].op = "send"
                 PROVE  Size[call'[q].msg] <= mailboxes'[call'[q].mb].slotSize
      BY DEF PendingFits
    <2>1. call'[q] = call[q] BY <1>7
    <2>2. call[q].mb \in Id /\ call[q].msg \in Msg BY <2>1 DEF CallOK
    <2>3. Size[call[q].msg] > 0 /\ Size[call[q].msg] \in Nat
      BY <2>2, SizeAssumption
    <2>4. Size[call[q].msg] <= mailboxes[call[q].mb].slotSize
      BY <2>1 DEF Good, PendingFits
    <2>5. call[q].mb # k BY <1>3, <2>3, <2>4
    <2> QED BY <1>6, <2>1, <2>2, <2>4, <2>5
  <1>10. ASSUME Calm', NEW id \in Id PROVE Spoken(id)'
    <2>1. CASE id = k BY <1>5, <2>1 DEF Spoken
    <2>2. CASE id # k
      <3>1. Spoken(id) BY <1>1, <1>10 DEF Good, Calm
      <3>2. p \notin WokenSenders(id) BY DEF WokenSenders
      <3>3. WokenSenders(id) \subseteq WokenSenders(id)'
        BY <1>1, <1>7, <3>2, KeepWoken
      <3> QED BY <1>6, <2>2, <3>1, <3>3, KeepSpoken
    <2> QED BY <2>1, <2>2
  <1> QED BY <1>8, <1>9, <1>10 DEF Good

LEMMA CreateGood ==
    ASSUME Inv1, NoFaults, Good, NEW p \in Proc, Create(p)
    PROVE  Good'
  <1>1. ~Running(p, "send") BY DEF Create, Idle, NoCall, Running
  <1>2. CASE CreateTableFull(p) BY <1>1, <1>2, FailGood DEF CreateTableFull
  <1>3. ASSUME NEW slots \in SlotCounts, NEW slotSize \in SlotSizes,
               CreateMailbox(p, slots, slotSize)
        PROVE  Good'
    BY <1>1, <1>3, MakeGood, ArgumentAssumption DEF NoFaults
  <1>4. ASSUME NEW slots, NEW slotSize PROVE ~CreateNoMemory(p, slots, slotSize)
    BY DEF CreateNoMemory, NoFaults
  <1> QED BY <1>2, <1>3, <1>4 DEF Create

(* A deposit takes one empty slot and at most one sender that was awake; a *)
(* sender that goes to sleep again finds no empty slot.                    *)
LEMMA SendTurnGood ==
    ASSUME Inv1, NoFaults, Good, NEW p \in Proc, pstate[p] = "ready",
           NEW id \in Int, NEW m \in Msg, NEW wait \in BOOLEAN,
           SendTurn(p, id, m, wait),
           call[p].op = "send" =>
               /\ call[p].mb = id /\ call[p].msg = m /\ wait
               /\ mailboxes[id].status # "released"
    PROVE  Good'
  <1> USE DEF Inv1
  <1>1. CASE SendInvalid(p, id, m)
    <2>1. call[p].op # "send"
      <3> SUFFICES ASSUME call[p].op = "send" PROVE SendValid(id, m)
        BY <1>1 DEF SendInvalid
      <3>1. id \in Id BY DEF CallOK
      <3>2. Size[m] <= mailboxes[id].slotSize BY DEF Good, PendingFits
      <3> QED BY <3>1, <3>2 DEF SendValid
    <2> QED BY <1>1, <2>1, FailGood DEF SendInvalid, Running
  <1>2. CASE SendDeposit(p, id, m)
    <2> DEFINE k == Min(EmptySlots(id))
    <2>1. id \in Id BY <1>2 DEF SendDeposit, SendValid
    <2>2. PICK n \in 0 .. Len(mailboxes[id].slots) :
              /\ EmptySlots(id) = n + 1 .. Len(mailboxes[id].slots)
              /\ n < Len(mailboxes[id].slots) => Min(EmptySlots(id)) = n + 1
      BY <2>1, PrefixSlots
    <2>3. mailboxes[id] \in Mailbox /\ Len(mailboxes[id].slots) \in Nat
      BY <2>1 DEF TypeOK, Mailbox
    <2>4. k \in EmptySlots(id)
      <3>1. EmptySlots(id) # {} BY <1>2 DEF SendDeposit
      <3>2. n < Len(mailboxes[id].slots) BY <2>2, <2>3, <3>1
      <3> QED BY <2>2, <2>3, <3>2
    <2>5. Stored(m) = m /\ m # NoMsg BY NoMsgAssumption DEF Stored, NoFaults
    <2> DEFINE b == [mailboxes[id] EXCEPT !.slots[k] = m]
    <2>6. mailboxes' = [mailboxes EXCEPT ![id] = b] BY <1>2, <2>5 DEF SendDeposit
    <2>7. b = [mailboxes[id] EXCEPT !.slots = [mailboxes[id].slots EXCEPT ![k] = m]]
      OBVIOUS
    <2> HIDE DEF k, b
    <2>8. /\ \A j \in Id \ {id} : mailboxes'[j] = mailboxes[j]
          /\ mailboxes'[id].slots = [mailboxes[id].slots EXCEPT ![k] = m]
          /\ mailboxes'[id].status = mailboxes[id].status
          /\ mailboxes'[id].slotSize = mailboxes[id].slotSize
          /\ mailboxes'[id].blockedSendList = mailboxes[id].blockedSendList
      BY <2>1, <2>3, <2>6, <2>7 DEF TypeOK, Mailbox
    <2>9. /\ \A q \in Proc \ {p} : call'[q] = call[q]
          /\ call'[p].op # "send"
          /\ UNCHANGED <<nextMailboxId, pstate, signal>>
      BY <1>2 DEF SendDeposit, Return, TypeOK, NoCall
    <2>10. Fresh' /\ PendingFits'
      <3>1. \A j \in Id :
               /\ mailboxes'[j].slotSize = mailboxes[j].slotSize
               /\ mailboxes'[j].status = mailboxes[j].status
               /\ mailboxes'[j].blockedSendList = mailboxes[j].blockedSendList
        BY <2>8
      <3>2. \A q \in Proc : call'[q].op = "send" => call'[q] = call[q] BY <2>9
      <3> QED BY <2>9, <3>1, <3>2, KeepSupport DEF Good
    <2>11. ASSUME Calm', NEW j \in Id PROVE Spoken(j)'
      <3>1. Spoken(j) BY <2>9, <2>11 DEF Good, Calm
      <3>2. WokenSenders(j) \ {p} \subseteq WokenSenders(j)' BY <2>9, KeepWoken
      <3>3. CASE j # id
        <4>1. p \notin WokenSenders(j) BY <3>3 DEF WokenSenders, Running
        <4> QED BY <2>8, <3>1, <3>2, <3>3, <4>1, KeepSpoken
      <3>4. CASE j = id
        <4>1. EmptySlots(id)' = EmptySlots(id) \ {k}
          BY <2>5, <2>8 DEF EmptySlots
        <4>2. Cardinality(EmptySlots(id)') = Cardinality(EmptySlots(id)) - 1
          BY <2>1, <2>4, <4>1, EmptyFinite, FS_RemoveElement
        <4>3. /\ Cardinality(WokenSenders(id) \ {p}) \in Int
              /\ Cardinality(WokenSenders(id) \ {p}) >= Cardinality(WokenSenders(id)) - 1
          <5>1. Cardinality(WokenSenders(id)) \in Nat BY WokenFinite
          <5>2. Cardinality(WokenSenders(id) \ {p}) =
                    IF p \in WokenSenders(id) THEN Cardinality(WokenSenders(id)) - 1
                                              ELSE Cardinality(WokenSenders(id))
            BY WokenFinite, FS_RemoveElement
          <5> QED BY <5>1, <5>2
        <4>4. Cardinality(WokenSenders(id) \ {p}) <= Cardinality(WokenSenders(id)')
          BY <3>2, <3>4, WokenFinite, FS_Subset
        <4>5. Cardinality(EmptySlots(id)) \in Nat BY <2>1, EmptyFinite
        <4>6. (mailboxes[id].status = "inuse" /\ mailboxes[id].blockedSendList # <<>>)
                  => Cardinality(EmptySlots(id)') <= Cardinality(WokenSenders(id)')
          BY <3>1, <3>4, <4>2, <4>3, <4>4, <4>5, WokenFinite DEF Spoken
        <4> QED BY <2>8, <3>4, <4>6 DEF Spoken
      <3> QED BY <3>3, <3>4
    <2> QED BY <2>10, <2>11 DEF Good
  <1>3. CASE ~wait /\ SendWouldBlock(p, id, m)
    BY <1>3, FailGood DEF SendWouldBlock, Running
  <1>4. CASE SendNoMemory(p, id, m) BY <1>4 DEF SendNoMemory, NoFaults
  <1>5. CASE SendBlock(p, id, m)
    <2> DEFINE c == [op |-> "send", mb |-> id, msg |-> m, size |-> 0]
    <2>1. /\ id \in Id /\ EmptySlots(id) = {}
          /\ Size[m] <= mailboxes[id].slotSize
      BY <1>5 DEF SendBlock, NoRoom, SendValid
    <2>2. /\ \A j \in Id \ {id} : mailboxes'[j] = mailboxes[j]
          /\ mailboxes'[id].slots = mailboxes[id].slots
          /\ mailboxes'[id].status = mailboxes[id].status
          /\ mailboxes'[id].slotSize = mailboxes[id].slotSize
      BY <1>5, <2>1 DEF SendBlock, TypeOK, Mailbox
    <2>3. /\ \A q \in Proc \ {p} : call'[q] = call[q]
          /\ \A q \in Proc \ {p} : pstate'[q] = pstate[q]
          /\ call'[p] = c
          /\ UNCHANGED <<nextMailboxId, signal>>
      BY <1>5 DEF SendBlock, Block, TypeOK
    <2>4. mailboxes[id].slotSize # 0
      BY <2>1, SizeAssumption DEF NoFaults
    <2>5. Fresh' /\ PendingFits'
      <3>1. \A j \in Id :
               /\ mailboxes'[j].slotSize = mailboxes[j].slotSize
               /\ mailboxes'[j].status = mailboxes[j].status
               /\ (mailboxes[j].slotSize = 0 /\ mailboxes[j].blockedSendList = <<>>)
                      => mailboxes'[j].blockedSendList = <<>>
        BY <2>2, <2>4
      <3>2. \A q \in Proc : call'[q].op = "send" =>
               \/ call'[q] = call[q]
               \/ /\ call'[q].mb \in Id
                  /\ Size[call'[q].msg] <= mailboxes[call'[q].mb].slotSize
        BY <2>1, <2>3
      <3> QED BY <2>3, <3>1, <3>2, KeepSupport DEF Good
    <2>6. ASSUME Calm', NEW j \in Id PROVE Spoken(j)'
      <3>1. CASE j # id
        <4>1. Spoken(j) BY <2>3, <2>6 DEF Good, Calm
        <4>2. WokenSenders(j) \ {p} \subseteq WokenSenders(j)' BY <2>3, KeepWoken
        <4>3. p \notin WokenSenders(j) BY <3>1 DEF WokenSenders, Running
        <4> QED BY <2>2, <3>1, <4>1, <4>2, <4>3, KeepSpoken
      <3>2. CASE j = id
        <4>1. EmptySlots(id)' = {} BY <2>1, <2>2 DEF EmptySlots
        <4>2. Cardinality(EmptySlots(id)') = 0 BY <4>1, FS_EmptySet
        <4> QED BY <3>2, <4>2, WokenFinite DEF Spoken
      <3> QED BY <3>1, <3>2
    <2> QED BY <2>5, <2>6 DEF Good
  <1> QED BY <1>1, <1>2, <1>3, <1>4, <1>5 DEF SendTurn

(* A delivery leaves one more slot empty and wakes the first sender, which *)
(* slept until then.                                                       *)
LEMMA ReceiveTurnGood ==
    ASSUME Inv2, NoFaults, Good, NEW p \in Proc, pstate[p] = "ready",
           call[p].op # "send",
           NEW id \in Int, NEW size \in Int, NEW wait \in BOOLEAN,
           ReceiveTurn(p, id, size, wait)
    PROVE  Good'
  <1> USE DEF Inv2, Inv1
  <1>0. ~Running(p, "send") BY DEF Running
  <1>1. CASE ReceiveInvalid(p, id, size) BY <1>0, <1>1, FailGood DEF ReceiveInvalid
  <1>2. CASE ReceiveDeliver(p, id, size)
    <2> DEFINE list == mailboxes[id].blockedSendList
               s == mailboxes[id].slots
    <2>1. id \in Id BY <1>2 DEF ReceiveDeliver, ReceiveValid
    <2>2. PICK n \in 0 .. Len(s) :
              /\ FullSlots(id) = 1 .. n
              /\ EmptySlots(id) = n + 1 .. Len(s)
              /\ n > 0 => Min(FullSlots(id)) = 1 /\ RunEnd(id, 1) = n
      BY <2>1, PrefixSlots
    <2>3. mailboxes[id] \in Mailbox /\ s \in Seq(Slot) /\ Len(s) \in Nat
          /\ list \in Seq(Proc)
      BY <2>1 DEF TypeOK, Mailbox
    <2>4. n > 0 BY <1>2, <2>2 DEF ReceiveDeliver
    <2> DEFINE b == [mailboxes[id] EXCEPT !.slots = Shifted(s, 1, n),
                                          !.blockedSendList = Rest(list)]
    <2>5. WithoutFirst(id) = b BY <2>2, <2>3, <2>4 DEF WithoutFirst, Mailbox
    <2>6. mailboxes' = [mailboxes EXCEPT ![id] = b] BY <1>2, <2>5 DEF ReceiveDeliver
    <2>7. /\ b.slots = Shifted(s, 1, n) /\ b.blockedSendList = Rest(list)
          /\ b.status = mailboxes[id].status /\ b.slotSize = mailboxes[id].slotSize
      BY <2>3 DEF Mailbox
    <2> HIDE DEF b
    <2>8. /\ \A j \in Id \ {id} : mailboxes'[j] = mailboxes[j]
          /\ mailboxes'[id] = b
      BY <2>1, <2>6 DEF TypeOK
    <2>9. /\ \A q \in Proc \ {p} : call'[q] = call[q]
          /\ call'[p].op # "send"
          /\ UNCHANGED <<nextMailboxId, signal>>
          /\ pstate' = WakeFirst(list)
      BY <1>2 DEF ReceiveDeliver, Return, TypeOK, NoCall
    <2>10. \A q \in Proc : pstate'[q] \in {pstate[q], "ready"}
      BY <2>9 DEF WakeFirst, TypeOK
    <2>11. Fresh' /\ PendingFits'
      <3>1. \A j \in Id :
               /\ mailboxes'[j].slotSize = mailboxes[j].slotSize
               /\ mailboxes'[j].status = mailboxes[j].status
               /\ mailboxes[j].blockedSendList = <<>>
                      => mailboxes'[j].blockedSendList = <<>>
        BY <2>7, <2>8 DEF Rest
      <3>2. \A q \in Proc : call'[q].op = "send" => call'[q] = call[q] BY <2>9
      <3> QED BY <2>9, <3>1, <3>2, KeepSupport DEF Good
    <2>12. ASSUME Calm', NEW j \in Id PROVE Spoken(j)'
      <3>1. Spoken(j) BY <2>9, <2>12 DEF Good, Calm
      <3>2. p \notin WokenSenders(j) BY DEF WokenSenders, Running
      <3>3. WokenSenders(j) \subseteq WokenSenders(j)'
        BY <2>9, <2>10, <3>2, KeepWoken
      <3>4. CASE j # id BY <2>8, <3>1, <3>3, <3>4, KeepSpoken
      <3>5. CASE j = id /\ list = <<>>
        BY <2>7, <2>8, <3>5 DEF Rest, Spoken
      <3>6. CASE j = id /\ list # <<>>
        <4> DEFINE h == Head(list)
        <4>1. h \in Proc /\ h = ListOf("send", id)[1] /\ 1 \in 1 .. Len(ListOf("send", id))
          BY <2>3, <3>6 DEF ListOf
        <4>2. pstate[h] = "blocked" /\ call[h].op = "send" /\ call[h].mb = id
          BY <2>1, <4>1 DEF Waiters, WaitersBlocked
        <4>3. h \notin WokenSenders(id) BY <4>2 DEF WokenSenders, Running
        <4>4. h # p BY <4>2
        <4>5. pstate'[h] = "ready" BY <2>9, <3>6, <4>1 DEF WakeFirst, TypeOK
        <4>6. h \in WokenSenders(id)'
          BY <2>9, <4>1, <4>2, <4>4, <4>5 DEF WokenSenders, Running
        <4> HIDE DEF h
        <4>7. Cardinality(WokenSenders(id) \union {h}) = Cardinality(WokenSenders(id)) + 1
          BY <4>3, WokenFinite, FS_AddElement
        <4>8. WokenSenders(id) \union {h} \subseteq WokenSenders(id)'
          BY <3>3, <3>6, <4>6
        <4>9. Cardinality(WokenSenders(id)) + 1 <= Cardinality(WokenSenders(id)')
          BY <4>7, <4>8, WokenFinite, FS_Subset
        <4>10. Cardinality(EmptySlots(id)') = Cardinality(EmptySlots(id)) + 1
          <5>1. mailboxes'[id].slots = Shifted(s, 1, n) BY <2>7, <2>8
          <5>2. PrefixOf(s, n) BY <2>2, <2>3 DEF FullSlots, PrefixOf
          <5>3. LET t == Shifted(s, 1, n)
                IN  t \in Seq(Slot) /\ Len(t) = Len(s) /\ PrefixOf(t, n - 1)
            BY <2>2, <2>3, <2>4, <5>2, ShiftPrefix
          <5>4. EmptySlots(id)' = n .. Len(s)
            BY SMTT(30), <2>3, <2>4, <5>1, <5>3 DEF EmptySlots, PrefixOf
          <5>5. Cardinality(n .. Len(s)) = Len(s) - n + 1
            BY <2>3, <2>4, FS_Interval
          <5>6. Cardinality(n + 1 .. Len(s)) = Len(s) - n
            <6>1. n + 1 \in Int /\ Len(s) \in Int BY <2>3
            <6>2. Cardinality(n + 1 .. Len(s)) =
                      IF n + 1 > Len(s) THEN 0 ELSE Len(s) - (n + 1) + 1
              BY <6>1, FS_Interval
            <6>3. n \in Int /\ Len(s) \in Int /\ n <= Len(s) BY <2>3
            <6> HIDE DEF s
            <6> QED BY <6>2, <6>3
          <5> QED BY <2>2, <2>3, <5>4, <5>5, <5>6
        <4>11. Cardinality(EmptySlots(id)) <= Cardinality(WokenSenders(id))
                   \/ mailboxes[id].status # "inuse"
          BY <3>1, <3>6 DEF Spoken
        <4>12. Cardinality(EmptySlots(id)) \in Nat BY <2>1, EmptyFinite
        <4>13. mailboxes[id].status = "inuse" =>
                   Cardinality(EmptySlots(id)') <= Cardinality(WokenSenders(id)')
          BY <4>9, <4>10, <4>11, <4>12, WokenFinite
        <4> QED BY <2>7, <2>8, <3>6, <4>13 DEF Spoken
      <3> QED BY <3>4, <3>5, <3>6
    <2> QED BY <2>11, <2>12 DEF Good
  <1>3. CASE ReceiveWouldBlock(p, id, size)
    BY <1>0, <1>3, FailGood DEF ReceiveWouldBlock
  <1>4. CASE ReceiveNoMemory(p, id, size)
    BY <1>0, <1>4, FailGood DEF ReceiveNoMemory
  <1>5. CASE ReceiveBlock(p, id, size)
    <2>1. id \in Id BY <1>5 DEF ReceiveBlock, NothingThere, ReceiveValid
    <2>2. \A j \in Id :
              /\ mailboxes'[j].slotSize = mailboxes[j].slotSize
              /\ mailboxes'[j].slots = mailboxes[j].slots
              /\ mailboxes'[j].blockedSendList = mailboxes[j].blockedSendList
              /\ mailboxes'[j].status = mailboxes[j].status
      BY <1>5, <2>1 DEF ReceiveBlock, TypeOK, Mailbox
    <2>3. /\ \A q \in Proc \ {p} : call'[q] = call[q]
          /\ \A q \in Proc \ {p} : pstate'[q] = pstate[q]
          /\ call'[p].op # "send"
          /\ UNCHANGED <<nextMailboxId, signal>>
      BY <1>5 DEF ReceiveBlock, Block, TypeOK
    <2> QED BY <1>0, <2>2, <2>3, QuietGood
  <1> QED BY <1>1, <1>2, <1>3, <1>4, <1>5 DEF ReceiveTurn

(* mailbox_free releases its mailbox before it wakes anybody. *)
LEMMA FreeGood ==
    ASSUME Inv1, Good, NEW p \in Proc, Free(p)
    PROVE  Good'
  <1> USE DEF Inv1
  <1>1. ~Running(p, "send") BY DEF Free, Idle, NoCall, Running
  <1>2. PICK id \in MboxArg : FreeInvalid(p, id) \/ FreeRelease(p, id) BY DEF Free
  <1>3. CASE FreeInvalid(p, id) BY <1>1, <1>3, FailGood DEF FreeInvalid
  <1>4. CASE FreeRelease(p, id)
    <2>1. id \in Id /\ mailboxes[id].status = "inuse" BY <1>4 DEF FreeRelease
    <2>2. \A j \in Id :
              /\ mailboxes'[j].slotSize = mailboxes[j].slotSize
              /\ mailboxes'[j].slots = mailboxes[j].slots
              /\ mailboxes'[j].blockedSendList = mailboxes[j].blockedSendList
              /\ mailboxes[j].status = "empty" => mailboxes'[j].status = "empty"
              /\ mailboxes'[j].status = "inuse" => mailboxes[j].status = "inuse"
      BY <1>4, <2>1 DEF FreeRelease, TypeOK, Mailbox
    <2>3. /\ \A q \in Proc \ {p} : call'[q] = call[q]
          /\ call'[p].op # "send"
          /\ UNCHANGED <<nextMailboxId, pstate, signal>>
      BY <1>4 DEF FreeRelease, TypeOK
    <2> QED BY <1>1, <2>2, <2>3, QuietGood
  <1> QED BY <1>2, <1>3, <1>4

(* A sender that mailbox_free wakes is signalled. *)
LEMMA FreeSenderGood ==
    ASSUME Inv1, Good, NEW p \in Proc, FreeSender(p)
    PROVE  Good'
  <1> USE DEF Inv1
  <1> DEFINE id == call[p].mb
             list == mailboxes[id].blockedSendList
  <1>1. id \in Id BY DEF FreeSender, Running, CallOK
  <1>2. /\ mailboxes' = [mailboxes EXCEPT ![id].blockedSendList = Rest(@)]
        /\ UNCHANGED <<nextMailboxId, call>>
        /\ signal' = [signal EXCEPT ![Head(list)] = TRUE] /\ list # <<>>
    BY DEF FreeSender
  <1>3. Head(list) \in Proc BY <1>1, <1>2 DEF TypeOK, Mailbox
  <1>4. ~Calm' BY <1>2, <1>3 DEF Calm, TypeOK
  <1> HIDE DEF id
  <1>5. \A j \in Id :
            /\ mailboxes'[j].slotSize = mailboxes[j].slotSize
            /\ mailboxes'[j].status = mailboxes[j].status
            /\ mailboxes[j].blockedSendList = <<>>
                   => mailboxes'[j].blockedSendList = <<>>
    BY SMTT(30), <1>1, <1>2 DEF TypeOK, Mailbox, Rest
  <1>6. Fresh' /\ PendingFits' BY <1>2, <1>5, KeepSupport DEF Good
  <1> QED BY <1>4, <1>6 DEF Good

LEMMA FreeReceiverGood ==
    ASSUME Inv2, Good, NEW p \in Proc, FreeReceiver(p)
    PROVE  Good'
  <1> USE DEF Inv2, Inv1
  <1> DEFINE id == call[p].mb
             list == mailboxes[id].blockedReceiveList
  <1>1. call[p].op \in {"free_send", "free_receive"}
    BY DEF FreeReceiver, SendersFreed, Running
  <1>2. id \in Id BY <1>1 DEF CallOK
  <1>3. /\ mailboxes' = [mailboxes EXCEPT ![id].blockedReceiveList = Rest(@)]
        /\ UNCHANGED <<nextMailboxId, signal>>
        /\ pstate' = WakeFirst(list)
        /\ call' = [call EXCEPT ![p].op = "free_receive"]
    BY DEF FreeReceiver
  <1>4. \A q \in Proc \ {p} : pstate'[q] \in {pstate[q], "ready"}
    BY <1>3 DEF WakeFirst, TypeOK
  <1>5. (\A q \in Proc \ {p} : call'[q] = call[q]) /\ call'[p].op # "send"
    BY <1>3 DEF TypeOK, Call
  <1> HIDE DEF id, list
  <1>6. \A j \in Id :
            /\ mailboxes'[j].slotSize = mailboxes[j].slotSize
            /\ mailboxes'[j].slots = mailboxes[j].slots
            /\ mailboxes'[j].blockedSendList = mailboxes[j].blockedSendList
            /\ mailboxes'[j].status = mailboxes[j].status
    BY <1>2, <1>3 DEF TypeOK, Mailbox
  <1>7. ~Running(p, "send") BY <1>1 DEF Running
  <1> QED BY <1>3, <1>4, <1>5, <1>6, <1>7, QuietGood

-----------------------------------------------------------------------------
(* The theorem *)

LEMMA InitGood == Init => Good
  <1> SUFFICES ASSUME Init PROVE Good OBVIOUS
  <1> USE TableAssumption
  <1>1. ASSUME NEW id \in Id
        PROVE  /\ mailboxes[id].blockedSendList = <<>>
               /\ id >= nextMailboxId => /\ mailboxes[id].status = "empty"
                                         /\ mailboxes[id].slotSize = 0
    <2>1. CASE id < MaxDevices
      <3>1. mailboxes[id] = DeviceMailbox(id) BY <2>1 DEF Init
      <3>2. DeviceMailbox(id).blockedSendList = <<>>
        BY DEF DeviceMailbox, Initialised, EmptyMailbox
      <3> QED BY <2>1, <3>1, <3>2 DEF Init, Id
    <2>2. CASE ~(id < MaxDevices)
      BY <2>2 DEF Init, EmptyMailbox
    <2> QED BY <2>1, <2>2
  <1>2. Fresh BY <1>1 DEF Fresh
  <1>3. PendingFits BY DEF Init, PendingFits, NoCall
  <1>4. \A id \in Id : Spoken(id) BY <1>1 DEF Spoken
  <1> QED BY <1>2, <1>3, <1>4 DEF Good

LEMMA StepGood == Inv2 /\ NoFaults /\ Good /\ [Next]_vars => Good'
  <1> SUFFICES ASSUME Inv2, NoFaults, Good, [Next]_vars PROVE Good' OBVIOUS
  <1> USE DEF Inv2
  <1>1. CASE UNCHANGED vars
    <2>1. UNCHANGED <<mailboxes, nextMailboxId, call, pstate, signal>> BY <1>1 DEF vars
    <2>2. \A id : Spoken(id)' <=> Spoken(id)
      BY <2>1 DEF Spoken, EmptySlots, WokenSenders, Running
    <2> QED BY <2>1, <2>2 DEF Good, Fresh, PendingFits, Calm
  <1>2. ASSUME NEW p \in Proc, Create(p) PROVE Good' BY <1>2, CreateGood
  <1>3. ASSUME NEW p \in Proc, Send(p) PROVE Good'
    <2>1. PICK id \in MboxArg, m \in Msg, wait \in BOOLEAN : SendTurn(p, id, m, wait)
      BY <1>3 DEF Send
    <2>2. id \in Int BY TableAssumption DEF MboxArg
    <2>3. pstate[p] = "ready" /\ call[p].op # "send"
      BY <1>3, IdleReady DEF Send, Idle, NoCall
    <2> QED BY <2>1, <2>2, <2>3, SendTurnGood
  <1>4. ASSUME NEW p \in Proc, Receive(p) PROVE Good'
    <2>1. PICK id \in MboxArg, size \in BufSizes, wait \in BOOLEAN :
              ReceiveTurn(p, id, size, wait)
      BY <1>4 DEF Receive
    <2>2. id \in Int /\ size \in Int BY TableAssumption, ArgumentAssumption DEF MboxArg
    <2>3. pstate[p] = "ready" /\ call[p].op # "send"
      BY <1>4, IdleReady DEF Receive, Idle, NoCall
    <2> QED BY <2>1, <2>2, <2>3, ReceiveTurnGood
  <1>5. ASSUME NEW p \in Proc, Free(p) PROVE Good' BY <1>5, FreeGood
  <1>6. ASSUME NEW p \in Proc, SendInterrupted(p) \/ ReceiveInterrupted(p) PROVE Good'
    <2>1. Fail(p, -5) /\ Interrupted(p)
      BY <1>6 DEF SendInterrupted, ReceiveInterrupted
    <2> QED BY <2>1, FailGood
  <1>7. ASSUME NEW p \in Proc, SendRetry(p) PROVE Good'
    <2>1. /\ call[p].mb \in Int /\ call[p].msg \in Msg /\ pstate[p] = "ready"
          /\ mailboxes[call[p].mb].status # "released"
      BY <1>7 DEF SendRetry, Running, Interrupted, Inv1, TypeOK, Call, CallOK
    <2>2. SendTurn(p, call[p].mb, call[p].msg, TRUE) BY <1>7 DEF SendRetry
    <2> QED BY <2>1, <2>2, SendTurnGood
  <1>8. ASSUME NEW p \in Proc, ReceiveRetry(p) PROVE Good'
    <2>1. /\ call[p].mb \in Int /\ call[p].size \in Int /\ pstate[p] = "ready"
          /\ call[p].op # "send"
      BY <1>8 DEF ReceiveRetry, Running, Inv1, TypeOK, Call
    <2>2. ReceiveTurn(p, call[p].mb, call[p].size, TRUE) BY <1>8 DEF ReceiveRetry
    <2> QED BY <2>1, <2>2, ReceiveTurnGood
  <1>9. ASSUME NEW p \in Proc, FreeSender(p) PROVE Good' BY <1>9, FreeSenderGood
  <1>10. ASSUME NEW p \in Proc, FreeReceiver(p) PROVE Good' BY <1>10, FreeReceiverGood
  <1>11. ASSUME NEW p \in Proc, FreeReturn(p) PROVE Good'
    <2>1. ~Running(p, "send") BY <1>11 DEF FreeReturn, SendersFreed, Running
    <2>2. Fail(p, 0) BY <1>11 DEF FreeReturn, Fail
    <2> QED BY <2>1, <2>2, FailGood
  <1>12. ASSUME NEW p \in Proc, Signal(p) PROVE Good'
    <2>1. /\ ~Calm' /\ UNCHANGED <<mailboxes, nextMailboxId, call>>
      BY <1>12 DEF Signal, Calm, Inv1, TypeOK
    <2> QED BY <2>1 DEF Good, Fresh, PendingFits
  <1> QED BY <1>1, <1>2, <1>3, <1>4, <1>5, <1>6, <1>7, <1>8, <1>9, <1>10, <1>11, <1>12
          DEF Next, Start, Continue

(* Unless a signal, a failing malloc or a message of no bytes interferes,  *)
(* a sender sleeps in mailbox_send only while every empty slot of the      *)
(* mailbox is spoken for by a sender that mailbox_receive has woken.       *)
THEOREM NoWakeupLost == Spec => []NoLostWakeup
  <1> DEFINE IInv == Inv2 /\ (NoFaults => Good)
  <1>1. Init => IInv BY InitInv1, InitWaiters, InitGood DEF Inv2
  <1>2. IInv /\ [Next]_vars => IInv'
    <2>1. NoFaults' <=> NoFaults BY DEF NoFaults
    <2>2. Inv2 /\ [Next]_vars => Inv2' BY StepInv1, StepWaiters DEF Inv2
    <2> QED BY <2>1, <2>2, StepGood
  <1>3. IInv => NoLostWakeup BY DEF NoLostWakeup, NoFaults, Good, Calm, Spoken
  <1> QED BY <1>1, <1>2, <1>3, PTL DEF Spec

=============================================================================
