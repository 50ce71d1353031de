-------------------------- MODULE RefinementProofs --------------------------
(***************************************************************************)
(* The mailboxes of Messaging implement the queues of MailboxQueue, for    *)
(* every value of the constants: the refinement mapping of                 *)
(* MessagingRefinement takes every step to a step of the queues, or to     *)
(* none.                                                                   *)
(***************************************************************************)
EXTENDS MessagingRefinement, MessagingProofs

(* the variables of the queues, as the mapping computes them *)
Status == [id \in Id |-> mailboxes[id].status]
Capacity == [id \in Id |-> Len(mailboxes[id].slots)]
Queue == [id \in Id |-> QueueOf(id)]
Results == [p \in Proc |-> AnswerOf(p)]

Answered(p, code, m) == Results' = [Results EXCEPT ![p] = [code |-> code, msg |-> m]]

(* the messages in a list of slots *)
Contents(s) == SubSeq(s, 1, Max({0} \union {i \in DOMAIN s : s[i] # NoMsg}))

-----------------------------------------------------------------------------
(* Lists of slots as queues *)

LEMMA PrefixContents ==
    ASSUME NEW s \in Seq(Slot), NEW n \in 0 .. Len(s), PrefixOf(s, n)
    PROVE  /\ Contents(s) = SubSeq(s, 1, n)
           /\ Contents(s) \in Seq(Slot)
           /\ Len(Contents(s)) = n
           /\ \A i \in 1 .. n : Contents(s)[i] = s[i]
  <1>1. Len(s) \in Nat /\ DOMAIN s = 1 .. Len(s) OBVIOUS
  <1>2. {0} \union {i \in DOMAIN s : s[i] # NoMsg} = 0 .. n
    BY <1>1 DEF PrefixOf
  <1>3. Max(0 .. n) = n BY <1>1 DEF Max
  <1>4. Contents(s) = SubSeq(s, 1, n) BY <1>2, <1>3 DEF Contents
  <1>5. \A i \in 1 .. n : s[i] \in Slot BY <1>1, ElementOfSeq
  <1>6. n \in Int /\ 1 \in Int BY <1>1
  <1>7. /\ SubSeq(s, 1, n) \in Seq(Slot)
        /\ Len(SubSeq(s, 1, n)) = IF 1 <= n THEN n - 1 + 1 ELSE 0
        /\ \A i \in 1 .. n - 1 + 1 : SubSeq(s, 1, n)[i] = s[1 + i - 1]
    BY <1>5, <1>6, SubSeqProperties
  <1>8. \A i \in 1 .. n : SubSeq(s, 1, n)[i] = s[i] BY <1>1, <1>7
  <1> QED BY <1>1, <1>4, <1>7, <1>8

(* The first empty slot is the end of the queue. *)
LEMMA DepositContents ==
    ASSUME NEW s \in Seq(Slot), NEW n \in 0 .. Len(s), n < Len(s), PrefixOf(s, n),
           NEW x \in Slot
    PROVE  Contents([s EXCEPT ![n + 1] = x]) =
               IF x = NoMsg THEN Contents(s) ELSE Append(Contents(s), x)
  <1> DEFINE t == [s EXCEPT ![n + 1] = x]
             k == IF x = NoMsg THEN n ELSE n + 1
             q == Contents(s)
             r == IF x = NoMsg THEN q ELSE Append(q, x)
  <1>0. Len(s) \in Nat OBVIOUS
  <1>1. t \in Seq(Slot) /\ Len(t) = Len(s) /\ PrefixOf(t, k) BY DepositPrefix
  <1>2. k \in 0 .. Len(t) BY <1>0, <1>1
  <1>3. \A i \in 1 .. Len(s) : t[i] = IF i = n + 1 THEN x ELSE s[i]
    BY <1>0, ExceptSeq
  <1>4. q \in Seq(Slot) /\ Len(q) = n /\ \A i \in 1 .. n : q[i] = s[i]
    BY PrefixContents
  <1> HIDE DEF t, k, q
  <1>5. /\ Contents(t) \in Seq(Slot) /\ Len(Contents(t)) = k
        /\ \A i \in 1 .. k : Contents(t)[i] = t[i]
    BY <1>1, <1>2, PrefixContents
  <1>6. /\ r \in Seq(Slot) /\ Len(r) = k
        /\ \A i \in 1 .. k : r[i] = IF i = n + 1 THEN x ELSE s[i]
    <2>1. CASE x = NoMsg BY <1>0, <1>4, <2>1 DEF k
    <2>2. CASE x # NoMsg
      <3>1. /\ Append(q, x) \in Seq(Slot) /\ Len(Append(q, x)) = n + 1
            /\ \A i \in 1 .. n : Append(q, x)[i] = q[i]
            /\ Append(q, x)[n + 1] = x
        BY <1>4, AppendProperties
      <3>2. r = Append(q, x) /\ k = n + 1 BY <2>2 DEF k
      <3> QED BY <1>0, <1>4, <3>1, <3>2
    <2> QED BY <2>1, <2>2
  <1> HIDE DEF r
  <1>7. \A i \in 1 .. k : Contents(t)[i] = r[i]
    BY <1>0, <1>1, <1>2, <1>3, <1>5, <1>6
  <1>8. Contents(t) = r BY <1>5, <1>6, <1>7, SeqEqual
  <1> QED BY <1>8 DEF t, r, q

(* Moving the slots down takes the head of the queue. *)
LEMMA ShiftContents ==
    ASSUME NEW s \in Seq(Slot), NEW n \in 1 .. Len(s), PrefixOf(s, n)
    PROVE  /\ Contents(s) # <<>>
           /\ Head(Contents(s)) = s[1]
           /\ Contents(Shifted(s, 1, n)) = Tail(Contents(s))
  <1> DEFINE t == Shifted(s, 1, n)
             q == Contents(s)
  <1>0. Len(s) \in Nat /\ n \in 0 .. Len(s) /\ n - 1 \in 0 .. Len(s) OBVIOUS
  <1>1. /\ t \in Seq(Slot) /\ Len(t) = Len(s) /\ PrefixOf(t, n - 1)
        /\ \A i \in 1 .. n - 1 : t[i] = s[i + 1]
    BY ShiftPrefix
  <1>2. q \in Seq(Slot) /\ Len(q) = n /\ \A i \in 1 .. n : q[i] = s[i]
    BY <1>0, PrefixContents
  <1> HIDE DEF t, q
  <1>3. q # <<>> BY <1>2
  <1>4. Head(q) = s[1] BY <1>0, <1>2
  <1>5. /\ Tail(q) \in Seq(Slot) /\ Len(Tail(q)) = n - 1
        /\ \A i \in 1 .. n - 1 : Tail(q)[i] = q[i + 1]
    BY <1>2, <1>3, HeadTailProperties
  <1>6. /\ Contents(t) \in Seq(Slot) /\ Len(Contents(t)) = n - 1
        /\ \A i \in 1 .. n - 1 : Contents(t)[i] = t[i]
    BY <1>0, <1>1, PrefixContents
  <1>7. \A i \in 1 .. n - 1 : Contents(t)[i] = Tail(q)[i]
    BY <1>0, <1>1, <1>2, <1>5, <1>6
  <1>8. Contents(t) = Tail(q) BY <1>5, <1>6, <1>7, SeqEqual
  <1> QED BY <1>3, <1>4, <1>8 DEF t, q

(* Empty slots are an empty queue. *)
LEMMA NoContents ==
    ASSUME NEW s \in Seq(Slot), \A i \in 1 .. Len(s) : s[i] = NoMsg
    PROVE  Contents(s) = <<>>
  <1>1. PrefixOf(s, 0) BY DEF PrefixOf
  <1>2. Contents(s) = SubSeq(s, 1, 0) BY <1>1, PrefixContents
  <1> QED BY <1>2, SubSeqEmpty

LEMMA QueueContents == \A id \in Id : QueueOf(id) = Contents(mailboxes[id].slots)
  BY DEF QueueOf, Contents, FullSlots

-----------------------------------------------------------------------------
(* What a step does to the queues *)

LEMMA QueueType ==
    ASSUME Inv1
    PROVE  /\ Status \in [Id -> {"empty", "inuse", "released"}]
           /\ Capacity \in [Id -> Nat]
           /\ DOMAIN Queue = Id
           /\ DOMAIN Results = Proc
  BY DEF Inv1, TypeOK, Mailbox, Status, Capacity, Queue, Results

(* One mailbox changes into b. *)
LEMMA QueueChange ==
    ASSUME Inv1, NEW id \in Id, NEW b,
           mailboxes' = [mailboxes EXCEPT ![id] = b]
    PROVE  /\ Status' = [Status EXCEPT ![id] = b.status]
           /\ Capacity' = [Capacity EXCEPT ![id] = Len(b.slots)]
           /\ Queue' = [Queue EXCEPT ![id] = Contents(b.slots)]
  <1>1. \A j \in Id : mailboxes'[j] = IF j = id THEN b ELSE mailboxes[j]
    BY DEF Inv1, TypeOK
  <1>2. \A j \in Id : QueueOf(j)' = Contents(mailboxes'[j].slots)
    BY DEF QueueOf, Contents, FullSlots
  <1>3. \A j \in Id : QueueOf(j)' = IF j = id THEN Contents(b.slots) ELSE QueueOf(j)
    BY <1>1, <1>2, QueueContents
  <1>4. Status' = [Status EXCEPT ![id] = b.status]
    <2>1. \A j \in Id : mailboxes'[j].status = IF j = id THEN b.status
                                                       ELSE mailboxes[j].status
      BY <1>1
    <2> QED BY <2>1 DEF Status
  <1>5. Capacity' = [Capacity EXCEPT ![id] = Len(b.slots)]
    <2>1. \A j \in Id : Len(mailboxes'[j].slots) = IF j = id THEN Len(b.slots)
                                                     ELSE Len(mailboxes[j].slots)
      BY <1>1
    <2> QED BY <2>1 DEF Capacity
  <1>6. Queue' = [Queue EXCEPT ![id] = Contents(b.slots)] BY <1>3 DEF Queue, Id
  <1> QED BY <1>4, <1>5, <1>6

(* One mailbox changes in nothing but its lists. *)
LEMMA SameQueues ==
    ASSUME \A id \in Id : /\ mailboxes'[id].status = mailboxes[id].status
                          /\ mailboxes'[id].slots = mailboxes[id].slots
    PROVE  UNCHANGED <<Status, Capacity, Queue>>
  BY DEF Status, Capacity, Queue, QueueOf, FullSlots, Id

(* A call of p gives an answer, unless it is mailbox_free's. *)
LEMMA AnswerChange ==
    ASSUME NEW p \in Proc, NEW code, NEW m,
           \A q \in Proc \ {p} : call'[q] = call[q] /\ result'[q] = result[q],
           AnswerOf(p)' = [code |-> code, msg |-> m]
    PROVE  Answered(p, code, m)
  <1>1. \A q \in Proc \ {p} : AnswerOf(q)' = AnswerOf(q) BY DEF AnswerOf
  <1> QED BY <1>1 DEF Answered, Results

LEMMA ReturnAnswer ==
    ASSUME Inv1, NEW p \in Proc, NEW code, NEW m, Return(p, code, m)
    PROVE  Answered(p, code, m)
  <1>1. \A q \in Proc \ {p} : call'[q] = call[q] /\ result'[q] = result[q]
    BY DEF Return, Inv1, TypeOK
  <1>2. call'[p] = NoCall /\ result'[p] = [code |-> code, msg |-> m]
    BY DEF Return, Inv1, TypeOK
  <1>3. AnswerOf(p)' = [code |-> code, msg |-> m] BY <1>2 DEF AnswerOf, NoCall
  <1> QED BY <1>1, <1>3, AnswerChange

-----------------------------------------------------------------------------
(* Every call is a step of the queues *)

LEMMA NoEffectStep ==
    ASSUME NEW p \in Proc, NEW code \in {NoCode, -1, -2, -5}, Answered(p, code, NoMsg),
           UNCHANGED <<Status, Capacity, Queue, nextMailboxId>>
    PROVE  Queues!QNext
  <1>1. Queues!NoEffect(p)
    BY DEF Queues!NoEffect, Queues!Answer, Answered, Status, Capacity, Queue, Results
  <1> QED BY <1>1 DEF Queues!QNext

LEMMA FailQueues ==
    ASSUME Inv1, NEW p \in Proc, NEW code \in {-1, -2, -5}, Fail(p, code)
    PROVE  Queues!QNext
  <1>1. Answered(p, code, NoMsg) BY ReturnAnswer DEF Fail
  <1>2. UNCHANGED <<Status, Capacity, Queue, nextMailboxId>> BY SameQueues DEF Fail
  <1> QED BY <1>1, <1>2, NoEffectStep

(* A call that goes to sleep has no answer yet. *)
LEMMA BlockQueues ==
    ASSUME Inv1, NEW p \in Proc, NEW c, c.op \in Side, Block(p, c),
           \A id \in Id : /\ mailboxes'[id].status = mailboxes[id].status
                          /\ mailboxes'[id].slots = mailboxes[id].slots
    PROVE  Queues!QNext
  <1>1. \A q \in Proc \ {p} : call'[q] = call[q] /\ result'[q] = result[q]
    BY DEF Block, Inv1, TypeOK
  <1>2. call'[p] = c /\ result'[p] = NoResult BY DEF Block, Inv1, TypeOK
  <1>3. AnswerOf(p)' = [code |-> NoCode, msg |-> NoMsg]
    BY <1>2 DEF AnswerOf, NoResult, Side
  <1>4. Answered(p, NoCode, NoMsg) BY <1>1, <1>3, AnswerChange
  <1>5. UNCHANGED <<Status, Capacity, Queue, nextMailboxId>> BY SameQueues DEF Block
  <1> QED BY <1>4, <1>5, NoEffectStep

LEMMA CreateQueues ==
    ASSUME Inv1, NEW p \in Proc, Create(p)
    PROVE  Queues!QNext
  <1> USE DEF Inv1
  <1>1. CASE CreateTableFull(p) BY <1>1, FailQueues DEF CreateTableFull
  <1>2. ASSUME NEW slots \in Int, NEW slotSize \in Int, NEW n \in Nat,
               nextMailboxId < MaxMbox,
               mailboxes' = [mailboxes EXCEPT ![nextMailboxId] =
                                 Initialised(@, slots, slotSize, n)]
        PROVE  Queues!Make(n)
    <2> DEFINE k == nextMailboxId
               b == Initialised(mailboxes[k], slots, slotSize, n)
    <2>1. k \in Id BY <1>2, TableAssumption DEF TypeOK, Id
    <2>2. /\ b.status = "inuse" /\ b.slots = [i \in 1 .. n |-> NoMsg]
          /\ b.slots \in Seq(Slot)
      <3>1. mailboxes[k] \in Mailbox BY <2>1 DEF TypeOK
      <3>2. b \in Mailbox /\ b.slots = [i \in 1 .. n |-> NoMsg]
        BY <1>2, <3>1, InitialisedType
      <3>3. b.status = "inuse" BY <3>1 DEF Initialised, Mailbox
      <3> HIDE DEF b
      <3> QED BY <3>2, <3>3 DEF Mailbox
    <2>3. mailboxes' = [mailboxes EXCEPT ![k] = b] BY <1>2
    <2> HIDE DEF b
    <2>4. Len(b.slots) = n BY <1>2, <2>2
    <2>5. Contents(b.slots) = <<>>
      <3>1. \A i \in 1 .. Len(b.slots) : b.slots[i] = NoMsg BY <2>2
      <3> QED BY <2>2, <3>1, NoContents
    <2>6. /\ Status' = [Status EXCEPT ![k] = "inuse"]
          /\ Capacity' = [Capacity EXCEPT ![k] = n]
          /\ Queue' = [Queue EXCEPT ![k] = <<>>]
      <3>1. /\ Status' = [Status EXCEPT ![k] = b.status]
            /\ Capacity' = [Capacity EXCEPT ![k] = Len(b.slots)]
            /\ Queue' = [Queue EXCEPT ![k] = Contents(b.slots)]
        BY <2>1, <2>3, QueueChange
      <3> QED BY <2>2, <2>4, <2>5, <3>1
    <2> QED BY <1>2, <2>6 DEF Queues!Make, Status, Capacity, Queue
  <1>3. ASSUME NEW slots \in SlotCounts, NEW slotSize \in SlotSizes,
               CreateMailbox(p, slots, slotSize)
        PROVE  Queues!QNext
    <2>1. slots \in Int /\ slotSize \in Int /\ Allocated(slots) \in Nat
      BY ArgumentAssumption DEF Allocated
    <2>2. Queues!Make(Allocated(slots)) BY <1>2, <1>3, <2>1 DEF CreateMailbox
    <2>3. Queues!Room(slots) = Allocated(slots) BY <2>1 DEF Queues!Room, Allocated
    <2>4. Answered(p, nextMailboxId, NoMsg) /\ nextMailboxId' = nextMailboxId + 1
      BY <1>3, ReturnAnswer DEF CreateMailbox
    <2>5. Queues!Open(p)
      BY <2>2, <2>3, <2>4 DEF Queues!Open, Queues!Answer, Answered, Results
    <2> QED BY <2>5 DEF Queues!QNext
  <1>4. ASSUME NEW slots \in SlotCounts, NEW slotSize \in SlotSizes,
               CreateNoMemory(p, slots, slotSize)
        PROVE  Queues!QNext
    <2>1. slots \in Int /\ slotSize \in Int /\ Allocated(slots) \in Nat
      BY ArgumentAssumption DEF Allocated
    <2>2. PICK n \in 0 .. Allocated(slots) - 1 :
              mailboxes' = [mailboxes EXCEPT ![nextMailboxId] =
                                Initialised(@, slots, slotSize, n)]
      BY <1>4 DEF CreateNoMemory
    <2>3. n \in Nat BY <2>1
    <2>4. Queues!Make(n) BY <1>2, <1>4, <2>1, <2>2, <2>3 DEF CreateNoMemory
    <2>5. n \in 0 .. Queues!Room(slots) - 1 BY <2>1, <2>2 DEF Queues!Room, Allocated
    <2>6. Answered(p, -1, NoMsg) /\ nextMailboxId' = nextMailboxId
      BY <1>4, ReturnAnswer DEF CreateNoMemory
    <2>7. Queues!OpenHalfWay(p)
      BY <2>4, <2>5, <2>6 DEF Queues!OpenHalfWay, Queues!Answer, Answered, Results
    <2> QED BY <2>7 DEF Queues!QNext
  <1> QED BY <1>1, <1>3, <1>4 DEF Create

LEMMA SendTurnQueues ==
    ASSUME Inv1, NEW p \in Proc, NEW id \in Int, NEW m \in Msg, NEW wait \in BOOLEAN,
           SendTurn(p, id, m, wait)
    PROVE  Queues!QNext
  <1> USE DEF Inv1
  <1>1. CASE SendInvalid(p, id, m) BY <1>1, FailQueues DEF SendInvalid
  <1>2. CASE SendDeposit(p, id, m)
    <2> DEFINE s == mailboxes[id].slots
    <2>1. id \in Id /\ EmptySlots(id) # {} /\ mailboxes[id].status # "released"
      BY <1>2 DEF SendDeposit, SendValid
    <2>2. PICK n \in 0 .. Len(s) : /\ FullSlots(id) = 1 .. n
                                   /\ EmptySlots(id) = n + 1 .. Len(s)
                                   /\ n < Len(s) => Min(EmptySlots(id)) = n + 1
      BY <2>1, PrefixSlots
    <2>3. /\ mailboxes[id] \in Mailbox
          /\ s \in Seq(Slot) /\ Len(s) \in Nat /\ DOMAIN s = 1 .. Len(s)
      BY <2>1 DEF TypeOK, Mailbox
    <2>4. n < Len(s) BY <2>1, <2>2, <2>3
    <2>5. PrefixOf(s, n) BY <2>2, <2>3 DEF PrefixOf, FullSlots
    <2>6. Stored(m) \in Slot BY DEF Stored, Slot
    <2>7. Stored(m) = IF Size[m] = 0 THEN NoMsg ELSE m BY DEF Stored
    <2> DEFINE t == [s EXCEPT ![n + 1] = Stored(m)]
               b == [mailboxes[id] EXCEPT !.slots = t]
    <2>8. /\ Len(t) = Len(s)
          /\ Contents(t) = IF Stored(m) = NoMsg THEN Contents(s)
                                                ELSE Append(Contents(s), Stored(m))
      BY <2>3, <2>4, <2>5, <2>6, DepositPrefix, DepositContents
    <2>9. mailboxes' = [mailboxes EXCEPT ![id] = b]
      BY <1>2, <2>2, <2>4 DEF SendDeposit
    <2>10. b.slots = t /\ b.status = mailboxes[id].status BY <2>3 DEF Mailbox
    <2> HIDE DEF t, b
    <2>11. /\ Status' = [Status EXCEPT ![id] = mailboxes[id].status]
           /\ Capacity' = [Capacity EXCEPT ![id] = Len(s)]
           /\ Queue' = [Queue EXCEPT ![id] = Contents(t)]
      <3>1. /\ Status' = [Status EXCEPT ![id] = b.status]
            /\ Capacity' = [Capacity EXCEPT ![id] = Len(b.slots)]
            /\ Queue' = [Queue EXCEPT ![id] = Contents(b.slots)]
        BY <2>1, <2>9, QueueChange
      <3> QED BY <2>8, <2>10, <3>1
    <2>12. Queue[id] = Contents(s) /\ Status[id] = mailboxes[id].status
           /\ Capacity[id] = Len(s)
      BY <2>1, QueueContents DEF Queue, Status, Capacity
    <2>13. Status' = Status /\ Capacity' = Capacity
      BY <2>11, <2>12, QueueType
    <2>14. Contents(t) = IF Size[m] = 0 THEN Contents(s) ELSE Append(Contents(s), m)
      BY <2>7, <2>8, NoMsgAssumption
    <2>15. Len(Queue[id]) < Capacity[id] BY <2>3, <2>4, <2>5, <2>12, PrefixContents
    <2>16. Answered(p, 0, NoMsg) /\ nextMailboxId' = nextMailboxId
      BY <1>2, ReturnAnswer DEF SendDeposit
    <2>17. Queue' = [Queue EXCEPT ![id] = IF Size[m] = 0 THEN Queue[id]
                                                         ELSE Append(Queue[id], m)]
      BY <2>11, <2>12, <2>14
    <2>18. Queues!Accept(p, id, m)
      BY <2>1, <2>12, <2>13, <2>15, <2>16, <2>17
         DEF Queues!Accept, Queues!Answer, Answered, Status, Capacity, Queue, Results
    <2> QED BY <2>1, <2>18 DEF Queues!QNext, Id
  <1>3. CASE SendWouldBlock(p, id, m) BY <1>3, FailQueues DEF SendWouldBlock
  <1>4. CASE SendNoMemory(p, id, m) BY <1>4, FailQueues DEF SendNoMemory
  <1>5. CASE SendBlock(p, id, m)
    <2> DEFINE c == [op |-> "send", mb |-> id, msg |-> m, size |-> 0]
    <2>1. c.op \in Side /\ Block(p, c) BY <1>5 DEF SendBlock, Side
    <2>2. \A j \in Id : /\ mailboxes'[j].status = mailboxes[j].status
                        /\ mailboxes'[j].slots = mailboxes[j].slots
      BY <1>5 DEF SendBlock, TypeOK, Mailbox
    <2> HIDE DEF c
    <2> QED BY <2>1, <2>2, BlockQueues
  <1> QED BY <1>1, <1>2, <1>3, <1>4, <1>5 DEF SendTurn

LEMMA ReceiveTurnQueues ==
    ASSUME Inv1, NEW p \in Proc, NEW id \in Int, NEW size \in Int,
           NEW wait \in BOOLEAN, ReceiveTurn(p, id, size, wait)
    PROVE  Queues!QNext
  <1> USE DEF Inv1
  <1>1. CASE ReceiveInvalid(p, id, size) BY <1>1, FailQueues DEF ReceiveInvalid
  <1>2. CASE ReceiveDeliver(p, id, size)
    <2> DEFINE s == mailboxes[id].slots
    <2>1. id \in Id /\ FullSlots(id) # {} /\ mailboxes[id].status # "released"
      BY <1>2 DEF ReceiveDeliver, ReceiveValid
    <2>2. PICK n \in 0 .. Len(s) :
              /\ FullSlots(id) = 1 .. n
              /\ EmptySlots(id) = n + 1 .. Len(s)
              /\ n > 0 => Min(FullSlots(id)) = 1 /\ RunEnd(id, 1) = n
      BY <2>1, PrefixSlots
    <2>3. /\ mailboxes[id] \in Mailbox
          /\ s \in Seq(Slot) /\ Len(s) \in Nat /\ DOMAIN s = 1 .. Len(s)
      BY <2>1 DEF TypeOK, Mailbox
    <2>4. n > 0 /\ n \in 1 .. Len(s) BY <2>1, <2>2, <2>3
    <2>5. PrefixOf(s, n) BY <2>2, <2>3 DEF PrefixOf, FullSlots
    <2> DEFINE t == Shifted(s, 1, n)
               b == [mailboxes[id] EXCEPT !.slots = t, !.blockedSendList = Rest(@)]
    <2>6. WithoutFirst(id) = b BY <2>2, <2>4 DEF WithoutFirst
    <2>7. mailboxes' = [mailboxes EXCEPT ![id] = b] BY <1>2, <2>6 DEF ReceiveDeliver
    <2>8. Len(t) = Len(s) BY <2>3, <2>4, <2>5, ShiftPrefix
    <2>9. /\ Contents(s) # <<>> /\ Head(Contents(s)) = s[1]
          /\ Contents(t) = Tail(Contents(s))
      BY <2>3, <2>4, <2>5, ShiftContents
    <2>10. b.slots = t /\ b.status = mailboxes[id].status BY <2>3 DEF Mailbox
    <2> HIDE DEF t, b
    <2>11. /\ Status' = [Status EXCEPT ![id] = mailboxes[id].status]
           /\ Capacity' = [Capacity EXCEPT ![id] = Len(s)]
           /\ Queue' = [Queue EXCEPT ![id] = Tail(Contents(s))]
      <3>1. /\ Status' = [Status EXCEPT ![id] = b.status]
            /\ Capacity' = [Capacity EXCEPT ![id] = Len(b.slots)]
            /\ Queue' = [Queue EXCEPT ![id] = Contents(b.slots)]
        BY <2>1, <2>7, QueueChange
      <3> QED BY <2>8, <2>9, <2>10, <3>1
    <2>12. /\ Queue[id] = Contents(s) /\ Status[id] = mailboxes[id].status
           /\ Capacity[id] = Len(s)
      BY <2>1, QueueContents DEF Queue, Status, Capacity
    <2>13. Status' = Status /\ Capacity' = Capacity
      BY <2>11, <2>12, QueueType
    <2>14. FirstMessage(id) = s[1] BY <2>2, <2>4 DEF FirstMessage
    <2>15. Answered(p, Size[FirstMessage(id)], FirstMessage(id))
      BY <1>2, ReturnAnswer DEF ReceiveDeliver
    <2>16. Answered(p, Size[Head(Queue[id])], Head(Queue[id]))
      BY <2>9, <2>12, <2>14, <2>15
    <2>17. nextMailboxId' = nextMailboxId BY <1>2 DEF ReceiveDeliver
    <2>18. Queue' = [Queue EXCEPT ![id] = Tail(Queue[id])] BY <2>11, <2>12
    <2>19. Status[id] # "released" /\ Queue[id] # <<>> BY <2>1, <2>9, <2>12
    <2>20. Queues!Deliver(p, id)
      BY <2>13, <2>16, <2>17, <2>18, <2>19
         DEF Queues!Deliver, Queues!Answer, Answered, Status, Capacity, Queue, Results
    <2> QED BY <2>1, <2>20 DEF Queues!QNext, Id
  <1>3. CASE ReceiveWouldBlock(p, id, size) BY <1>3, FailQueues DEF ReceiveWouldBlock
  <1>4. CASE ReceiveNoMemory(p, id, size) BY <1>4, FailQueues DEF ReceiveNoMemory
  <1>5. CASE ReceiveBlock(p, id, size)
    <2> DEFINE c == [op |-> "receive", mb |-> id, msg |-> NoMsg, size |-> size]
    <2>1. c.op \in Side /\ Block(p, c) BY <1>5 DEF ReceiveBlock, Side
    <2>2. \A j \in Id : /\ mailboxes'[j].status = mailboxes[j].status
                        /\ mailboxes'[j].slots = mailboxes[j].slots
      BY <1>5 DEF ReceiveBlock, TypeOK, Mailbox
    <2> HIDE DEF c
    <2> QED BY <2>1, <2>2, BlockQueues
  <1> QED BY <1>1, <1>2, <1>3, <1>4, <1>5 DEF ReceiveTurn

(* mailbox_free closes the queue when it marks the mailbox; its loops and  *)
(* its return change nothing a caller of the queues sees.                  *)
LEMMA FreeQueues ==
    ASSUME Inv1, NEW p \in Proc, Free(p)
    PROVE  Queues!QNext
  <1> USE DEF Inv1
  <1>1. PICK id \in MboxArg : FreeInvalid(p, id) \/ FreeRelease(p, id) BY DEF Free
  <1>2. CASE FreeInvalid(p, id) BY <1>2, FailQueues DEF FreeInvalid
  <1>3. CASE FreeRelease(p, id)
    <2> DEFINE b == [mailboxes[id] EXCEPT !.status = "released"]
    <2>1. id \in Id /\ mailboxes[id].status = "inuse" BY <1>3 DEF FreeRelease
    <2>2. mailboxes' = [mailboxes EXCEPT ![id] = b] BY <1>3 DEF FreeRelease
    <2>3. b.status = "released" /\ b.slots = mailboxes[id].slots
      BY <2>1 DEF TypeOK, Mailbox
    <2> HIDE DEF b
    <2>4. /\ Status' = [Status EXCEPT ![id] = "released"]
          /\ Capacity' = [Capacity EXCEPT ![id] = Len(mailboxes[id].slots)]
          /\ Queue' = [Queue EXCEPT ![id] = Contents(mailboxes[id].slots)]
      <3>1. /\ Status' = [Status EXCEPT ![id] = b.status]
            /\ Capacity' = [Capacity EXCEPT ![id] = Len(b.slots)]
            /\ Queue' = [Queue EXCEPT ![id] = Contents(b.slots)]
        BY <2>1, <2>2, QueueChange
      <3> QED BY <2>3, <3>1
    <2>5. /\ Queue[id] = Contents(mailboxes[id].slots) /\ Status[id] = "inuse"
          /\ Capacity[id] = Len(mailboxes[id].slots)
      BY <2>1, QueueContents DEF Queue, Status, Capacity
    <2>6. Capacity' = Capacity /\ Queue' = Queue
      <3>1. Capacity' = Capacity BY <2>4, <2>5, QueueType
      <3>2. Queue' = Queue BY <2>4, <2>5 DEF Queue
      <3> QED BY <3>1, <3>2
    <2>7. \A q \in Proc \ {p} : call'[q] = call[q] /\ result'[q] = result[q]
      BY <1>3 DEF FreeRelease, TypeOK
    <2>8. AnswerOf(p)' = [code |-> 0, msg |-> NoMsg]
      BY <1>3 DEF FreeRelease, TypeOK, AnswerOf
    <2>9. Answered(p, 0, NoMsg) BY <2>7, <2>8, AnswerChange
    <2>10. nextMailboxId' = nextMailboxId BY <1>3 DEF FreeRelease
    <2>11. Queues!Close(p, id)
      BY <2>4, <2>5, <2>6, <2>9, <2>10
         DEF Queues!Close, Queues!Answer, Answered, Status, Capacity, Queue, Results
    <2> QED BY <2>1, <2>11 DEF Queues!QNext, Id
  <1> QED BY <1>1, <1>2, <1>3

LEMMA Stutter ==
    ASSUME UNCHANGED nextMailboxId,
           \A id \in Id : /\ mailboxes'[id].status = mailboxes[id].status
                          /\ mailboxes'[id].slots = mailboxes[id].slots,
           \A q \in Proc : AnswerOf(q)' = AnswerOf(q)
    PROVE  UNCHANGED Queues!avars
  <1>1. UNCHANGED <<Status, Capacity, Queue>> BY SameQueues
  <1>2. UNCHANGED Results BY DEF Results
  <1> QED BY <1>1, <1>2 DEF Queues!avars, Status, Capacity, Queue, Results

LEMMA FreeLoopStutters ==
    ASSUME Inv1, NEW p \in Proc, FreeSender(p) \/ FreeReceiver(p) \/ FreeReturn(p)
    PROVE  UNCHANGED Queues!avars
  <1> USE DEF Inv1
  <1>1. CASE FreeSender(p)
    <2>1. call' = call /\ result' = result /\ nextMailboxId' = nextMailboxId
      BY <1>1 DEF FreeSender
    <2>2. \A j \in Id : /\ mailboxes'[j].status = mailboxes[j].status
                        /\ mailboxes'[j].slots = mailboxes[j].slots
      BY <1>1 DEF FreeSender, TypeOK, Mailbox
    <2>3. \A q \in Proc : AnswerOf(q)' = AnswerOf(q) BY <2>1 DEF AnswerOf
    <2> QED BY <2>1, <2>2, <2>3, Stutter
  <1>2. CASE FreeReceiver(p)
    <2>1. /\ call' = [call EXCEPT ![p].op = "free_receive"]
          /\ result' = result /\ nextMailboxId' = nextMailboxId
          /\ call[p].op \in {"free_send", "free_receive"}
      BY <1>2 DEF FreeReceiver, SendersFreed, Running
    <2>2. \A j \in Id : /\ mailboxes'[j].status = mailboxes[j].status
                        /\ mailboxes'[j].slots = mailboxes[j].slots
      BY <1>2 DEF FreeReceiver, TypeOK, Mailbox
    <2>3. \A q \in Proc : AnswerOf(q)' = AnswerOf(q)
      BY <2>1 DEF AnswerOf, TypeOK, Call
    <2> QED BY <2>1, <2>2, <2>3, Stutter
  <1>3. CASE FreeReturn(p)
    <2>1. /\ call' = [call EXCEPT ![p] = NoCall]
          /\ result' = [result EXCEPT ![p] = [code |-> 0, msg |-> NoMsg]]
          /\ nextMailboxId' = nextMailboxId /\ mailboxes' = mailboxes
          /\ call[p].op \in {"free_send", "free_receive"}
      BY <1>3 DEF FreeReturn, Return, SendersFreed, Running
    <2>2. \A q \in Proc : AnswerOf(q)' = AnswerOf(q)
      BY <2>1 DEF AnswerOf, TypeOK, NoCall
    <2> QED BY <2>1, <2>2, Stutter
  <1> QED BY <1>1, <1>2, <1>3

-----------------------------------------------------------------------------
(* The refinement *)

LEMMA InitQueues == Init => Queues!QInit
  <1> SUFFICES ASSUME Init PROVE Queues!QInit OBVIOUS
  <1> USE TableAssumption
  <1>1. Inv1 BY InitInv1
  <1>2. ASSUME NEW id \in Id
        PROVE  /\ mailboxes[id].status = IF id < MaxDevices THEN "inuse" ELSE "empty"
               /\ QueueOf(id) = <<>>
               /\ Len(mailboxes[id].slots) = IF id \in 1 .. MaxDevices - 1
                                              THEN Queues!Room(DeviceSlots) ELSE 0
    <2>1. mailboxes[id].slots \in Seq(Slot) BY <1>1 DEF Inv1, TypeOK, Mailbox
    <2>2. CASE id < MaxDevices
      <3> DEFINE slots == IF id = 0 THEN 0 ELSE DeviceSlots
      <3>1. mailboxes[id] = Initialised(EmptyMailbox, slots, IntSize, Allocated(slots))
        BY <2>2 DEF Init, DeviceMailbox
      <3>2. Allocated(slots) \in Nat BY DEF Allocated
      <3> HIDE DEF slots
      <3>3. /\ mailboxes[id].status = "inuse"
            /\ mailboxes[id].slots = [i \in 1 .. Allocated(slots) |-> NoMsg]
        BY <3>1 DEF Initialised, EmptyMailbox
      <3>4. \A i \in 1 .. Len(mailboxes[id].slots) : mailboxes[id].slots[i] = NoMsg
        BY <3>2, <3>3
      <3>5. QueueOf(id) = <<>> BY <2>1, <3>4, NoContents, QueueContents
      <3>6. Len(mailboxes[id].slots) = Allocated(slots) BY <3>2, <3>3
      <3>7. Allocated(slots) = IF id \in 1 .. MaxDevices - 1
                               THEN Queues!Room(DeviceSlots) ELSE 0
        BY <2>2 DEF slots, Allocated, Queues!Room, Id
      <3> QED BY <2>2, <3>3, <3>5, <3>6, <3>7
    <2>3. CASE ~(id < MaxDevices)
      <3>1. mailboxes[id].status = "empty" /\ mailboxes[id].slots = <<>>
        BY <2>3 DEF Init, EmptyMailbox
      <3>2. \A i \in 1 .. Len(mailboxes[id].slots) : mailboxes[id].slots[i] = NoMsg
        BY <3>1
      <3>3. QueueOf(id) = <<>> BY <2>1, <3>2, NoContents, QueueContents
      <3>4. Len(mailboxes[id].slots) = 0 /\ id \notin 1 .. MaxDevices - 1
        BY <2>3, <3>1 DEF Id
      <3> QED BY <2>3, <3>1, <3>3, <3>4
    <2> QED BY <2>2, <2>3
  <1>3. nextMailboxId = MaxDevices /\ nextMailboxId \in 0 .. MaxMbox BY DEF Init
  <1>4. Status = [id \in 0 .. MaxMbox - 1 |->
                      IF id < nextMailboxId THEN "inuse" ELSE "empty"]
    BY <1>2, <1>3 DEF Status, Id
  <1>5. Capacity = [id \in 0 .. MaxMbox - 1 |->
                        IF id \in 1 .. nextMailboxId - 1
                        THEN Queues!Room(DeviceSlots) ELSE 0]
    BY <1>2, <1>3 DEF Capacity, Id
  <1>6. Queue = [id \in 0 .. MaxMbox - 1 |-> <<>>] BY <1>2 DEF Queue, Id
  <1>7. Results = [p \in Proc |-> [code |-> NoCode, msg |-> NoMsg]]
    BY DEF Init, Results, AnswerOf, NoCall, NoResult
  <1> QED BY <1>3, <1>4, <1>5, <1>6, <1>7
          DEF Queues!QInit, Status, Capacity, Queue, Results

LEMMA StepQueues == Inv1 /\ [Next]_vars => [Queues!QNext]_(Queues!avars)
  <1> SUFFICES ASSUME Inv1, [Next]_vars PROVE Queues!QNext \/ UNCHANGED Queues!avars
    OBVIOUS
  <1>1. CASE UNCHANGED vars
    <2>1. \A q \in Proc : AnswerOf(q)' = AnswerOf(q) BY <1>1 DEF vars, AnswerOf
    <2> QED BY <1>1, <2>1, Stutter DEF vars
  <1>2. ASSUME NEW p \in Proc, Create(p) PROVE Queues!QNext BY <1>2, CreateQueues
  <1>3. ASSUME NEW p \in Proc, Send(p) PROVE Queues!QNext
    <2>1. PICK id \in MboxArg, m \in Msg, wait \in BOOLEAN : SendTurn(p, id, m, wait)
      BY <1>3 DEF Send
    <2>2. id \in Int BY TableAssumption DEF MboxArg
    <2> QED BY <2>1, <2>2, SendTurnQueues
  <1>4. ASSUME NEW p \in Proc, Receive(p) PROVE Queues!QNext
    <2>1. PICK id \in MboxArg, size \in BufSizes, wait \in BOOLEAN :
              ReceiveTurn(p, id, size, wait)
      BY <1>4 DEF Receive
    <2>2. id \in Int /\ size \in Int BY TableAssumption, ArgumentAssumption DEF MboxArg
    <2> QED BY <2>1, <2>2, ReceiveTurnQueues
  <1>5. ASSUME NEW p \in Proc, Free(p) PROVE Queues!QNext BY <1>5, FreeQueues
  <1>6. ASSUME NEW p \in Proc, SendInterrupted(p) \/ ReceiveInterrupted(p)
        PROVE  Queues!QNext
    BY <1>6, FailQueues DEF SendInterrupted, ReceiveInterrupted
  <1>7. ASSUME NEW p \in Proc, SendRetry(p) PROVE Queues!QNext
    <2>1. call[p].mb \in Int /\ call[p].msg \in Msg
      BY <1>7 DEF SendRetry, Running, Inv1, TypeOK, Call, CallOK
    <2> QED BY <1>7, <2>1, SendTurnQueues DEF SendRetry
  <1>8. ASSUME NEW p \in Proc, ReceiveRetry(p) PROVE Queues!QNext
    <2>1. call[p].mb \in Int /\ call[p].size \in Int
      BY DEF Inv1, TypeOK, Call
    <2> QED BY <1>8, <2>1, ReceiveTurnQueues DEF ReceiveRetry
  <1>9. ASSUME NEW p \in Proc, FreeSender(p) \/ FreeReceiver(p) \/ FreeReturn(p)
        PROVE  UNCHANGED Queues!avars
    BY <1>9, FreeLoopStutters
  <1>10. ASSUME NEW p \in Proc, Signal(p) PROVE UNCHANGED Queues!avars
    <2>1. \A q \in Proc : AnswerOf(q)' = AnswerOf(q) BY <1>10 DEF Signal, AnswerOf
    <2> QED BY <1>10, <2>1, Stutter DEF Signal
  <1> QED BY <1>1, <1>2, <1>3, <1>4, <1>5, <1>6, <1>7, <1>8, <1>9, <1>10
          DEF Next, Start, Continue

LEMMA Inv1Holds == Spec => []Inv1
  <1> QED BY InitInv1, StepInv1, PTL DEF Spec

(* Through slots, shifts, blocked lists and signals the mailboxes are the  *)
(* bounded FIFO queues of MailboxQueue: a mailbox that mailbox_create has  *)
(* handed out has the room it was asked for (none if that is one slot), no *)
(* message it accepted is lost, doubled or overtaken before its release,   *)
(* and a call that fails changes nothing but, if it is a create, the entry *)
(* not yet handed out.                                                     *)
THEOREM MailboxesAreQueues == Spec => ImplementsQueues
  <1> QED BY InitQueues, StepQueues, Inv1Holds, PTL
          DEF Spec, ImplementsQueues, Queues!QSpec

=============================================================================
