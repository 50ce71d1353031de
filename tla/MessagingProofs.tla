-------------------------- MODULE MessagingProofs --------------------------
(***************************************************************************)
(* Theorems of Messaging, for every value of its constants.                *)
(***************************************************************************)
EXTENDS Messaging, TLAPS, SequenceTheorems

(* A pending call is on a mailbox of the table, a pending send has a       *)
(* message, and "no call" is NoCall: what makes a call record meaningful   *)
(* after block() has returned.                                             *)
CallOK ==
    \A p \in Proc :
        /\ call[p].op = "none" => call[p] = NoCall
        /\ call[p].op # "none" => call[p].mb \in Id
        /\ call[p].op = "send" => call[p].msg \in Msg

Inv1 == TypeOK /\ CallOK /\ SlotsPrefix

-----------------------------------------------------------------------------
(* Slots in prefix form *)

(* In a list whose n full slots come first, the first full slot is slot 1, *)
(* the run of full slots ends at slot n, and slot n + 1 is the first empty *)
(* one: what mailbox_send and mailbox_receive look for.                    *)
LEMMA PrefixSlots ==
    ASSUME TypeOK, SlotsPrefix, NEW id \in Id
    PROVE  \E n \in 0 .. Len(mailboxes[id].slots) :
              /\ FullSlots(id) = 1 .. n
              /\ EmptySlots(id) = n + 1 .. Len(mailboxes[id].slots)
              /\ n > 0 => Min(FullSlots(id)) = 1 /\ RunEnd(id, 1) = n
              /\ n < Len(mailboxes[id].slots) => Min(EmptySlots(id)) = n + 1
  <1> DEFINE s == mailboxes[id].slots
  <1>1. s \in Seq(Slot) BY DEF TypeOK, Mailbox
  <1>2. Len(s) \in Nat /\ DOMAIN s = 1 .. Len(s) BY <1>1
  <1>3. PICK n \in 0 .. Len(s) : \A i \in 1 .. Len(s) : s[i] # NoMsg <=> i <= n
    BY DEF SlotsPrefix
  <1>4. FullSlots(id) = 1 .. n BY <1>2, <1>3 DEF FullSlots
  <1>5. EmptySlots(id) = n + 1 .. Len(s) BY <1>2, <1>3 DEF EmptySlots
  <1>6. n > 0 => Min(FullSlots(id)) = 1 BY <1>2, <1>4 DEF Min
  <1>7. n > 0 => RunEnd(id, 1) = n
    <2> DEFINE ends == {l \in FullSlots(id) : 1 <= l /\ 1 .. l \subseteq FullSlots(id)}
    <2>1. ends = 1 .. n BY <1>2, <1>4
    <2>2. n > 0 => Max(ends) = n BY <1>2, <2>1 DEF Max
    <2> QED BY <2>2 DEF RunEnd
  <1>8. n < Len(s) => Min(EmptySlots(id)) = n + 1 BY <1>2, <1>5 DEF Min
  <1> QED BY <1>4, <1>5, <1>6, <1>7, <1>8

PrefixOf(s, n) == \A i \in 1 .. Len(s) : s[i] # NoMsg <=> i <= n

(* Filling the first empty slot, with a message or with one of no bytes,   *)
(* keeps the prefix form.                                                  *)
LEMMA DepositPrefix ==
    ASSUME NEW s \in Seq(Slot), NEW n \in 0 .. Len(s), n < Len(s), PrefixOf(s, n),
           NEW x \in Slot
    PROVE  LET t == [s EXCEPT ![n + 1] = x]
           IN  /\ t \in Seq(Slot)
               /\ Len(t) = Len(s)
               /\ PrefixOf(t, IF x = NoMsg THEN n ELSE n + 1)
  <1> DEFINE t == [s EXCEPT ![n + 1] = x]
  <1>1. n + 1 \in 1 .. Len(s) OBVIOUS
  <1>2. t \in Seq(Slot) /\ Len(t) = Len(s) BY <1>1, ExceptSeq
  <1>3. \A i \in 1 .. Len(s) : t[i] = IF i = n + 1 THEN x ELSE s[i]
    BY <1>1, ExceptSeq
  <1>4. PrefixOf(t, IF x = NoMsg THEN n ELSE n + 1)
    BY <1>2, <1>3 DEF PrefixOf
  <1> QED BY <1>2, <1>4

(* Taking the first of n full slots out moves the others down by one. *)
LEMMA ShiftPrefix ==
    ASSUME NEW s \in Seq(Slot), NEW n \in 1 .. Len(s), PrefixOf(s, n)
    PROVE  LET t == Shifted(s, 1, n)
           IN  /\ t \in Seq(Slot)
               /\ Len(t) = Len(s)
               /\ PrefixOf(t, n - 1)
               /\ \A i \in 1 .. n - 1 : t[i] = s[i + 1]
  <1> DEFINE t == Shifted(s, 1, n)
  <1>1. t = [i \in 1 .. Len(s) |-> IF i = n THEN NoMsg
                                   ELSE IF i \in 1 .. n - 1 THEN s[i + 1] ELSE s[i]]
    BY DEF Shifted
  <1>2. \A i \in 1 .. Len(s) : t[i] \in Slot
    <2> TAKE i \in 1 .. Len(s)
    <2>1. s[i] \in Slot BY ElementOfSeq
    <2>2. i \in 1 .. n - 1 => i + 1 \in 1 .. Len(s) OBVIOUS
    <2>3. i \in 1 .. n - 1 => s[i + 1] \in Slot BY <2>2, ElementOfSeq
    <2> QED BY <1>1, <2>1, <2>3 DEF Slot
  <1>3. t \in Seq(Slot) /\ Len(t) = Len(s)
    <2>1. t \in [1 .. Len(s) -> Slot] BY <1>1, <1>2
    <2>2. Len(s) \in Nat OBVIOUS
    <2> QED BY <2>1, <2>2
  <1>4. PrefixOf(t, n - 1) BY <1>1, <1>3 DEF PrefixOf
  <1>5. \A i \in 1 .. n - 1 : t[i] = s[i + 1] BY <1>1
  <1> QED BY <1>3, <1>4, <1>5

-----------------------------------------------------------------------------
(* Inv1 is inductive *)

(* A step that leaves all slots where they are leaves them in prefix form. *)
LEMMA SameSlotsPrefix ==
    ASSUME SlotsPrefix, \A id \in Id : mailboxes'[id].slots = mailboxes[id].slots
    PROVE  SlotsPrefix'
  BY DEF SlotsPrefix, Id

LEMMA InitialisedType ==
    ASSUME NEW b \in Mailbox, NEW slots \in Int, NEW slotSize \in Int, NEW n \in Nat
    PROVE  /\ Initialised(b, slots, slotSize, n) \in Mailbox
           /\ Initialised(b, slots, slotSize, n).slots = [i \in 1 .. n |-> NoMsg]
  <1>1. [i \in 1 .. n |-> NoMsg] \in Seq(Slot) BY DEF Slot
  <1> QED BY <1>1 DEF Mailbox, Initialised

LEMMA InitInv1 == Init => Inv1
  <1> SUFFICES ASSUME Init PROVE Inv1 OBVIOUS
  <1> USE TableAssumption, ArgumentAssumption
  <1>1. EmptyMailbox \in Mailbox /\ EmptyMailbox.slots = <<>>
    BY DEF EmptyMailbox, Mailbox
  <1>2. \A k \in Int : Allocated(k) \in Nat BY DEF Allocated
  <1>3. ASSUME NEW id \in Id
        PROVE  /\ DeviceMailbox(id) \in Mailbox
               /\ \E n \in Nat : DeviceMailbox(id).slots = [i \in 1 .. n |-> NoMsg]
    <2> DEFINE slots == IF id = 0 THEN 0 ELSE DeviceSlots
    <2>1. slots \in Int /\ Allocated(slots) \in Nat BY <1>2
    <2>2. DeviceMailbox(id) = Initialised(EmptyMailbox, slots, IntSize, Allocated(slots))
      BY DEF DeviceMailbox
    <2> HIDE DEF slots
    <2>3. IntSize \in Int OBVIOUS
    <2>4. /\ Initialised(EmptyMailbox, slots, IntSize, Allocated(slots)) \in Mailbox
          /\ Initialised(EmptyMailbox, slots, IntSize, Allocated(slots)).slots
                 = [i \in 1 .. Allocated(slots) |-> NoMsg]
      BY <1>1, <2>1, <2>3, InitialisedType
    <2> QED BY <2>1, <2>2, <2>4
  <1>5. TypeOK
    BY <1>1, <1>3 DEF Init, TypeOK, NoCall, Call, NoResult, NoCode, Slot, Id
  <1>6. CallOK BY DEF Init, CallOK, NoCall
  <1>7. SlotsPrefix
    <2> SUFFICES ASSUME NEW id \in Id
                 PROVE  \E n \in 0 .. Len(mailboxes[id].slots) : PrefixOf(mailboxes[id].slots, n)
      BY DEF SlotsPrefix, PrefixOf
    <2>1. \A i \in 1 .. Len(mailboxes[id].slots) : mailboxes[id].slots[i] = NoMsg
      <3>1. CASE id < MaxDevices
        <4>1. mailboxes[id] = DeviceMailbox(id) BY <3>1 DEF Init
        <4>2. PICK n \in Nat : mailboxes[id].slots = [i \in 1 .. n |-> NoMsg]
          BY <1>3, <4>1
        <4> QED BY <4>2
      <3>2. CASE ~(id < MaxDevices)
        <4>1. mailboxes[id].slots = <<>> BY <1>1, <3>2 DEF Init
        <4> QED BY <4>1
      <3> QED BY <3>1, <3>2
    <2>2. Len(mailboxes[id].slots) \in Nat BY <1>5 DEF TypeOK, Mailbox
    <2>3. PrefixOf(mailboxes[id].slots, 0) BY <2>1, <2>2 DEF PrefixOf
    <2> QED BY <2>2, <2>3
  <1> QED BY <1>5, <1>6, <1>7 DEF Inv1

(* A call that fails, and one that returns, keep the bookkeeping of calls. *)
LEMMA ReturnOK ==
    ASSUME NEW p \in Proc, NEW code \in Int, NEW m \in Slot, TypeOK, CallOK,
           Return(p, code, m)
    PROVE  /\ call' \in [Proc -> Call]
           /\ result' \in [Proc -> [code : Int, msg : Slot]]
           /\ CallOK'
  <1>1. NoCall \in Call BY DEF NoCall, Call, Slot
  <1>2. call' \in [Proc -> Call] BY <1>1 DEF Return, TypeOK
  <1>3. result' \in [Proc -> [code : Int, msg : Slot]] BY DEF Return, TypeOK
  <1>4. CallOK' BY DEF Return, TypeOK, CallOK, NoCall, Id
  <1> QED BY <1>2, <1>3, <1>4

LEMMA FailInv1 ==
    ASSUME NEW p \in Proc, NEW code \in Int, Inv1, Fail(p, code)
    PROVE  Inv1'
  <1>1. NoMsg \in Slot BY DEF Slot
  <1>2. Return(p, code, NoMsg) /\ UNCHANGED <<mailboxes, nextMailboxId, pstate, signal>>
    BY DEF Fail
  <1>3. SlotsPrefix' BY <1>2, SameSlotsPrefix DEF Inv1
  <1> QED BY <1>1, <1>2, <1>3, ReturnOK DEF Inv1, TypeOK

(* mailbox_create with any count and size, whoever calls it. *)
LEMMA MakeInv1 ==
    ASSUME NEW p \in Proc, NEW slots \in Int, NEW slotSize \in Int, Inv1,
           CreateMailbox(p, slots, slotSize) \/ CreateNoMemory(p, slots, slotSize)
    PROVE  Inv1'
  <1> USE TableAssumption
  <1>1. Allocated(slots) \in Nat BY DEF Allocated
  <1>2. ASSUME NEW n \in Nat, nextMailboxId < MaxMbox,
               mailboxes' = [mailboxes EXCEPT ![nextMailboxId] =
                                 Initialised(@, slots, slotSize, n)]
        PROVE  mailboxes' \in [Id -> Mailbox] /\ SlotsPrefix'
    <2> DEFINE b == Initialised(mailboxes[nextMailboxId], slots, slotSize, n)
    <2>1. nextMailboxId \in Id BY <1>2 DEF Inv1, TypeOK, Id
    <2>2. mailboxes[nextMailboxId] \in Mailbox BY <2>1 DEF Inv1, TypeOK
    <2>3. b \in Mailbox /\ b.slots = [i \in 1 .. n |-> NoMsg]
      BY <2>2, InitialisedType
    <2>4. mailboxes' \in [Id -> Mailbox] BY <1>2, <2>1, <2>3 DEF Inv1, TypeOK
    <2>5. SlotsPrefix'
      <3> SUFFICES ASSUME NEW id \in Id
                   PROVE  \E k \in 0 .. Len(mailboxes'[id].slots) :
                              PrefixOf(mailboxes'[id].slots, k)
        BY DEF SlotsPrefix, PrefixOf, Id
      <3>1. CASE id = nextMailboxId
        <4>1. mailboxes'[id].slots = [i \in 1 .. n |-> NoMsg]
          BY <1>2, <2>1, <2>3, <3>1 DEF Inv1, TypeOK
        <4> QED BY <4>1 DEF PrefixOf
      <3>2. CASE id # nextMailboxId
        BY <1>2, <2>1, <3>2 DEF Inv1, TypeOK, SlotsPrefix, PrefixOf
      <3> QED BY <3>1, <3>2
    <2> QED BY <2>4, <2>5
  <1>3. CASE CreateMailbox(p, slots, slotSize)
    <2>1. mailboxes' \in [Id -> Mailbox] /\ SlotsPrefix'
      BY <1>1, <1>2, <1>3 DEF CreateMailbox
    <2>2. nextMailboxId' \in 0 .. MaxMbox /\ nextMailboxId \in Int
      BY <1>3 DEF CreateMailbox, Inv1, TypeOK
    <2>3. Return(p, nextMailboxId, NoMsg) /\ NoMsg \in Slot
      BY <1>3 DEF CreateMailbox, Slot
    <2> QED BY <1>3, <2>1, <2>2, <2>3, ReturnOK DEF CreateMailbox, Inv1, TypeOK
  <1>4. CASE CreateNoMemory(p, slots, slotSize)
    <2>1. PICK n \in 0 .. Allocated(slots) - 1 :
              mailboxes' = [mailboxes EXCEPT ![nextMailboxId] =
                                Initialised(@, slots, slotSize, n)]
      BY <1>4 DEF CreateNoMemory
    <2>2. n \in Nat BY <1>1
    <2>3. mailboxes' \in [Id -> Mailbox] /\ SlotsPrefix'
      BY <1>2, <1>4, <2>1, <2>2 DEF CreateNoMemory
    <2>4. Return(p, -1, NoMsg) /\ NoMsg \in Slot /\ -1 \in Int
      BY <1>4 DEF CreateNoMemory, Slot
    <2> QED BY <1>4, <2>3, <2>4, ReturnOK DEF CreateNoMemory, Inv1, TypeOK
  <1> QED BY <1>3, <1>4

LEMMA CreateInv1 ==
    ASSUME NEW p \in Proc, Inv1, Create(p)
    PROVE  Inv1'
  <1>1. CASE CreateTableFull(p) BY <1>1, FailInv1 DEF CreateTableFull
  <1>2. ASSUME NEW slots \in SlotCounts, NEW slotSize \in SlotSizes,
               CreateMailbox(p, slots, slotSize) \/ CreateNoMemory(p, slots, slotSize)
        PROVE  Inv1'
    <2>1. slots \in Int /\ slotSize \in Int BY ArgumentAssumption
    <2> QED BY <1>2, <2>1, MakeInv1
  <1> QED BY <1>1, <1>2 DEF Create

(* One mailbox changes into b, whose slots are in prefix form. *)
LEMMA MailboxChange ==
    ASSUME TypeOK, SlotsPrefix, NEW id \in Id, NEW b \in Mailbox,
           NEW n \in 0 .. Len(b.slots), PrefixOf(b.slots, n),
           mailboxes' = [mailboxes EXCEPT ![id] = b]
    PROVE  mailboxes' \in [Id -> Mailbox] /\ SlotsPrefix'
  <1>1. mailboxes' \in [Id -> Mailbox] BY DEF TypeOK
  <1>2. SlotsPrefix'
    <2> SUFFICES ASSUME NEW j \in Id
                 PROVE  \E k \in 0 .. Len(mailboxes'[j].slots) :
                            PrefixOf(mailboxes'[j].slots, k)
      BY DEF SlotsPrefix, PrefixOf, Id
    <2>1. CASE j = id BY <2>1 DEF TypeOK
    <2>2. CASE j # id BY <2>2 DEF TypeOK, SlotsPrefix, PrefixOf
    <2> QED BY <2>1, <2>2
  <1> QED BY <1>1, <1>2

(* One mailbox changes in anything but its slots. *)
LEMMA ListChange ==
    ASSUME TypeOK, SlotsPrefix, NEW id \in Id, NEW b \in Mailbox,
           b.slots = mailboxes[id].slots,
           mailboxes' = [mailboxes EXCEPT ![id] = b]
    PROVE  mailboxes' \in [Id -> Mailbox] /\ SlotsPrefix'
  <1>1. PICK n \in 0 .. Len(b.slots) : PrefixOf(b.slots, n) BY DEF SlotsPrefix, PrefixOf
  <1> QED BY <1>1, MailboxChange

(* Going to sleep on a mailbox of the table. *)
LEMMA BlockOK ==
    ASSUME NEW p \in Proc, NEW c \in Call, TypeOK, CallOK, Block(p, c),
           c.op \in {"send", "receive"}, c.mb \in Id, c.op = "send" => c.msg \in Msg
    PROVE  /\ call' \in [Proc -> Call]
           /\ pstate' \in [Proc -> {"ready", "blocked"}]
           /\ result' \in [Proc -> [code : Int, msg : Slot]]
           /\ nextMailboxId' = nextMailboxId /\ signal' = signal
           /\ CallOK'
  <1>1. NoResult \in [code : Int, msg : Slot] BY DEF NoResult, NoCode, Slot
  <1>2. call' \in [Proc -> Call] /\ pstate' \in [Proc -> {"ready", "blocked"}]
    BY DEF Block, TypeOK
  <1>3. result' \in [Proc -> [code : Int, msg : Slot]] BY <1>1 DEF Block, TypeOK
  <1>4. CallOK' BY DEF Block, TypeOK, CallOK, Id
  <1> QED BY <1>2, <1>3, <1>4 DEF Block

LEMMA SendTurnInv1 ==
    ASSUME NEW p \in Proc, NEW id \in Int, NEW m \in Msg, NEW wait \in BOOLEAN,
           Inv1, SendTurn(p, id, m, wait)
    PROVE  Inv1'
  <1> USE DEF Inv1
  <1>1. CASE SendInvalid(p, id, m) BY <1>1, FailInv1 DEF SendInvalid
  <1>2. CASE SendDeposit(p, id, m)
    <2> DEFINE s == mailboxes[id].slots
    <2>1. id \in Id /\ EmptySlots(id) # {} BY <1>2 DEF SendDeposit, SendValid
    <2>2. PICK n \in 0 .. Len(s) : /\ FullSlots(id) = 1 .. n
                                   /\ EmptySlots(id) = n + 1 .. Len(s)
                                   /\ n < Len(s) => Min(EmptySlots(id)) = n + 1
      BY <2>1, PrefixSlots
    <2>3. s \in Seq(Slot) /\ Len(s) \in Nat /\ DOMAIN s = 1 .. Len(s)
      BY <2>1 DEF TypeOK, Mailbox
    <2>4. n < Len(s) BY <2>1, <2>2, <2>3
    <2>5. PrefixOf(s, n) BY <2>2, <2>3 DEF PrefixOf, FullSlots
    <2>6. Stored(m) \in Slot BY DEF Stored, Slot
    <2> DEFINE t == [s EXCEPT ![n + 1] = Stored(m)]
               k == IF Stored(m) = NoMsg THEN n ELSE n + 1
               b == [mailboxes[id] EXCEPT !.slots = t]
    <2>7. t \in Seq(Slot) /\ Len(t) = Len(s) /\ PrefixOf(t, k)
      BY <2>3, <2>4, <2>5, <2>6, DepositPrefix
    <2>8. mailboxes' = [mailboxes EXCEPT ![id] = b]
      BY <1>2, <2>2, <2>4 DEF SendDeposit
    <2>9. b \in Mailbox /\ b.slots = t BY <2>1, <2>7 DEF TypeOK, Mailbox
    <2>10. k \in 0 .. Len(t) BY <2>3, <2>4, <2>7
    <2> HIDE DEF t, k, b
    <2>11. mailboxes' \in [Id -> Mailbox] /\ SlotsPrefix'
      BY <2>1, <2>7, <2>8, <2>9, <2>10, MailboxChange
    <2>12. Return(p, 0, NoMsg) /\ NoMsg \in Slot BY <1>2 DEF SendDeposit, Slot
    <2>13. UNCHANGED <<nextMailboxId, pstate, signal>> BY <1>2 DEF SendDeposit
    <2> QED BY SMTT(30), <2>11, <2>12, <2>13, ReturnOK DEF TypeOK
  <1>3. CASE SendWouldBlock(p, id, m) BY <1>3, FailInv1 DEF SendWouldBlock
  <1>4. CASE SendNoMemory(p, id, m) BY <1>4, FailInv1 DEF SendNoMemory
  <1>5. CASE SendBlock(p, id, m)
    <2> DEFINE list == mailboxes[id].blockedSendList
               b == [mailboxes[id] EXCEPT !.blockedSendList = Append(list, p)]
               c == [op |-> "send", mb |-> id, msg |-> m, size |-> 0]
    <2>1. id \in Id BY <1>5 DEF SendBlock, NoRoom, SendValid
    <2>2. b \in Mailbox /\ b.slots = mailboxes[id].slots
      <3>1. mailboxes[id] \in Mailbox /\ list \in Seq(Proc) BY <2>1 DEF TypeOK, Mailbox
      <3>2. Append(list, p) \in Seq(Proc) BY <3>1, AppendProperties
      <3> HIDE DEF list
      <3> QED BY <3>1, <3>2 DEF Mailbox
    <2>3. mailboxes' = [mailboxes EXCEPT ![id] = b] BY <1>5 DEF SendBlock
    <2>4. c \in Call /\ c.op = "send" /\ c.mb \in Id /\ c.msg \in Msg
      BY <2>1 DEF Call, Slot
    <2>5. Block(p, c) BY <1>5 DEF SendBlock
    <2> HIDE DEF b, c, list
    <2>6. mailboxes' \in [Id -> Mailbox] /\ SlotsPrefix'
      BY <2>1, <2>2, <2>3, ListChange
    <2> QED BY <2>4, <2>5, <2>6, BlockOK DEF TypeOK
  <1> QED BY <1>1, <1>2, <1>3, <1>4, <1>5 DEF SendTurn

(* A list of blocked processes without its first node. *)
LEMMA RestType ==
    ASSUME NEW list \in Seq(Proc)
    PROVE  Rest(list) \in Seq(Proc)
  BY DEF Rest

LEMMA WakeType ==
    ASSUME NEW list \in Seq(Proc), TypeOK
    PROVE  WakeFirst(list) \in [Proc -> {"ready", "blocked"}]
  BY DEF WakeFirst, TypeOK

LEMMA ReceiveTurnInv1 ==
    ASSUME NEW p \in Proc, NEW id \in Int, NEW size \in Int, NEW wait \in BOOLEAN,
           Inv1, ReceiveTurn(p, id, size, wait)
    PROVE  Inv1'
  <1> USE DEF Inv1
  <1>1. CASE ReceiveInvalid(p, id, size) BY <1>1, FailInv1 DEF ReceiveInvalid
  <1>2. CASE ReceiveDeliver(p, id, size)
    <2> DEFINE s == mailboxes[id].slots
               list == mailboxes[id].blockedSendList
    <2>1. id \in Id /\ FullSlots(id) # {} BY <1>2 DEF ReceiveDeliver, ReceiveValid
    <2>2. PICK n \in 0 .. Len(s) :
              /\ FullSlots(id) = 1 .. n
              /\ n > 0 => Min(FullSlots(id)) = 1 /\ RunEnd(id, 1) = n
      BY <2>1, PrefixSlots
    <2>3. /\ s \in Seq(Slot) /\ Len(s) \in Nat /\ DOMAIN s = 1 .. Len(s)
          /\ list \in Seq(Proc)
      BY <2>1 DEF TypeOK, Mailbox
    <2>4. n \in 1 .. Len(s) BY <2>1, <2>2, <2>3
    <2>5. PrefixOf(s, n) BY <2>2, <2>3 DEF PrefixOf, FullSlots
    <2> DEFINE t == Shifted(s, 1, n)
               b == [mailboxes[id] EXCEPT !.slots = t, !.blockedSendList = Rest(list)]
    <2>6. t \in Seq(Slot) /\ Len(t) = Len(s) /\ PrefixOf(t, n - 1)
      BY <2>3, <2>4, <2>5, ShiftPrefix
    <2>7. mailboxes' = [mailboxes EXCEPT ![id] = b]
      <3>1. mailboxes' = [mailboxes EXCEPT ![id] = WithoutFirst(id)]
        BY <1>2 DEF ReceiveDeliver
      <3>2. Min(FullSlots(id)) = 1 /\ RunEnd(id, 1) = n BY <2>2, <2>4
      <3>3. WithoutFirst(id) = [mailboxes[id] EXCEPT
                !.slots = Shifted(s, Min(FullSlots(id)), RunEnd(id, Min(FullSlots(id)))),
                !.blockedSendList = Rest(list)]
        BY DEF WithoutFirst
      <3>4. WithoutFirst(id) = b BY <3>2, <3>3
      <3> QED BY <3>1, <3>4
    <2>8. b \in Mailbox /\ b.slots = t
      <3>1. Rest(list) \in Seq(Proc) BY <2>3, RestType
      <3> QED BY <2>1, <2>6, <3>1 DEF TypeOK, Mailbox
    <2>9. n - 1 \in 0 .. Len(t) BY <2>3, <2>4, <2>6
    <2> HIDE DEF t, b
    <2>10. mailboxes' \in [Id -> Mailbox] /\ SlotsPrefix'
      BY <2>1, <2>6, <2>7, <2>8, <2>9, MailboxChange
    <2>11. Return(p, Size[s[1]], s[1])
      BY <1>2, <2>2, <2>4 DEF ReceiveDeliver, FirstMessage
    <2>12. s[1] \in Slot /\ s[1] # NoMsg
      <3>1. 1 \in 1 .. Len(s) BY <2>3, <2>4
      <3> QED BY <2>3, <2>4, <2>5, <3>1, ElementOfSeq DEF PrefixOf
    <2>13. Size[s[1]] \in Int BY <2>12, SizeAssumption DEF Slot
    <2>14. pstate' \in [Proc -> {"ready", "blocked"}]
      BY <1>2, <2>3, WakeType DEF ReceiveDeliver
    <2> QED BY <1>2, <2>10, <2>11, <2>12, <2>13, <2>14, ReturnOK
            DEF ReceiveDeliver, TypeOK
  <1>3. CASE ReceiveWouldBlock(p, id, size) BY <1>3, FailInv1 DEF ReceiveWouldBlock
  <1>4. CASE ReceiveNoMemory(p, id, size) BY <1>4, FailInv1 DEF ReceiveNoMemory
  <1>5. CASE ReceiveBlock(p, id, size)
    <2> DEFINE list == mailboxes[id].blockedReceiveList
               b == [mailboxes[id] EXCEPT !.blockedReceiveList = Append(list, p)]
               c == [op |-> "receive", mb |-> id, msg |-> NoMsg, size |-> size]
    <2>1. id \in Id BY <1>5 DEF ReceiveBlock, NothingThere, ReceiveValid
    <2>2. b \in Mailbox /\ b.slots = mailboxes[id].slots
      <3>1. mailboxes[id] \in Mailbox /\ list \in Seq(Proc) BY <2>1 DEF TypeOK, Mailbox
      <3>2. Append(list, p) \in Seq(Proc) BY <3>1, AppendProperties
      <3> HIDE DEF list
      <3> QED BY <3>1, <3>2 DEF Mailbox
    <2>3. mailboxes' = [mailboxes EXCEPT ![id] = b] BY <1>5 DEF ReceiveBlock
    <2>4. c \in Call /\ c.op = "receive" /\ c.mb \in Id BY <2>1 DEF Call, Slot
    <2>5. Block(p, c) BY <1>5 DEF ReceiveBlock
    <2> HIDE DEF b, c, list
    <2>6. mailboxes' \in [Id -> Mailbox] /\ SlotsPrefix'
      BY <2>1, <2>2, <2>3, ListChange
    <2> QED BY <2>4, <2>5, <2>6, BlockOK DEF TypeOK
  <1> QED BY <1>1, <1>2, <1>3, <1>4, <1>5 DEF ReceiveTurn

LEMMA FreeInv1 ==
    ASSUME NEW p \in Proc, Inv1, Free(p)
    PROVE  Inv1'
  <1> USE DEF Inv1
  <1>1. PICK id \in MboxArg : FreeInvalid(p, id) \/ FreeRelease(p, id) BY DEF Free
  <1>2. CASE FreeInvalid(p, id) BY <1>2, FailInv1 DEF FreeInvalid
  <1>3. CASE FreeRelease(p, id)
    <2> DEFINE b == [mailboxes[id] EXCEPT !.status = "released"]
    <2>1. id \in Id BY <1>3 DEF FreeRelease
    <2>2. b \in Mailbox /\ b.slots = mailboxes[id].slots
      BY <2>1 DEF TypeOK, Mailbox
    <2>3. mailboxes' = [mailboxes EXCEPT ![id] = b] BY <1>3 DEF FreeRelease
    <2> HIDE DEF b
    <2>4. mailboxes' \in [Id -> Mailbox] /\ SlotsPrefix'
      BY <2>1, <2>2, <2>3, ListChange
    <2>5. call' \in [Proc -> Call] /\ CallOK'
      BY <1>3, <2>1 DEF FreeRelease, TypeOK, CallOK, Call, Slot, Id
    <2>6. result' \in [Proc -> [code : Int, msg : Slot]]
      BY <1>3 DEF FreeRelease, TypeOK, NoResult, NoCode, Slot
    <2> QED BY <1>3, <2>4, <2>5, <2>6 DEF FreeRelease, TypeOK
  <1> QED BY <1>1, <1>2, <1>3

LEMMA FreeSenderInv1 ==
    ASSUME NEW p \in Proc, Inv1, FreeSender(p)
    PROVE  Inv1'
  <1> USE DEF Inv1
  <1> DEFINE id == call[p].mb
             list == mailboxes[id].blockedSendList
             b == [mailboxes[id] EXCEPT !.blockedSendList = Rest(list)]
  <1>1. id \in Id BY DEF FreeSender, Running, CallOK
  <1>2. mailboxes[id] \in Mailbox /\ list \in Seq(Proc) BY <1>1 DEF TypeOK, Mailbox
  <1>3. Rest(list) \in Seq(Proc) BY <1>2, RestType
  <1>4. mailboxes' = [mailboxes EXCEPT ![id] = b] BY DEF FreeSender
  <1>5. pstate' = WakeFirst(list) BY DEF FreeSender
  <1>6. signal' \in [Proc -> BOOLEAN] BY DEF FreeSender, TypeOK
  <1>7. UNCHANGED <<nextMailboxId, call, result>> BY DEF FreeSender
  <1> HIDE DEF list
  <1>8. b \in Mailbox /\ b.slots = mailboxes[id].slots BY <1>2, <1>3 DEF Mailbox
  <1>9. pstate' \in [Proc -> {"ready", "blocked"}] BY <1>2, <1>5, WakeType
  <1> HIDE DEF b, id
  <1>10. mailboxes' \in [Id -> Mailbox] /\ SlotsPrefix' BY <1>1, <1>4, <1>8, ListChange
  <1>11. CallOK' BY <1>7 DEF CallOK, Id
  <1> QED BY <1>6, <1>7, <1>9, <1>10, <1>11 DEF TypeOK

LEMMA FreeReceiverInv1 ==
    ASSUME NEW p \in Proc, Inv1, FreeReceiver(p)
    PROVE  Inv1'
  <1> USE DEF Inv1
  <1> DEFINE id == call[p].mb
             list == mailboxes[id].blockedReceiveList
             b == [mailboxes[id] EXCEPT !.blockedReceiveList = Rest(list)]
  <1>1. call[p].op \in {"free_send", "free_receive"}
    BY DEF FreeReceiver, SendersFreed, Running
  <1>2. id \in Id BY <1>1 DEF CallOK
  <1>3. mailboxes[id] \in Mailbox /\ list \in Seq(Proc) BY <1>2 DEF TypeOK, Mailbox
  <1>4. Rest(list) \in Seq(Proc) BY <1>3, RestType
  <1>5. mailboxes' = [mailboxes EXCEPT ![id] = b] BY DEF FreeReceiver
  <1>6. pstate' = WakeFirst(list) BY DEF FreeReceiver
  <1>7. call' = [call EXCEPT ![p].op = "free_receive"] BY DEF FreeReceiver
  <1>8. UNCHANGED <<nextMailboxId, signal, result>> BY DEF FreeReceiver
  <1> HIDE DEF list
  <1>9. b \in Mailbox /\ b.slots = mailboxes[id].slots BY <1>3, <1>4 DEF Mailbox
  <1>10. pstate' \in [Proc -> {"ready", "blocked"}] BY <1>3, <1>6, WakeType
  <1> HIDE DEF b
  <1>11. mailboxes' \in [Id -> Mailbox] /\ SlotsPrefix' BY <1>2, <1>5, <1>9, ListChange
  <1>12. call' \in [Proc -> Call] BY SMTT(30), <1>7 DEF TypeOK, Call
  <1>13. CallOK' BY <1>2, <1>7 DEF TypeOK, Call, CallOK, Id
  <1> QED BY <1>8, <1>10, <1>11, <1>12, <1>13 DEF TypeOK

LEMMA StepInv1 == Inv1 /\ [Next]_vars => Inv1'
  <1> SUFFICES ASSUME Inv1, [Next]_vars PROVE Inv1' OBVIOUS
  <1>1. CASE UNCHANGED vars
    BY <1>1 DEF vars, Inv1, TypeOK, CallOK, SlotsPrefix, Id
  <1>2. ASSUME NEW p \in Proc, Create(p) PROVE Inv1' BY <1>2, CreateInv1
  <1>3. ASSUME NEW p \in Proc, Send(p) PROVE Inv1'
    <2>1. PICK id \in MboxArg, m \in Msg, wait \in BOOLEAN : SendTurn(p, id, m, wait)
      BY <1>3 DEF Send
    <2>2. id \in Int BY TableAssumption DEF MboxArg
    <2> QED BY <2>1, <2>2, SendTurnInv1
  <1>4. ASSUME NEW p \in Proc, Receive(p) PROVE Inv1'
    <2>1. PICK id \in MboxArg, size \in BufSizes, wait \in BOOLEAN :
              ReceiveTurn(p, id, size, wait)
      BY <1>4 DEF Receive
    <2>2. id \in Int /\ size \in Int BY TableAssumption, ArgumentAssumption DEF MboxArg
    <2> QED BY <2>1, <2>2, ReceiveTurnInv1
  <1>5. ASSUME NEW p \in Proc, Free(p) PROVE Inv1' BY <1>5, FreeInv1
  <1>6. ASSUME NEW p \in Proc, SendInterrupted(p) \/ ReceiveInterrupted(p) PROVE Inv1'
    <2>1. Fail(p, -5) BY <1>6 DEF SendInterrupted, ReceiveInterrupted
    <2> QED BY <2>1, FailInv1
  <1>7. ASSUME NEW p \in Proc, SendRetry(p) PROVE Inv1'
    <2>1. call[p].mb \in Int /\ call[p].msg \in Msg
      BY <1>7 DEF SendRetry, Running, Inv1, TypeOK, Call, CallOK
    <2>2. SendTurn(p, call[p].mb, call[p].msg, TRUE) BY <1>7 DEF SendRetry
    <2> QED BY <2>1, <2>2, SendTurnInv1
  <1>8. ASSUME NEW p \in Proc, ReceiveRetry(p) PROVE Inv1'
    <2>1. call[p].mb \in Int /\ call[p].size \in Int BY DEF Inv1, TypeOK, Call
    <2>2. ReceiveTurn(p, call[p].mb, call[p].size, TRUE) BY <1>8 DEF ReceiveRetry
    <2> QED BY <2>1, <2>2, ReceiveTurnInv1
  <1>9. ASSUME NEW p \in Proc, FreeSender(p) PROVE Inv1' BY <1>9, FreeSenderInv1
  <1>10. ASSUME NEW p \in Proc, FreeReceiver(p) PROVE Inv1' BY <1>10, FreeReceiverInv1
  <1>11. ASSUME NEW p \in Proc, FreeReturn(p) PROVE Inv1'
    <2>1. Return(p, 0, NoMsg) /\ UNCHANGED <<mailboxes, nextMailboxId, pstate, signal>>
      BY <1>11 DEF FreeReturn
    <2>2. Fail(p, 0) BY <2>1 DEF Fail
    <2> QED BY <2>2, FailInv1
  <1>12. ASSUME NEW p \in Proc, Signal(p) PROVE Inv1'
    <2>1. UNCHANGED <<mailboxes, nextMailboxId, call, pstate, result>> BY <1>12 DEF Signal
    <2>2. signal' \in [Proc -> BOOLEAN] BY <1>12 DEF Signal, Inv1, TypeOK
    <2> QED BY <2>1, <2>2 DEF Inv1, TypeOK, CallOK, SlotsPrefix, Id
  <1> QED BY <1>1, <1>2, <1>3, <1>4, <1>5, <1>6, <1>7, <1>8, <1>9, <1>10, <1>11, <1>12
          DEF Next, Start, Continue

(* The variables keep to their types, and pending calls to the table. *)
THEOREM TypeCorrect == Spec => []TypeOK
  <1>1. Init => Inv1 BY InitInv1
  <1>2. Inv1 /\ [Next]_vars => Inv1' BY StepInv1
  <1>3. Inv1 => TypeOK BY DEF Inv1
  <1> QED BY <1>1, <1>2, <1>3, PTL DEF Spec

(* The full slots of every mailbox come first, in every reachable state:   *)
(* for any number of processes, mailboxes and slots, any message sizes,    *)
(* with malloc failing or not and signals or not.                          *)
THEOREM SlotsInOrder == Spec => []SlotsPrefix
  <1>1. Init => Inv1 BY InitInv1
  <1>2. Inv1 /\ [Next]_vars => Inv1' BY StepInv1
  <1>3. Inv1 => SlotsPrefix BY DEF Inv1
  <1> QED BY <1>1, <1>2, <1>3, PTL DEF Spec

-----------------------------------------------------------------------------
(* The waiting lists and the blocked processes agree.                      *)

Waiters == WaitersBlocked /\ BlockedListed

Inv2 == Inv1 /\ Waiters

Side == {"send", "receive"}

LEMMA ListType ==
    ASSUME TypeOK, NEW op \in Side, NEW id \in Id
    PROVE  ListOf(op, id) \in Seq(Proc)
  BY DEF TypeOK, Mailbox, ListOf

(* A step in which no list and no process's state changes, and only a      *)
(* ready process changes its call.                                         *)
LEMMA QuietStep ==
    ASSUME Inv2, pstate' = pstate,
           \A op \in Side, id \in Id : ListOf(op, id)' = ListOf(op, id),
           \A q \in Proc : pstate[q] = "blocked" => call'[q] = call[q]
    PROVE  Waiters'
  <1> USE DEF Inv2, Waiters, Side
  <1>1. WaitersBlocked'
    <2> SUFFICES ASSUME NEW op \in Side, NEW id \in Id, NEW i \in 1 .. Len(ListOf(op, id))
                 PROVE  LET q == ListOf(op, id)[i]
                        IN  /\ pstate[q] = "blocked" /\ call'[q].op = op /\ call'[q].mb = id
                            /\ \A j \in 1 .. Len(ListOf(op, id)) :
                                   ListOf(op, id)[j] = q => j = i
      BY DEF WaitersBlocked, Id
    <2>1. ListOf(op, id)[i] \in Proc BY ListType, ElementOfSeq DEF Inv1
    <2> QED BY <2>1 DEF WaitersBlocked
  <1>2. BlockedListed'
    <2> SUFFICES ASSUME NEW q \in Proc, pstate[q] = "blocked"
                 PROVE  \E op \in Side, id \in Id :
                            /\ call'[q].op = op
                            /\ call'[q].mb = id
                            /\ \E i \in 1 .. Len(ListOf(op, id)') : ListOf(op, id)'[i] = q
      BY DEF BlockedListed, Id
    <2>1. call'[q] = call[q] OBVIOUS
    <2> QED BY <2>1 DEF BlockedListed
  <1> QED BY <1>1, <1>2

(* A ready process p goes to sleep at the end of a list.                   *)
LEMMA BlockStep ==
    ASSUME Inv2, NEW p \in Proc, pstate[p] = "ready",
           NEW op0 \in Side, NEW id0 \in Id, NEW c \in Call, c.op = op0, c.mb = id0,
           call' = [call EXCEPT ![p] = c],
           pstate' = [pstate EXCEPT ![p] = "blocked"],
           \A op \in Side, id \in Id :
               ListOf(op, id)' = IF op = op0 /\ id = id0 THEN Append(ListOf(op, id), p)
                                                         ELSE ListOf(op, id)
    PROVE  Waiters'
  <1> USE DEF Inv2, Waiters, Side
  <1>1. \A q \in Proc : /\ q = p => call'[q] = c /\ pstate'[q] = "blocked"
                        /\ q # p => call'[q] = call[q] /\ pstate'[q] = pstate[q]
    BY DEF Inv1, TypeOK
  <1>2. ASSUME NEW op \in Side, NEW id \in Id
        PROVE  LET l == ListOf(op, id)
                   t == ListOf(op, id)'
               IN  /\ l \in Seq(Proc) /\ Len(l) \in Nat
                   /\ \A i \in 1 .. Len(l) : l[i] \in Proc /\ l[i] # p
                   /\ \A i \in 1 .. Len(l) : t[i] = l[i]
                   /\ ~(op = op0 /\ id = id0) => Len(t) = Len(l)
                   /\ (op = op0 /\ id = id0) =>
                          Len(t) = Len(l) + 1 /\ t[Len(l) + 1] = p
    <2> DEFINE l == ListOf(op, id)
    <2>1. l \in Seq(Proc) /\ Len(l) \in Nat BY ListType DEF Inv1
    <2>2. \A i \in 1 .. Len(l) : l[i] \in Proc BY <2>1, ElementOfSeq
    <2>3. \A i \in 1 .. Len(l) : pstate[l[i]] = "blocked" BY DEF WaitersBlocked
    <2>4. ListOf(op, id)' = IF op = op0 /\ id = id0 THEN Append(l, p) ELSE l OBVIOUS
    <2> HIDE DEF l
    <2>5. /\ Len(Append(l, p)) = Len(l) + 1
          /\ \A i \in 1 .. Len(l) : Append(l, p)[i] = l[i]
          /\ Append(l, p)[Len(l) + 1] = p
      BY <2>1, AppendProperties
    <2> QED BY <2>1, <2>2, <2>3, <2>4, <2>5 DEF l
  <1>3. WaitersBlocked'
    <2> SUFFICES ASSUME NEW op \in Side, NEW id \in Id,
                        NEW i \in 1 .. Len(ListOf(op, id)')
                 PROVE  LET q == ListOf(op, id)'[i]
                        IN  /\ pstate'[q] = "blocked" /\ call'[q].op = op /\ call'[q].mb = id
                            /\ \A j \in 1 .. Len(ListOf(op, id)') :
                                   ListOf(op, id)'[j] = q => j = i
      BY DEF WaitersBlocked, Id
    <2> DEFINE l == ListOf(op, id)
               t == ListOf(op, id)'
    <2>1. CASE i \in 1 .. Len(l)
      <3>1. /\ l[i] \in Proc /\ l[i] # p /\ t[i] = l[i]
        BY <1>2, <2>1
      <3>2. /\ pstate[l[i]] = "blocked" /\ call[l[i]].op = op /\ call[l[i]].mb = id
            /\ \A j \in 1 .. Len(l) : l[j] = l[i] => j = i
        BY <2>1 DEF WaitersBlocked
      <3>3. /\ Len(l) \in Nat
            /\ Len(t) = Len(l) \/ (Len(t) = Len(l) + 1 /\ t[Len(l) + 1] = p)
        <4>1. Len(l) \in Nat BY <1>2
        <4>2. CASE op = op0 /\ id = id0
          <5>1. Len(t) = Len(l) + 1 /\ t[Len(l) + 1] = p BY <1>2, <4>2
          <5> QED BY <4>1, <5>1
        <4>3. CASE ~(op = op0 /\ id = id0)
          <5>1. Len(t) = Len(l) BY <1>2, <4>3
          <5> QED BY <4>1, <5>1
        <4> QED BY <4>2, <4>3
      <3>4. \A j \in 1 .. Len(l) : t[j] = l[j] BY <1>2
      <3> HIDE DEF l, t
      <3>5. \A j \in 1 .. Len(t) : t[j] = t[i] => j = i BY <3>1, <3>2, <3>3, <3>4
      <3>6. pstate'[t[i]] = "blocked" /\ call'[t[i]].op = op /\ call'[t[i]].mb = id
        BY <1>1, <3>1, <3>2
      <3> QED BY <3>5, <3>6 DEF t
    <2>2. CASE ~(i \in 1 .. Len(l))
      <3>1. op = op0 /\ id = id0 /\ i = Len(l) + 1 /\ t[i] = p BY <1>2, <2>2
      <3>2. \A j \in 1 .. Len(t) : t[j] = p => j = i BY <1>2, <3>1
      <3>3. pstate'[p] = "blocked" /\ call'[p].op = op /\ call'[p].mb = id
        BY <1>1, <3>1
      <3> QED BY <3>1, <3>2, <3>3
    <2> QED BY <2>1, <2>2
  <1>4. BlockedListed'
    <2> SUFFICES ASSUME NEW q \in Proc, pstate'[q] = "blocked"
                 PROVE  \E op \in Side, id \in Id :
                            /\ call'[q].op = op
                            /\ call'[q].mb = id
                            /\ \E i \in 1 .. Len(ListOf(op, id)') : ListOf(op, id)'[i] = q
      BY DEF BlockedListed, Id
    <2>1. CASE q = p
      <3>1. LET t == ListOf(op0, id0)'
            IN  Len(t) \in Nat /\ t[Len(t)] = p /\ Len(t) \in 1 .. Len(t)
        BY <1>2
      <3>2. call'[q].op = op0 /\ call'[q].mb = id0 BY <1>1, <2>1
      <3> QED BY <2>1, <3>1, <3>2
    <2>2. CASE q # p
      <3>1. pstate[q] = "blocked" /\ call'[q] = call[q] BY <1>1, <2>2
      <3>2. PICK op \in Side, id \in Id :
                /\ call[q].op = op
                /\ call[q].mb = id
                /\ \E i \in 1 .. Len(ListOf(op, id)) : ListOf(op, id)[i] = q
        BY <3>1 DEF BlockedListed
      <3>3. \E i \in 1 .. Len(ListOf(op, id)') : ListOf(op, id)'[i] = q
        BY <1>2, <3>2
      <3> QED BY <3>1, <3>2, <3>3
    <2> QED BY <2>1, <2>2
  <1> QED BY <1>3, <1>4

(* The first process of a list is taken off it and made ready, and nobody  *)
(* who is blocked changes his call.                                        *)
LEMMA WakeStep ==
    ASSUME Inv2, NEW op0 \in Side, NEW id0 \in Id,
           pstate' = WakeFirst(ListOf(op0, id0)),
           \A q \in Proc : pstate[q] = "blocked" => call'[q] = call[q],
           \A op \in Side, id \in Id :
               ListOf(op, id)' = IF op = op0 /\ id = id0 THEN Rest(ListOf(op, id))
                                                         ELSE ListOf(op, id)
    PROVE  Waiters'
  <1> USE DEF Inv2, Waiters, Side
  <1> DEFINE l0 == ListOf(op0, id0)
  <1>1. l0 \in Seq(Proc) /\ Len(l0) \in Nat BY ListType DEF Inv1
  <1>2. CASE l0 = <<>>
    <2>1. pstate' = pstate BY <1>2 DEF WakeFirst
    <2>2. \A op \in Side, id \in Id : ListOf(op, id)' = ListOf(op, id)
      BY <1>2 DEF Rest
    <2> QED BY <2>1, <2>2, QuietStep
  <1>3. CASE l0 # <<>>
    <2> DEFINE h == Head(l0)
    <2>1. /\ Len(l0) >= 1 /\ h = l0[1] /\ h \in Proc
          /\ Len(Tail(l0)) = Len(l0) - 1
          /\ \A i \in 1 .. Len(Tail(l0)) : Tail(l0)[i] = l0[i + 1]
      BY <1>1, <1>3, HeadTailProperties
    <2>2. \A q \in Proc : pstate'[q] = IF q = h THEN "ready" ELSE pstate[q]
      BY <1>3, <2>1 DEF WakeFirst, Inv1, TypeOK
    <2>3. 1 \in 1 .. Len(l0) BY <1>1, <2>1
    <2>4. /\ pstate[h] = "blocked" /\ call[h].op = op0 /\ call[h].mb = id0
          /\ \A j \in 1 .. Len(l0) : l0[j] = h => j = 1
      BY <2>1, <2>3 DEF WaitersBlocked
    <2>5. ListOf(op0, id0)' = Tail(l0) BY <1>3 DEF Rest
    <2>6. \A op \in Side, id \in Id :
              ~(op = op0 /\ id = id0) => ListOf(op, id)' = ListOf(op, id)
      OBVIOUS
    <2>7. WaitersBlocked'
      <3> SUFFICES ASSUME NEW op \in Side, NEW id \in Id,
                          NEW i \in 1 .. Len(ListOf(op, id)')
                   PROVE  LET q == ListOf(op, id)'[i]
                          IN  /\ pstate'[q] = "blocked" /\ call'[q].op = op /\ call'[q].mb = id
                              /\ \A j \in 1 .. Len(ListOf(op, id)') :
                                     ListOf(op, id)'[j] = q => j = i
        BY DEF WaitersBlocked, Id
      <3>1. CASE op = op0 /\ id = id0
        <4> DEFINE q == l0[i + 1]
        <4>1. ListOf(op, id)' = Tail(l0) BY <2>5, <3>1
        <4>2. i \in 1 .. Len(Tail(l0)) /\ i + 1 \in 1 .. Len(l0) /\ i + 1 # 1
          BY <1>1, <2>1, <4>1
        <4>3. ListOf(op, id)'[i] = q BY <2>1, <4>1, <4>2
        <4>4. /\ pstate[q] = "blocked" /\ call[q].op = op /\ call[q].mb = id
              /\ \A j \in 1 .. Len(l0) : l0[j] = q => j = i + 1
          BY <3>1, <4>2 DEF WaitersBlocked
        <4>5. q \in Proc BY <1>1, <4>2, ElementOfSeq
        <4> HIDE DEF q, l0
        <4>6. q # h BY <2>1, <2>3, <2>4, <4>2, <4>4
        <4>7. pstate'[q] = "blocked" /\ call'[q] = call[q]
          BY <2>2, <4>4, <4>5, <4>6
        <4>8. \A j \in 1 .. Len(Tail(l0)) : Tail(l0)[j] = q => j = i
          BY <1>1, <2>1, <4>4
        <4> QED BY <4>1, <4>3, <4>4, <4>7, <4>8
      <3>2. CASE ~(op = op0 /\ id = id0)
        <4> DEFINE l == ListOf(op, id)
                   q == l[i]
        <4>1. ListOf(op, id)' = l BY <2>6, <3>2
        <4>2. i \in 1 .. Len(l) BY <4>1
        <4>3. /\ pstate[q] = "blocked" /\ call[q].op = op /\ call[q].mb = id
              /\ \A j \in 1 .. Len(l) : l[j] = q => j = i
          BY <4>2 DEF WaitersBlocked
        <4>4. q \in Proc BY <4>2, ListType, ElementOfSeq DEF Inv1
        <4>5. q # h BY <2>4, <3>2, <4>3
        <4> HIDE DEF q, l
        <4>6. pstate'[q] = "blocked" /\ call'[q] = call[q]
          BY <2>2, <4>3, <4>4, <4>5
        <4> QED BY <4>1, <4>3, <4>6 DEF q
      <3> QED BY <3>1, <3>2
    <2>8. BlockedListed'
      <3> SUFFICES ASSUME NEW q \in Proc, pstate'[q] = "blocked"
                   PROVE  \E op \in Side, id \in Id :
                              /\ call'[q].op = op
                              /\ call'[q].mb = id
                              /\ \E i \in 1 .. Len(ListOf(op, id)') : ListOf(op, id)'[i] = q
        BY DEF BlockedListed, Id
      <3>1. q # h /\ pstate[q] = "blocked" /\ call'[q] = call[q] BY <2>2
      <3>2. PICK op \in Side, id \in Id :
                /\ call[q].op = op
                /\ call[q].mb = id
                /\ \E i \in 1 .. Len(ListOf(op, id)) : ListOf(op, id)[i] = q
        BY <3>1 DEF BlockedListed
      <3>3. \E i \in 1 .. Len(ListOf(op, id)') : ListOf(op, id)'[i] = q
        <4>1. CASE op = op0 /\ id = id0
          <5>1. PICK i \in 1 .. Len(l0) : l0[i] = q BY <3>2, <4>1
          <5>2. i # 1 BY <2>1, <3>1, <5>1
          <5> HIDE DEF l0
          <5>3. i - 1 \in 1 .. Len(Tail(l0)) /\ Tail(l0)[i - 1] = q
            BY <1>1, <2>1, <5>1, <5>2
          <5> QED BY <2>5, <4>1, <5>3
        <4>2. CASE ~(op = op0 /\ id = id0) BY <2>6, <3>2, <4>2
        <4> QED BY <4>1, <4>2
      <3> QED BY <3>1, <3>2, <3>3
    <2> QED BY <2>7, <2>8
  <1> QED BY <1>2, <1>3

LEMMA InitWaiters == Init => Waiters
  <1> SUFFICES ASSUME Init PROVE Waiters OBVIOUS
  <1>1. /\ EmptyMailbox.blockedSendList = <<>>
        /\ EmptyMailbox.blockedReceiveList = <<>>
    BY DEF EmptyMailbox
  <1>2. \A id \in Id : /\ DeviceMailbox(id).blockedSendList = <<>>
                       /\ DeviceMailbox(id).blockedReceiveList = <<>>
    BY DEF DeviceMailbox, Initialised, EmptyMailbox
  <1>3. \A op \in Side, id \in Id : ListOf(op, id) = <<>>
    BY <1>1, <1>2 DEF Init, ListOf
  <1>4. WaitersBlocked BY <1>3 DEF WaitersBlocked, Side
  <1>5. BlockedListed BY DEF Init, BlockedListed
  <1> QED BY <1>4, <1>5 DEF Waiters

(* p, which is about to take a step of a call, is not asleep. *)
LEMMA ActiveReady ==
    ASSUME Inv2, NEW p \in Proc, call[p].op \notin Side
    PROVE  pstate[p] = "ready"
  BY DEF Inv2, Inv1, TypeOK, Waiters, BlockedListed, Side

LEMMA IdleReady ==
    ASSUME Inv2, NEW p \in Proc, Idle(p)
    PROVE  pstate[p] = "ready"
  BY ActiveReady DEF Idle, NoCall, Side

LEMMA FailWaiters ==
    ASSUME Inv2, NEW p \in Proc, pstate[p] = "ready", NEW code, Fail(p, code)
    PROVE  Waiters'
  <1>1. \A op \in Side, id \in Id : ListOf(op, id)' = ListOf(op, id)
    BY DEF Fail, ListOf
  <1>2. \A q \in Proc : pstate[q] = "blocked" => call'[q] = call[q]
    BY DEF Fail, Return, Inv2, Inv1, TypeOK
  <1> QED BY <1>1, <1>2, QuietStep DEF Fail

(* No list changes when one mailbox changes and its lists do not. *)
LEMMA SameLists ==
    ASSUME TypeOK, NEW id \in Id, NEW b,
           b.blockedSendList = mailboxes[id].blockedSendList,
           b.blockedReceiveList = mailboxes[id].blockedReceiveList,
           mailboxes' = [mailboxes EXCEPT ![id] = b]
    PROVE  \A op \in Side, j \in Id : ListOf(op, j)' = ListOf(op, j)
  BY DEF TypeOK, ListOf

(* mailbox_create leaves the lists of the entry it takes alone. *)
LEMMA MakeWaiters ==
    ASSUME Inv2, NEW p \in Proc, pstate[p] = "ready",
           NEW slots \in Int, NEW slotSize \in Int,
           CreateMailbox(p, slots, slotSize) \/ CreateNoMemory(p, slots, slotSize)
    PROVE  Waiters'
  <1> USE DEF Inv2, Inv1
  <1>1. ASSUME NEW n, nextMailboxId < MaxMbox,
               mailboxes' = [mailboxes EXCEPT ![nextMailboxId] =
                                 Initialised(@, slots, slotSize, n)],
               NEW code, Return(p, code, NoMsg), UNCHANGED <<pstate, signal>>
        PROVE  Waiters'
    <2> DEFINE b == Initialised(mailboxes[nextMailboxId], slots, slotSize, n)
    <2>1. nextMailboxId \in Id BY <1>1, TableAssumption DEF TypeOK, Id
    <2>2. /\ b.blockedSendList = mailboxes[nextMailboxId].blockedSendList
          /\ b.blockedReceiveList = mailboxes[nextMailboxId].blockedReceiveList
      BY <2>1 DEF Initialised, TypeOK, Mailbox
    <2>3. mailboxes' = [mailboxes EXCEPT ![nextMailboxId] = b] BY <1>1
    <2> HIDE DEF b
    <2>4. \A op \in Side, id \in Id : ListOf(op, id)' = ListOf(op, id)
      BY <2>1, <2>2, <2>3, SameLists
    <2>5. \A q \in Proc : pstate[q] = "blocked" => call'[q] = call[q]
      BY <1>1 DEF Return, TypeOK
    <2> QED BY <1>1, <2>4, <2>5, QuietStep
  <1>2. CASE CreateMailbox(p, slots, slotSize) BY <1>1, <1>2 DEF CreateMailbox
  <1>3. CASE CreateNoMemory(p, slots, slotSize) BY <1>1, <1>3 DEF CreateNoMemory
  <1> QED BY <1>2, <1>3

LEMMA CreateWaiters ==
    ASSUME Inv2, NEW p \in Proc, Create(p)
    PROVE  Waiters'
  <1>1. pstate[p] = "ready" BY IdleReady DEF Create
  <1>2. CASE CreateTableFull(p) BY <1>1, <1>2, FailWaiters DEF CreateTableFull
  <1>3. ASSUME NEW slots \in SlotCounts, NEW slotSize \in SlotSizes,
               CreateMailbox(p, slots, slotSize) \/ CreateNoMemory(p, slots, slotSize)
        PROVE  Waiters'
    BY <1>1, <1>3, MakeWaiters, ArgumentAssumption
  <1> QED BY <1>2, <1>3 DEF Create

LEMMA SendTurnWaiters ==
    ASSUME Inv2, NEW p \in Proc, pstate[p] = "ready",
           NEW id \in Int, NEW m \in Msg, NEW wait \in BOOLEAN, SendTurn(p, id, m, wait)
    PROVE  Waiters'
  <1> USE DEF Inv2, Inv1
  <1>1. CASE SendInvalid(p, id, m) BY <1>1, FailWaiters DEF SendInvalid
  <1>2. CASE SendDeposit(p, id, m)
    <2>1. id \in Id BY <1>2 DEF SendDeposit, SendValid
    <2> DEFINE b == [mailboxes[id] EXCEPT !.slots[Min(EmptySlots(id))] = Stored(m)]
    <2>2. mailboxes' = [mailboxes EXCEPT ![id] = b] BY <1>2 DEF SendDeposit
    <2>3. /\ b.blockedSendList = mailboxes[id].blockedSendList
          /\ b.blockedReceiveList = mailboxes[id].blockedReceiveList
      BY <2>1 DEF TypeOK, Mailbox
    <2> HIDE DEF b
    <2>4. \A op \in Side, j \in Id : ListOf(op, j)' = ListOf(op, j)
      BY <2>1, <2>2, <2>3, SameLists
    <2>5. Return(p, 0, NoMsg) /\ pstate' = pstate BY <1>2 DEF SendDeposit
    <2>6. \A q \in Proc : pstate[q] = "blocked" => call'[q] = call[q]
      BY <2>5 DEF Return, TypeOK
    <2> QED BY <2>4, <2>5, <2>6, QuietStep
  <1>3. CASE SendWouldBlock(p, id, m) BY <1>3, FailWaiters DEF SendWouldBlock
  <1>4. CASE SendNoMemory(p, id, m) BY <1>4, FailWaiters DEF SendNoMemory
  <1>5. CASE SendBlock(p, id, m)
    <2> DEFINE c == [op |-> "send", mb |-> id, msg |-> m, size |-> 0]
    <2>1. id \in Id BY <1>5 DEF SendBlock, NoRoom, SendValid
    <2>2. c \in Call /\ c.op = "send" /\ c.mb = id BY DEF Call, Slot
    <2>3. Block(p, c) BY <1>5 DEF SendBlock
    <2>4. ASSUME NEW op \in Side, NEW j \in Id
          PROVE  ListOf(op, j)' = IF op = "send" /\ j = id THEN Append(ListOf(op, j), p)
                                                           ELSE ListOf(op, j)
      BY <1>5, <2>1 DEF SendBlock, TypeOK, Mailbox, ListOf, Side
    <2> HIDE DEF c
    <2>5. "send" \in Side BY DEF Side
    <2> QED BY <2>1, <2>2, <2>3, <2>4, <2>5, BlockStep DEF Block
  <1> QED BY <1>1, <1>2, <1>3, <1>4, <1>5 DEF SendTurn

LEMMA ReceiveTurnWaiters ==
    ASSUME Inv2, NEW p \in Proc, pstate[p] = "ready",
           NEW id \in Int, NEW size \in Int, NEW wait \in BOOLEAN,
           ReceiveTurn(p, id, size, wait)
    PROVE  Waiters'
  <1> USE DEF Inv2, Inv1
  <1>1. CASE ReceiveInvalid(p, id, size) BY <1>1, FailWaiters DEF ReceiveInvalid
  <1>2. CASE ReceiveDeliver(p, id, size)
    <2>1. id \in Id BY <1>2 DEF ReceiveDeliver, ReceiveValid
    <2>2. mailboxes' = [mailboxes EXCEPT ![id] = WithoutFirst(id)]
      BY <1>2 DEF ReceiveDeliver
    <2>3. /\ WithoutFirst(id).blockedSendList = Rest(mailboxes[id].blockedSendList)
          /\ WithoutFirst(id).blockedReceiveList = mailboxes[id].blockedReceiveList
      BY <2>1 DEF WithoutFirst, TypeOK, Mailbox
    <2>4. ASSUME NEW op \in Side, NEW j \in Id
          PROVE  ListOf(op, j)' = IF op = "send" /\ j = id THEN Rest(ListOf(op, j))
                                                           ELSE ListOf(op, j)
      BY <2>1, <2>2, <2>3 DEF TypeOK, ListOf, Side
    <2>5. pstate' = WakeFirst(ListOf("send", id)) BY <1>2 DEF ReceiveDeliver, ListOf
    <2>6. \A q \in Proc : pstate[q] = "blocked" => call'[q] = call[q]
      BY <1>2 DEF ReceiveDeliver, Return, TypeOK
    <2>7. "send" \in Side BY DEF Side
    <2> QED BY <2>1, <2>4, <2>5, <2>6, <2>7, WakeStep
  <1>3. CASE ReceiveWouldBlock(p, id, size) BY <1>3, FailWaiters DEF ReceiveWouldBlock
  <1>4. CASE ReceiveNoMemory(p, id, size) BY <1>4, FailWaiters DEF ReceiveNoMemory
  <1>5. CASE ReceiveBlock(p, id, size)
    <2> DEFINE c == [op |-> "receive", mb |-> id, msg |-> NoMsg, size |-> size]
    <2>1. id \in Id BY <1>5 DEF ReceiveBlock, NothingThere, ReceiveValid
    <2>2. c \in Call /\ c.op = "receive" /\ c.mb = id BY DEF Call, Slot
    <2>3. Block(p, c) BY <1>5 DEF ReceiveBlock
    <2>4. ASSUME NEW op \in Side, NEW j \in Id
          PROVE  ListOf(op, j)' = IF op = "receive" /\ j = id THEN Append(ListOf(op, j), p)
                                                              ELSE ListOf(op, j)
      BY <1>5, <2>1 DEF ReceiveBlock, TypeOK, Mailbox, ListOf, Side
    <2> HIDE DEF c
    <2>5. "receive" \in Side BY DEF Side
    <2> QED BY <2>1, <2>2, <2>3, <2>4, <2>5, BlockStep DEF Block
  <1> QED BY <1>1, <1>2, <1>3, <1>4, <1>5 DEF ReceiveTurn

LEMMA FreeWaiters ==
    ASSUME Inv2, NEW p \in Proc, Free(p)
    PROVE  Waiters'
  <1> USE DEF Inv2, Inv1
  <1>1. pstate[p] = "ready" BY IdleReady DEF Free
  <1>2. PICK id \in MboxArg : FreeInvalid(p, id) \/ FreeRelease(p, id) BY DEF Free
  <1>3. CASE FreeInvalid(p, id) BY <1>1, <1>3, FailWaiters DEF FreeInvalid
  <1>4. CASE FreeRelease(p, id)
    <2> DEFINE b == [mailboxes[id] EXCEPT !.status = "released"]
    <2>1. id \in Id BY <1>4 DEF FreeRelease
    <2>2. /\ b.blockedSendList = mailboxes[id].blockedSendList
          /\ b.blockedReceiveList = mailboxes[id].blockedReceiveList
      BY <2>1 DEF TypeOK, Mailbox
    <2>3. mailboxes' = [mailboxes EXCEPT ![id] = b] BY <1>4 DEF FreeRelease
    <2> HIDE DEF b
    <2>4. \A op \in Side, j \in Id : ListOf(op, j)' = ListOf(op, j)
      BY <2>1, <2>2, <2>3, SameLists
    <2>5. \A q \in Proc : pstate[q] = "blocked" => call'[q] = call[q]
      BY <1>1, <1>4 DEF FreeRelease, TypeOK
    <2> QED BY <1>4, <2>4, <2>5, QuietStep DEF FreeRelease
  <1> QED BY <1>2, <1>3, <1>4

LEMMA FreeSenderWaiters ==
    ASSUME Inv2, NEW p \in Proc, FreeSender(p)
    PROVE  Waiters'
  <1> USE DEF Inv2, Inv1
  <1> DEFINE id == call[p].mb
  <1>1. id \in Id BY DEF FreeSender, Running, CallOK
  <1>2. mailboxes' = [mailboxes EXCEPT ![id].blockedSendList = Rest(@)]
    BY DEF FreeSender
  <1>3. pstate' = WakeFirst(ListOf("send", id)) BY DEF FreeSender, ListOf
  <1>4. call' = call BY DEF FreeSender
  <1> HIDE DEF id
  <1>5. ASSUME NEW op \in Side, NEW j \in Id
        PROVE  ListOf(op, j)' = IF op = "send" /\ j = id THEN Rest(ListOf(op, j))
                                                         ELSE ListOf(op, j)
    BY <1>1, <1>2 DEF TypeOK, Mailbox, ListOf, Side
  <1>6. "send" \in Side BY DEF Side
  <1> QED BY <1>1, <1>3, <1>4, <1>5, <1>6, WakeStep

LEMMA FreeReceiverWaiters ==
    ASSUME Inv2, NEW p \in Proc, FreeReceiver(p)
    PROVE  Waiters'
  <1> USE DEF Inv2, Inv1
  <1> DEFINE id == call[p].mb
  <1>1. call[p].op \in {"free_send", "free_receive"}
    BY DEF FreeReceiver, SendersFreed, Running
  <1>2. id \in Id BY <1>1 DEF CallOK
  <1>3. mailboxes' = [mailboxes EXCEPT ![id].blockedReceiveList = Rest(@)]
    BY DEF FreeReceiver
  <1>4. pstate' = WakeFirst(ListOf("receive", id)) BY DEF FreeReceiver, ListOf
  <1>5. pstate[p] = "ready" BY <1>1, ActiveReady DEF Side
  <1>6. \A q \in Proc : pstate[q] = "blocked" => call'[q] = call[q]
    BY <1>5 DEF FreeReceiver, TypeOK
  <1> HIDE DEF id
  <1>7. ASSUME NEW op \in Side, NEW j \in Id
        PROVE  ListOf(op, j)' = IF op = "receive" /\ j = id THEN Rest(ListOf(op, j))
                                                            ELSE ListOf(op, j)
    BY <1>2, <1>3 DEF TypeOK, Mailbox, ListOf, Side
  <1>8. "receive" \in Side BY DEF Side
  <1> QED BY <1>2, <1>4, <1>6, <1>7, <1>8, WakeStep

LEMMA StepWaiters == Inv2 /\ [Next]_vars => Waiters'
  <1> SUFFICES ASSUME Inv2, [Next]_vars PROVE Waiters' OBVIOUS
  <1>1. CASE UNCHANGED vars
    <2>1. \A op \in Side, id \in Id : ListOf(op, id)' = ListOf(op, id)
      BY <1>1 DEF vars, ListOf
    <2> QED BY <1>1, <2>1, QuietStep DEF vars
  <1>2. ASSUME NEW p \in Proc, Create(p) PROVE Waiters' BY <1>2, CreateWaiters
  <1>3. ASSUME NEW p \in Proc, Send(p) PROVE Waiters'
    <2>1. PICK id \in MboxArg, m \in Msg, wait \in BOOLEAN : SendTurn(p, id, m, wait)
      BY <1>3 DEF Send
    <2>2. id \in Int BY TableAssumption DEF MboxArg
    <2>3. pstate[p] = "ready" BY <1>3, IdleReady DEF Send
    <2> QED BY <2>1, <2>2, <2>3, SendTurnWaiters
  <1>4. ASSUME NEW p \in Proc, Receive(p) PROVE Waiters'
    <2>1. PICK id \in MboxArg, size \in BufSizes, wait \in BOOLEAN :
              ReceiveTurn(p, id, size, wait)
      BY <1>4 DEF Receive
    <2>2. id \in Int /\ size \in Int BY TableAssumption, ArgumentAssumption DEF MboxArg
    <2>3. pstate[p] = "ready" BY <1>4, IdleReady DEF Receive
    <2> QED BY <2>1, <2>2, <2>3, ReceiveTurnWaiters
  <1>5. ASSUME NEW p \in Proc, Free(p) PROVE Waiters' BY <1>5, FreeWaiters
  <1>6. ASSUME NEW p \in Proc, SendInterrupted(p) \/ ReceiveInterrupted(p) PROVE Waiters'
    <2>1. Fail(p, -5) /\ pstate[p] = "ready"
      BY <1>6 DEF SendInterrupted, ReceiveInterrupted, Running
    <2> QED BY <2>1, FailWaiters
  <1>7. ASSUME NEW p \in Proc, SendRetry(p) PROVE Waiters'
    <2>1. call[p].mb \in Int /\ call[p].msg \in Msg /\ pstate[p] = "ready"
      BY <1>7 DEF SendRetry, Running, Inv2, Inv1, TypeOK, Call, CallOK
    <2>2. SendTurn(p, call[p].mb, call[p].msg, TRUE) BY <1>7 DEF SendRetry
    <2> QED BY <2>1, <2>2, SendTurnWaiters
  <1>8. ASSUME NEW p \in Proc, ReceiveRetry(p) PROVE Waiters'
    <2>1. call[p].mb \in Int /\ call[p].size \in Int /\ pstate[p] = "ready"
      BY <1>8 DEF ReceiveRetry, Running, Inv2, Inv1, TypeOK, Call
    <2>2. ReceiveTurn(p, call[p].mb, call[p].size, TRUE) BY <1>8 DEF ReceiveRetry
    <2> QED BY <2>1, <2>2, ReceiveTurnWaiters
  <1>9. ASSUME NEW p \in Proc, FreeSender(p) PROVE Waiters' BY <1>9, FreeSenderWaiters
  <1>10. ASSUME NEW p \in Proc, FreeReceiver(p) PROVE Waiters'
    BY <1>10, FreeReceiverWaiters
  <1>11. ASSUME NEW p \in Proc, FreeReturn(p) PROVE Waiters'
    <2>1. call[p].op \in {"free_send", "free_receive"}
      BY <1>11 DEF FreeReturn, SendersFreed, Running
    <2>2. pstate[p] = "ready" BY <2>1, ActiveReady DEF Side
    <2>3. Fail(p, 0) BY <1>11 DEF FreeReturn, Fail
    <2> QED BY <2>2, <2>3, FailWaiters
  <1>12. ASSUME NEW p \in Proc, Signal(p) PROVE Waiters'
    <2>1. \A op \in Side, id \in Id : ListOf(op, id)' = ListOf(op, id)
      BY <1>12 DEF Signal, ListOf
    <2> QED BY <1>12, <2>1, QuietStep DEF Signal
  <1> QED BY <1>1, <1>2, <1>3, <1>4, <1>5, <1>6, <1>7, <1>8, <1>9, <1>10, <1>11, <1>12
          DEF Next, Start, Continue

LEMMA Inv2Holds == Spec => []Inv2
  <1>1. Init => Inv2 BY InitInv1, InitWaiters DEF Inv2
  <1>2. Inv2 /\ [Next]_vars => Inv2' BY StepInv1, StepWaiters DEF Inv2
  <1> QED BY <1>1, <1>2, PTL DEF Spec

(* Every node of a waiting list is a process asleep in that call on that   *)
(* mailbox, once.                                                          *)
THEOREM WaitersAreBlocked == Spec => []WaitersBlocked
  <1>1. Inv2 => WaitersBlocked BY DEF Inv2, Waiters
  <1> QED BY <1>1, Inv2Holds, PTL

(* Every process asleep in a call is on the list of that call, so that a   *)
(* receive or a free that works through the list comes to it.              *)
THEOREM BlockedAreListed == Spec => []BlockedListed
  <1>1. Inv2 => BlockedListed BY DEF Inv2, Waiters
  <1> QED BY <1>1, Inv2Holds, PTL

-----------------------------------------------------------------------------
(* Nobody stays behind on a released mailbox.                              *)

Frees == {"free_send", "free_receive"}

(* A step that releases nothing, fills no list of a released mailbox and   *)
(* lets every mailbox_free be.                                             *)
LEMMA KeepDrained ==
    ASSUME ReleasedDrained,
           \A id \in Id : mailboxes'[id].status = "released" =>
               /\ mailboxes[id].status = "released"
               /\ mailboxes[id].blockedSendList = <<>>
                      => mailboxes'[id].blockedSendList = <<>>
               /\ mailboxes[id].blockedReceiveList = <<>>
                      => mailboxes'[id].blockedReceiveList = <<>>,
           \A q \in Proc : call[q].op \in Frees => call'[q] = call[q]
    PROVE  ReleasedDrained'
  BY DEF ReleasedDrained, Frees, Id

LEMMA FailDrained ==
    ASSUME Inv1, ReleasedDrained, NEW p \in Proc, call[p].op \notin Frees, NEW code,
           Fail(p, code)
    PROVE  ReleasedDrained'
  <1>1. \A q \in Proc : call[q].op \in Frees => call'[q] = call[q]
    BY DEF Fail, Return, Inv1, TypeOK
  <1> QED BY <1>1, KeepDrained DEF Fail

LEMMA MakeDrained ==
    ASSUME Inv1, ReleasedDrained, NEW p \in Proc, call[p].op \notin Frees,
           NEW slots \in Int, NEW slotSize \in Int,
           CreateMailbox(p, slots, slotSize) \/ CreateNoMemory(p, slots, slotSize)
    PROVE  ReleasedDrained'
  <1> USE DEF Inv1
  <1>1. ASSUME NEW n, nextMailboxId < MaxMbox,
               mailboxes' = [mailboxes EXCEPT ![nextMailboxId] =
                                 Initialised(@, slots, slotSize, n)],
               NEW code, Return(p, code, NoMsg)
        PROVE  ReleasedDrained'
    <2> DEFINE b == Initialised(mailboxes[nextMailboxId], slots, slotSize, n)
    <2>1. nextMailboxId \in Id BY <1>1, TableAssumption DEF TypeOK, Id
    <2>2. b.status = "inuse" BY <2>1 DEF Initialised, TypeOK, Mailbox
    <2>3. mailboxes' = [mailboxes EXCEPT ![nextMailboxId] = b] BY <1>1
    <2> HIDE DEF b
    <2>4. \A id \in Id : mailboxes'[id].status = "released" => mailboxes'[id] = mailboxes[id]
      BY <2>1, <2>2, <2>3 DEF TypeOK
    <2>5. \A q \in Proc : call[q].op \in Frees => call'[q] = call[q]
      BY <1>1 DEF Return, TypeOK
    <2> QED BY <2>4, <2>5, KeepDrained
  <1> QED BY <1>1 DEF CreateMailbox, CreateNoMemory

LEMMA CreateDrained ==
    ASSUME Inv1, ReleasedDrained, NEW p \in Proc, Create(p)
    PROVE  ReleasedDrained'
  <1>1. call[p].op \notin Frees BY DEF Create, Idle, NoCall, Frees
  <1>2. CASE CreateTableFull(p) BY <1>1, <1>2, FailDrained DEF CreateTableFull
  <1>3. ASSUME NEW slots \in SlotCounts, NEW slotSize \in SlotSizes,
               CreateMailbox(p, slots, slotSize) \/ CreateNoMemory(p, slots, slotSize)
        PROVE  ReleasedDrained'
    BY <1>1, <1>3, MakeDrained, ArgumentAssumption
  <1> QED BY <1>2, <1>3 DEF Create

LEMMA SendTurnDrained ==
    ASSUME Inv1, ReleasedDrained, NEW p \in Proc, call[p].op \notin Frees,
           NEW id \in Int, NEW m \in Msg, NEW wait \in BOOLEAN, SendTurn(p, id, m, wait)
    PROVE  ReleasedDrained'
  <1> USE DEF Inv1
  <1>1. CASE SendInvalid(p, id, m) BY <1>1, FailDrained DEF SendInvalid
  <1>2. CASE SendDeposit(p, id, m)
    <2>1. id \in Id /\ mailboxes[id].status # "released" BY <1>2 DEF SendDeposit, SendValid
    <2> DEFINE b == [mailboxes[id] EXCEPT !.slots[Min(EmptySlots(id))] = Stored(m)]
    <2>2. mailboxes' = [mailboxes EXCEPT ![id] = b] BY <1>2 DEF SendDeposit
    <2>3. b.status = mailboxes[id].status BY <2>1 DEF TypeOK, Mailbox
    <2> HIDE DEF b
    <2>4. \A j \in Id : mailboxes'[j].status = "released" => mailboxes'[j] = mailboxes[j]
      BY <2>1, <2>2, <2>3 DEF TypeOK
    <2>5. \A q \in Proc : call[q].op \in Frees => call'[q] = call[q]
      BY <1>2 DEF SendDeposit, Return, TypeOK
    <2> QED BY <2>4, <2>5, KeepDrained
  <1>3. CASE SendWouldBlock(p, id, m) BY <1>3, FailDrained DEF SendWouldBlock
  <1>4. CASE SendNoMemory(p, id, m) BY <1>4, FailDrained DEF SendNoMemory
  <1>5. CASE SendBlock(p, id, m)
    <2>1. id \in Id /\ mailboxes[id].status # "released"
      BY <1>5 DEF SendBlock, NoRoom, SendValid
    <2>2. \A j \in Id : mailboxes'[j].status = "released" => mailboxes'[j] = mailboxes[j]
      BY <1>5, <2>1 DEF SendBlock, TypeOK, Mailbox
    <2>3. \A q \in Proc : call[q].op \in Frees => call'[q] = call[q]
      BY <1>5 DEF SendBlock, Block, TypeOK
    <2> QED BY <2>2, <2>3, KeepDrained
  <1> QED BY <1>1, <1>2, <1>3, <1>4, <1>5 DEF SendTurn

LEMMA ReceiveTurnDrained ==
    ASSUME Inv1, ReleasedDrained, NEW p \in Proc, call[p].op \notin Frees,
           NEW id \in Int, NEW size \in Int, NEW wait \in BOOLEAN,
           ReceiveTurn(p, id, size, wait)
    PROVE  ReleasedDrained'
  <1> USE DEF Inv1
  <1>1. CASE ReceiveInvalid(p, id, size) BY <1>1, FailDrained DEF ReceiveInvalid
  <1>2. CASE ReceiveDeliver(p, id, size)
    <2>1. id \in Id /\ mailboxes[id].status # "released"
      BY <1>2 DEF ReceiveDeliver, ReceiveValid
    <2>2. mailboxes' = [mailboxes EXCEPT ![id] = WithoutFirst(id)]
      BY <1>2 DEF ReceiveDeliver
    <2>3. WithoutFirst(id).status = mailboxes[id].status
      BY <2>1 DEF WithoutFirst, TypeOK, Mailbox
    <2>4. \A j \in Id : mailboxes'[j].status = "released" => mailboxes'[j] = mailboxes[j]
      BY <2>1, <2>2, <2>3 DEF TypeOK
    <2>5. \A q \in Proc : call[q].op \in Frees => call'[q] = call[q]
      BY <1>2 DEF ReceiveDeliver, Return, TypeOK
    <2> QED BY <2>4, <2>5, KeepDrained
  <1>3. CASE ReceiveWouldBlock(p, id, size) BY <1>3, FailDrained DEF ReceiveWouldBlock
  <1>4. CASE ReceiveNoMemory(p, id, size) BY <1>4, FailDrained DEF ReceiveNoMemory
  <1>5. CASE ReceiveBlock(p, id, size)
    <2>1. id \in Id /\ mailboxes[id].status # "released"
      BY <1>5 DEF ReceiveBlock, NothingThere, ReceiveValid
    <2>2. \A j \in Id : mailboxes'[j].status = "released" => mailboxes'[j] = mailboxes[j]
      BY <1>5, <2>1 DEF ReceiveBlock, TypeOK, Mailbox
    <2>3. \A q \in Proc : call[q].op \in Frees => call'[q] = call[q]
      BY <1>5 DEF ReceiveBlock, Block, TypeOK
    <2> QED BY <2>2, <2>3, KeepDrained
  <1> QED BY <1>1, <1>2, <1>3, <1>4, <1>5 DEF ReceiveTurn

(* mailbox_free itself: the process that marks the mailbox is the one that *)
(* empties the lists, and it leaves a loop only when its list is empty.    *)
LEMMA FreeDrained ==
    ASSUME Inv1, ReleasedDrained, NEW p \in Proc, Free(p)
    PROVE  ReleasedDrained'
  <1> USE DEF Inv1
  <1>1. call[p].op \notin Frees BY DEF Free, Idle, NoCall, Frees
  <1>2. PICK id \in MboxArg : FreeInvalid(p, id) \/ FreeRelease(p, id) BY DEF Free
  <1>3. CASE FreeInvalid(p, id) BY <1>1, <1>3, FailDrained DEF FreeInvalid
  <1>4. CASE FreeRelease(p, id)
    <2>1. id \in Id BY <1>4 DEF FreeRelease
    <2>2. call'[p].op = "free_send" /\ call'[p].mb = id
      BY <1>4 DEF FreeRelease, TypeOK
    <2>3. \A j \in Id \ {id} : mailboxes'[j] = mailboxes[j]
      BY <1>4 DEF FreeRelease, TypeOK
    <2>4. \A q \in Proc : call[q].op \in Frees => call'[q] = call[q]
      BY <1>1, <1>4 DEF FreeRelease, TypeOK
    <2> QED BY <2>1, <2>2, <2>3, <2>4 DEF ReleasedDrained, Frees, Id
  <1> QED BY <1>2, <1>3, <1>4

LEMMA FreeSenderDrained ==
    ASSUME Inv1, ReleasedDrained, NEW p \in Proc, FreeSender(p)
    PROVE  ReleasedDrained'
  <1> USE DEF Inv1
  <1> DEFINE id == call[p].mb
  <1>1. id \in Id BY DEF FreeSender, Running, CallOK
  <1>2. mailboxes' = [mailboxes EXCEPT ![id].blockedSendList = Rest(@)]
    BY DEF FreeSender
  <1>3. call' = call BY DEF FreeSender
  <1> HIDE DEF id
  <1>4. \A j \in Id : /\ mailboxes'[j].status = mailboxes[j].status
                      /\ mailboxes'[j].blockedReceiveList = mailboxes[j].blockedReceiveList
                      /\ mailboxes[j].blockedSendList = <<>>
                             => mailboxes'[j].blockedSendList = <<>>
    BY SMTT(30), <1>1, <1>2 DEF TypeOK, Mailbox, Rest
  <1> QED BY <1>3, <1>4, KeepDrained

LEMMA FreeReceiverDrained ==
    ASSUME Inv1, ReleasedDrained, NEW p \in Proc, FreeReceiver(p)
    PROVE  ReleasedDrained'
  <1> USE DEF Inv1
  <1> DEFINE id == call[p].mb
  <1>1. call[p].op \in Frees BY DEF FreeReceiver, SendersFreed, Running, Frees
  <1>2. id \in Id BY <1>1 DEF CallOK, Frees
  <1>3. mailboxes' = [mailboxes EXCEPT ![id].blockedReceiveList = Rest(@)]
    BY DEF FreeReceiver
  <1>4. call[p].op = "free_send" => mailboxes[id].blockedSendList = <<>>
    BY DEF FreeReceiver, SendersFreed, Running
  <1>5. call'[p].op = "free_receive" /\ call'[p].mb = id
    BY DEF FreeReceiver, TypeOK, Call
  <1>6. \A q \in Proc \ {p} : call'[q] = call[q] BY DEF FreeReceiver, TypeOK
  <1> HIDE DEF id
  <1>7. \A j \in Id : /\ mailboxes'[j].status = mailboxes[j].status
                      /\ mailboxes'[j].blockedSendList = mailboxes[j].blockedSendList
                      /\ j # id => mailboxes'[j] = mailboxes[j]
    BY <1>2, <1>3 DEF TypeOK, Mailbox
  <1> SUFFICES ASSUME NEW j \in Id, mailboxes'[j].status = "released"
               PROVE  /\ mailboxes'[j].blockedSendList # <<>> =>
                             \E q \in Proc : call'[q].op = "free_send" /\ call'[q].mb = j
                      /\ mailboxes'[j].blockedReceiveList # <<>> =>
                             \E q \in Proc : call'[q].op \in Frees /\ call'[q].mb = j
    BY DEF ReleasedDrained, Frees, Id
  <1>8. ASSUME mailboxes'[j].blockedSendList # <<>>
        PROVE  \E q \in Proc : call'[q].op = "free_send" /\ call'[q].mb = j
    <2>1. PICK q \in Proc : call[q].op = "free_send" /\ call[q].mb = j
      BY <1>7, <1>8 DEF ReleasedDrained
    <2>2. q # p BY <1>4, <1>7, <1>8, <2>1 DEF id
    <2> QED BY <1>6, <2>1, <2>2
  <1>9. ASSUME mailboxes'[j].blockedReceiveList # <<>>
        PROVE  \E q \in Proc : call'[q].op \in Frees /\ call'[q].mb = j
    <2>1. CASE j = id BY <1>5, <2>1 DEF Frees
    <2>2. CASE j # id
      <3>1. PICK q \in Proc : call[q].op \in Frees /\ call[q].mb = j
        BY <1>7, <1>9, <2>2 DEF ReleasedDrained, Frees
      <3>2. q # p BY <2>2, <3>1 DEF id
      <3> QED BY <1>6, <3>1, <3>2
    <2> QED BY <2>1, <2>2
  <1> QED BY <1>8, <1>9

LEMMA FreeReturnDrained ==
    ASSUME Inv1, ReleasedDrained, NEW p \in Proc, FreeReturn(p)
    PROVE  ReleasedDrained'
  <1> USE DEF Inv1
  <1> DEFINE id == call[p].mb
  <1>1. call[p].op = "free_send" => mailboxes[id].blockedSendList = <<>>
    BY DEF FreeReturn, SendersFreed, Running
  <1>2. mailboxes[id].blockedReceiveList = <<>> BY DEF FreeReturn
  <1>3. mailboxes' = mailboxes BY DEF FreeReturn
  <1>4. \A q \in Proc \ {p} : call'[q] = call[q] BY DEF FreeReturn, Return, TypeOK
  <1> SUFFICES ASSUME NEW j \in Id, mailboxes[j].status = "released"
               PROVE  /\ mailboxes[j].blockedSendList # <<>> =>
                             \E q \in Proc : call'[q].op = "free_send" /\ call'[q].mb = j
                      /\ mailboxes[j].blockedReceiveList # <<>> =>
                             \E q \in Proc : call'[q].op \in Frees /\ call'[q].mb = j
    BY <1>3 DEF ReleasedDrained, Frees, Id
  <1>5. ASSUME mailboxes[j].blockedSendList # <<>>
        PROVE  \E q \in Proc : call'[q].op = "free_send" /\ call'[q].mb = j
    <2>1. PICK q \in Proc : call[q].op = "free_send" /\ call[q].mb = j
      BY <1>5 DEF ReleasedDrained
    <2>2. q # p BY <1>1, <1>5, <2>1
    <2> QED BY <1>4, <2>1, <2>2
  <1>6. ASSUME mailboxes[j].blockedReceiveList # <<>>
        PROVE  \E q \in Proc : call'[q].op \in Frees /\ call'[q].mb = j
    <2>1. PICK q \in Proc : call[q].op \in Frees /\ call[q].mb = j
      BY <1>6 DEF ReleasedDrained, Frees
    <2>2. q # p BY <1>2, <1>6, <2>1
    <2> QED BY <1>4, <2>1, <2>2
  <1> QED BY <1>5, <1>6

LEMMA StepDrained == Inv1 /\ ReleasedDrained /\ [Next]_vars => ReleasedDrained'
  <1> SUFFICES ASSUME Inv1, ReleasedDrained, [Next]_vars PROVE ReleasedDrained' OBVIOUS
  <1>1. CASE UNCHANGED vars BY <1>1, KeepDrained DEF vars
  <1>2. ASSUME NEW p \in Proc, Create(p) PROVE ReleasedDrained' BY <1>2, CreateDrained
  <1>3. ASSUME NEW p \in Proc, Send(p) PROVE ReleasedDrained'
    <2>1. PICK id \in MboxArg, m \in Msg, wait \in BOOLEAN : SendTurn(p, id, m, wait)
      BY <1>3 DEF Send
    <2>2. id \in Int BY TableAssumption DEF MboxArg
    <2>3. call[p].op \notin Frees BY <1>3 DEF Send, Idle, NoCall, Frees
    <2> QED BY <2>1, <2>2, <2>3, SendTurnDrained
  <1>4. ASSUME NEW p \in Proc, Receive(p) PROVE ReleasedDrained'
    <2>1. PICK id \in MboxArg, size \in BufSizes, wait \in BOOLEAN :
              ReceiveTurn(p, id, size, wait)
      BY <1>4 DEF Receive
    <2>2. id \in Int /\ size \in Int BY TableAssumption, ArgumentAssumption DEF MboxArg
    <2>3. call[p].op \notin Frees BY <1>4 DEF Receive, Idle, NoCall, Frees
    <2> QED BY <2>1, <2>2, <2>3, ReceiveTurnDrained
  <1>5. ASSUME NEW p \in Proc, Free(p) PROVE ReleasedDrained' BY <1>5, FreeDrained
  <1>6. ASSUME NEW p \in Proc, SendInterrupted(p) \/ ReceiveInterrupted(p)
        PROVE  ReleasedDrained'
    <2>1. Fail(p, -5) /\ call[p].op \notin Frees
      BY <1>6 DEF SendInterrupted, ReceiveInterrupted, Running, Frees
    <2> QED BY <2>1, FailDrained
  <1>7. ASSUME NEW p \in Proc, SendRetry(p) PROVE ReleasedDrained'
    <2>1. call[p].mb \in Int /\ call[p].msg \in Msg /\ call[p].op \notin Frees
      BY <1>7 DEF SendRetry, Running, Inv1, TypeOK, Call, CallOK, Frees
    <2>2. SendTurn(p, call[p].mb, call[p].msg, TRUE) BY <1>7 DEF SendRetry
    <2> QED BY <2>1, <2>2, SendTurnDrained
  <1>8. ASSUME NEW p \in Proc, ReceiveRetry(p) PROVE ReleasedDrained'
    <2>1. call[p].mb \in Int /\ call[p].size \in Int /\ call[p].op \notin Frees
      BY <1>8 DEF ReceiveRetry, Running, Inv1, TypeOK, Call, Frees
    <2>2. ReceiveTurn(p, call[p].mb, call[p].size, TRUE) BY <1>8 DEF ReceiveRetry
    <2> QED BY <2>1, <2>2, ReceiveTurnDrained
  <1>9. ASSUME NEW p \in Proc, FreeSender(p) PROVE ReleasedDrained'
    BY <1>9, FreeSenderDrained
  <1>10. ASSUME NEW p \in Proc, FreeReceiver(p) PROVE ReleasedDrained'
    BY <1>10, FreeReceiverDrained
  <1>11. ASSUME NEW p \in Proc, FreeReturn(p) PROVE ReleasedDrained'
    BY <1>11, FreeReturnDrained
  <1>12. ASSUME NEW p \in Proc, Signal(p) PROVE ReleasedDrained'
    BY <1>12, KeepDrained DEF Signal
  <1> QED BY <1>1, <1>2, <1>3, <1>4, <1>5, <1>6, <1>7, <1>8, <1>9, <1>10, <1>11, <1>12
          DEF Next, Start, Continue

LEMMA InitDrained == Init => ReleasedDrained
  <1>1. EmptyMailbox.status = "empty" BY DEF EmptyMailbox
  <1>2. \A id \in Id : DeviceMailbox(id).status = "inuse"
    BY DEF DeviceMailbox, Initialised, EmptyMailbox
  <1> QED BY <1>1, <1>2 DEF Init, ReleasedDrained

(* A released mailbox has nobody waiting on it, except those that a        *)
(* mailbox_free still under way is about to wake.                          *)
THEOREM ReleasedMailboxesDrained == Spec => []ReleasedDrained
  <1>1. Init => Inv1 /\ ReleasedDrained BY InitInv1, InitDrained
  <1>2. Inv1 /\ ReleasedDrained /\ [Next]_vars => (Inv1 /\ ReleasedDrained)'
    BY StepInv1, StepDrained
  <1> QED BY <1>1, <1>2, PTL DEF Spec

-----------------------------------------------------------------------------
(* Every message fits the slots of the mailbox it lies in.                 *)

Fits(b) == \A i \in 1 .. Len(b.slots) :
               b.slots[i] # NoMsg => Size[b.slots[i]] <= b.slotSize

(* It is enough to look at the mailbox that a step changes. *)
LEMMA FitChange ==
    ASSUME TypeOK, SlotsFit, NEW id \in Id, NEW b, Fits(b),
           mailboxes' = [mailboxes EXCEPT ![id] = b]
    PROVE  SlotsFit'
  <1> SUFFICES ASSUME NEW j \in Id PROVE Fits(mailboxes'[j])
    BY DEF SlotsFit, Fits, Id
  <1>1. CASE j = id BY <1>1 DEF TypeOK
  <1>2. CASE j # id BY <1>2 DEF TypeOK, SlotsFit, Fits
  <1> QED BY <1>1, <1>2

(* The waiting lists and the status have nothing to do with it. *)
LEMMA SameFit ==
    ASSUME TypeOK, SlotsFit, NEW id \in Id, NEW b,
           b.slots = mailboxes[id].slots, b.slotSize = mailboxes[id].slotSize,
           mailboxes' = [mailboxes EXCEPT ![id] = b]
    PROVE  SlotsFit'
  <1>1. Fits(b) BY DEF Fits, SlotsFit
  <1> QED BY <1>1, FitChange

LEMMA KeepFit == SlotsFit /\ UNCHANGED mailboxes => SlotsFit'
  BY DEF SlotsFit, Id

LEMMA MakeFit ==
    ASSUME NEW p \in Proc, Inv1, SlotsFit, NEW slots \in Int, NEW slotSize \in Int,
           CreateMailbox(p, slots, slotSize) \/ CreateNoMemory(p, slots, slotSize)
    PROVE  SlotsFit'
  <1> USE DEF Inv1
  <1>1. ASSUME NEW n \in Nat, nextMailboxId < MaxMbox,
               mailboxes' = [mailboxes EXCEPT ![nextMailboxId] =
                                 Initialised(@, slots, slotSize, n)]
        PROVE  SlotsFit'
    <2> DEFINE b == Initialised(mailboxes[nextMailboxId], slots, slotSize, n)
    <2>1. nextMailboxId \in Id BY <1>1, TableAssumption DEF TypeOK, Id
    <2>2. b.slots = [i \in 1 .. n |-> NoMsg]
      BY <2>1 DEF Initialised, TypeOK, Mailbox
    <2>3. Fits(b) BY <2>2 DEF Fits
    <2>4. mailboxes' = [mailboxes EXCEPT ![nextMailboxId] = b] BY <1>1
    <2> HIDE DEF b
    <2> QED BY <2>1, <2>3, <2>4, FitChange
  <1>2. Allocated(slots) \in Nat BY DEF Allocated
  <1>3. CASE CreateMailbox(p, slots, slotSize) BY <1>1, <1>2, <1>3 DEF CreateMailbox
  <1>4. CASE CreateNoMemory(p, slots, slotSize)
    <2>1. PICK n \in 0 .. Allocated(slots) - 1 :
              mailboxes' = [mailboxes EXCEPT ![nextMailboxId] =
                                Initialised(@, slots, slotSize, n)]
      BY <1>4 DEF CreateNoMemory
    <2>2. n \in Nat BY <1>2
    <2>3. nextMailboxId < MaxMbox BY <1>4 DEF CreateNoMemory
    <2> QED BY <1>1, <2>1, <2>2, <2>3
  <1> QED BY <1>3, <1>4

LEMMA CreateFit ==
    ASSUME NEW p \in Proc, Inv1, SlotsFit, Create(p)
    PROVE  SlotsFit'
  <1>1. CASE CreateTableFull(p) BY <1>1, KeepFit DEF CreateTableFull, Fail
  <1>2. ASSUME NEW slots \in SlotCounts, NEW slotSize \in SlotSizes,
               CreateMailbox(p, slots, slotSize) \/ CreateNoMemory(p, slots, slotSize)
        PROVE  SlotsFit'
    BY <1>2, MakeFit, ArgumentAssumption
  <1> QED BY <1>1, <1>2 DEF Create

LEMMA SendTurnFit ==
    ASSUME NEW p \in Proc, NEW id \in Int, NEW m \in Msg, NEW wait \in BOOLEAN,
           Inv1, SlotsFit, SendTurn(p, id, m, wait)
    PROVE  SlotsFit'
  <1> USE DEF Inv1
  <1>1. CASE SendInvalid(p, id, m) BY <1>1, KeepFit DEF SendInvalid, Fail
  <1>2. CASE SendDeposit(p, id, m)
    <2> DEFINE s == mailboxes[id].slots
               t == [s EXCEPT ![Min(EmptySlots(id))] = Stored(m)]
               b == [mailboxes[id] EXCEPT !.slots = t]
    <2>1. id \in Id /\ Size[m] <= mailboxes[id].slotSize
      BY <1>2 DEF SendDeposit, SendValid
    <2>2. s \in Seq(Slot) /\ mailboxes[id] \in Mailbox BY <2>1 DEF TypeOK, Mailbox
    <2>3. Len(t) = Len(s)
          /\ \A i \in 1 .. Len(t) : t[i] = s[i] \/ t[i] = Stored(m)
      BY <2>2
    <2>4. b.slots = t /\ b.slotSize = mailboxes[id].slotSize BY <2>2 DEF Mailbox
    <2>5. \A i \in 1 .. Len(s) : s[i] # NoMsg => Size[s[i]] <= mailboxes[id].slotSize
      BY <2>1 DEF SlotsFit
    <2>6. Stored(m) # NoMsg => Stored(m) = m BY DEF Stored
    <2>7. mailboxes' = [mailboxes EXCEPT ![id] = b] BY <1>2 DEF SendDeposit
    <2> HIDE DEF b, t
    <2>8. Fits(b) BY <2>1, <2>3, <2>4, <2>5, <2>6 DEF Fits
    <2> QED BY <2>1, <2>7, <2>8, FitChange
  <1>3. CASE SendWouldBlock(p, id, m) BY <1>3, KeepFit DEF SendWouldBlock, Fail
  <1>4. CASE SendNoMemory(p, id, m) BY <1>4, KeepFit DEF SendNoMemory, Fail
  <1>5. CASE SendBlock(p, id, m)
    <2> DEFINE b == [mailboxes[id] EXCEPT !.blockedSendList = Append(@, p)]
    <2>1. id \in Id BY <1>5 DEF SendBlock, NoRoom, SendValid
    <2>2. b.slots = mailboxes[id].slots /\ b.slotSize = mailboxes[id].slotSize
      BY <2>1 DEF TypeOK, Mailbox
    <2>3. mailboxes' = [mailboxes EXCEPT ![id] = b] BY <1>5 DEF SendBlock
    <2> HIDE DEF b
    <2> QED BY <2>1, <2>2, <2>3, SameFit
  <1> QED BY <1>1, <1>2, <1>3, <1>4, <1>5 DEF SendTurn

LEMMA ReceiveTurnFit ==
    ASSUME NEW p \in Proc, NEW id \in Int, NEW size \in Int, NEW wait \in BOOLEAN,
           Inv1, SlotsFit, ReceiveTurn(p, id, size, wait)
    PROVE  SlotsFit'
  <1> USE DEF Inv1
  <1>1. CASE ReceiveInvalid(p, id, size) BY <1>1, KeepFit DEF ReceiveInvalid, Fail
  <1>2. CASE ReceiveDeliver(p, id, size)
    <2> DEFINE s == mailboxes[id].slots
               f == Min(FullSlots(id))
               t == Shifted(s, f, RunEnd(id, f))
               b == WithoutFirst(id)
    <2>1. id \in Id /\ FullSlots(id) # {} BY <1>2 DEF ReceiveDeliver, ReceiveValid
    <2>2. s \in Seq(Slot) /\ Len(s) \in Nat /\ DOMAIN s = 1 .. Len(s)
      BY <2>1 DEF TypeOK, Mailbox
    <2>3. PICK n \in 0 .. Len(s) : /\ FullSlots(id) = 1 .. n
                                   /\ n > 0 => f = 1 /\ RunEnd(id, 1) = n
      BY <2>1, PrefixSlots
    <2>4. f = 1 /\ RunEnd(id, f) = n BY <2>1, <2>2, <2>3
    <2>5. Len(t) = Len(s)
          /\ \A i \in 1 .. Len(s) : t[i] = NoMsg \/ \E j \in 1 .. Len(s) : t[i] = s[j]
      BY <2>2, <2>4 DEF Shifted
    <2>6. b.slots = t /\ b.slotSize = mailboxes[id].slotSize
      BY <2>1 DEF WithoutFirst, TypeOK, Mailbox
    <2>7. \A i \in 1 .. Len(s) : s[i] # NoMsg => Size[s[i]] <= mailboxes[id].slotSize
      BY <2>1 DEF SlotsFit
    <2>8. mailboxes' = [mailboxes EXCEPT ![id] = b] BY <1>2 DEF ReceiveDeliver
    <2> HIDE DEF b, t
    <2>9. Fits(b) BY <2>5, <2>6, <2>7 DEF Fits
    <2> QED BY <2>1, <2>8, <2>9, FitChange
  <1>3. CASE ReceiveWouldBlock(p, id, size) BY <1>3, KeepFit DEF ReceiveWouldBlock, Fail
  <1>4. CASE ReceiveNoMemory(p, id, size) BY <1>4, KeepFit DEF ReceiveNoMemory, Fail
  <1>5. CASE ReceiveBlock(p, id, size)
    <2> DEFINE b == [mailboxes[id] EXCEPT !.blockedReceiveList = Append(@, p)]
    <2>1. id \in Id BY <1>5 DEF ReceiveBlock, NothingThere, ReceiveValid
    <2>2. b.slots = mailboxes[id].slots /\ b.slotSize = mailboxes[id].slotSize
      BY <2>1 DEF TypeOK, Mailbox
    <2>3. mailboxes' = [mailboxes EXCEPT ![id] = b] BY <1>5 DEF ReceiveBlock
    <2> HIDE DEF b
    <2> QED BY <2>1, <2>2, <2>3, SameFit
  <1> QED BY <1>1, <1>2, <1>3, <1>4, <1>5 DEF ReceiveTurn

(* mailbox_free changes the status and the lists of a mailbox only. *)
LEMMA FreeFit ==
    ASSUME NEW p \in Proc, Inv1, SlotsFit,
           Free(p) \/ FreeSender(p) \/ FreeReceiver(p) \/ FreeReturn(p)
    PROVE  SlotsFit'
  <1> USE DEF Inv1
  <1>1. ASSUME NEW id \in Int, FreeInvalid(p, id) PROVE SlotsFit'
    BY <1>1, KeepFit DEF FreeInvalid, Fail
  <1>2. ASSUME NEW id \in Int, FreeRelease(p, id) PROVE SlotsFit'
    <2> DEFINE b == [mailboxes[id] EXCEPT !.status = "released"]
    <2>1. id \in Id BY <1>2 DEF FreeRelease
    <2>2. b.slots = mailboxes[id].slots /\ b.slotSize = mailboxes[id].slotSize
      BY <2>1 DEF TypeOK, Mailbox
    <2>3. mailboxes' = [mailboxes EXCEPT ![id] = b] BY <1>2 DEF FreeRelease
    <2> HIDE DEF b
    <2> QED BY <2>1, <2>2, <2>3, SameFit
  <1>3. CASE FreeSender(p)
    <2> DEFINE id == call[p].mb
               b == [mailboxes[id] EXCEPT !.blockedSendList = Rest(@)]
    <2>1. id \in Id BY <1>3 DEF FreeSender, Running, CallOK
    <2>2. b.slots = mailboxes[id].slots /\ b.slotSize = mailboxes[id].slotSize
      BY <2>1 DEF TypeOK, Mailbox
    <2>3. mailboxes' = [mailboxes EXCEPT ![id] = b] BY <1>3 DEF FreeSender
    <2> HIDE DEF b, id
    <2> QED BY <2>1, <2>2, <2>3, SameFit
  <1>4. CASE FreeReceiver(p)
    <2> DEFINE id == call[p].mb
               b == [mailboxes[id] EXCEPT !.blockedReceiveList = Rest(@)]
    <2>1. id \in Id BY <1>4 DEF FreeReceiver, SendersFreed, Running, CallOK
    <2>2. b.slots = mailboxes[id].slots /\ b.slotSize = mailboxes[id].slotSize
      BY <2>1 DEF TypeOK, Mailbox
    <2>3. mailboxes' = [mailboxes EXCEPT ![id] = b] BY <1>4 DEF FreeReceiver
    <2> HIDE DEF b, id
    <2> QED BY <2>1, <2>2, <2>3, SameFit
  <1>5. CASE FreeReturn(p) BY <1>5, KeepFit DEF FreeReturn
  <1>6. MboxArg \subseteq Int BY TableAssumption DEF MboxArg
  <1> QED BY <1>1, <1>2, <1>3, <1>4, <1>5, <1>6 DEF Free

LEMMA StepFit == Inv1 /\ SlotsFit /\ [Next]_vars => SlotsFit'
  <1> SUFFICES ASSUME Inv1, SlotsFit, [Next]_vars PROVE SlotsFit' OBVIOUS
  <1>1. CASE UNCHANGED vars BY <1>1, KeepFit DEF vars
  <1>2. ASSUME NEW p \in Proc, Create(p) PROVE SlotsFit' BY <1>2, CreateFit
  <1>3. ASSUME NEW p \in Proc, Send(p) PROVE SlotsFit'
    <2>1. PICK id \in MboxArg, m \in Msg, wait \in BOOLEAN : SendTurn(p, id, m, wait)
      BY <1>3 DEF Send
    <2>2. id \in Int BY TableAssumption DEF MboxArg
    <2> QED BY <2>1, <2>2, SendTurnFit
  <1>4. ASSUME NEW p \in Proc, Receive(p) PROVE SlotsFit'
    <2>1. PICK id \in MboxArg, size \in BufSizes, wait \in BOOLEAN :
              ReceiveTurn(p, id, size, wait)
      BY <1>4 DEF Receive
    <2>2. id \in Int /\ size \in Int BY TableAssumption, ArgumentAssumption DEF MboxArg
    <2> QED BY <2>1, <2>2, ReceiveTurnFit
  <1>5. ASSUME NEW p \in Proc, SendInterrupted(p) \/ ReceiveInterrupted(p) \/ Signal(p)
        PROVE  SlotsFit'
    BY <1>5, KeepFit DEF SendInterrupted, ReceiveInterrupted, Signal, Fail
  <1>6. ASSUME NEW p \in Proc, SendRetry(p) PROVE SlotsFit'
    <2>1. call[p].mb \in Int /\ call[p].msg \in Msg
      BY <1>6 DEF SendRetry, Running, Inv1, TypeOK, Call, CallOK
    <2>2. SendTurn(p, call[p].mb, call[p].msg, TRUE) BY <1>6 DEF SendRetry
    <2> QED BY <2>1, <2>2, SendTurnFit
  <1>7. ASSUME NEW p \in Proc, ReceiveRetry(p) PROVE SlotsFit'
    <2>1. call[p].mb \in Int /\ call[p].size \in Int BY DEF Inv1, TypeOK, Call
    <2>2. ReceiveTurn(p, call[p].mb, call[p].size, TRUE) BY <1>7 DEF ReceiveRetry
    <2> QED BY <2>1, <2>2, ReceiveTurnFit
  <1>8. ASSUME NEW p \in Proc,
               Free(p) \/ FreeSender(p) \/ FreeReceiver(p) \/ FreeReturn(p)
        PROVE  SlotsFit'
    BY <1>8, FreeFit
  <1> QED BY <1>1, <1>2, <1>3, <1>4, <1>5, <1>6, <1>7, <1>8 DEF Next, Start, Continue

LEMMA InitFit == Init => SlotsFit
  <1> SUFFICES ASSUME Init, NEW id \in Id, NEW i \in 1 .. Len(mailboxes[id].slots)
               PROVE  mailboxes[id].slots[i] = NoMsg
    BY DEF SlotsFit
  <1>1. CASE id < MaxDevices
    <2> DEFINE slots == IF id = 0 THEN 0 ELSE DeviceSlots
    <2>1. Allocated(slots) \in Nat BY TableAssumption DEF Allocated
    <2>2. mailboxes[id].slots = [j \in 1 .. Allocated(slots) |-> NoMsg]
      BY <1>1 DEF Init, DeviceMailbox, Initialised, EmptyMailbox
    <2> QED BY <2>1, <2>2
  <1>2. CASE ~(id < MaxDevices) BY <1>2 DEF Init, EmptyMailbox
  <1> QED BY <1>1, <1>2

(* No message is longer than the slot size of the mailbox it is in, even   *)
(* when mailbox_create makes an entry again with a smaller one: the copy   *)
(* in mailbox_receive stays inside a buffer of the slot size.              *)
THEOREM MessagesFit == Spec => []SlotsFit
  <1>1. Init => Inv1 /\ SlotsFit BY InitInv1, InitFit
  <1>2. Inv1 /\ SlotsFit /\ [Next]_vars => (Inv1 /\ SlotsFit)' BY StepInv1, StepFit
  <1> QED BY <1>1, <1>2, PTL DEF Spec
=============================================================================
