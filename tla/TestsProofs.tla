----------------------------- MODULE TestsProofs -----------------------------
(***************************************************************************)
(* The tests never leave a child behind, whoever is dispatched and however *)
(* their calls come out, and what they do is what Devices allows: all that *)
(* is proved of Devices holds while the tests run.                         *)
(***************************************************************************)
EXTENDS TestRuns, DevicesProofs, ProgramsProofs

(* the number of mailboxes that the children of test t count on *)
Need(t) == CHOOSE n \in Nat : AllSound(AllTests[t + 1], n)

(* how many of them there have to be when process p starts *)
Due(p) == IF p = 1 THEN 0 ELSE Need(test)

(* the instructions of process p *)
Listed(t, p) == {Program(t, p)[i] : i \in DOMAIN Program(t, p)}

RTypeOK ==
    /\ \E c \in Cases : test = c[1]
    /\ stage \in [Proc -> {"unborn", "live", "quit", "reaped"}]
    /\ parent \in [Proc -> Proc \union {NoParent}]
    /\ todo \in [Proc -> Seq(Instruction)]
    /\ \A p \in Users : todo[p] \in Seq(Listed(test, p))
    /\ made \in Seq(-1 .. MaxMbox - 1)

(* What p has still to do gets along with the mailboxes there are, waits   *)
(* for the children p has, and leaves none.                                *)
OnTrack(p) ==
    \E k, b, b2 \in Nat :
        /\ Leads(todo[p], Need(test), k, b, 0, b2)
        /\ Cardinality(Children(p)) <= k
        /\ stage[p] # "unborn" => b <= Len(made)
        /\ stage[p] = "unborn" => b <= Due(p)

(* a process inside a call is at that call in its program *)
Sleepy == {"send", "receive", "free", "device"}
InCall(p) == ~Outside(p) => todo[p] # <<>> /\ Instr(p).op \in Sleepy

(* the boot process starts the test, waits for it, and calls nothing *)
MainOnly ==
    /\ todo[Main] \in {EntryPoint, <<Wait>>, <<>>}
    /\ Outside(Main)
    /\ stage[Main] # "unborn"

RunInv ==
    /\ RTypeOK
    /\ MainOnly
    /\ \A p \in Proc : OnTrack(p) /\ InCall(p)
    /\ NoOrphans

-----------------------------------------------------------------------------
(* The programs *)

LEMMA NeedSound ==
    ASSUME NEW t \in 0 .. 35
    PROVE  Need(t) \in Nat /\ AllSound(AllTests[t + 1], Need(t))
  <1>1. \E n \in Nat : AllSound(AllTests[t + 1], n) BY AllTestsSound DEF TestSound
  <1> QED BY <1>1, Zenon DEF Need

LEMMA TestNumber == RTypeOK => test \in 0 .. 35
  <1> SUFFICES ASSUME RTypeOK PROVE test \in 0 .. 35 OBVIOUS
  <1>1. PICK c \in Cases : test = c[1] BY DEF RTypeOK
  <1>2. c \in (0 .. Len(AllTests) - 1) \X {"priority", "any"} BY CasesAssumption
  <1>3. Len(AllTests) = 36 BY AllTestsSound
  <1>4. c \in (0 .. 35) \X {"priority", "any"} BY <1>2, <1>3
  <1> QED BY <1>1, <1>4

LEMMA ProgramLeads ==
    ASSUME NEW t \in 0 .. 35, NEW p
    PROVE  \E b2 \in Nat :
               Leads(Program(t, p), Need(t), 0, IF p = 1 THEN 0 ELSE Need(t), 0, b2)
  <1> DEFINE s == AllTests[t + 1]
             n == Need(t)
  <1>1. n \in Nat /\ AllSound(s, n) BY NeedSound
  <1> HIDE DEF n
  <1>2. CASE p \in DOMAIN s
    <2>1. Program(t, p) = s[p] BY <1>2 DEF Program
    <2>2. Sound(s[p], n, IF p = 1 THEN 0 ELSE n) BY <1>1, <1>2 DEF AllSound
    <2> QED BY <2>1, <2>2 DEF Sound, n
  <1>3. CASE p \notin DOMAIN s
    <2>1. Program(t, p) = <<>> BY <1>3 DEF Program
    <2> DEFINE b == IF p = 1 THEN 0 ELSE n
    <2>2. b \in Nat BY <1>1
    <2> HIDE DEF b
    <2>3. Leads(<<>>, n, 0, b, 0, b) BY <1>1, <2>2, LeadsNone
    <2> QED BY <2>1, <2>2, <2>3 DEF b, n
  <1> QED BY <1>2, <1>3

LEMMA ProgramType ==
    ASSUME NEW t \in 0 .. 35, NEW p
    PROVE  /\ Program(t, p) \in Seq(Instruction)
           /\ Program(t, p) \in Seq(Listed(t, p))
           /\ Listed(t, p) \subseteq Instruction
  <1> DEFINE s == Program(t, p)
             S == Listed(t, p)
  <1>1. s \in Seq(Instruction) BY ProgramLeads DEF Leads
  <1>2. S = {s[i] : i \in DOMAIN s} BY DEF Listed
  <1> HIDE DEF s, S
  <1>3. DOMAIN s = 1 .. Len(s) /\ Len(s) \in Nat BY <1>1
  <1>4. s \in [1 .. Len(s) -> S] BY <1>1, <1>2, <1>3
  <1>5. s \in Seq(S) BY <1>3, <1>4
  <1>6. S \subseteq Instruction BY <1>1, <1>2, <1>3
  <1> QED BY <1>1, <1>5, <1>6 DEF s, S

LEMMA EntryPointSteps ==
    /\ Head(EntryPoint).op = "spawn" /\ Head(EntryPoint).kid = 1
    /\ Tail(EntryPoint) = <<Wait>>
    /\ Wait.op = "wait" /\ Tail(<<Wait>>) = <<>> /\ Head(<<Wait>>) = Wait
    /\ EntryPoint # <<>> /\ EntryPoint \in Seq(Instruction)
  <1> DEFINE x == Spawn(1, HIGHEST_PRIORITY)
             y == Wait
  <1>1. x \in Instruction /\ x.op = "spawn" /\ x.kid = 1
    BY SpawnType DEF HIGHEST_PRIORITY
  <1>2. y \in Instruction /\ y.op = "wait" BY WaitType DEF Wait
  <1>3. EntryPoint = <<x, y>> BY DEF EntryPoint
  <1> HIDE DEF x, y
  <1>4. /\ Head(<<x, y>>) = x /\ Tail(<<x, y>>) = <<y>> /\ Tail(<<y>>) = <<>>
        /\ Head(<<y>>) = y /\ <<x, y>> # <<>> /\ <<x, y>> \in Seq(Instruction)
    BY <1>1, <1>2
  <1> QED BY <1>1, <1>2, <1>3, <1>4 DEF y

LEMMA EntryPointLeads == \A n \in Nat : Leads(EntryPoint, n, 0, 0, 0, 0)
  <1> TAKE n \in Nat
  <1> DEFINE x == Spawn(1, HIGHEST_PRIORITY)
             y == Wait
  <1>1. x \in Instruction /\ x.op = "spawn" /\ x.kid = 1
    BY SpawnType DEF HIGHEST_PRIORITY
  <1>2. Leads(<<y>>, n, 1, 0, 0, 0) BY LeadsWait DEF Wait
  <1>3. EntryPoint = <<x, y>> BY DEF EntryPoint
  <1> HIDE DEF x, y
  <1>4. Does(x, n, 0, 0, 1, 0) BY <1>1 DEF Does
  <1>5. Leads(<<x>>, n, 0, 0, 1, 0) BY <1>1, <1>4, LeadsOne
  <1>6. Leads(<<x, y>>, n, 0, 0, 0, 0) BY <1>2, <1>5, LeadsTwo
  <1> QED BY <1>3, <1>6

(* Skip with the values that instructions have *)
LEMMA SkipTodo ==
    ASSUME NEW s \in Seq(Instruction), s # <<>>
    PROVE  /\ SubSeq(s, 0 + 1, Len(s)) = s
           /\ SubSeq(s, 1 + 1, Len(s)) = Tail(s)
  <1>1. SubSeq(s, 1, Len(s)) = s BY SubSeqFull
  <1>2. Tail(s) = SubSeq(s, 2, Len(s)) BY TailIsSubSeq
  <1> QED BY <1>1, <1>2

LEMMA ChildrenFinite ==
    \A p : IsFiniteSet(Children(p)) /\ Cardinality(Children(p)) \in Nat
  <1> TAKE p
  <1>1. Children(p) \in SUBSET Proc BY DEF Children
  <1>2. IsFiniteSet(Children(p)) BY <1>1, ProcessesAssumption, FS_Subset
  <1> QED BY <1>2, FS_CardinalityType

LEMMA FewerChildren ==
    ASSUME NEW p, Children(p)' \subseteq Children(p)
    PROVE  Cardinality(Children(p)') <= Cardinality(Children(p))
  BY ChildrenFinite, FS_Subset

-----------------------------------------------------------------------------
(* What a call does to the processes and to the program of its caller *)

OthersStay(p) == \A q \in Proc \ {p} : call'[q] = call[q] /\ waiting'[q] = waiting[q]

LEMMA TurnOwn ==
    ASSUME TypeOK, NEW p \in Proc, NEW q \in Proc \ {p}, NEW id, NEW m, NEW w,
           SendTurn(p, id, m, w) \/ ReceiveTurn(p, id, m, w)
    PROVE  call'[q] = call[q]
  BY DEF TypeOK, SendTurn, ReceiveTurn, SendInvalid, SendDeposit, SendWouldBlock,
         SendNoMemory, SendBlock, ReceiveInvalid, ReceiveDeliver,
         ReceiveWouldBlock, ReceiveNoMemory, ReceiveBlock, Fail, Return, Block

LEMMA ContinueOwn ==
    ASSUME TypeOK, NEW p \in Proc, NEW q \in Proc \ {p}, Continue(p)
    PROVE  call'[q] = call[q]
  <1>1. CASE SendRetry(p)
    <2>1. SendTurn(p, call[p].mb, call[p].msg, TRUE) BY <1>1 DEF SendRetry
    <2> QED BY <2>1, TurnOwn
  <1>2. CASE ReceiveRetry(p)
    <2>1. ReceiveTurn(p, call[p].mb, call[p].size, TRUE) BY <1>2 DEF ReceiveRetry
    <2> QED BY <2>1, TurnOwn
  <1>3. CASE SendInterrupted(p) \/ ReceiveInterrupted(p)
    BY <1>3 DEF SendInterrupted, ReceiveInterrupted, Fail, Return, TypeOK, Running,
                Outside, Idle, NoCall
  <1>4. CASE FreeSender(p) \/ FreeReceiver(p) \/ FreeReturn(p)
    BY <1>4 DEF FreeSender, FreeReceiver, FreeReturn, SendersFreed, Return, TypeOK,
                Running, Outside, Idle, NoCall
  <1> QED BY <1>1, <1>2, <1>3, <1>4 DEF Continue

LEMMA CreateResult ==
    ASSUME TypeOK, NEW p \in Proc, CreateCall(p)
    PROVE  /\ Outside(p) /\ Outside(p)' /\ Instr(p).op = "create" /\ todo[p] # <<>>
           /\ result'[p].code \in -1 .. MaxMbox - 1
           /\ OthersStay(p)
  <1> USE TableAssumption
  <1>1. Outside(p) /\ Instr(p).op = "create" /\ todo[p] # <<>> BY DEF CreateCall, At
  <1>2. \E code \in -1 .. MaxMbox - 1 : Return(p, code, NoMsg)
    <2>1. CASE CreateTableFull(p) BY <2>1 DEF CreateTableFull, Fail
    <2>2. CASE CreateMailbox(p, Instr(p).slots, Instr(p).size)
      BY <2>2 DEF CreateMailbox, TypeOK
    <2>3. CASE CreateNoMemory(p, Instr(p).slots, Instr(p).size)
      BY <2>3 DEF CreateNoMemory
    <2> QED BY <2>1, <2>2, <2>3 DEF CreateCall
  <1>3. PICK code \in -1 .. MaxMbox - 1 : Return(p, code, NoMsg) BY <1>2
  <1>4. waiting' = waiting BY DEF CreateCall, dvars
  <1>5. Outside(p)' BY <1>1, <1>3, <1>4 DEF Return, TypeOK, Outside, Idle
  <1>6. result'[p].code = code BY <1>3 DEF Return, TypeOK
  <1>7. OthersStay(p) BY <1>3, <1>4 DEF Return, TypeOK, OthersStay
  <1> QED BY <1>1, <1>3, <1>5, <1>6, <1>7

(* the caller is at the call in its program *)
LEMMA CallFacts ==
    ASSUME TypeOK, DTypeOK, NEW p \in Proc, InCall(p), KernelCall(p)
    PROVE  /\ OthersStay(p)
           /\ todo[p] # <<>>
           /\ CreateCall(p) \/ (Instr(p).op \in Sleepy /\ ~At(p, "create"))
  <1>1. CASE CreateCall(p) BY <1>1, CreateResult
  <1>2. CASE SendCall(p) \/ ReceiveCall(p)
    <2>1. /\ todo[p] # <<>> /\ Instr(p).op \in {"send", "receive"}
          /\ waiting' = waiting
      BY <1>2 DEF SendCall, ReceiveCall, At, dvars
    <2>2. \A q \in Proc \ {p} : call'[q] = call[q]
      BY <1>2, TurnOwn DEF SendCall, ReceiveCall
    <2> QED BY <2>1, <2>2 DEF OthersStay, At, Sleepy
  <1>3. CASE FreeCall(p)
    <2>1. /\ todo[p] # <<>> /\ Instr(p).op = "free" /\ waiting' = waiting
      BY <1>3 DEF FreeCall, At, dvars
    <2>2. \A q \in Proc \ {p} : call'[q] = call[q]
      BY <1>3 DEF FreeCall, FreeInvalid, FreeRelease, Fail, Return, TypeOK
    <2> QED BY <2>1, <2>2 DEF OthersStay, At, Sleepy
  <1>4. CASE DeviceCall(p)
    <2>1. /\ todo[p] # <<>> /\ Instr(p).op = "device" BY <1>4 DEF DeviceCall, At
    <2>2. CASE WaitDevice(p, Device0[Instr(p).name])
      <3>1. \A q \in Proc \ {p} : call'[q] = call[q]
        BY <2>2, TurnOwn DEF WaitDevice
      <3>2. \A q \in Proc \ {p} : waiting'[q] = waiting[q]
        BY <2>2 DEF WaitDevice, DTypeOK
      <3> QED BY <2>1, <3>1, <3>2 DEF OthersStay, At, Sleepy
    <2>3. CASE WaitUnknownDevice(p)
      BY <2>1, <2>3 DEF WaitUnknownDevice, vars, OthersStay, At, Sleepy
    <2> QED BY <1>4, <2>2, <2>3 DEF DeviceCall
  <1>5. CASE Resume(p)
    <2>1. ~Outside(p) /\ OthersStay(p)
      <3>1. CASE Continue(p) /\ UNCHANGED dvars
        <4>1. waiting' = waiting BY <3>1 DEF dvars
        <4>2. OthersStay(p) BY <3>1, <4>1, ContinueOwn DEF OthersStay
        <4>3. ~Outside(p)
          <5>1. \E op \in {"send", "receive", "free_send", "free_receive"} : Running(p, op)
            BY <3>1, Zenon DEF Continue, SendInterrupted, SendRetry,
               ReceiveInterrupted, ReceiveRetry, FreeSender, FreeReceiver,
               FreeReturn, SendersFreed
          <5>2. call[p].op # "none" BY <5>1 DEF Running
          <5> QED BY <5>2 DEF Outside, Idle, NoCall
        <4> QED BY <4>2, <4>3
      <3>2. CASE WaitDeviceReturn(p)
        BY <3>2 DEF WaitDeviceReturn, Outside, OthersStay, DTypeOK
      <3> QED BY <1>5, <3>1, <3>2 DEF Resume
    <2> QED BY <2>1 DEF InCall, At
  <1> QED BY <1>1, <1>2, <1>3, <1>4, <1>5 DEF KernelCall

-----------------------------------------------------------------------------
(* The calls of the tests are calls that Devices allows *)

RInv == DInv /\ RunInv

LEMMA RInvParts ==
    ASSUME RInv
    PROVE  /\ TypeOK /\ DTypeOK /\ RTypeOK /\ MainOnly /\ NoOrphans
           /\ \A p \in Proc : OnTrack(p) /\ InCall(p)
           /\ test \in 0 .. 35 /\ Need(test) \in Nat
  <1>1. TypeOK /\ DTypeOK /\ RTypeOK /\ MainOnly /\ NoOrphans BY DEF RInv, RunInv, DInv, Inv1
  <1>2. \A p \in Proc : OnTrack(p) /\ InCall(p) BY DEF RInv, RunInv
  <1>3. test \in 0 .. 35 BY <1>1, TestNumber
  <1> QED BY <1>1, <1>2, <1>3, NeedSound

(* the boot process calls nothing once the test runs *)
LEMMA MainCallsNothing ==
    ASSUME RInv PROVE ~KernelCall(Main)
  <1> SUFFICES ASSUME KernelCall(Main) PROVE FALSE OBVIOUS
  <1> USE MainAssumption
  <1>1. Outside(Main) /\ InCall(Main) BY RInvParts DEF MainOnly
  <1>2. todo[Main] # <<>> => Instr(Main).op \in {"spawn", "wait"}
    BY RInvParts, EntryPointSteps DEF MainOnly, Instr
  <1>3. /\ todo[Main] # <<>>
        /\ CreateCall(Main) \/ Instr(Main).op \in Sleepy
    BY <1>1, RInvParts, CallFacts
  <1>4. CreateCall(Main) => Instr(Main).op = "create" BY DEF CreateCall, At
  <1> QED BY <1>2, <1>3, <1>4 DEF Sleepy

LEMMA HeadIn ==
    ASSUME NEW S, NEW s \in Seq(S), s # <<>>
    PROVE  Head(s) \in S
  OBVIOUS

(* the instruction that p is at, and what it does *)
LEMMA InstrFacts ==
    ASSUME RInv, NEW p \in Proc, todo[p] # <<>>, stage[p] = "live"
    PROVE  /\ Instr(p) \in Instruction
           /\ \E k, b, b2, k1, b1 \in Nat :
                  /\ Does(Instr(p), Need(test), k, b, k1, b1)
                  /\ Leads(Tail(todo[p]), Need(test), k1, b1, 0, b2)
                  /\ Leads(todo[p], Need(test), k, b, 0, b2)
                  /\ Cardinality(Children(p)) <= k
                  /\ b <= Len(made)
  <1>1. PICK k, b, b2 \in Nat :
            /\ Leads(todo[p], Need(test), k, b, 0, b2)
            /\ Cardinality(Children(p)) <= k
            /\ stage[p] # "unborn" => b <= Len(made)
    BY RInvParts DEF OnTrack
  <1>2. \E k1, b1 \in Nat : /\ Does(Head(todo[p]), Need(test), k, b, k1, b1)
                            /\ Leads(Tail(todo[p]), Need(test), k1, b1, 0, b2)
    BY <1>1, LeadsOn
  <1>3. b <= Len(made) BY <1>1
  <1>4. todo[p] \in Seq(Instruction) BY RInvParts DEF RTypeOK
  <1>5. Head(todo[p]) \in Instruction BY <1>4, HeadIn
  <1> QED BY <1>1, <1>2, <1>3, <1>5 DEF Instr

(* the arguments are among those that the constants have *)
LEMMA Arguments ==
    ASSUME RInv, NEW p \in Users, todo[p] # <<>>, stage[p] = "live"
    PROVE  LET x == Instr(p)
           IN  /\ x.op = "create" => x.slots \in SlotCounts /\ x.size \in SlotSizes
               /\ x.op = "send" => x.msg \in Msg /\ Size[x.msg] = x.msg[2]
               /\ x.op = "receive" => x.size \in BufSizes
               /\ x.op = "device" => Device0[x.name] \in Device
               /\ x.op \in {"send", "receive", "free"} => MboxId(x.mb) \in MboxArg
               /\ x.wait \in BOOLEAN
  <1> DEFINE x == Instr(p)
  <1>0. p \in Proc BY DEF Users
  <1>1. PICK c \in Cases : test = c[1] BY RInvParts DEF RTypeOK
  <1>2. x \in Listed(test, p)
    <2>1. todo[p] \in Seq(Listed(test, p)) BY RInvParts DEF RTypeOK
    <2> QED BY <2>1, HeadIn DEF Instr
  <1>3. PICK i \in DOMAIN Program(c[1], p) : x = Program(c[1], p)[i]
    BY <1>1, <1>2 DEF Listed
  <1>4. /\ x.op = "create" => x.slots \in SlotCounts /\ x.size \in SlotSizes
        /\ x.op = "send" => x.msg \in Msg /\ Size[x.msg] = x.msg[2]
        /\ x.op = "receive" => x.size \in BufSizes
        /\ x.op = "device" => Device0[x.name] \in Device
    <2> DEFINE y == Program(c[1], p)[i]
    <2>1. LET instr == y
          IN  /\ instr.op = "create" => instr.slots \in SlotCounts /\ instr.size \in SlotSizes
              /\ instr.op = "send" => instr.msg \in Msg /\ Size[instr.msg] = instr.msg[2]
              /\ instr.op = "receive" => instr.size \in BufSizes
              /\ instr.op = "device" => Device0[instr.name] \in 0 .. MaxDevices - 1
      BY <1>0, CallsAssumption, Zenon
    <2>2. x = y BY <1>3
    <2> HIDE DEF x, y
    <2> QED BY <2>1, <2>2 DEF Device
  <1>5. x \in Instruction /\ \E k, b, k1, b1 \in Nat :
            Does(x, Need(test), k, b, k1, b1) /\ b <= Len(made)
    BY <1>0, InstrFacts
  <1>6. x.wait \in BOOLEAN /\ x.mb \in Nat
    <2> HIDE DEF x
    <2> QED BY <1>5 DEF Instruction
  <1>7. x.op \in {"send", "receive", "free"} => MboxId(x.mb) \in MboxArg
    <2> SUFFICES ASSUME x.op \in {"send", "receive", "free"}
                 PROVE  MboxId(x.mb) \in MboxArg
      OBVIOUS
    <2>1. PICK k, b, k1, b1 \in Nat :
              Does(x, Need(test), k, b, k1, b1) /\ b <= Len(made)
      BY <1>5
    <2>2. x.mb \in 0 .. b \union {LargeId} BY <2>1 DEF Does
    <2> HIDE DEF x
    <2>3. made \in Seq(-1 .. MaxMbox - 1) BY RInvParts DEF RTypeOK
    <2>4. CASE x.mb = NegativeId
      BY <2>4, TableAssumption DEF MboxId, MboxArg
    <2>5. CASE x.mb = LargeId
      BY <2>5, TableAssumption DEF MboxId, MboxArg, LargeId, NegativeId
    <2>6. CASE x.mb # NegativeId /\ x.mb # LargeId
      <3>1. x.mb \in 1 .. Len(made) BY <2>1, <2>2, <2>3, <2>6 DEF NegativeId
      <3>2. made[x.mb] \in -1 .. MaxMbox - 1 BY <2>3, <3>1, ElementOfSeq
      <3> QED BY <2>6, <3>2, TableAssumption DEF MboxId, MboxArg
    <2> QED BY <2>4, <2>5, <2>6
  <1> HIDE DEF x
  <1>8. /\ x.op = "create" => x.slots \in SlotCounts /\ x.size \in SlotSizes
        /\ x.op = "send" => x.msg \in Msg /\ Size[x.msg] = x.msg[2]
        /\ x.op = "receive" => x.size \in BufSizes
        /\ x.op = "device" => Device0[x.name] \in Device
        /\ x.op \in {"send", "receive", "free"} => MboxId(x.mb) \in MboxArg
        /\ x.wait \in BOOLEAN
    BY <1>4, <1>6, <1>7
  <1> QED BY <1>8 DEF x

LEMMA CallAllowed ==
    ASSUME RInv, NEW p \in Proc, phase = "up", stage[p] = "live", KernelCall(p)
    PROVE  DNext
  <1>1. p \in Users BY MainCallsNothing DEF Users
  <1>2. InCall(p) /\ TypeOK /\ DTypeOK BY RInvParts
  <1>3. todo[p] # <<>> BY <1>2, CallFacts
  <1> DEFINE x == Instr(p)
  <1>4. /\ x.op = "create" => x.slots \in SlotCounts /\ x.size \in SlotSizes
        /\ x.op = "send" => x.msg \in Msg
        /\ x.op = "receive" => x.size \in BufSizes
        /\ x.op = "device" => Device0[x.name] \in Device
        /\ x.op \in {"send", "receive", "free"} => MboxId(x.mb) \in MboxArg
        /\ x.wait \in BOOLEAN
    BY <1>1, <1>3, Arguments
  <1>5. CASE CreateCall(p)
    <2>1. x.op = "create" /\ Outside(p) BY <1>5 DEF CreateCall, At
    <2>2. Create(p)
      BY <1>4, <1>5, <2>1 DEF CreateCall, Create, Outside
    <2>3. UNCHANGED dvars BY <1>5 DEF CreateCall
    <2> QED BY <1>1, <2>1, <2>2, <2>3 DEF DNext, UserStep, MailboxStep, Start
  <1>6. CASE SendCall(p)
    <2>1. x.op = "send" /\ Outside(p) BY <1>6 DEF SendCall, At
    <2>2. SendTurn(p, MboxId(x.mb), x.msg, x.wait) BY <1>6 DEF SendCall
    <2>3. Send(p) BY <1>4, <2>1, <2>2 DEF Send, Outside
    <2>4. UNCHANGED dvars BY <1>6 DEF SendCall
    <2> QED BY <1>1, <2>1, <2>3, <2>4 DEF DNext, UserStep, MailboxStep, Start
  <1>7. CASE ReceiveCall(p)
    <2>1. x.op = "receive" /\ Outside(p) BY <1>7 DEF ReceiveCall, At
    <2>2. ReceiveTurn(p, MboxId(x.mb), x.size, x.wait) BY <1>7 DEF ReceiveCall
    <2>3. Receive(p) BY <1>4, <2>1, <2>2 DEF Receive, Outside
    <2>4. UNCHANGED dvars BY <1>7 DEF ReceiveCall
    <2> QED BY <1>1, <2>1, <2>3, <2>4 DEF DNext, UserStep, MailboxStep, Start
  <1>8. CASE FreeCall(p)
    <2>1. x.op = "free" /\ Outside(p) BY <1>8 DEF FreeCall, At
    <2>2. FreeInvalid(p, MboxId(x.mb)) \/ FreeRelease(p, MboxId(x.mb))
      BY <1>8 DEF FreeCall
    <2>3. Free(p) BY <1>4, <2>1, <2>2 DEF Free, Outside
    <2>4. UNCHANGED dvars BY <1>8 DEF FreeCall
    <2> QED BY <1>1, <2>1, <2>3, <2>4 DEF DNext, UserStep, MailboxStep, Start
  <1>9. CASE DeviceCall(p)
    <2>1. x.op = "device" BY <1>9 DEF DeviceCall, At
    <2>2. WaitDevice(p, Device0[x.name]) \/ WaitUnknownDevice(p)
      BY <1>9 DEF DeviceCall
    <2> QED BY <1>1, <1>4, <2>1, <2>2 DEF DNext, UserStep
  <1>10. CASE Resume(p)
    BY <1>1, <1>10 DEF Resume, DNext, UserStep, MailboxStep
  <1> QED BY <1>5, <1>6, <1>7, <1>8, <1>9, <1>10 DEF KernelCall

LEMMA RStepDevices == RInv /\ [RNext]_runvars => [DNext]_allvars
  <1> SUFFICES ASSUME RInv, [RNext]_runvars PROVE [DNext]_allvars OBVIOUS
  <1>1. CASE UNCHANGED runvars BY <1>1 DEF runvars
  <1>2. CASE Boot BY <1>2 DEF Boot, DNext
  <1>3. ASSUME NEW p \in Proc, Run(p) PROVE [DNext]_allvars
    <2>1. phase = "up" /\ stage[p] = "live" BY <1>3 DEF Run, Dispatched, CanRun
    <2>2. CASE KernelCall(p) BY <2>1, <2>2, CallAllowed
    <2>3. CASE KSpawn(p) BY <2>3 DEF KSpawn
    <2>4. CASE KWait(p) BY <2>4 DEF KWait
    <2>5. CASE KExit(p) BY <2>5 DEF KExit
    <2> QED BY <1>3, <2>2, <2>3, <2>4, <2>5 DEF Run
  <1> QED BY <1>1, <1>2, <1>3 DEF RNext

-----------------------------------------------------------------------------
(* The invariant, one kind of step at a time *)

(* what stays of OnTrack when nothing happens to q itself *)
LEMMA KeepTrack ==
    ASSUME NEW q, OnTrack(q), test' = test, todo'[q] = todo[q],
           Children(q)' \subseteq Children(q),
           stage'[q] = "unborn" <=> stage[q] = "unborn",
           Len(made) <= Len(made'), Len(made) \in Nat, Len(made') \in Nat
    PROVE  OnTrack(q)'
  <1>1. PICK k, b, b2 \in Nat :
            /\ Leads(todo[q], Need(test), k, b, 0, b2)
            /\ Cardinality(Children(q)) <= k
            /\ stage[q] # "unborn" => b <= Len(made)
            /\ stage[q] = "unborn" => b <= Due(q)
    BY DEF OnTrack
  <1>2. Leads(todo'[q], Need(test'), k, b, 0, b2) BY <1>1
  <1>3. Cardinality(Children(q)') <= k
    <2>1. Cardinality(Children(q)') <= Cardinality(Children(q)) BY FewerChildren
    <2>2. Cardinality(Children(q)) \in Nat /\ Cardinality(Children(q)') \in Nat
      BY ChildrenFinite, FS_Subset, FS_CardinalityType
    <2> QED BY <1>1, <2>1, <2>2
  <1>4. stage'[q] # "unborn" => b <= Len(made') BY <1>1
  <1>5. stage'[q] = "unborn" => b <= Due(q)' BY <1>1 DEF Due
  <1> QED BY <1>2, <1>3, <1>4, <1>5 DEF OnTrack

LEMMA MadeLength == RTypeOK => Len(made) \in Nat
  BY DEF RTypeOK

LEMMA KeepRun ==
    ASSUME RInv, UNCHANGED rvars, \A q \in Proc : Outside(q) => Outside(q)'
    PROVE  RunInv'
  <1>0. TypeOK /\ DTypeOK /\ RTypeOK /\ MainOnly /\ NoOrphans BY RInvParts
  <1>1. RTypeOK'
    <2>1. /\ test' = test /\ stage' = stage /\ parent' = parent /\ todo' = todo
          /\ made' = made
      BY DEF rvars
    <2>2. \A q \in Users : todo'[q] \in Seq(Listed(test', q)) BY <1>0, <2>1 DEF RTypeOK
    <2> QED BY <1>0, <2>1, <2>2 DEF RTypeOK
  <1>2. MainOnly' BY <1>0, MainAssumption DEF MainOnly, rvars
  <1>3. NoOrphans' BY <1>0 DEF NoOrphans, rvars, Children
  <1>4. ASSUME NEW q \in Proc PROVE OnTrack(q)' /\ InCall(q)'
    <2>1. OnTrack(q) /\ InCall(q) BY RInvParts
    <2>2. InCall(q)' BY <1>4, <2>1 DEF InCall, rvars, Instr
    <2>3. OnTrack(q)'
      <3>1. Children(q)' \subseteq Children(q) BY DEF rvars, Children
      <3>2. Len(made) \in Nat BY <1>0, MadeLength
      <3>3. test' = test /\ todo' = todo /\ stage' = stage /\ made' = made BY DEF rvars
      <3> QED BY <2>1, <3>1, <3>2, <3>3, KeepTrack
    <2> QED BY <2>2, <2>3
  <1> QED BY <1>1, <1>2, <1>3, <1>4 DEF RunInv

LEMMA BootRun == RInv /\ Boot => RunInv'
  <1> SUFFICES ASSUME RInv, Boot PROVE RunInv' OBVIOUS
  <1>0. TypeOK /\ UNCHANGED rvars BY RInvParts DEF Boot
  <1>1. ASSUME NEW q \in Proc, Outside(q) PROVE Outside(q)'
    BY <1>0, <1>1 DEF Boot, BootCreate, BootFinish, CreateMailbox, CreateNoMemory,
                      Return, TypeOK, Outside, Idle
  <1> QED BY <1>0, <1>1, KeepRun

(* p goes on behind its instruction *)
LEMMA SkipOne ==
    ASSUME RTypeOK, NEW p \in Proc, todo[p] # <<>>, Skip(p, 1)
    PROVE  todo' = [todo EXCEPT ![p] = Tail(todo[p])]
  <1>1. todo[p] \in Seq(Instruction) BY DEF RTypeOK
  <1>2. SubSeq(todo[p], 1 + 1, Len(todo[p])) = Tail(todo[p]) BY <1>1, SkipTodo
  <1>3. 1 # Exit BY DEF Exit
  <1> QED BY <1>2, <1>3 DEF Skip

LEMMA TailTyped ==
    ASSUME NEW S, NEW s \in Seq(S), s # <<>>
    PROVE  Tail(s) \in Seq(S)
  OBVIOUS

(* what todo may be afterwards *)
LEMMA TodoTyped ==
    ASSUME RTypeOK, NEW p \in Proc, test' = test,
           NEW s, todo' = [todo EXCEPT ![p] = s],
           s \in {todo[p], <<>>} \/ (todo[p] # <<>> /\ s = Tail(todo[p]))
    PROVE  /\ todo' \in [Proc -> Seq(Instruction)]
           /\ \A q \in Users : todo'[q] \in Seq(Listed(test', q))
           /\ todo'[p] = s
           /\ \A q \in Proc \ {p} : todo'[q] = todo[q]
  <1>1. todo \in [Proc -> Seq(Instruction)] BY DEF RTypeOK
  <1>2. ASSUME NEW S, todo[p] \in Seq(S) PROVE s \in Seq(S)
    <2>1. CASE s = todo[p] BY <1>2, <2>1
    <2>2. CASE s = <<>> BY <2>2
    <2>3. CASE todo[p] # <<>> /\ s = Tail(todo[p]) BY <1>2, <2>3, TailTyped
    <2> QED BY <2>1, <2>2, <2>3
  <1>3. todo' \in [Proc -> Seq(Instruction)] BY <1>1, <1>2
  <1>4. todo'[p] = s /\ \A q \in Proc \ {p} : todo'[q] = todo[q] BY <1>1
  <1>5. ASSUME NEW q \in Users PROVE todo'[q] \in Seq(Listed(test', q))
    <2>1. todo[q] \in Seq(Listed(test, q)) /\ q \in Proc BY DEF RTypeOK, Users
    <2> QED BY <1>2, <1>4, <2>1
  <1> QED BY <1>3, <1>4, <1>5

(* the boot process goes on from the spawn to the wait, and to its end *)
LEMMA MainTail ==
    ASSUME MainOnly, todo[Main] # <<>>
    PROVE  Tail(todo[Main]) \in {EntryPoint, <<Wait>>, <<>>}
  BY EntryPointSteps DEF MainOnly

LEMMA SpawnRun ==
    ASSUME RInv, NEW p \in Proc, stage[p] = "live", KSpawn(p)
    PROVE  RunInv'
  <1>0. /\ TypeOK /\ DTypeOK /\ RTypeOK /\ MainOnly /\ NoOrphans
        /\ Outside(p) /\ todo[p] # <<>> /\ Instr(p).op = "spawn"
    BY RInvParts DEF KSpawn, At
  <1> DEFINE c == Instr(p).kid
  <1>1. /\ stage' = [stage EXCEPT ![c] = "live"]
        /\ parent' = [parent EXCEPT ![c] = p]
        /\ call' = call /\ waiting' = waiting
        /\ test' = test /\ made' = made
        /\ Skip(p, 1)
    BY DEF KSpawn, allvars, vars, dvars
  <1> HIDE DEF c
  <1>2. todo' = [todo EXCEPT ![p] = Tail(todo[p])] BY <1>0, <1>1, SkipOne
  <1>3. /\ todo' \in [Proc -> Seq(Instruction)]
        /\ \A q \in Users : todo'[q] \in Seq(Listed(test', q))
        /\ todo'[p] = Tail(todo[p])
        /\ \A q \in Proc \ {p} : todo'[q] = todo[q]
    BY <1>0, <1>1, <1>2, TodoTyped
  <1>4. \A q : q # c => stage'[q] = stage[q] /\ parent'[q] = parent[q]
    BY <1>0, <1>1 DEF RTypeOK
  <1>5. c \in Proc => stage'[c] = "live" /\ parent'[c] = p
    BY <1>0, <1>1 DEF RTypeOK
  <1>6. RTypeOK' BY <1>0, <1>1, <1>3 DEF RTypeOK
  <1>7. MainOnly'
    <2>1. todo'[Main] \in {EntryPoint, <<Wait>>, <<>>}
      BY <1>0, <1>3, MainTail, MainAssumption DEF MainOnly
    <2>2. stage'[Main] # "unborn" BY <1>0, <1>4, <1>5, MainAssumption DEF MainOnly
    <2> QED BY <1>0, <1>1, <2>1, <2>2 DEF MainOnly, Outside, Idle
  <1>8. \A q \in Proc \ {p} : Children(q)' \subseteq Children(q)
    BY <1>4, <1>5 DEF Children
  <1>9. Children(p)' \subseteq Children(p) \union {c}
    BY <1>4, <1>5 DEF Children
  <1>10. NoOrphans'
    <2> SUFFICES ASSUME NEW q \in Proc, stage'[q] \in {"quit", "reaped"}
                 PROVE  Children(q)' = {}
      BY DEF NoOrphans
    <2>1. q # c /\ stage'[q] = stage[q] BY <1>4, <1>5
    <2>2. q # p BY <2>1
    <2>3. Children(q) = {} BY <1>0, <2>1 DEF NoOrphans
    <2> QED BY <1>8, <2>2, <2>3
  <1>11. PICK k, b, b2, k1, b1 \in Nat :
             /\ Does(Instr(p), Need(test), k, b, k1, b1)
             /\ Leads(Tail(todo[p]), Need(test), k1, b1, 0, b2)
             /\ Cardinality(Children(p)) <= k
             /\ b <= Len(made)
    BY <1>0, InstrFacts
  <1>12. k1 = k + 1 /\ b1 = b /\ (c # 1 => Need(test) <= b)
    BY <1>0, <1>11, Zenon DEF Does, c
  <1>13. OnTrack(p)'
    <2>1. Leads(todo'[p], Need(test'), k1, b1, 0, b2) BY <1>1, <1>3, <1>11
    <2>2. Cardinality(Children(p)') <= k1
      <3> DEFINE S == Children(p)
                 S1 == Children(p)'
      <3>1. IsFiniteSet(S) /\ Cardinality(S) \in Nat BY ChildrenFinite
      <3>2. /\ IsFiniteSet(S \union {c})
            /\ Cardinality(S \union {c}) \in {Cardinality(S), Cardinality(S) + 1}
        BY <3>1, FS_AddElement
      <3>3. S1 \subseteq S \union {c} BY <1>9
      <3>4. Cardinality(S) <= k BY <1>11
      <3> HIDE DEF S, S1
      <3>5. Cardinality(S1) <= Cardinality(S \union {c}) /\ Cardinality(S1) \in Nat
        BY <3>2, <3>3, FS_Subset, FS_CardinalityType
      <3>6. Cardinality(S1) <= k1 BY <1>12, <3>1, <3>2, <3>4, <3>5
      <3> QED BY <3>6 DEF S1
    <2>3. stage'[p] # "unborn" BY <1>4, <1>5
    <2>4. b1 <= Len(made') BY <1>1, <1>11, <1>12
    <2> QED BY <2>1, <2>2, <2>3, <2>4 DEF OnTrack
  <1>14. ASSUME NEW q \in Proc, q # p PROVE OnTrack(q)'
    <2>0. OnTrack(q) /\ todo'[q] = todo[q] /\ Children(q)' \subseteq Children(q)
      BY <1>3, <1>8, <1>14, RInvParts
    <2>1. Len(made) \in Nat BY <1>0, MadeLength
    <2>2. CASE stage'[q] = stage[q] BY <1>1, <2>0, <2>1, <2>2, KeepTrack
    <2>3. CASE stage'[q] # stage[q]
      <3>1. q = c /\ stage'[q] = "live" BY <1>4, <1>5, <2>3
      <3>2. PICK kq, bq, bq2 \in Nat :
                /\ Leads(todo[q], Need(test), kq, bq, 0, bq2)
                /\ Cardinality(Children(q)) <= kq
                /\ stage[q] # "unborn" => bq <= Len(made)
                /\ stage[q] = "unborn" => bq <= Due(q)
        BY <2>0 DEF OnTrack
      <3>3. Leads(todo'[q], Need(test'), kq, bq, 0, bq2) BY <1>1, <2>0, <3>2
      <3>4. Cardinality(Children(q)') <= kq
        <4>1. Cardinality(Children(q)') <= Cardinality(Children(q)) BY <2>0, FewerChildren
        <4>2. /\ Cardinality(Children(q)) \in Nat
              /\ Cardinality(Children(q)') \in Nat
          BY <2>0, ChildrenFinite, FS_Subset, FS_CardinalityType
        <4> QED BY <3>2, <4>1, <4>2
      <3>5. bq <= Len(made')
        <4>1. Need(test) \in Nat BY RInvParts
        <4>2. Due(q) <= Len(made) /\ Due(q) \in Nat
          BY <1>11, <1>12, <2>1, <3>1, <4>1 DEF Due
        <4> QED BY <1>1, <2>1, <3>2, <4>2
      <3> QED BY <3>1, <3>3, <3>4, <3>5 DEF OnTrack
    <2> QED BY <2>2, <2>3
  <1>15. ASSUME NEW q \in Proc PROVE InCall(q)'
    <2>1. InCall(q) BY RInvParts
    <2>2. Outside(q)' <=> Outside(q) BY <1>1 DEF Outside, Idle
    <2>3. CASE q = p BY <1>0, <2>2, <2>3 DEF InCall
    <2>4. CASE q # p BY <1>3, <2>1, <2>2, <2>4 DEF InCall, Instr
    <2> QED BY <2>3, <2>4
  <1> QED BY <1>6, <1>7, <1>10, <1>13, <1>14, <1>15 DEF RunInv

LEMMA WaitRun ==
    ASSUME RInv, NEW p \in Proc, stage[p] = "live", KWait(p)
    PROVE  RunInv'
  <1>0. /\ TypeOK /\ DTypeOK /\ RTypeOK /\ MainOnly /\ NoOrphans
        /\ Outside(p) /\ todo[p] # <<>> /\ Instr(p).op = "wait"
    BY RInvParts DEF KWait, At
  <1>1. /\ \/ Children(p) = {} /\ stage' = stage
           \/ \E c \in QuitChildren(p) : stage' = [stage EXCEPT ![c] = "reaped"]
        /\ parent' = parent
        /\ call' = call /\ waiting' = waiting
        /\ test' = test /\ made' = made
        /\ Skip(p, 1)
    BY DEF KWait, allvars, vars, dvars
  <1>2. todo' = [todo EXCEPT ![p] = Tail(todo[p])] BY <1>0, <1>1, SkipOne
  <1>3. /\ todo' \in [Proc -> Seq(Instruction)]
        /\ \A q \in Users : todo'[q] \in Seq(Listed(test', q))
        /\ todo'[p] = Tail(todo[p])
        /\ \A q \in Proc \ {p} : todo'[q] = todo[q]
    BY <1>0, <1>1, <1>2, TodoTyped
  (* every process keeps its stage, or has quit and is reaped *)
  <1>4. ASSUME NEW q \in Proc
        PROVE  \/ stage'[q] = stage[q]
               \/ stage[q] = "quit" /\ stage'[q] = "reaped"
    BY <1>0, <1>1 DEF RTypeOK, QuitChildren
  <1>5. stage' \in [Proc -> {"unborn", "live", "quit", "reaped"}]
    BY <1>0, <1>1 DEF RTypeOK
  <1>6. RTypeOK' BY <1>0, <1>1, <1>3, <1>5 DEF RTypeOK
  <1>7. MainOnly'
    <2>1. todo'[Main] \in {EntryPoint, <<Wait>>, <<>>}
      BY <1>0, <1>3, MainTail, MainAssumption DEF MainOnly
    <2>2. stage'[Main] # "unborn" BY <1>0, <1>4, MainAssumption DEF MainOnly
    <2> QED BY <1>0, <1>1, <2>1, <2>2 DEF MainOnly, Outside, Idle
  <1>8. \A q : Children(q)' \subseteq Children(q)
    BY <1>1, <1>4 DEF Children
  <1>9. NoOrphans'
    <2> SUFFICES ASSUME NEW q \in Proc, stage'[q] \in {"quit", "reaped"}
                 PROVE  Children(q)' = {}
      BY DEF NoOrphans
    <2>1. stage[q] \in {"quit", "reaped"} BY <1>4
    <2>2. Children(q) = {} BY <1>0, <2>1 DEF NoOrphans
    <2> QED BY <1>8, <2>2
  <1>10. PICK k, b, b2, k1, b1 \in Nat :
             /\ Does(Instr(p), Need(test), k, b, k1, b1)
             /\ Leads(Tail(todo[p]), Need(test), k1, b1, 0, b2)
             /\ Cardinality(Children(p)) <= k
             /\ b <= Len(made)
    BY <1>0, InstrFacts
  <1>11. (k = k1 + 1 \/ (k = 0 /\ k1 = 0)) /\ b1 = b
    BY <1>0, <1>10, Zenon DEF Does
  <1>12. OnTrack(p)'
    <2>1. Leads(todo'[p], Need(test'), k1, b1, 0, b2) BY <1>1, <1>3, <1>10
    <2>2. Cardinality(Children(p)') <= k1
      <3> DEFINE S == Children(p)
                 S1 == Children(p)'
      <3>1. IsFiniteSet(S) /\ Cardinality(S) \in Nat BY ChildrenFinite
      <3>2. S1 \subseteq S BY <1>8
      <3>3. Cardinality(S) <= k BY <1>10
      <3>4. S = {} \/ \E c \in S : S1 \subseteq S \ {c}
        <4>1. CASE Children(p) = {} BY <4>1
        <4>2. ASSUME NEW c \in QuitChildren(p), stage' = [stage EXCEPT ![c] = "reaped"]
              PROVE  \E d \in S : S1 \subseteq S \ {d}
          <5>1. c \in S /\ c \in Proc BY DEF QuitChildren, Children
          <5>2. stage'[c] = "reaped" BY <1>0, <4>2, <5>1 DEF RTypeOK
          <5>3. c \notin S1 BY <5>2 DEF Children
          <5> QED BY <3>2, <5>1, <5>3
        <4> QED BY <1>1, <4>1, <4>2
      <3> HIDE DEF S, S1
      <3>5. CASE S = {}
        <4>1. S1 = {} BY <3>2, <3>5
        <4>2. Cardinality(S1) = 0 BY <4>1, FS_EmptySet
        <4>3. Cardinality(S1) <= k1 BY <4>2
        <4> QED BY <4>3 DEF S1
      <3>6. CASE \E c \in S : S1 \subseteq S \ {c}
        <4>1. PICK c \in S : S1 \subseteq S \ {c} BY <3>6
        <4>2. IsFiniteSet(S \ {c}) /\ Cardinality(S \ {c}) = Cardinality(S) - 1
          BY <3>1, FS_RemoveElement
        <4>3. Cardinality(S1) <= Cardinality(S \ {c}) /\ Cardinality(S1) \in Nat
          BY <4>1, <4>2, FS_Subset, FS_CardinalityType
        <4>4. Cardinality(S1) <= k1 BY <1>11, <3>1, <3>3, <4>2, <4>3
        <4> QED BY <4>4 DEF S1
      <3> QED BY <3>4, <3>5, <3>6
    <2>3. stage'[p] # "unborn" BY <1>4
    <2>4. b1 <= Len(made') BY <1>1, <1>10, <1>11
    <2> QED BY <2>1, <2>2, <2>3, <2>4 DEF OnTrack
  <1>13. ASSUME NEW q \in Proc, q # p PROVE OnTrack(q)'
    <2>0. OnTrack(q) /\ todo'[q] = todo[q] /\ Children(q)' \subseteq Children(q)
      BY <1>3, <1>8, <1>13, RInvParts
    <2>1. Len(made) \in Nat BY <1>0, MadeLength
    <2>2. stage'[q] = "unborn" <=> stage[q] = "unborn" BY <1>4
    <2> QED BY <1>1, <2>0, <2>1, <2>2, KeepTrack
  <1>14. ASSUME NEW q \in Proc PROVE InCall(q)'
    <2>1. InCall(q) BY RInvParts
    <2>2. Outside(q)' <=> Outside(q) BY <1>1 DEF Outside, Idle
    <2>3. CASE q = p BY <1>0, <2>2, <2>3 DEF InCall
    <2>4. CASE q # p BY <1>3, <2>1, <2>2, <2>4 DEF InCall, Instr
    <2> QED BY <2>3, <2>4
  <1> QED BY <1>6, <1>7, <1>9, <1>12, <1>13, <1>14 DEF RunInv

LEMMA ExitRun ==
    ASSUME RInv, NEW p \in Proc, stage[p] = "live", KExit(p)
    PROVE  RunInv'
  <1>0. /\ TypeOK /\ DTypeOK /\ RTypeOK /\ MainOnly /\ NoOrphans
        /\ Outside(p) /\ todo[p] = <<>>
    BY RInvParts DEF KExit
  <1>1. /\ stage' = [stage EXCEPT ![p] = "quit"]
        /\ parent' = parent /\ todo' = todo
        /\ call' = call /\ waiting' = waiting
        /\ test' = test /\ made' = made
    BY DEF KExit, allvars, vars, dvars
  <1>2. stage'[p] = "quit" /\ \A q : q # p => stage'[q] = stage[q]
    BY <1>0, <1>1 DEF RTypeOK
  <1>3. RTypeOK' BY <1>0, <1>1 DEF RTypeOK
  <1>4. MainOnly'
    BY <1>0, <1>1, <1>2, MainAssumption DEF MainOnly, Outside, Idle
  <1>5. \A q : Children(q)' \subseteq Children(q)
    BY <1>1, <1>2 DEF Children
  (* its program is over, so it has waited for all its children *)
  <1>6. Children(p) = {}
    <2>1. PICK k, b, b2 \in Nat :
              /\ Leads(todo[p], Need(test), k, b, 0, b2)
              /\ Cardinality(Children(p)) <= k
      BY RInvParts DEF OnTrack
    <2>2. Leads(<<>>, Need(test), k, b, 0, b2) BY <1>0, <2>1
    <2>3. k = 0
      <3>1. PICK K \in [1 .. Len(<<>>) + 1 -> Nat] : K[1] = k /\ K[Len(<<>>) + 1] = 0
        BY <2>2 DEF Leads
      <3>2. Len(<<>>) + 1 = 1 OBVIOUS
      <3> QED BY <3>1, <3>2
    <2>4. Cardinality(Children(p)) = 0 BY <2>1, <2>3, ChildrenFinite
    <2> QED BY <2>4, ChildrenFinite, FS_EmptySet
  <1>7. NoOrphans'
    <2> SUFFICES ASSUME NEW q \in Proc, stage'[q] \in {"quit", "reaped"}
                 PROVE  Children(q)' = {}
      BY DEF NoOrphans
    <2>1. Children(q) = {} BY <1>0, <1>2, <1>6 DEF NoOrphans
    <2> QED BY <1>5, <2>1
  <1>8. ASSUME NEW q \in Proc PROVE OnTrack(q)' /\ InCall(q)'
    <2>1. OnTrack(q) /\ InCall(q) /\ Len(made) \in Nat BY <1>0, MadeLength, RInvParts
    <2>2. stage'[q] = "unborn" <=> stage[q] = "unborn" BY <1>2
    <2>3. OnTrack(q)' BY <1>1, <1>5, <2>1, <2>2, KeepTrack
    <2>4. InCall(q)' BY <1>1, <2>1 DEF InCall, Instr, Outside, Idle
    <2> QED BY <2>3, <2>4
  <1> QED BY <1>3, <1>4, <1>7, <1>8 DEF RunInv

LEMMA CallRun ==
    ASSUME RInv, NEW p \in Proc, stage[p] = "live", KernelCall(p)
    PROVE  RunInv'
  <1>0. /\ TypeOK /\ DTypeOK /\ RTypeOK /\ MainOnly /\ NoOrphans /\ InCall(p)
        /\ Len(made) \in Nat
    BY RInvParts, MadeLength
  <1>1. /\ OthersStay(p) /\ todo[p] # <<>>
        /\ CreateCall(p) \/ (Instr(p).op \in Sleepy /\ ~At(p, "create"))
    BY <1>0, CallFacts
  <1>2. p # Main BY MainCallsNothing
  <1> DEFINE code == result'[p].code
             n == IF Passed(p) THEN Instr(p).ok ELSE Instr(p).no
  <1>3. /\ test' = test /\ stage' = stage /\ parent' = parent
        /\ made' = IF At(p, "create") THEN Append(made, code) ELSE made
        /\ IF Outside(p)' THEN Skip(p, n) ELSE UNCHANGED todo
    BY DEF KernelCall, Proceed
  <1>4. n \in {Instr(p).ok, Instr(p).no} OBVIOUS
  <1> HIDE DEF n
  <1>5. CreateCall(p) => /\ Outside(p)' /\ Instr(p).op = "create" /\ At(p, "create")
                         /\ code \in -1 .. MaxMbox - 1
    BY <1>0, CreateResult DEF At
  <1> HIDE DEF code
  <1>6. /\ made' \in Seq(-1 .. MaxMbox - 1)
        /\ Len(made') = IF CreateCall(p) THEN Len(made) + 1 ELSE Len(made)
    <2> DEFINE S == -1 .. MaxMbox - 1
    <2>1. made \in Seq(S) BY <1>0 DEF RTypeOK
    <2>2. CreateCall(p) => code \in S BY <1>5
    <2> HIDE DEF S
    <2>3. CASE CreateCall(p)
      <3>1. made' = Append(made, code) BY <1>3, <1>5, <2>3
      <3>2. made' \in Seq(S) /\ Len(made') = Len(made) + 1 BY <2>1, <2>2, <2>3, <3>1
      <3> QED BY <2>3, <3>2 DEF S
    <2>4. CASE ~CreateCall(p)
      <3>1. made' = made BY <1>1, <1>3, <2>4
      <3> QED BY <2>1, <2>4, <3>1 DEF S
    <2> QED BY <2>3, <2>4
  <1>7. PICK k, b, b2, k1, b1 \in Nat :
            /\ Does(Instr(p), Need(test), k, b, k1, b1)
            /\ Leads(Tail(todo[p]), Need(test), k1, b1, 0, b2)
            /\ Leads(todo[p], Need(test), k, b, 0, b2)
            /\ Cardinality(Children(p)) <= k
            /\ b <= Len(made)
    BY <1>1, InstrFacts
  <1>8. Instr(p).op \notin {"spawn", "wait"}
    BY <1>1, <1>5 DEF Sleepy
  <1>9. /\ n \in {0, 1, Exit}
        /\ n = Exit => k = 0
        /\ k1 = k
        /\ b1 = IF Instr(p).op = "create" THEN b + 1 ELSE b
    <2> DEFINE x == Instr(p)
    <2>1. x.op \notin {"spawn", "wait"} /\ n \in {x.ok, x.no} BY <1>4, <1>8
    <2>2. Does(x, Need(test), k, b, k1, b1) BY <1>7
    <2> HIDE DEF x
    <2>3. /\ {x.ok, x.no} \subseteq {0, 1, Exit}
          /\ Exit \in {x.ok, x.no} => k = 0
          /\ k1 = k
          /\ b1 = IF x.op = "create" THEN b + 1 ELSE b
      BY <2>1, <2>2, Zenon DEF Does
    <2>4. /\ n \in {0, 1, Exit}
          /\ n = Exit => k = 0
          /\ k1 = k
          /\ b1 = IF x.op = "create" THEN b + 1 ELSE b
      BY <2>1, <2>3
    <2> QED BY <2>4 DEF x
  <1>10. b <= Len(made') /\ b1 <= Len(made')
    BY <1>0, <1>1, <1>5, <1>6, <1>7, <1>9 DEF Sleepy
  (* the program repeats the instruction, goes on behind it, or ends *)
  <1>11. PICK s : /\ todo' = [todo EXCEPT ![p] = s]
                  /\ \/ s = todo[p]
                     \/ s = Tail(todo[p])
                     \/ s = <<>> /\ k = 0
                  /\ ~Outside(p)' => s = todo[p]
    <2>1. CASE ~Outside(p)'
      <3>1. todo' = [todo EXCEPT ![p] = todo[p]] BY <1>0, <1>3, <2>1 DEF RTypeOK
      <3> QED BY <2>1, <3>1
    <2>2. CASE Outside(p)'
      <3>1. Skip(p, n) BY <1>3, <2>2
      <3>2. /\ SubSeq(todo[p], 0 + 1, Len(todo[p])) = todo[p]
            /\ SubSeq(todo[p], 1 + 1, Len(todo[p])) = Tail(todo[p])
        BY <1>0, <1>1, SkipTodo DEF RTypeOK
      <3>3. 0 # Exit /\ 1 # Exit BY DEF Exit
      <3>4. CASE n = 0
        <4>1. todo' = [todo EXCEPT ![p] = todo[p]] BY <3>1, <3>2, <3>3, <3>4 DEF Skip
        <4> QED BY <2>2, <4>1
      <3>5. CASE n = 1
        <4>1. todo' = [todo EXCEPT ![p] = Tail(todo[p])]
          BY <3>1, <3>2, <3>3, <3>5 DEF Skip
        <4> QED BY <2>2, <4>1
      <3>6. CASE n = Exit
        <4>1. todo' = [todo EXCEPT ![p] = <<>>] BY <3>1, <3>6 DEF Skip
        <4> QED BY <1>9, <2>2, <3>6, <4>1
      <3> QED BY <1>9, <3>4, <3>5, <3>6
    <2> QED BY <2>1, <2>2
  <1>12. /\ todo' \in [Proc -> Seq(Instruction)]
         /\ \A q \in Users : todo'[q] \in Seq(Listed(test', q))
         /\ todo'[p] = s
         /\ \A q \in Proc \ {p} : todo'[q] = todo[q]
    BY <1>0, <1>1, <1>3, <1>11, TodoTyped
  <1>13. RTypeOK' BY <1>0, <1>3, <1>6, <1>12 DEF RTypeOK
  <1>14. \A q \in Proc \ {p} : Outside(q)' <=> Outside(q)
    BY <1>1 DEF OthersStay, Outside, Idle
  <1>15. MainOnly'
    BY <1>0, <1>2, <1>3, <1>12, <1>14, MainAssumption DEF MainOnly
  <1>16. \A q : Children(q)' = Children(q) BY <1>3 DEF Children
  <1>17. NoOrphans' BY <1>0, <1>3, <1>16 DEF NoOrphans
  <1>18. OnTrack(p)'
    <2>1. \E kq, bq, bq2 \in Nat :
              /\ Leads(s, Need(test), kq, bq, 0, bq2)
              /\ Cardinality(Children(p)) <= kq
              /\ bq <= Len(made')
      <3>1. CASE s = todo[p] BY <1>7, <1>10, <3>1
      <3>2. CASE s = Tail(todo[p]) BY <1>7, <1>9, <1>10, <3>2
      <3>3. CASE s = <<>> /\ k = 0
        <4>1. Need(test) \in Nat BY RInvParts
        <4>2. Leads(<<>>, Need(test), k, b, k, b) BY <4>1, LeadsNone
        <4> QED BY <1>7, <1>10, <3>3, <4>2
      <3> QED BY <1>11, <3>1, <3>2, <3>3
    <2>2. stage'[p] # "unborn" BY <1>3
    <2> QED BY <1>3, <1>12, <1>16, <2>1, <2>2 DEF OnTrack
  <1>19. ASSUME NEW q \in Proc, q # p PROVE OnTrack(q)'
    <2>1. OnTrack(q) BY RInvParts
    <2>2. Len(made) <= Len(made') /\ Len(made') \in Nat BY <1>0, <1>6
    <2> QED BY <1>0, <1>3, <1>12, <1>16, <1>19, <2>1, <2>2, KeepTrack
  <1>20. InCall(p)'
    <2> SUFFICES ASSUME ~Outside(p)'
                 PROVE  todo'[p] # <<>> /\ Head(todo'[p]).op \in Sleepy
      BY DEF InCall, Instr
    <2>1. ~CreateCall(p) BY <1>5
    <2> QED BY <1>1, <1>11, <1>12, <2>1 DEF Instr
  <1>21. ASSUME NEW q \in Proc, q # p PROVE InCall(q)'
    <2>1. InCall(q) BY RInvParts
    <2> QED BY <1>12, <1>14, <1>21, <2>1 DEF InCall, Instr
  <1> QED BY <1>13, <1>15, <1>17, <1>18, <1>19, <1>20, <1>21 DEF RunInv

-----------------------------------------------------------------------------
(* The invariant holds *)

LEMMA RInitRun == RInit => RInv
  <1> SUFFICES ASSUME RInit PROVE RInv OBVIOUS
  <1> USE MainAssumption
  <1>0. DInit BY DEF RInit
  <1>1. DInv BY <1>0, DInitDInv
  <1>2. PICK c \in Cases : test = c[1] BY DEF RInit
  <1>3. test \in 0 .. 35
    <2>1. c \in (0 .. Len(AllTests) - 1) \X {"priority", "any"} BY CasesAssumption
    <2>2. Len(AllTests) = 36 BY AllTestsSound
    <2>3. c \in (0 .. 35) \X {"priority", "any"} BY <2>1, <2>2
    <2> QED BY <1>2, <2>3
  <1>4. /\ stage = [p \in Proc |-> IF p = Main THEN "live" ELSE "unborn"]
        /\ parent = [p \in Proc |-> NoParent]
        /\ todo = [p \in Proc |-> IF p = Main THEN EntryPoint ELSE Program(test, p)]
        /\ made = <<>>
    BY DEF RInit
  <1>5. todo[Main] = EntryPoint /\ \A p \in Users : todo[p] = Program(test, p)
    BY <1>4 DEF Users
  <1>6. \A p \in Proc : Outside(p) BY <1>0 DEF DInit, Outside, Idle
  <1>7. RTypeOK
    <2>1. \A p : /\ Program(test, p) \in Seq(Instruction)
                 /\ Program(test, p) \in Seq(Listed(test, p))
      BY <1>3, ProgramType
    <2>2. todo \in [Proc -> Seq(Instruction)] BY <1>4, <2>1, EntryPointSteps
    <2>3. \A p \in Users : todo[p] \in Seq(Listed(test, p)) BY <1>5, <2>1
    <2>4. made \in Seq(-1 .. MaxMbox - 1) BY <1>4
    <2>5. stage \in [Proc -> {"unborn", "live", "quit", "reaped"}] BY <1>4
    <2>6. parent \in [Proc -> Proc \union {NoParent}] BY <1>4
    <2> QED BY <1>2, <2>2, <2>3, <2>4, <2>5, <2>6 DEF RTypeOK
  <1>8. MainOnly BY <1>4, <1>5, <1>6 DEF MainOnly
  <1>9. NoOrphans
    <2>1. \A p \in Proc : stage[p] \notin {"quit", "reaped"} BY <1>4
    <2> QED BY <2>1 DEF NoOrphans
  <1>10. ASSUME NEW p \in Proc PROVE OnTrack(p)
    <2>1. Children(p) = {}
      <3>1. \A d \in Proc : ~(parent[d] = p /\ stage[d] \in {"live", "quit"})
        <4> SUFFICES ASSUME NEW d \in Proc, parent[d] = p PROVE FALSE
          OBVIOUS
        <4>1. p = NoParent BY <1>4
        <4>2. p \in Nat BY ProcAssumption
        <4> QED BY <4>1, <4>2 DEF NoParent
      <3> QED BY <3>1 DEF Children
    <2>2. Cardinality(Children(p)) = 0 BY <2>1, FS_EmptySet
    <2>3. CASE p = Main
      <3>1. Need(test) \in Nat BY <1>3, NeedSound
      <3>2. Leads(todo[p], Need(test), 0, 0, 0, 0) BY <1>5, <2>3, <3>1, EntryPointLeads
      <3>3. stage[p] = "live" /\ Len(made) = 0 BY <1>4, <2>3
      <3> QED BY <2>2, <3>2, <3>3 DEF OnTrack
    <2>4. CASE p # Main
      <3> DEFINE b == IF p = 1 THEN 0 ELSE Need(test)
      <3>1. PICK b2 \in Nat : Leads(Program(test, p), Need(test), 0, b, 0, b2)
        BY <1>3, ProgramLeads
      <3>2. b \in Nat /\ b = Due(p) BY <1>3, NeedSound DEF Due
      <3>3. todo[p] = Program(test, p) /\ stage[p] = "unborn" BY <1>4, <2>4
      <3> HIDE DEF b
      <3>4. Leads(todo[p], Need(test), 0, b, 0, b2) BY <3>1, <3>3
      <3> QED BY <2>2, <3>2, <3>3, <3>4 DEF OnTrack
    <2> QED BY <2>3, <2>4
  <1>11. \A p \in Proc : InCall(p) BY <1>6 DEF InCall
  <1> QED BY <1>1, <1>7, <1>8, <1>9, <1>10, <1>11 DEF RInv, RunInv

LEMMA RStepRun == RInv /\ [RNext]_runvars => RInv'
  <1> SUFFICES ASSUME RInv, [RNext]_runvars PROVE RInv' OBVIOUS
  <1>1. DInv'
    <2>1. DInv /\ [DNext]_allvars BY RStepDevices DEF RInv
    <2> QED BY <2>1, DStepDInv
  <1>2. CASE UNCHANGED runvars
    <2>1. UNCHANGED rvars /\ call' = call /\ waiting' = waiting
      BY <1>2 DEF runvars, allvars, vars, dvars
    <2>2. \A q \in Proc : Outside(q) => Outside(q)' BY <2>1 DEF Outside, Idle
    <2>3. RunInv' BY <2>1, <2>2, KeepRun
    <2> QED BY <1>1, <2>3 DEF RInv
  <1>3. CASE Boot BY <1>1, <1>3, BootRun DEF RInv
  <1>4. ASSUME NEW p \in Proc, Run(p) PROVE RunInv'
    <2>1. stage[p] = "live" BY <1>4 DEF Run, Dispatched, CanRun
    <2>2. CASE KernelCall(p) BY <2>1, <2>2, CallRun
    <2>3. CASE KSpawn(p) BY <2>1, <2>3, SpawnRun
    <2>4. CASE KWait(p) BY <2>1, <2>4, WaitRun
    <2>5. CASE KExit(p) BY <2>1, <2>5, ExitRun
    <2> QED BY <1>4, <2>2, <2>3, <2>4, <2>5 DEF Run
  <1> QED BY <1>1, <1>2, <1>3, <1>4 DEF RNext, RInv

LEMMA RInvHolds == RSpec => []RInv
  <1> QED BY RInitRun, RStepRun, PTL DEF RSpec

-----------------------------------------------------------------------------
(* The theorems *)

(* No test of the 36 leaves a process behind: whoever is dispatched and    *)
(* however the calls come out, no process exits while a child of it lives  *)
(* or has not been waited for.                                             *)
THEOREM TestsLeaveNoOrphans == RSpec => []NoOrphans
  <1>1. RInv => NoOrphans BY DEF RInv, RunInv
  <1> QED BY <1>1, RInvHolds, PTL

(* What the tests do on the kernel is behaviour that Devices allows, with  *)
(* arguments that the constants of Devices have: whatever holds of Devices *)
(* holds while a test runs.                                                *)
THEOREM TestsRunOnDevices == RSpec => DSpec
  <1>1. RInit => DInit BY DEF RInit
  <1>2. RInv /\ [RNext]_runvars => [DNext]_allvars BY RStepDevices
  <1> QED BY <1>1, <1>2, RInvHolds, PTL DEF RSpec, DSpec

(* In every test, whatever its checks find, the messages of a mailbox are  *)
(* kept in order, none exceeds its slot, and whoever waits can be found.   *)
THEOREM TestsKeepMailboxes ==
    RSpec => [](SlotsPrefix /\ SlotsFit /\ WaitersBlocked /\ BlockedListed)
  <1> QED BY TestsRunOnDevices, DevicesKeepOrder, DevicesKeepFit, DevicesKeepWaiters,
             DevicesKeepListed, PTL

(* No test leaves a waiter on a mailbox that it has freed, but while the   *)
(* mailbox_free is still at work.                                          *)
THEOREM TestsKeepDrained == RSpec => []ReleasedDrained
  <1> QED BY TestsRunOnDevices, DevicesKeepDrained, PTL

(* While a test runs the scheduler's test for deadlock sees a process      *)
(* that is inside wait_device, and none that has left it.                  *)
THEOREM TestsSeeIo == RSpec => []CheckIoTruthful
  <1> QED BY TestsRunOnDevices, CheckIoTellsTruth, PTL
=============================================================================
