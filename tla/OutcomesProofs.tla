--------------------------- MODULE OutcomesProofs ---------------------------
(***************************************************************************)
(* How tests come out, for every value of the constants that leaves them   *)
(* room: those of NeverEnd do not end, whoever is dispatched.  Each has a  *)
(* process that never gets past a certain instruction, and the processes   *)
(* it descends from wait for it.                                           *)
(***************************************************************************)
EXTENDS TestsProofs

-----------------------------------------------------------------------------
(* The tests of NeverEnd                                                   *)

(* who never gets past an instruction of his, and which one it is *)
Sleeper(t) ==
    IF t \in {5, 16, 29} THEN 1 ELSE IF t \in {11, 12, 24} THEN 3 ELSE 2

Bar(t) ==
    IF t = 11 THEN 6
    ELSE IF t = 12 THEN 2
    ELSE IF t = 16 THEN 8 + MAXSLOTS
    ELSE IF t = 29 THEN 7
    ELSE 1

(* the mailboxes that the first program makes before anything else, their  *)
(* slots, and the size of a slot                                           *)
BoxCount(t) ==
    IF t \in {11, 12, 16, 29} THEN 2 ELSE IF t \in {21, 22, 24} THEN 1 ELSE 0
BoxSlots(t, k) ==
    IF t = 16 /\ k = 1 THEN MAXSLOTS
    ELSE IF t \in {21, 22} \/ (t \in {11, 12, 29} /\ k = 2) THEN 0
    ELSE 5
BoxSize(t) == IF t = 16 THEN 32 ELSE IF t = 24 THEN MAX_MESSAGE ELSE 50

(* the sleeper and those it descends from, who spawns them, and with which *)
(* instruction                                                             *)
Kids(t) == {1, Sleeper(t)} \union (IF t = 24 THEN {2} ELSE {})

Father(t, c) == IF c = 1 THEN Main ELSE IF t = 24 /\ c = 3 THEN 2 ELSE 1

Birth(t, c) ==
    IF t \in {11, 12} /\ c = 3 THEN 4
    ELSE IF t = 24 /\ c = 3 THEN 6
    ELSE IF t \in {21, 22, 24} /\ c = 2 THEN 2
    ELSE 1

-----------------------------------------------------------------------------
(* What these programs have in common *)

Reached(t, p, i) == p = Sleeper(t) => i <= Bar(t)

(* instruction x of process p, its i-th, spawns nobody out of place, makes *)
(* nothing but those mailboxes, and neither frees nor empties them         *)
InShape(t, p, i, x) ==
    Reached(t, p, i) =>
        /\ x.op = "spawn" /\ x.kid \in Kids(t) =>
               p = Father(t, x.kid) /\ i = Birth(t, x.kid)
        /\ x.op = "create" =>
               /\ p = 1 /\ i \in 1 .. BoxCount(t) /\ x.ok = 1
               /\ x.slots = BoxSlots(t, i) /\ x.size = BoxSize(t)
        /\ Exit \in {x.ok, x.no} => x.op = "create"
        /\ x.op # "free"
        /\ x.op = "receive" /\ t = 24 => x.size < BoxSize(t)

(* the instruction that nobody gets past: it waits for what never comes,   *)
(* or it repeats itself                                                    *)
Hard(t, x) ==
    IF t \in {5, 13, 14, 32} THEN x.op = "device"
    ELSE IF t = 16 THEN x.op = "send" /\ x.ok = 0 /\ x.no = 0
    ELSE x.op = "send" /\ x.mb = BoxCount(t) /\ x.wait /\ x.msg[2] \in 0 .. BoxSize(t)

(* one of the five messages that fill the mailbox of test 24 *)
Fills(t, x) ==
    x.op = "send" /\ x.mb = 1 /\ x.wait /\ x.msg[2] \in 1 .. BoxSize(t)

Shaped(t) ==
    /\ \A p \in Users : \A i \in 1 .. Len(Program(t, p)) :
           InShape(t, p, i, Program(t, p)[i])
    /\ \A k \in 1 .. BoxCount(t) :
           k <= Len(Program(t, 1)) /\ Program(t, 1)[k].op = "create"
    /\ \A c \in Kids(t) \ {1} :
           /\ Birth(t, c) \in 1 .. Len(Program(t, Father(t, c)))
           /\ Program(t, Father(t, c))[Birth(t, c)].op = "spawn"
           /\ Program(t, Father(t, c))[Birth(t, c)].kid = c
    /\ Bar(t) \in 1 .. Len(Program(t, Sleeper(t)))
    /\ Hard(t, Program(t, Sleeper(t))[Bar(t)])
    /\ t = 24 => \A i \in 1 .. 5 :
           i <= Len(Program(t, 2)) /\ Fills(t, Program(t, 2)[i])

-----------------------------------------------------------------------------
(* Where a process is in its program *)

CodeOf(t, p) == IF p = Main THEN EntryPoint ELSE Program(t, p)
Code(p) == CodeOf(test, p)
Done(p) == Len(Code(p)) - Len(todo[p])

Located(p) ==
    /\ Done(p) \in 0 .. Len(Code(p))
    /\ \A i \in 1 .. Len(todo[p]) : todo[p][i] = Code(p)[Done(p) + i]
    /\ stage[p] = "unborn" => Done(p) = 0
    /\ stage[p] \in {"quit", "reaped"} => todo[p] = <<>>

(* the processes that matter are born when their place has been passed *)
Kin(c) ==
    IF Done(Father(test, c)) < Birth(test, c)
    THEN stage[c] = "unborn"
    ELSE stage[c] # "unborn" /\ parent[c] = Father(test, c)

-----------------------------------------------------------------------------
HeldBack == Done(Sleeper(test)) < Bar(test)

(* nothing is freed *)
Unfreed ==
    /\ \A p \in Proc : ~signal[p] /\ call[p].op \in {"none", "send", "receive"}
    /\ \A id \in Id : mailboxes[id].status # "released"

(* a pending call is that of the instruction where the process is *)
Matches(p) ==
    /\ waiting[p] # NoDevice =>
         /\ call[p].op = "receive" /\ call[p].mb \in Device /\ call[p].size = IntSize
         /\ Instr(p).op = "device"
    /\ call[p].op # "none" /\ waiting[p] = NoDevice =>
         /\ Instr(p).op = call[p].op /\ Instr(p).wait
         /\ Instr(p).mb \in {NegativeId, LargeId} \union 1 .. Len(made)
         /\ call[p].mb = MboxId(Instr(p).mb)
         /\ call[p].op = "send" => call[p].msg = Instr(p).msg
         /\ call[p].op = "receive" => call[p].size = Instr(p).size

Booting ==
    phase = "booting" =>
        /\ made = <<>>
        /\ \A h \in Device : h < nextDevice => deviceMbox[h] # -1
        /\ \A p \in Proc : Done(p) = 0 /\ call[p].op = "none"

DevicesQuiet ==
    \A h \in Device :
        /\ deviceMbox[h] = h
        /\ mailboxes[h].status = "inuse" /\ mailboxes[h].slotSize = IntSize
        /\ FullSlots(h) = {}

BoxesMade ==
    /\ Len(made) <= BoxCount(test) /\ Len(made) <= Done(1)
    /\ Len(made) < BoxCount(test) => Done(1) = Len(made)
    /\ nextMailboxId = MaxDevices + Len(made)
    /\ \A k \in 1 .. Len(made) :
        LET id == MaxDevices + k - 1
        IN  /\ made[k] = id
            /\ mailboxes[id].slotSize = BoxSize(test)
            /\ Len(mailboxes[id].slots) = Allocated(BoxSlots(test, k))

(* in test 24 process 2 fills the slots, one by one, and nobody empties    *)
(* them                                                                    *)
Filled ==
    test = 24 => \A i \in 1 .. 5 :
        Done(2) >= i => Len(made) > 0 /\ mailboxes[MaxDevices].slots[i] # NoMsg

Core ==
    /\ HeldBack /\ Unfreed /\ Booting
    /\ \A p \in Proc : Matches(p)
    /\ phase = "up" => DevicesQuiet /\ BoxesMade /\ Filled

BInv ==
    /\ \A p \in Proc : Located(p)
    /\ test \in NeverEnd =>
        /\ \A c \in Kids(test) : Kin(c)
        /\ phase # "stopped" => Core
        /\ ~Ended

-----------------------------------------------------------------------------
(* A process moves through its program *)

LEMMA Codes ==
    ASSUME RInv, NEW p \in Proc
    PROVE  /\ Code(p) \in Seq(Instruction) /\ Len(Code(p)) \in Nat
           /\ todo[p] \in Seq(Instruction) /\ Len(todo[p]) \in Nat
           /\ Done(p) \in Int
  <1>1. Program(test, p) \in Seq(Instruction) BY RInvParts, ProgramType
  <1>2. Code(p) \in Seq(Instruction) BY <1>1, EntryPointSteps DEF Code, CodeOf
  <1>3. todo[p] \in Seq(Instruction) BY RInvParts DEF RTypeOK
  <1>4. Len(Code(p)) \in Nat /\ Len(todo[p]) \in Nat BY <1>2, <1>3
  <1> QED BY <1>2, <1>3, <1>4 DEF Done

(* the instruction p is at *)
LEMMA Here ==
    ASSUME RInv, NEW p \in Proc, Located(p), todo[p] # <<>>
    PROVE  /\ Done(p) + 1 \in 1 .. Len(Code(p))
           /\ Instr(p) = Code(p)[Done(p) + 1]
           /\ Instr(p) \in Instruction
  <1>1. /\ todo[p] \in Seq(Instruction) /\ Len(todo[p]) \in Nat
        /\ Len(Code(p)) \in Nat /\ Done(p) \in Int
    BY Codes
  <1>2. Len(todo[p]) # 0 BY <1>1
  <1>3. Head(todo[p]) = todo[p][1] /\ Head(todo[p]) \in Instruction BY <1>1
  <1>4. todo[p][1] = Code(p)[Done(p) + 1] BY <1>1, <1>2 DEF Located
  <1>5. Done(p) + 1 \in 1 .. Len(Code(p)) BY <1>1, <1>2 DEF Located, Done
  <1> QED BY <1>3, <1>4, <1>5 DEF Instr

LEMMA TailDone ==
    ASSUME NEW S, NEW s \in Seq(S), s # <<>>
    PROVE  /\ Len(Tail(s)) = Len(s) - 1
           /\ \A i \in 1 .. Len(Tail(s)) : Tail(s)[i] = s[i + 1]
  OBVIOUS

(* the steps of a program: it stays, goes on behind an instruction, or ends *)
Stays(p) == todo'[p] = todo[p]
Passes(p) == todo[p] # <<>> /\ todo'[p] = Tail(todo[p])
Leaves(p) == todo'[p] = <<>>

LEMMA DoneMoves ==
    ASSUME RInv, NEW p \in Proc, Located(p), test' = test
    PROVE  /\ Stays(p) => Done(p)' = Done(p)
           /\ Passes(p) => Done(p)' = Done(p) + 1
           /\ Leaves(p) => Done(p)' = Len(Code(p))
  <1>1. /\ todo[p] \in Seq(Instruction) /\ Len(todo[p]) \in Nat
        /\ Len(Code(p)) \in Nat
    BY Codes
  <1>2. Code(p)' = Code(p) BY DEF Code, CodeOf
  <1>3. Passes(p) => Len(todo'[p]) = Len(todo[p]) - 1 BY <1>1, TailDone DEF Passes
  <1>4. Leaves(p) => Len(todo'[p]) = 0 BY DEF Leaves
  <1>5. Done(p)' = Len(Code(p)) - Len(todo'[p]) BY <1>2 DEF Done
  <1>6. Stays(p) => Len(todo'[p]) = Len(todo[p]) BY DEF Stays
  <1>7. Done(p) = Len(Code(p)) - Len(todo[p]) BY DEF Done
  <1>8. ASSUME Stays(p) PROVE Done(p)' = Done(p) BY <1>5, <1>6, <1>7, <1>8
  <1>9. ASSUME Passes(p) PROVE Done(p)' = Done(p) + 1
    <2>1. Len(todo'[p]) = Len(todo[p]) - 1 BY <1>3, <1>9
    <2> QED BY <1>1, <1>5, <1>7, <2>1
  <1>10. ASSUME Leaves(p) PROVE Done(p)' = Len(Code(p))
    <2>1. Len(todo'[p]) = 0 BY <1>4, <1>10
    <2> QED BY <1>1, <1>5, <2>1
  <1> QED BY <1>8, <1>9, <1>10

LEMMA LocatedMoves ==
    ASSUME RInv, NEW p \in Proc, Located(p), test' = test,
           Stays(p) \/ Passes(p) \/ Leaves(p),
           stage'[p] = "unborn" => stage[p] = "unborn" /\ Stays(p),
           stage'[p] \in {"quit", "reaped"} =>
               stage[p] \in {"quit", "reaped"} \/ todo[p] = <<>>,
           stage[p] \in {"quit", "reaped"} => Stays(p)
    PROVE  Located(p)'
  <1>1. /\ todo[p] \in Seq(Instruction) /\ Len(todo[p]) \in Nat
        /\ Len(Code(p)) \in Nat /\ Done(p) \in 0 .. Len(Code(p))
        /\ \A i \in 1 .. Len(todo[p]) : todo[p][i] = Code(p)[Done(p) + i]
        /\ stage[p] = "unborn" => Done(p) = 0
        /\ stage[p] \in {"quit", "reaped"} => todo[p] = <<>>
        /\ Done(p) = Len(Code(p)) - Len(todo[p])
    BY Codes DEF Located, Done
  <1>2. Code(p)' = Code(p) BY DEF Code, CodeOf
  <1>3. CASE Stays(p)
    <2>1. Done(p)' = Done(p) /\ todo'[p] = todo[p] BY <1>3, DoneMoves DEF Stays
    <2> QED BY <1>1, <1>2, <2>1 DEF Located
  <1>4. CASE Passes(p)
    <2>1. /\ Done(p)' = Done(p) + 1 /\ todo[p] # <<>> /\ todo'[p] = Tail(todo[p])
      BY <1>4, DoneMoves DEF Passes
    <2>2. /\ Len(todo'[p]) = Len(todo[p]) - 1 /\ Len(todo[p]) # 0
          /\ \A i \in 1 .. Len(todo'[p]) : todo'[p][i] = todo[p][i + 1]
      BY <1>1, <2>1, TailDone
    <2>3. \A i \in 1 .. Len(todo'[p]) : todo'[p][i] = Code(p)[Done(p) + 1 + i]
      <3> TAKE i \in 1 .. Len(todo'[p])
      <3>1. i + 1 \in 1 .. Len(todo[p]) BY <1>1, <2>2
      <3>2. todo[p][i + 1] = Code(p)[Done(p) + (i + 1)] BY <1>1, <3>1
      <3>3. Done(p) + (i + 1) = Done(p) + 1 + i BY <1>1, <3>1
      <3> QED BY <2>2, <3>2, <3>3
    <2>4. Done(p) + 1 \in 0 .. Len(Code(p)) BY <1>1, <2>2
    <2>5. stage'[p] = "unborn" => Done(p)' = 0
      <3> SUFFICES ASSUME stage'[p] = "unborn" PROVE FALSE OBVIOUS
      <3>1. Len(todo'[p]) = Len(todo[p]) BY DEF Stays
      <3> QED BY <1>1, <2>2, <3>1
    <2>6. stage'[p] \notin {"quit", "reaped"}
      <3> SUFFICES ASSUME stage'[p] \in {"quit", "reaped"} PROVE FALSE OBVIOUS
      <3>1. todo[p] = <<>> BY <1>1
      <3> QED BY <2>1, <3>1
    <2> QED BY <1>2, <2>1, <2>3, <2>4, <2>5, <2>6 DEF Located
  <1>5. CASE Leaves(p)
    <2>1. Done(p)' = Len(Code(p)) /\ todo'[p] = <<>> BY <1>5, DoneMoves DEF Leaves
    <2>2. stage'[p] = "unborn" => Done(p)' = 0
      BY <1>1, DoneMoves
    <2> QED BY <1>1, <1>2, <2>1, <2>2 DEF Located
  <1> QED BY <1>3, <1>4, <1>5

(* where a call leads to, by what it returns *)
Onward(p) == IF Passed(p) THEN Instr(p).ok ELSE Instr(p).no

LEMMA CallMoves ==
    ASSUME RInv, NEW p \in Proc, stage[p] = "live", KernelCall(p)
    PROVE  /\ p \in Users /\ todo[p] # <<>>
           /\ test' = test /\ stage' = stage /\ parent' = parent
           /\ \A q \in Proc \ {p} : Stays(q)
           /\ {Instr(p).ok, Instr(p).no} \subseteq {0, 1, Exit}
           /\ ~Outside(p)' => Stays(p)
           /\ Outside(p)' => \/ Onward(p) = 0 /\ Stays(p)
                             \/ Onward(p) = 1 /\ Passes(p)
                             \/ Onward(p) = Exit /\ Leaves(p)
  <1>0. /\ TypeOK /\ DTypeOK /\ RTypeOK /\ InCall(p) /\ p \in Users
    BY RInvParts, MainCallsNothing DEF Users
  <1>1. /\ todo[p] # <<>>
        /\ CreateCall(p) \/ (Instr(p).op \in Sleepy /\ ~At(p, "create"))
    BY <1>0, CallFacts
  <1> DEFINE n == Onward(p)
  <1>2. /\ test' = test /\ stage' = stage /\ parent' = parent
        /\ IF Outside(p)' THEN Skip(p, n) ELSE UNCHANGED todo
    BY DEF KernelCall, Proceed, Onward
  <1>3. {Instr(p).ok, Instr(p).no} \subseteq {0, 1, Exit}
    <2>1. PICK k, b, b2, k1, b1 \in Nat : Does(Instr(p), Need(test), k, b, k1, b1)
      BY <1>1, InstrFacts
    <2>2. CreateCall(p) => Instr(p).op = "create" BY DEF CreateCall, At
    <2>3. Instr(p).op \notin {"spawn", "wait"} BY <1>1, <2>2 DEF Sleepy
    <2> DEFINE x == Instr(p)
    <2>4. x.op \notin {"spawn", "wait"} /\ Does(x, Need(test), k, b, k1, b1)
      BY <2>1, <2>3
    <2> HIDE DEF x
    <2>5. {x.ok, x.no} \subseteq {0, 1, Exit} BY <2>4, Zenon DEF Does
    <2> QED BY <2>5 DEF x
  <1>4. n \in {0, 1, Exit} BY <1>3 DEF Onward
  <1> HIDE DEF n
  <1>5. /\ SubSeq(todo[p], 0 + 1, Len(todo[p])) = todo[p]
        /\ SubSeq(todo[p], 1 + 1, Len(todo[p])) = Tail(todo[p])
        /\ 0 # Exit /\ 1 # Exit
    BY <1>0, <1>1, SkipTodo DEF RTypeOK, Exit
  <1>6. Outside(p)' => todo' = [todo EXCEPT ![p] =
            IF n = Exit THEN <<>> ELSE IF n = 0 THEN todo[p] ELSE Tail(todo[p])]
    BY <1>2, <1>4, <1>5 DEF Skip
  <1>7. \A q \in Proc \ {p} : Stays(q) BY <1>0, <1>2, <1>6 DEF Stays, RTypeOK
  <1>8. ~Outside(p)' => Stays(p) BY <1>2 DEF Stays
  <1>9. Outside(p)' => \/ n = 0 /\ Stays(p)
                       \/ n = 1 /\ Passes(p)
                       \/ n = Exit /\ Leaves(p)
    BY <1>0, <1>1, <1>4, <1>5, <1>6 DEF RTypeOK, Stays, Passes, Leaves
  <1> QED BY <1>0, <1>1, <1>2, <1>3, <1>7, <1>8, <1>9 DEF n

LEMMA SpawnMoves ==
    ASSUME RInv, NEW p \in Proc, KSpawn(p)
    PROVE  /\ UNCHANGED <<allvars, test, made>>
           /\ Instr(p).op = "spawn"
           /\ Passes(p) /\ \A q \in Proc \ {p} : Stays(q)
           /\ \A q \in Proc : IF q = Instr(p).kid
                                THEN stage'[q] = "live" /\ parent'[q] = p
                                ELSE stage'[q] = stage[q] /\ parent'[q] = parent[q]
  <1>0. RTypeOK /\ todo[p] # <<>> /\ Instr(p).op = "spawn"
    BY RInvParts DEF KSpawn, At
  <1> DEFINE c == Instr(p).kid
  <1>1. /\ stage' = [stage EXCEPT ![c] = "live"]
        /\ parent' = [parent EXCEPT ![c] = p]
        /\ UNCHANGED <<allvars, test, made>>
        /\ Skip(p, 1)
    BY DEF KSpawn
  <1> HIDE DEF c
  <1>2. todo' = [todo EXCEPT ![p] = Tail(todo[p])] BY <1>0, <1>1, SkipOne
  <1>3. Passes(p) /\ \A q \in Proc \ {p} : Stays(q)
    BY <1>0, <1>2 DEF RTypeOK, Passes, Stays
  <1>4. \A q \in Proc : IF q = c THEN stage'[q] = "live" /\ parent'[q] = p
                                 ELSE stage'[q] = stage[q] /\ parent'[q] = parent[q]
    BY <1>0, <1>1 DEF RTypeOK
  <1> QED BY <1>0, <1>1, <1>3, <1>4 DEF c

LEMMA WaitMoves ==
    ASSUME RInv, NEW p \in Proc, KWait(p)
    PROVE  /\ UNCHANGED <<allvars, test, made, parent>>
           /\ Instr(p).op = "wait"
           /\ Passes(p) /\ \A q \in Proc \ {p} : Stays(q)
           /\ \/ Children(p) = {} /\ stage' = stage
              \/ \E c \in QuitChildren(p) :
                    \A q \in Proc : stage'[q] = IF q = c THEN "reaped" ELSE stage[q]
  <1>0. RTypeOK /\ todo[p] # <<>> /\ Instr(p).op = "wait"
    BY RInvParts DEF KWait, At
  <1>1. UNCHANGED <<allvars, test, made, parent>> /\ Skip(p, 1) BY DEF KWait
  <1>2. todo' = [todo EXCEPT ![p] = Tail(todo[p])] BY <1>0, <1>1, SkipOne
  <1>3. Passes(p) /\ \A q \in Proc \ {p} : Stays(q)
    BY <1>0, <1>2 DEF RTypeOK, Passes, Stays
  <1>4. \/ Children(p) = {} /\ stage' = stage
        \/ \E c \in QuitChildren(p) :
              \A q \in Proc : stage'[q] = IF q = c THEN "reaped" ELSE stage[q]
    BY <1>0 DEF KWait, RTypeOK
  <1> QED BY <1>0, <1>1, <1>3, <1>4

LEMMA ExitMoves ==
    ASSUME RInv, NEW p \in Proc, KExit(p)
    PROVE  /\ UNCHANGED <<allvars, test, made, parent, todo>>
           /\ todo[p] = <<>>
           /\ \A q \in Proc : stage'[q] = IF q = p THEN "quit" ELSE stage[q]
  BY RInvParts DEF KExit, RTypeOK

LEMMA LocatedStep ==
    ASSUME RInv, [RNext]_runvars, \A p \in Proc : Located(p), NEW q \in Proc
    PROVE  Located(q)'
  <1>1. CASE UNCHANGED rvars
    <2>1. test' = test /\ stage' = stage /\ Stays(q) BY <1>1 DEF rvars, Stays
    <2> QED BY <2>1, LocatedMoves
  <1>2. ASSUME NEW p \in Proc, stage[p] = "live", KSpawn(p) PROVE Located(q)'
    <2>1. /\ test' = test /\ (Stays(q) \/ Passes(q))
          /\ stage'[q] \in {"live", stage[q]}
          /\ q = p => stage'[p] = "live"
          /\ q # p => Stays(q)
      BY <1>2, SpawnMoves
    <2>2. stage'[q] = "unborn" => stage[q] = "unborn" /\ q # p BY <2>1
    <2>3. stage'[q] \in {"quit", "reaped"} => stage[q] \in {"quit", "reaped"} BY <2>1
    <2>4. stage[q] \in {"quit", "reaped"} => q # p BY <1>2
    <2> QED BY <2>1, <2>2, <2>3, <2>4, LocatedMoves
  <1>3. ASSUME NEW p \in Proc, stage[p] = "live", KWait(p) PROVE Located(q)'
    <2>1. /\ test' = test /\ (Stays(q) \/ Passes(q))
          /\ q # p => Stays(q)
      BY <1>3, WaitMoves
    <2>2. stage'[q] = stage[q] \/ (stage[q] = "quit" /\ stage'[q] = "reaped")
      BY <1>3, WaitMoves DEF QuitChildren
    <2>3. stage'[q] = "unborn" => stage[q] = "unborn" /\ q # p BY <1>3, <2>2
    <2>4. stage'[q] \in {"quit", "reaped"} => stage[q] \in {"quit", "reaped"} BY <2>2
    <2>5. stage[q] \in {"quit", "reaped"} => q # p BY <1>3
    <2> QED BY <2>1, <2>3, <2>4, <2>5, LocatedMoves
  <1>4. ASSUME NEW p \in Proc, stage[p] = "live", KExit(p) PROVE Located(q)'
    <2>1. test' = test /\ Stays(q) BY <1>4, ExitMoves DEF Stays
    <2>2. /\ q = p => todo[q] = <<>> /\ stage'[q] = "quit"
          /\ q # p => stage'[q] = stage[q]
      BY <1>4, ExitMoves
    <2> QED BY <2>1, <2>2, LocatedMoves
  <1>5. ASSUME NEW p \in Proc, stage[p] = "live", KernelCall(p) PROVE Located(q)'
    <2>1. /\ test' = test /\ stage' = stage
          /\ q # p => Stays(q)
          /\ Stays(p) \/ Passes(p) \/ Leaves(p)
      BY <1>5, CallMoves
    <2>2. q = p => stage[q] = "live" BY <1>5
    <2> QED BY <2>1, <2>2, LocatedMoves
  <1>6. UNCHANGED runvars \/ Boot => UNCHANGED rvars BY DEF runvars, Boot
  <1>7. ASSUME NEW p \in Proc, Run(p) PROVE Located(q)'
    <2>1. stage[p] = "live" BY <1>7 DEF Run, Dispatched, CanRun
    <2> QED BY <1>2, <1>3, <1>4, <1>5, <1>7, <2>1 DEF Run
  <1> QED BY <1>1, <1>6, <1>7 DEF RNext

-----------------------------------------------------------------------------
(* What a send and a receive do to the mailboxes *)

SameShape ==
    /\ UNCHANGED <<nextMailboxId, signal>>
    /\ \A k \in Id : /\ mailboxes'[k].status = mailboxes[k].status
                     /\ mailboxes'[k].slotSize = mailboxes[k].slotSize
                     /\ Len(mailboxes'[k].slots) = Len(mailboxes[k].slots)

Sending(id, m) == [op |-> "send", mb |-> id, msg |-> m, size |-> 0]
Receiving(id, size) == [op |-> "receive", mb |-> id, msg |-> NoMsg, size |-> size]

(* the fields of a mailbox that a call has put together *)
LEMMA OneMailbox ==
    ASSUME TypeOK, NEW id \in Id, NEW b, mailboxes' = [mailboxes EXCEPT ![id] = b],
           UNCHANGED <<nextMailboxId, signal>>,
           b.status = mailboxes[id].status, b.slotSize = mailboxes[id].slotSize,
           Len(b.slots) = Len(mailboxes[id].slots)
    PROVE  /\ SameShape
           /\ mailboxes'[id] = b
           /\ \A k \in Id \ {id} : mailboxes'[k] = mailboxes[k]
  BY DEF SameShape, TypeOK

LEMMA FailEffect ==
    ASSUME TypeOK, NEW p \in Proc, NEW code, Fail(p, code)
    PROVE  SameShape /\ mailboxes' = mailboxes /\ call'[p] = NoCall
  BY DEF Fail, Return, SameShape, TypeOK

(* A send leaves the shape of the mailboxes and what lies in their slots.  *)
(* If it waits and there is no room it blocks, and if it returns from a    *)
(* mailbox that is there, one slot more is full.                           *)
SendOutcome(p, id, m, w) ==
    /\ SameShape
    /\ \A k \in Id \ {id} : mailboxes'[k] = mailboxes[k]
    /\ \A k \in Id : \A i \in 1 .. Len(mailboxes[k].slots) :
           mailboxes[k].slots[i] # NoMsg => mailboxes'[k].slots[i] # NoMsg
    /\ call'[p] = NoCall \/ (w /\ call'[p] = Sending(id, m))
    /\ NoRoom(id, m) /\ w => call'[p] = Sending(id, m)
    /\ (SendValid(id, m) /\ Size[m] > 0 /\ w /\ call'[p] = NoCall) =>
           \A i \in 1 .. Len(mailboxes[id].slots) :
               (\A j \in 1 .. i - 1 : mailboxes[id].slots[j] # NoMsg) =>
                   mailboxes'[id].slots[i] # NoMsg

LEMMA SendEffect ==
    ASSUME TypeOK, SlotsPrefix, ~MallocMayFail, NEW p \in Proc, NEW id \in Int,
           NEW m \in Msg, NEW w \in BOOLEAN, SendTurn(p, id, m, w)
    PROVE  SendOutcome(p, id, m, w)
  <1>1. ASSUME NEW code, Fail(p, code), ~(SendValid(id, m) /\ w)
        PROVE  SendOutcome(p, id, m, w)
    <2>1. SameShape /\ mailboxes' = mailboxes /\ call'[p] = NoCall
      BY <1>1, FailEffect
    <2>2. ~(NoRoom(id, m) /\ w) BY <1>1 DEF NoRoom
    <2> QED BY <1>1, <2>1, <2>2 DEF SendOutcome
  <1>2. CASE SendDeposit(p, id, m)
    <2>1. id \in Id /\ SendValid(id, m) /\ EmptySlots(id) # {}
      BY <1>2 DEF SendDeposit, SendValid
    <2> DEFINE s == mailboxes[id].slots
    <2>2. mailboxes[id] \in Mailbox /\ s \in Seq(Slot) BY <2>1 DEF TypeOK, Mailbox
    <2>3. PICK n \in 0 .. Len(s) :
              /\ FullSlots(id) = 1 .. n
              /\ EmptySlots(id) = n + 1 .. Len(s)
              /\ n < Len(s) => Min(EmptySlots(id)) = n + 1
      BY <2>1, PrefixSlots
    <2>4. n < Len(s) /\ n + 1 \in 1 .. Len(s) BY <2>1, <2>2, <2>3
    <2> DEFINE t == [s EXCEPT ![n + 1] = Stored(m)]
               b == [mailboxes[id] EXCEPT !.slots = t]
    <2>5. /\ mailboxes' = [mailboxes EXCEPT ![id] = b]
          /\ UNCHANGED <<nextMailboxId, signal>>
          /\ call' = [call EXCEPT ![p] = NoCall]
      BY <1>2, <2>3, <2>4 DEF SendDeposit, Return
    <2>6. /\ b.slots = t /\ b.status = mailboxes[id].status
          /\ b.slotSize = mailboxes[id].slotSize
      BY <2>2 DEF Mailbox
    <2>7. Stored(m) \in Slot BY DEF Stored, Slot
    <2>8. Len(t) = Len(s) /\ \A i \in 1 .. Len(s) : t[i] = IF i = n + 1 THEN Stored(m) ELSE s[i]
      BY <2>2, <2>4, <2>7, ExceptSeq
    <2> HIDE DEF b, t
    <2>9. /\ SameShape /\ mailboxes'[id] = b
          /\ \A k \in Id \ {id} : mailboxes'[k] = mailboxes[k]
      BY <2>1, <2>5, <2>6, <2>8, OneMailbox
    <2>10. DOMAIN s = 1 .. Len(s) /\ Len(s) \in Nat BY <2>2
    <2>11. \A i \in 1 .. Len(s) : s[i] # NoMsg <=> i <= n
      BY <2>3, <2>10 DEF FullSlots
    <2>12. \A k \in Id : \A i \in 1 .. Len(mailboxes[k].slots) :
               mailboxes[k].slots[i] # NoMsg => mailboxes'[k].slots[i] # NoMsg
      <3> SUFFICES ASSUME NEW i \in 1 .. Len(s), s[i] # NoMsg PROVE t[i] # NoMsg
        BY <2>6, <2>9
      <3>1. i # n + 1 BY <2>10, <2>11
      <3> QED BY <2>8, <3>1
    <2>13. Size[m] > 0 => \A i \in 1 .. Len(s) :
               (\A j \in 1 .. i - 1 : s[j] # NoMsg) => t[i] # NoMsg
      <3> SUFFICES ASSUME Size[m] > 0, NEW i \in 1 .. Len(s),
                          \A j \in 1 .. i - 1 : s[j] # NoMsg
                   PROVE  t[i] # NoMsg
        OBVIOUS
      <3>1. Stored(m) # NoMsg BY NoMsgAssumption DEF Stored
      <3>2. i <= n + 1
        <4> SUFFICES ASSUME i > n + 1 PROVE FALSE BY <2>10
        <4>1. n + 1 \in 1 .. i - 1 BY <2>10
        <4> QED BY <2>4, <2>10, <2>11, <4>1
      <3> QED BY <2>8, <2>10, <2>11, <3>1, <3>2
    <2>14. ~NoRoom(id, m) BY <2>1 DEF NoRoom
    <2>15. call'[p] = NoCall BY <2>5 DEF TypeOK
    <2> QED BY <2>6, <2>9, <2>12, <2>13, <2>14, <2>15 DEF SendOutcome
  <1>3. CASE SendBlock(p, id, m) /\ w
    <2>1. id \in Id /\ NoRoom(id, m) BY <1>3 DEF SendBlock, NoRoom, SendValid
    <2> DEFINE b == [mailboxes[id] EXCEPT !.blockedSendList = Append(@, p)]
    <2>2. mailboxes[id] \in Mailbox BY <2>1 DEF TypeOK
    <2>3. /\ b.slots = mailboxes[id].slots /\ b.status = mailboxes[id].status
          /\ b.slotSize = mailboxes[id].slotSize
      BY <2>2 DEF Mailbox
    <2>4. /\ mailboxes' = [mailboxes EXCEPT ![id] = b]
          /\ UNCHANGED <<nextMailboxId, signal>>
          /\ call' = [call EXCEPT ![p] = Sending(id, m)]
      BY <1>3 DEF SendBlock, Block, Sending
    <2> HIDE DEF b
    <2>5. /\ SameShape /\ mailboxes'[id] = b
          /\ \A k \in Id \ {id} : mailboxes'[k] = mailboxes[k]
      BY <2>1, <2>3, <2>4, OneMailbox
    <2>6. call'[p] = Sending(id, m) /\ Sending(id, m) # NoCall
      BY <2>4 DEF TypeOK, Sending, NoCall
    <2>7. \A k \in Id : mailboxes'[k].slots = mailboxes[k].slots BY <2>3, <2>5
    <2> QED BY <1>3, <2>5, <2>6, <2>7 DEF SendOutcome
  <1>4. CASE SendInvalid(p, id, m) BY <1>1, <1>4 DEF SendInvalid
  <1>5. CASE ~w /\ SendWouldBlock(p, id, m) BY <1>1, <1>5 DEF SendWouldBlock
  <1>6. CASE w /\ SendNoMemory(p, id, m) BY <1>6 DEF SendNoMemory
  <1> QED BY <1>2, <1>3, <1>4, <1>5, <1>6 DEF SendTurn

(* A receive leaves the shape of the mailboxes, and those without messages *)
(* stay without.  It changes nothing if it is not valid, and blocks if it  *)
(* waits and there is nothing.                                             *)
ReceiveOutcome(p, id, size, w) ==
    /\ SameShape
    /\ \A k \in Id \ {id} : mailboxes'[k] = mailboxes[k]
    /\ \A k \in Id : FullSlots(k) = {} => mailboxes'[k].slots = mailboxes[k].slots
    /\ call'[p] = NoCall \/ (w /\ call'[p] = Receiving(id, size))
    /\ NothingThere(id, size) /\ w => call'[p] = Receiving(id, size)
    /\ ~ReceiveValid(id, size) => mailboxes' = mailboxes

LEMMA ReceiveEffect ==
    ASSUME TypeOK, ~MallocMayFail, NEW p \in Proc, NEW id \in Int,
           NEW size \in Int, NEW w \in BOOLEAN, ReceiveTurn(p, id, size, w)
    PROVE  ReceiveOutcome(p, id, size, w)
  <1>1. ASSUME NEW code, Fail(p, code), ~(NothingThere(id, size) /\ w)
        PROVE  ReceiveOutcome(p, id, size, w)
    <2>1. SameShape /\ mailboxes' = mailboxes /\ call'[p] = NoCall
      BY <1>1, FailEffect
    <2> QED BY <1>1, <2>1 DEF ReceiveOutcome
  <1>2. CASE ReceiveDeliver(p, id, size)
    <2>1. /\ id \in Id /\ ReceiveValid(id, size) /\ FullSlots(id) # {}
          /\ mailboxes' = [mailboxes EXCEPT ![id] = WithoutFirst(id)]
          /\ UNCHANGED <<nextMailboxId, signal>>
          /\ call' = [call EXCEPT ![p] = NoCall]
      BY <1>2 DEF ReceiveDeliver, ReceiveValid, Return
    <2> DEFINE s == mailboxes[id].slots
               f == Min(FullSlots(id))
               t == Shifted(s, f, RunEnd(id, f))
               b == WithoutFirst(id)
    <2>2. mailboxes[id] \in Mailbox /\ s \in Seq(Slot) BY <2>1 DEF TypeOK, Mailbox
    <2>3. /\ b.slots = t /\ b.status = mailboxes[id].status
          /\ b.slotSize = mailboxes[id].slotSize
          /\ mailboxes' = [mailboxes EXCEPT ![id] = b]
      BY <2>1, <2>2 DEF Mailbox, WithoutFirst
    <2>4. DOMAIN t = DOMAIN s /\ t = [i \in DOMAIN s |-> t[i]] BY DEF Shifted
    <2>5. Len(t) = Len(s)
      <3>1. Len(s) \in Nat /\ DOMAIN s = 1 .. Len(s) BY <2>2
      <3> HIDE DEF t, s
      <3> QED BY <2>4, <3>1
    <2> HIDE DEF b, t, f
    <2>6. /\ SameShape /\ \A k \in Id \ {id} : mailboxes'[k] = mailboxes[k]
      BY <2>1, <2>3, <2>5, OneMailbox
    <2>7. call'[p] = NoCall BY <2>1 DEF TypeOK
    <2>8. ~NothingThere(id, size) BY <2>1 DEF NothingThere
    <2>9. \A k \in Id : FullSlots(k) = {} => mailboxes'[k].slots = mailboxes[k].slots
      BY <2>1, <2>6
    <2> QED BY <2>1, <2>6, <2>7, <2>8, <2>9 DEF ReceiveOutcome
  <1>3. CASE ReceiveBlock(p, id, size) /\ w
    <2>1. id \in Id /\ NothingThere(id, size) /\ ReceiveValid(id, size)
      BY <1>3 DEF ReceiveBlock, NothingThere, ReceiveValid
    <2> DEFINE b == [mailboxes[id] EXCEPT !.blockedReceiveList = Append(@, p)]
    <2>2. mailboxes[id] \in Mailbox BY <2>1 DEF TypeOK
    <2>3. /\ b.slots = mailboxes[id].slots /\ b.status = mailboxes[id].status
          /\ b.slotSize = mailboxes[id].slotSize
      BY <2>2 DEF Mailbox
    <2>4. /\ mailboxes' = [mailboxes EXCEPT ![id] = b]
          /\ UNCHANGED <<nextMailboxId, signal>>
          /\ call' = [call EXCEPT ![p] = Receiving(id, size)]
      BY <1>3 DEF ReceiveBlock, Block, Receiving
    <2> HIDE DEF b
    <2>5. /\ SameShape /\ mailboxes'[id] = b
          /\ \A k \in Id \ {id} : mailboxes'[k] = mailboxes[k]
      BY <2>1, <2>3, <2>4, OneMailbox
    <2>6. call'[p] = Receiving(id, size) BY <2>4 DEF TypeOK
    <2>7. \A k \in Id : mailboxes'[k].slots = mailboxes[k].slots BY <2>3, <2>5
    <2> QED BY <1>3, <2>1, <2>5, <2>6, <2>7 DEF ReceiveOutcome
  <1>4. CASE ReceiveInvalid(p, id, size)
    BY <1>1, <1>4 DEF ReceiveInvalid, NothingThere
  <1>5. CASE ~w /\ ReceiveWouldBlock(p, id, size) BY <1>1, <1>5 DEF ReceiveWouldBlock
  <1>6. CASE w /\ ReceiveNoMemory(p, id, size) BY <1>6 DEF ReceiveNoMemory
  <1> QED BY <1>2, <1>3, <1>4, <1>5, <1>6 DEF ReceiveTurn

-----------------------------------------------------------------------------
(* The instructions, and where they stand in a program *)

LEMMA SpawnFields ==
    ASSUME NEW c, NEW q
    PROVE  /\ Spawn(c, q).op = "spawn" /\ Spawn(c, q).kid = c
           /\ Spawn(c, q).ok = 1 /\ Spawn(c, q).no = 1
  BY DEF Spawn, Blank

LEMMA WaitFields ==
    ASSUME NEW c
    PROVE  /\ WaitFor(c).op = "wait" /\ WaitFor(c).kid = c
           /\ WaitFor(c).ok = 1 /\ WaitFor(c).no = 1
  BY DEF WaitFor, Blank

LEMMA SendFields ==
    ASSUME NEW mb, NEW m, NEW w
    PROVE  /\ SendTo(mb, m, w).op = "send" /\ SendTo(mb, m, w).mb = mb
           /\ SendTo(mb, m, w).msg = m
           /\ SendTo(mb, m, w).ok = 1 /\ SendTo(mb, m, w).no = 1
  BY DEF SendTo, Blank

LEMMA ReceiveFields ==
    ASSUME NEW mb, NEW size, NEW w
    PROVE  /\ ReceiveFrom(mb, size, w).op = "receive" /\ ReceiveFrom(mb, size, w).mb = mb
           /\ ReceiveFrom(mb, size, w).size = size
           /\ ReceiveFrom(mb, size, w).ok = 1 /\ ReceiveFrom(mb, size, w).no = 1
  BY DEF ReceiveFrom, Blank

LEMMA MakeFields ==
    ASSUME NEW slots, NEW size
    PROVE  /\ MakeBox(slots, size).op = "create" /\ MakeBox(slots, size).slots = slots
           /\ MakeBox(slots, size).size = size
           /\ MakeBox(slots, size).ok = 1 /\ MakeBox(slots, size).no = 1
  BY DEF MakeBox, Blank

LEMMA DeviceFields ==
    ASSUME NEW name
    PROVE  /\ WaitDeviceNamed(name).op = "device"
           /\ WaitDeviceNamed(name).ok = 1 /\ WaitDeviceNamed(name).no = 1
  BY DEF WaitDeviceNamed, Blank

(* one program behind another *)
LEMMA Joined == \A u, v \in Seq(Instruction) :
    /\ u \o v \in Seq(Instruction) /\ Len(u \o v) = Len(u) + Len(v)
    /\ \A i \in 1 .. Len(u) + Len(v) :
          (u \o v)[i] = IF i <= Len(u) THEN u[i] ELSE v[i - Len(u)]
  BY ConcatProperties

LEMMA SpawnsAt ==
    ASSUME NEW first \in Nat, NEW qs \in Seq(Int), NEW n \in Nat, Len(qs) = n
    PROVE  /\ SpawnAll(first, qs) \in Seq(Instruction)
           /\ Len(SpawnAll(first, qs)) = n
           /\ \A i \in 1 .. n : SpawnAll(first, qs)[i] = Spawn(first + i - 1, qs[i])
  <1> DEFINE s == SpawnAll(first, qs)
  <1>1. n \in Nat /\ DOMAIN qs = 1 .. n OBVIOUS
  <1>2. s = [i \in 1 .. n |-> Spawn(first + i - 1, qs[i])] BY <1>1 DEF SpawnAll
  <1>3. \A i \in 1 .. n : Spawn(first + i - 1, qs[i]) \in Instruction
    <2> TAKE i \in 1 .. n
    <2>1. first + i - 1 \in Nat /\ qs[i] \in Int BY <1>1
    <2> QED BY <2>1, SpawnType
  <1> HIDE DEF s
  <1>4. s \in Seq(Instruction) /\ Len(s) = n BY <1>1, <1>2, <1>3
  <1> QED BY <1>2, <1>4 DEF s

LEMMA TimesAt ==
    ASSUME NEW S, NEW x \in S, NEW n \in Nat
    PROVE  /\ Times(n, x) \in Seq(S) /\ Len(Times(n, x)) = n
           /\ \A i \in 1 .. n : Times(n, x)[i] = x
  BY DEF Times

LEMMA WaitsAt ==
    ASSUME NEW n \in Nat
    PROVE  /\ Times(n, Wait) \in Seq(Instruction) /\ Len(Times(n, Wait)) = n
           /\ \A i \in 1 .. n : Times(n, Wait)[i] = WaitFor(0)
  <1>1. Wait = WaitFor(0) /\ Wait \in Instruction BY WaitType DEF Wait
  <1> QED BY <1>1, TimesAt

(* What fits anywhere: it spawns, makes and frees nothing. *)
Easy(t) ==
    {x \in Instruction :
        /\ x.op \in {"send", "receive", "device", "wait"}
        /\ Exit \notin {x.ok, x.no}
        /\ x.op = "receive" /\ t = 24 => x.size < BoxSize(t)}

LEMMA EasyInShape ==
    ASSUME NEW t, NEW x \in Easy(t), NEW p, NEW i
    PROVE  InShape(t, p, i, x)
  BY DEF Easy, InShape

LEMMA EasyProgram ==
    ASSUME NEW t, NEW s \in Seq(Easy(t)), NEW p
    PROVE  \A i \in 1 .. Len(s) : InShape(t, p, i, s[i])
  <1>1. \A i \in 1 .. Len(s) : s[i] \in Easy(t) OBVIOUS
  <1> QED BY <1>1, EasyInShape

LEMMA EasyWait ==
    ASSUME NEW t, NEW c \in Nat PROVE WaitFor(c) \in Easy(t)
  BY WaitType, WaitFields DEF Easy, Exit

LEMMA EasyDevice ==
    ASSUME NEW t, NEW name \in Names PROVE WaitDeviceNamed(name) \in Easy(t)
  <1>1. WaitDeviceNamed(name) \in Instruction BY DeviceType DEF Calls
  <1> QED BY <1>1, DeviceFields DEF Easy, Exit

LEMMA EasySend ==
    ASSUME NEW t, NEW b \in Nat, NEW mb \in 0 .. b, NEW n \in Int, NEW l \in Int,
           NEW w \in BOOLEAN
    PROVE  /\ SendTo(mb, Text(n, l), w) \in Easy(t)
           /\ SendTo(mb, Text(n, l), w) \in Instruction
  <1>1. Text(n, l) \in Int \X Int BY DEF Text
  <1>2. SendTo(mb, Text(n, l), w) \in Instruction BY <1>1, SendType DEF Calls
  <1> QED BY <1>2, SendFields DEF Easy, Exit

LEMMA EasyReceive ==
    ASSUME NEW t, NEW b \in Nat, NEW mb \in 0 .. b, NEW size \in Int, NEW w \in BOOLEAN,
           t = 24 => size < BoxSize(t)
    PROVE  /\ ReceiveFrom(mb, size, w) \in Easy(t)
           /\ ReceiveFrom(mb, size, w) \in Instruction
  <1>1. ReceiveFrom(mb, size, w) \in Instruction BY ReceiveType DEF Calls
  <1> QED BY <1>1, ReceiveFields DEF Easy, Exit

(* SendAndReceive, when it blocks and does not free *)
NumberedSends == {SendTo(1, Numbered(n), TRUE) : n \in Int}
WaitingReceive == ReceiveFrom(1, MAX_MESSAGE, TRUE)

LEMMA SendAndReceiveAt ==
    ASSUME NEW sends \in Nat, NEW receives \in Nat, NEW options \in Int,
           (options \div OPTION_FREE_FIRST) % 2 # 1,
           (options \div OPTION_NON_BLOCKING) % 2 # 1
    PROVE  LET s == SendAndReceive(sends, receives, options)
               r == (options \div OPTION_RECEIVE_FIRST) % 2 = 1
           IN  /\ s \in Seq(Instruction) /\ Len(s) = sends + receives
               /\ ~r => \A i \in 1 .. Len(s) :
                      IF i <= sends THEN s[i] \in NumberedSends ELSE s[i] = WaitingReceive
               /\ r => \A i \in 1 .. Len(s) :
                      IF i <= receives THEN s[i] = WaitingReceive ELSE s[i] \in NumberedSends
  <1> DEFINE set(option) == (options \div option) % 2 = 1
             wait == ~set(OPTION_NON_BLOCKING)
             start == IF set(OPTION_START_NUMBER) THEN (options \div 256) % 256 ELSE 0
             sending == [i \in 1 .. sends |-> SendTo(1, Numbered(start + i - 1), wait)]
             receiving == Times(receives, ReceiveFrom(1, MAX_MESSAGE, wait))
             s == SendAndReceive(sends, receives, options)
  <1>1. s = (IF set(OPTION_FREE_FIRST) THEN <<FreeBox(1)>> ELSE <<>>)
            \o (IF set(OPTION_RECEIVE_FIRST) THEN receiving \o sending
                                             ELSE sending \o receiving)
    BY Zenon DEF SendAndReceive
  <1>2. wait = TRUE /\ start \in Int /\ ~set(OPTION_FREE_FIRST) OBVIOUS
  <1>3. \A n \in Int : SendTo(1, Numbered(n), TRUE) \in Instruction
    <2> TAKE n \in Int
    <2>1. Numbered(n) \in Int \X Int BY DEF Numbered, Text
    <2>2. 1 \in 0 .. 1 \union {LargeId} OBVIOUS
    <2> QED BY <2>1, <2>2, SendType DEF Calls
  <1>4. WaitingReceive \in Instruction
    <2>1. 1 \in 0 .. 1 \union {LargeId} /\ MAX_MESSAGE \in Int BY TestSizes
    <2> QED BY <2>1, ReceiveType DEF Calls, WaitingReceive
  <1> HIDE DEF wait, start, set
  <1>5. /\ sending \in Seq(Instruction) /\ Len(sending) = sends
        /\ \A i \in 1 .. sends : sending[i] \in NumberedSends
    <2>1. \A i \in 1 .. sends : start + i - 1 \in Int BY <1>2
    <2>2. \A i \in 1 .. sends : sending[i] = SendTo(1, Numbered(start + i - 1), TRUE)
      BY <1>2
    <2>3. \A i \in 1 .. sends : sending[i] \in NumberedSends /\ sending[i] \in Instruction
      BY <1>3, <2>1, <2>2 DEF NumberedSends
    <2>4. sending = [i \in 1 .. sends |-> sending[i]] OBVIOUS
    <2> HIDE DEF sending
    <2>5. sending \in [1 .. sends -> Instruction] BY <2>3, <2>4
    <2> QED BY <2>3, <2>5
  <1>6. /\ receiving \in Seq(Instruction) /\ Len(receiving) = receives
        /\ \A i \in 1 .. receives : receiving[i] = WaitingReceive
    BY <1>2, <1>4, TimesAt DEF WaitingReceive
  <1> HIDE DEF sending, receiving, s
  <1>7. s = IF set(OPTION_RECEIVE_FIRST) THEN receiving \o sending
                                         ELSE sending \o receiving
    BY <1>1, <1>2, <1>5, <1>6
  <1>8. CASE set(OPTION_RECEIVE_FIRST)
    <2>1. s = receiving \o sending BY <1>7, <1>8
    <2>2. /\ s \in Seq(Instruction) /\ Len(s) = receives + sends
          /\ \A i \in 1 .. receives + sends :
                s[i] = IF i <= receives THEN receiving[i] ELSE sending[i - receives]
      <3>1. /\ receiving \o sending \in Seq(Instruction)
            /\ Len(receiving \o sending) = Len(receiving) + Len(sending)
            /\ \A i \in 1 .. Len(receiving) + Len(sending) : (receiving \o sending)[i] =
                   IF i <= Len(receiving) THEN receiving[i] ELSE sending[i - Len(receiving)]
        BY <1>5, <1>6, Joined
      <3> QED BY <1>5, <1>6, <2>1, <3>1
    <2>3. \A i \in 1 .. Len(s) :
              IF i <= receives THEN s[i] = WaitingReceive ELSE s[i] \in NumberedSends
      BY <1>5, <1>6, <2>2
    <2> QED BY <1>8, <2>2, <2>3 DEF s, set
  <1>9. CASE ~set(OPTION_RECEIVE_FIRST)
    <2>1. s = sending \o receiving BY <1>7, <1>9
    <2>2. /\ s \in Seq(Instruction) /\ Len(s) = sends + receives
          /\ \A i \in 1 .. sends + receives :
                s[i] = IF i <= sends THEN sending[i] ELSE receiving[i - sends]
      <3>1. /\ sending \o receiving \in Seq(Instruction)
            /\ Len(sending \o receiving) = Len(sending) + Len(receiving)
            /\ \A i \in 1 .. Len(sending) + Len(receiving) : (sending \o receiving)[i] =
                   IF i <= Len(sending) THEN sending[i] ELSE receiving[i - Len(sending)]
        BY <1>5, <1>6, Joined
      <3> QED BY <1>5, <1>6, <2>1, <3>1
    <2>3. \A i \in 1 .. Len(s) :
              IF i <= sends THEN s[i] \in NumberedSends ELSE s[i] = WaitingReceive
      BY <1>5, <1>6, <2>2
    <2> QED BY <1>9, <2>2, <2>3 DEF s, set
  <1> QED BY <1>8, <1>9

LEMMA NumberedFields ==
    ASSUME NEW x \in NumberedSends
    PROVE  /\ x.op = "send" /\ x.mb = 1 /\ x.wait = TRUE /\ x.msg[2] = 17
           /\ x.ok = 1 /\ x.no = 1
           /\ \A t : x \in Easy(t)
  <1>1. PICK n \in Int : x = SendTo(1, Numbered(n), TRUE) BY DEF NumberedSends
  <1>2. Numbered(n)[2] = 17 BY DEF Numbered, Text
  <1>3. \A t : x \in Easy(t)
    <2>1. 1 \in Nat /\ 1 \in 0 .. 1 /\ 17 \in Int OBVIOUS
    <2> QED BY <1>1, <2>1, EasySend DEF Numbered
  <1> DEFINE m == Numbered(n)
             y == SendTo(1, m, TRUE)
  <1>4. x = y /\ m[2] = 17 BY <1>1, <1>2
  <1> HIDE DEF m
  <1>5. /\ y.op = "send" /\ y.mb = 1 /\ y.msg = m /\ y.wait = TRUE
        /\ y.ok = 1 /\ y.no = 1
    BY DEF SendTo, Blank
  <1> HIDE DEF y
  <1> QED BY <1>3, <1>4, <1>5

LEMMA ReceiveEasy ==
    /\ WaitingReceive.op = "receive" /\ WaitingReceive.mb = 1
    /\ WaitingReceive.size = MAX_MESSAGE /\ WaitingReceive.wait = TRUE
    /\ WaitingReceive.ok = 1 /\ WaitingReceive.no = 1
    /\ \A t : t # 24 => WaitingReceive \in Easy(t)
  <1>1. \A t : t # 24 => WaitingReceive \in Easy(t)
    <2>1. 1 \in Nat /\ 1 \in 0 .. 1 /\ MAX_MESSAGE \in Int BY TestSizes
    <2> QED BY <2>1, EasyReceive DEF WaitingReceive
  <1> QED BY <1>1 DEF WaitingReceive, ReceiveFrom, Blank

LEMMA SeqOf ==
    ASSUME NEW S, NEW T, NEW s \in Seq(S), \A i \in 1 .. Len(s) : s[i] \in T
    PROVE  s \in Seq(T)
  OBVIOUS

LEMMA ElementOf ==
    ASSUME NEW S, NEW s \in Seq(S), NEW i \in 1 .. Len(s) PROVE s[i] \in S
  OBVIOUS

LEMMA SenderEasy ==
    ASSUME NEW t, t # 24, NEW n \in Nat
    PROVE  Sender(n) \in Seq(Easy(t)) /\ Receiver(n) \in Seq(Easy(t))
  <1>1. /\ (OPTION_NONE \div OPTION_FREE_FIRST) % 2 # 1
        /\ (OPTION_NONE \div OPTION_NON_BLOCKING) % 2 # 1
        /\ (OPTION_NONE \div OPTION_RECEIVE_FIRST) % 2 # 1
        /\ OPTION_NONE \in Int /\ 0 \in Nat
    BY DEF OPTION_NONE, OPTION_FREE_FIRST, OPTION_NON_BLOCKING, OPTION_RECEIVE_FIRST
  <1>2. ASSUME NEW s, s = Sender(n) \/ s = Receiver(n)
        PROVE  s \in Seq(Easy(t))
    <2>1. /\ s \in Seq(Instruction)
          /\ \A i \in 1 .. Len(s) : s[i] \in NumberedSends \/ s[i] = WaitingReceive
      <3> DEFINE a == SendAndReceive(n, 0, OPTION_NONE)
                 b == SendAndReceive(0, n, OPTION_NONE)
      <3>1. /\ a \in Seq(Instruction)
            /\ \A i \in 1 .. Len(a) : a[i] \in NumberedSends \/ a[i] = WaitingReceive
        BY <1>1, SendAndReceiveAt
      <3>2. /\ b \in Seq(Instruction)
            /\ \A i \in 1 .. Len(b) : b[i] \in NumberedSends \/ b[i] = WaitingReceive
        BY <1>1, SendAndReceiveAt
      <3>3. s = a \/ s = b BY <1>2 DEF Sender, Receiver
      <3> QED BY <3>1, <3>2, <3>3
    <2>2. \A i \in 1 .. Len(s) : s[i] \in Easy(t)
      BY <2>1, NumberedFields, ReceiveEasy
    <2> QED BY <2>1, <2>2, SeqOf
  <1> QED BY <1>2

-----------------------------------------------------------------------------
(* The programs of the tests *)

LEMMA TestsAt ==
    /\ AllTests[5 + 1] = Test05 /\ AllTests[11 + 1] = Test11
    /\ AllTests[12 + 1] = Test12 /\ AllTests[13 + 1] = Test13
    /\ AllTests[14 + 1] = Test14 /\ AllTests[16 + 1] = Test16
    /\ AllTests[21 + 1] = Test21 /\ AllTests[22 + 1] = Test22
    /\ AllTests[24 + 1] = Test24 /\ AllTests[29 + 1] = Test29
    /\ AllTests[32 + 1] = Test32
  BY DEF AllTests

(* a test's programs, and nothing else *)
LEMMA Programs1 ==
    ASSUME NEW t \in Nat, NEW s1,
           AllTests[t + 1] = <<s1>>, NEW p
    PROVE  Program(t, p) = IF p = 1 THEN s1
                  ELSE <<>>
  BY DEF Program

LEMMA Programs2 ==
    ASSUME NEW t \in Nat, NEW s1, NEW s2,
           AllTests[t + 1] = <<s1, s2>>, NEW p
    PROVE  Program(t, p) = IF p = 1 THEN s1
                  ELSE IF p = 2 THEN s2
                  ELSE <<>>
  BY DEF Program

LEMMA Programs3 ==
    ASSUME NEW t \in Nat, NEW s1, NEW s2, NEW s3,
           AllTests[t + 1] = <<s1, s2, s3>>, NEW p
    PROVE  Program(t, p) = IF p = 1 THEN s1
                  ELSE IF p = 2 THEN s2
                  ELSE IF p = 3 THEN s3
                  ELSE <<>>
  BY DEF Program

LEMMA Programs4 ==
    ASSUME NEW t \in Nat, NEW s1, NEW s2, NEW s3, NEW s4,
           AllTests[t + 1] = <<s1, s2, s3, s4>>, NEW p
    PROVE  Program(t, p) = IF p = 1 THEN s1
                  ELSE IF p = 2 THEN s2
                  ELSE IF p = 3 THEN s3
                  ELSE IF p = 4 THEN s4
                  ELSE <<>>
  BY DEF Program

LEMMA Programs5 ==
    ASSUME NEW t \in Nat, NEW s1, NEW s2, NEW s3, NEW s4, NEW s5,
           AllTests[t + 1] = <<s1, s2, s3, s4, s5>>, NEW p
    PROVE  Program(t, p) = IF p = 1 THEN s1
                  ELSE IF p = 2 THEN s2
                  ELSE IF p = 3 THEN s3
                  ELSE IF p = 4 THEN s4
                  ELSE IF p = 5 THEN s5
                  ELSE <<>>
  BY DEF Program

LEMMA Programs6 ==
    ASSUME NEW t \in Nat, NEW s1, NEW s2, NEW s3, NEW s4, NEW s5, NEW s6,
           AllTests[t + 1] = <<s1, s2, s3, s4, s5, s6>>, NEW p
    PROVE  Program(t, p) = IF p = 1 THEN s1
                  ELSE IF p = 2 THEN s2
                  ELSE IF p = 3 THEN s3
                  ELSE IF p = 4 THEN s4
                  ELSE IF p = 5 THEN s5
                  ELSE IF p = 6 THEN s6
                  ELSE <<>>
  BY DEF Program

LEMMA Shaped05 == RoomForTests => Shaped(5)
  <1> SUFFICES ASSUME RoomForTests PROVE Shaped(5) OBVIOUS
  <1> DEFINE x == WaitDeviceNamed("term0")
             a == Times(TerminalWrites, x)
             f == Family(10, 50, <<3, 4>>)
             s == a \o f
  <1>1. \A p : Program(5, p) = IF p = 1 THEN s ELSE IF p = 2 THEN Sender(1)
                      ELSE IF p = 3 THEN Receiver(1) ELSE <<>>
    <2>1. AllTests[5 + 1] = <<s, Sender(1), Receiver(1)>> BY TestsAt, Zenon DEF Test05
    <2> HIDE DEF s
    <2> TAKE p
    <2> QED BY <2>1, Programs3
  <1>2. s[1] = x /\ Len(s) \in Nat /\ Len(s) >= 1
    <2>1. x \in Instruction BY DeviceType DEF Calls, Names
    <2>2. TerminalWrites \in Nat /\ TerminalWrites > 0 BY TestSizes DEF RoomForTests
    <2>3. a \in Seq(Instruction) /\ Len(a) = TerminalWrites /\ a[1] = x
      BY <2>1, <2>2, TimesAt
    <2>4. f \in Seq(Instruction) /\ Len(f) \in Nat
      <3>1. <<3, 4>> \in Seq(Int) /\ 0 \in Nat /\ 10 \in Int /\ 50 \in Int /\ 0 <= 1
        OBVIOUS
      <3>2. Leads(f, 0, 0, 0, 0, 1) BY <3>1, LeadsFamily
      <3> QED BY <3>2 DEF Leads
    <2> HIDE DEF a, f, x
    <2> QED BY <2>2, <2>3, <2>4, Joined
  <1>3. x.op = "device" /\ x \in Easy(5)
    BY DeviceFields, EasyDevice DEF Names
  <1> HIDE DEF x
  <1>4. /\ Sender(1) \in Seq(Easy(5)) /\ Receiver(1) \in Seq(Easy(5))
    BY SenderEasy
  <1> HIDE DEF s
  <1>5. \A p \in Users : \A i \in 1 .. Len(Program(5, p)) : InShape(5, p, i, Program(5, p)[i])
    <2> TAKE p \in Users
    <2> TAKE i \in 1 .. Len(Program(5, p))
    <2>1. CASE p = 1
      <3>1. i \in Nat /\ Program(5, p) = s BY <1>1, <1>2, <2>1
      <3>2. i = 1 => s[i] \in Easy(5) BY <1>2, <1>3
      <3>3. i > 1 => ~Reached(5, p, i) BY <2>1 DEF Reached, Sleeper, Bar
      <3>4. CASE i > 1
        BY <3>3, <3>4 DEF InShape
      <3> QED BY <3>1, <3>2, <3>4, EasyInShape
    <2>2. CASE p # 1
      <3>1. Program(5, p) \in Seq(Easy(5)) BY <1>1, <1>4, <2>2
      <3> QED BY <3>1, EasyProgram
    <2> QED BY <2>1, <2>2
  <1>6. Hard(5, Program(5, 1)[1]) BY <1>1, <1>2, <1>3 DEF Hard
  <1>7. BoxCount(5) = 0 /\ Kids(5) = {1} /\ Sleeper(5) = 1 /\ Bar(5) = 1
    BY DEF BoxCount, Kids, Sleeper, Bar
  <1> QED BY <1>1, <1>2, <1>5, <1>6, <1>7 DEF Shaped

(* the instruction that spawns a child, where the child is awaited *)
LEMMA SpawnInShape ==
    ASSUME NEW t, NEW c, NEW q, NEW p, NEW i,
           c \in Kids(t) => p = Father(t, c) /\ i = Birth(t, c)
    PROVE  InShape(t, p, i, Spawn(c, q))
  BY SpawnFields DEF InShape, Exit

LEMMA DeviceChild ==
    ASSUME NEW t, NEW name \in Names
    PROVE  LET s == <<WaitDeviceNamed(name)>>
           IN  s \in Seq(Easy(t)) /\ Len(s) = 1 /\ s[1].op = "device"
  BY EasyDevice, DeviceFields

LEMMA OneChildShaped ==
    ASSUME NEW t \in {13, 14}, NEW q \in Int, NEW name \in Names,
           AllTests[t + 1] = <<<<Spawn(2, q), Wait>>, <<WaitDeviceNamed(name)>>>>
    PROVE  Shaped(t)
  <1> DEFINE s == <<Spawn(2, q), Wait>>
             c == <<WaitDeviceNamed(name)>>
  <1>1. \A p : Program(t, p) = IF p = 1 THEN s ELSE IF p = 2 THEN c ELSE <<>>
    <2> TAKE p
    <2> HIDE DEF s, c
    <2>1. AllTests[t + 1] = <<s, c>> BY DEF s, c
    <2> QED BY <2>1, Programs2
  <1>2. Len(s) = 2 /\ s[1] = Spawn(2, q) /\ s[2] = WaitFor(0) BY DEF Wait
  <1>3. c \in Seq(Easy(t)) /\ Len(c) = 1 /\ c[1].op = "device" BY DeviceChild
  <1> HIDE DEF s, c
  <1>4. /\ BoxCount(t) = 0 /\ Kids(t) = {1, 2} /\ Sleeper(t) = 2 /\ Bar(t) = 1
        /\ t # 24 /\ Father(t, 2) = 1 /\ Birth(t, 2) = 1
    BY DEF BoxCount, Kids, Sleeper, Bar, Father, Birth
  <1>5. \A p \in Users : \A i \in 1 .. Len(Program(t, p)) : InShape(t, p, i, Program(t, p)[i])
    <2> TAKE p \in Users
    <2> TAKE i \in 1 .. Len(Program(t, p))
    <2>1. CASE p = 1
      <3>1. Program(t, p) = s BY <1>1, <2>1
      <3>2. i \in 1 .. 2 BY <1>2, <3>1
      <3>3. i = 1 \/ i = 2 BY <3>2
      <3>4. InShape(t, 1, 1, Spawn(2, q)) BY <1>4, SpawnInShape
      <3>5. InShape(t, 1, 2, WaitFor(0)) BY EasyWait, EasyInShape
      <3> QED BY <1>2, <2>1, <3>1, <3>3, <3>4, <3>5
    <2>2. CASE p # 1
      <3>1. Program(t, p) \in Seq(Easy(t)) BY <1>1, <1>3, <2>2
      <3> QED BY <3>1, EasyProgram
    <2> QED BY <2>1, <2>2
  <1>6. Hard(t, Program(t, 2)[1]) BY <1>1, <1>3 DEF Hard
  <1>7. Program(t, 1)[1].op = "spawn" /\ Program(t, 1)[1].kid = 2 BY <1>1, <1>2, SpawnFields
  <1>8. Len(Program(t, 1)) = 2 /\ Len(Program(t, 2)) = 1 BY <1>1, <1>2, <1>3
  <1> QED BY <1>4, <1>5, <1>6, <1>7, <1>8 DEF Shaped

LEMMA Shaped13 == Shaped(13)
  <1>1. AllTests[13 + 1] = <<<<Spawn(2, 4), Wait>>, <<WaitDeviceNamed("clock")>>>>
    BY TestsAt, Zenon DEF Test13
  <1>2. 4 \in Int /\ "clock" \in Names BY DEF Names
  <1> QED BY <1>1, <1>2, OneChildShaped

LEMMA Shaped14 == Shaped(14)
  <1>1. AllTests[14 + 1] = <<<<Spawn(2, 3), Wait>>, <<WaitDeviceNamed("term0")>>>>
    BY TestsAt, Zenon DEF Test14
  <1>2. 3 \in Int /\ "term0" \in Names BY DEF Names
  <1> QED BY <1>1, <1>2, OneChildShaped

(* the instruction that makes a mailbox *)
LEMMA MakeInShape ==
    ASSUME NEW t, NEW i \in 1 .. BoxCount(t), NEW slots, NEW size,
           slots = BoxSlots(t, i), size = BoxSize(t)
    PROVE  InShape(t, 1, i, MakeBox(slots, size))
  BY MakeFields DEF InShape, Exit

(* a program that begins with a, starts children and waits for them *)
LEMMA StartedAt ==
    ASSUME NEW a \in Seq(Instruction), NEW first \in Nat, NEW qs \in Seq(Int)
    PROVE  LET s == a \o SpawnAll(first, qs) \o Times(Len(qs), Wait)
               n == Len(a)
               m == Len(qs)
           IN  /\ s \in Seq(Instruction) /\ Len(s) = n + 2 * m
               /\ \A i \in 1 .. n : s[i] = a[i]
               /\ \A i \in 1 .. m : s[n + i] = Spawn(first + i - 1, qs[i])
               /\ \A i \in n + m + 1 .. n + 2 * m : s[i] = WaitFor(0)
  <1> DEFINE n == Len(a)
             m == Len(qs)
             b == SpawnAll(first, qs)
             c == Times(m, Wait)
             ab == a \o b
             s == ab \o c
  <1>1. n \in Nat /\ m \in Nat OBVIOUS
  <1>2. /\ b \in Seq(Instruction) /\ Len(b) = m
        /\ \A i \in 1 .. m : b[i] = Spawn(first + i - 1, qs[i])
    BY SpawnsAt
  <1>3. /\ c \in Seq(Instruction) /\ Len(c) = m /\ \A i \in 1 .. m : c[i] = WaitFor(0)
    BY <1>1, WaitsAt
  <1> HIDE DEF b, c
  <1>4. /\ ab \in Seq(Instruction) /\ Len(ab) = Len(a) + Len(b)
        /\ \A i \in 1 .. Len(a) + Len(b) :
              ab[i] = IF i <= Len(a) THEN a[i] ELSE b[i - Len(a)]
    BY <1>2, Joined
  <1>5. Len(a) = n OBVIOUS
  <1> HIDE DEF ab, n, m
  <1>6. /\ s \in Seq(Instruction) /\ Len(s) = Len(ab) + Len(c)
        /\ \A i \in 1 .. Len(ab) + Len(c) :
              s[i] = IF i <= Len(ab) THEN ab[i] ELSE c[i - Len(ab)]
    BY <1>3, <1>4, Joined
  <1> HIDE DEF s
  <1>7. Len(ab) = n + m /\ Len(s) = n + 2 * m
    <2>1. Len(ab) = n + m BY <1>2, <1>4, <1>5
    <2> QED BY <1>1, <1>3, <1>6, <2>1
  <1>8. \A i \in 1 .. n : s[i] = a[i] BY <1>1, <1>2, <1>3, <1>4, <1>5, <1>6
  <1>9. \A i \in 1 .. m : s[n + i] = Spawn(first + i - 1, qs[i])
    <2> TAKE i \in 1 .. m
    <2>1. s[n + i] = ab[n + i] BY <1>1, <1>3, <1>6, <1>7
    <2>2. ab[n + i] = b[i] BY <1>1, <1>2, <1>4, <1>5
    <2> QED BY <1>2, <2>1, <2>2
  <1>10. \A i \in n + m + 1 .. n + 2 * m : s[i] = WaitFor(0)
    <2> TAKE i \in n + m + 1 .. n + 2 * m
    <2>1. i - (n + m) \in 1 .. m BY <1>1
    <2>2. s[i] = c[i - (n + m)] BY <1>1, <1>3, <1>6, <1>7
    <2> QED BY <1>3, <2>1, <2>2
  <1>11. /\ s \in Seq(Instruction) /\ Len(s) = n + 2 * m
         /\ \A i \in 1 .. n : s[i] = a[i]
         /\ \A i \in 1 .. m : s[n + i] = Spawn(first + i - 1, qs[i])
         /\ \A i \in n + m + 1 .. n + 2 * m : s[i] = WaitFor(0)
    BY <1>6, <1>7, <1>8, <1>9, <1>10
  <1> QED BY <1>11 DEF s, ab, b, c, n, m

(* programs that make the mailboxes, start two children and wait *)
TwoChildren(t, s) ==
    LET n == BoxCount(t)
    IN  /\ Len(s) = n + 4
        /\ \A i \in 1 .. n : s[i] = MakeBox(BoxSlots(t, i), BoxSize(t))
        /\ \A i \in 1 .. 2 : \E q \in Int : s[n + i] = Spawn(1 + i, q)
        /\ \A i \in n + 3 .. n + 4 : s[i] = WaitFor(0)

LEMMA TwoChildrenAt ==
    ASSUME NEW t, NEW a \in Seq(Instruction), NEW qs \in Seq(Int),
           Len(a) = BoxCount(t), Len(qs) = 2,
           \A k \in 1 .. BoxCount(t) : a[k] = MakeBox(BoxSlots(t, k), BoxSize(t))
    PROVE  TwoChildren(t, a \o SpawnAll(2, qs) \o Times(Len(qs), Wait))
  <1> DEFINE s == a \o SpawnAll(2, qs) \o Times(Len(qs), Wait)
             n == BoxCount(t)
  <1>1. /\ Len(s) = Len(a) + 2 * Len(qs)
        /\ \A i \in 1 .. Len(a) : s[i] = a[i]
        /\ \A i \in 1 .. Len(qs) : s[Len(a) + i] = Spawn(2 + i - 1, qs[i])
        /\ \A i \in Len(a) + Len(qs) + 1 .. Len(a) + 2 * Len(qs) : s[i] = WaitFor(0)
    BY StartedAt, 2 \in Nat
  <1> HIDE DEF s
  <1>2. n \in Nat BY DEF BoxCount
  <1>3. Len(s) = n + 4 BY <1>1, <1>2
  <1>4. \A i \in 1 .. n : s[i] = MakeBox(BoxSlots(t, i), BoxSize(t)) BY <1>1
  <1>5. \A i \in 1 .. 2 : \E q \in Int : s[n + i] = Spawn(1 + i, q)
    <2> TAKE i \in 1 .. 2
    <2>1. 2 + i - 1 = 1 + i /\ i \in 1 .. Len(qs) OBVIOUS
    <2>2. s[n + i] = Spawn(2 + i - 1, qs[i]) BY <1>1, <2>1
    <2>3. qs[i] \in Int BY <2>1, ElementOf
    <2> QED BY <2>1, <2>2, <2>3
  <1>6. \A i \in n + 3 .. n + 4 : s[i] = WaitFor(0)
    <2>1. Len(a) + Len(qs) + 1 = n + 3 /\ Len(a) + 2 * Len(qs) = n + 4 BY <1>2
    <2> QED BY <1>1, <2>1
  <1> QED BY <1>3, <1>4, <1>5, <1>6 DEF TwoChildren, s

(* what the sleeper runs *)
Stuck(t, c) == Bar(t) \in 1 .. Len(c) /\ Hard(t, c[Bar(t)])

LEMMA TwoChildrenShaped ==
    ASSUME NEW t \in {11, 12, 21, 22}, NEW s, TwoChildren(t, s),
           NEW c2 \in Seq(Easy(t)), NEW c3 \in Seq(Easy(t)),
           AllTests[t + 1] = <<s, c2, c3>>,
           Stuck(t, IF Sleeper(t) = 2 THEN c2 ELSE c3)
    PROVE  Shaped(t)
  <1> DEFINE n == BoxCount(t)
             k == Sleeper(t)
  <1>1. t \in Nat /\ t # 24 OBVIOUS
  <1>2. \A p : Program(t, p) = IF p = 1 THEN s ELSE IF p = 2 THEN c2
                               ELSE IF p = 3 THEN c3 ELSE <<>>
    BY <1>1, Programs3
  <1>3. n \in 1 .. 2 /\ k \in {2, 3} BY DEF BoxCount, Sleeper
  <1>4. Kids(t) = {1, k} /\ Father(t, k) = 1 BY <1>1, <1>3 DEF Kids, Father
  <1>5. Birth(t, k) = n + (k - 1) BY DEF Birth, BoxCount, Sleeper
  <1>6. /\ Len(s) = n + 4
        /\ \A i \in 1 .. n : s[i] = MakeBox(BoxSlots(t, i), BoxSize(t))
        /\ \A i \in 1 .. 2 : \E q \in Int : s[n + i] = Spawn(1 + i, q)
        /\ \A i \in n + 3 .. n + 4 : s[i] = WaitFor(0)
    BY DEF TwoChildren
  <1>7. \A i \in 1 .. n : InShape(t, 1, i, s[i]) BY <1>6, MakeInShape
  <1> HIDE DEF n, k
  <1>8. \A p \in Users : \A i \in 1 .. Len(Program(t, p)) :
            InShape(t, p, i, Program(t, p)[i])
    <2> TAKE p \in Users
    <2> TAKE i \in 1 .. Len(Program(t, p))
    <2>1. CASE p = 1
      <3>1. Program(t, p) = s /\ i \in 1 .. n + 4 BY <1>2, <1>6, <2>1
      <3>2. CASE i \in 1 .. n BY <1>7, <2>1, <3>1, <3>2
      <3>3. CASE i \in n + 1 .. n + 2
        <4>1. PICK j \in 1 .. 2 : i = n + j
          <5>1. i - n \in 1 .. 2 /\ i = n + (i - n) BY <1>3, <3>1, <3>3
          <5> QED BY <5>1
        <4>2. PICK q \in Int : s[i] = Spawn(1 + j, q) BY <1>6, <4>1
        <4>3. ASSUME 1 + j \in Kids(t)
              PROVE  p = Father(t, 1 + j) /\ i = Birth(t, 1 + j)
          <5>1. 1 + j = k BY <1>4, <4>1, <4>3
          <5> QED BY <1>3, <1>4, <1>5, <2>1, <4>1, <5>1
        <4> QED BY <3>1, <4>2, <4>3, SpawnInShape
      <3>4. CASE i \in n + 3 .. n + 4 BY <1>6, <3>1, <3>4, EasyWait, EasyInShape
      <3> QED BY <1>3, <3>1, <3>2, <3>3, <3>4
    <2>2. CASE p # 1
      <3>1. <<>> \in Seq(Easy(t)) OBVIOUS
      <3>2. Program(t, p) = c2 \/ Program(t, p) = c3 \/ Program(t, p) = <<>>
        BY <1>2, <2>2
      <3> QED BY <3>1, <3>2, EasyProgram
    <2> QED BY <2>1, <2>2
  <1>9. \A i \in 1 .. n : i <= Len(s) /\ s[i].op = "create"
    BY <1>3, <1>6, MakeFields
  <1>10. Birth(t, k) \in 1 .. Len(s) /\ s[Birth(t, k)].op = "spawn" /\ s[Birth(t, k)].kid = k
    <2>1. PICK j \in 1 .. 2 : k = 1 + j BY <1>3
    <2>2. PICK q \in Int : s[n + j] = Spawn(1 + j, q) BY <1>6, <2>1
    <2>3. Birth(t, k) = n + j /\ n + j \in 1 .. n + 4 BY <1>3, <1>5, <2>1
    <2> QED BY <1>6, <2>1, <2>2, <2>3, SpawnFields
  <1>11. Stuck(t, Program(t, k)) /\ Program(t, 1) = s BY <1>2, <1>3 DEF k
  <1> QED BY <1>1, <1>4, <1>8, <1>9, <1>10, <1>11 DEF Shaped, Stuck, n, k

LEMMA EasyJoined ==
    ASSUME NEW t, NEW u \in Seq(Easy(t)), NEW v \in Seq(Easy(t))
    PROVE  /\ u \o v \in Seq(Easy(t)) /\ Len(u \o v) = Len(u) + Len(v)
           /\ \A i \in 1 .. Len(u) + Len(v) :
                 (u \o v)[i] = IF i <= Len(u) THEN u[i] ELSE v[i - Len(u)]
  OBVIOUS

(* "Hello there, this is message number i", eight of them *)
LEMMA EasyHello ==
    ASSUME NEW t, NEW n \in Int
    PROVE  [i \in 1 .. 8 |-> SendTo(1, Text(i + n, IF i + n < 10 THEN 14 ELSE 15), FALSE)]
               \in Seq(Easy(t))
  <1> DEFINE x(i) == SendTo(1, Text(i + n, IF i + n < 10 THEN 14 ELSE 15), FALSE)
  <1>1. \A i \in 1 .. 8 : x(i) \in Easy(t)
    <2> TAKE i \in 1 .. 8
    <2>1. /\ i + n \in Int /\ (IF i + n < 10 THEN 14 ELSE 15) \in Int
          /\ 1 \in 0 .. 1 /\ 1 \in Nat /\ FALSE \in BOOLEAN
      OBVIOUS
    <2> QED BY <2>1, EasySend
  <1> HIDE DEF x
  <1>2. [i \in 1 .. 8 |-> x(i)] \in Seq(Easy(t)) BY <1>1
  <1> QED BY <1>2 DEF x

LEMMA EasyEight ==
    ASSUME NEW t \in {11, 12}
    PROVE  [i \in 1 .. 8 |-> SendTo(1, Text(i - 1, IF i - 1 < 10 THEN 14 ELSE 15), FALSE)]
           \o <<ReceiveFrom(2, 0, TRUE)>>
           \o [i \in 1 .. 8 |-> SendTo(1, Text(i + 7, IF i + 7 < 10 THEN 14 ELSE 15), FALSE)]
               \in Seq(Easy(t))
  <1> DEFINE a == [i \in 1 .. 8 |-> SendTo(1, Text(i - 1, IF i - 1 < 10 THEN 14 ELSE 15), FALSE)]
             a1 == [i \in 1 .. 8 |->
                       SendTo(1, Text(i + -1, IF i + -1 < 10 THEN 14 ELSE 15), FALSE)]
             x == ReceiveFrom(2, 0, TRUE)
             b == <<x>>
             c == [i \in 1 .. 8 |-> SendTo(1, Text(i + 7, IF i + 7 < 10 THEN 14 ELSE 15), FALSE)]
  <1>1. a1 \in Seq(Easy(t)) /\ c \in Seq(Easy(t)) 
    <2>1. -1 \in Int /\ 7 \in Int OBVIOUS
    <2> QED BY <2>1, EasyHello
  <1>2. a = a1
    <2>1. \A i \in 1 .. 8 : i - 1 = i + -1 OBVIOUS
    <2> QED BY <2>1
  <1>3. b \in Seq(Easy(t))
    <2>1. 2 \in Nat /\ 2 \in 0 .. 2 /\ 0 \in Int /\ TRUE \in BOOLEAN /\ t # 24 OBVIOUS
    <2>2. x \in Easy(t) BY <2>1, EasyReceive
    <2> HIDE DEF x
    <2> QED BY <2>2
  <1> HIDE DEF a, a1, b, c
  <1>4. a \o b \in Seq(Easy(t)) BY <1>1, <1>2, <1>3, EasyJoined
  <1>5. (a \o b) \o c \in Seq(Easy(t)) BY <1>1, <1>4, EasyJoined
  <1> QED BY <1>5 DEF a, b, c, x

(* the empty message that waits for a receiver, as nobody comes for it *)
LEMMA EmptySend ==
    ASSUME NEW t \in {11, 12}
    PROVE  SendTo(2, NoBytes, TRUE) \in Easy(t) /\ Hard(t, SendTo(2, NoBytes, TRUE))
  <1> DEFINE x == SendTo(2, NoBytes, TRUE)
  <1>1. x \in Easy(t)
    <2>1. 2 \in Nat /\ 2 \in 0 .. 2 /\ 0 \in Int /\ TRUE \in BOOLEAN OBVIOUS
    <2> QED BY <2>1, EasySend DEF NoBytes
  <1>2. x.op = "send" /\ x.mb = 2 /\ x.wait /\ x.msg = NoBytes BY DEF SendTo, Blank
  <1>3. NoBytes[2] = 0 BY DEF NoBytes, Text
  <1> HIDE DEF x
  <1>4. 0 \in 0 .. BoxSize(t) /\ BoxCount(t) = 2 BY DEF BoxSize, BoxCount
  <1>5. Hard(t, x) BY <1>2, <1>3, <1>4 DEF Hard
  <1> QED BY <1>1, <1>5 DEF x

(* a mailbox with slots and one without *)
LEMMA TwoBoxesAt ==
    ASSUME NEW t \in {11, 12}
    PROVE  TwoChildren(t, <<MakeBox(5, 50), MakeBox(0, 50)>> \o SpawnAll(2, <<4, 3>>)
                          \o Times(2, Wait))
  <1> DEFINE a == <<MakeBox(5, 50), MakeBox(0, 50)>>
             qs == <<4, 3>>
  <1>1. BoxCount(t) = 2 /\ BoxSlots(t, 1) = 5 /\ BoxSlots(t, 2) = 0 /\ BoxSize(t) = 50
    BY DEF BoxCount, BoxSlots, BoxSize
  <1>2. a \in Seq(Instruction) /\ Len(a) = 2 /\ a[1] = MakeBox(5, 50) /\ a[2] = MakeBox(0, 50)
    <2>1. MakeBox(5, 50) \in Instruction /\ MakeBox(0, 50) \in Instruction BY MakeBoxType
    <2> QED BY <2>1
  <1>3. qs \in Seq(Int) /\ Len(qs) = 2 OBVIOUS
  <1> HIDE DEF a, qs
  <1>4. \A k \in 1 .. BoxCount(t) : a[k] = MakeBox(BoxSlots(t, k), BoxSize(t))
    <2> TAKE k \in 1 .. BoxCount(t)
    <2>1. k = 1 \/ k = 2 BY <1>1
    <2> QED BY <1>1, <1>2, <2>1
  <1>5. TwoChildren(t, a \o SpawnAll(2, qs) \o Times(Len(qs), Wait))
    BY ZenonT(60), <1>1, <1>2, <1>3, <1>4, TwoChildrenAt
  <1> QED BY <1>3, <1>5 DEF a, qs

LEMMA Shaped11 == Shaped(11)
  <1> DEFINE s == <<MakeBox(5, 50), MakeBox(0, 50)>> \o SpawnAll(2, <<4, 3>>) \o Times(2, Wait)
             c2 == [i \in 1 .. 8 |->
                       SendTo(1, Text(i - 1, IF i - 1 < 10 THEN 14 ELSE 15), FALSE)]
                   \o <<ReceiveFrom(2, 0, TRUE)>>
                   \o [i \in 1 .. 8 |->
                       SendTo(1, Text(i + 7, IF i + 7 < 10 THEN 14 ELSE 15), FALSE)]
             y == ReceiveFrom(1, 100, TRUE)
             r == Times(5, y)
             x == SendTo(2, NoBytes, TRUE)
             rx == r \o <<x>>
             c3 == rx \o r
  <1>1. AllTests[11 + 1] = <<s, c2, c3>> BY TestsAt, Zenon DEF Test11
  <1>2. TwoChildren(11, s) BY TwoBoxesAt
  <1>3. c2 \in Seq(Easy(11)) BY EasyEight
  <1>4. r \in Seq(Easy(11)) /\ Len(r) = 5
    <2>1. /\ 1 \in Nat /\ 1 \in 0 .. 1 /\ 100 \in Int /\ TRUE \in BOOLEAN
          /\ 11 # 24 /\ 5 \in Nat
      OBVIOUS
    <2>2. y \in Easy(11) BY <2>1, EasyReceive
    <2> HIDE DEF y
    <2> QED BY <2>1, <2>2, TimesAt
  <1>5. x \in Easy(11) /\ Hard(11, x) BY EmptySend
  <1> HIDE DEF s, c2, y, r, x
  <1>6. c3 \in Seq(Easy(11)) /\ Len(c3) = 11 /\ c3[6] = x
    <2>1. <<x>> \in Seq(Easy(11)) /\ Len(<<x>>) = 1 /\ <<x>>[1] = x BY <1>5
    <2>2. /\ rx \in Seq(Easy(11)) /\ Len(rx) = Len(r) + Len(<<x>>)
          /\ \A i \in 1 .. Len(r) + Len(<<x>>) :
                rx[i] = IF i <= Len(r) THEN r[i] ELSE <<x>>[i - Len(r)]
      BY <1>4, <2>1, EasyJoined
    <2> HIDE DEF rx
    <2>3. rx \in Seq(Easy(11)) /\ Len(rx) = 6 /\ rx[6] = x
      BY <1>4, <2>1, <2>2
    <2>4. /\ c3 \in Seq(Easy(11)) /\ Len(c3) = Len(rx) + Len(r)
          /\ \A i \in 1 .. Len(rx) + Len(r) :
                c3[i] = IF i <= Len(rx) THEN rx[i] ELSE r[i - Len(rx)]
      BY <1>4, <2>3, EasyJoined
    <2> HIDE DEF c3
    <2> QED BY <1>4, <2>3, <2>4
  <1> HIDE DEF c3
  <1>7. Sleeper(11) = 3 /\ Bar(11) = 6 BY DEF Sleeper, Bar
  <1>8. Stuck(11, IF Sleeper(11) = 2 THEN c2 ELSE c3)
    <2>1. Stuck(11, c3) BY <1>5, <1>6, <1>7 DEF Stuck
    <2> QED BY <1>7, <2>1
  <1>9. 11 \in {11, 12, 21, 22} OBVIOUS
  <1> QED BY <1>1, <1>2, <1>3, <1>6, <1>8, <1>9, TwoChildrenShaped

LEMMA Shaped12 == Shaped(12)
  <1> DEFINE s == <<MakeBox(5, 50), MakeBox(0, 50)>> \o SpawnAll(2, <<4, 3>>) \o Times(2, Wait)
             c2 == [i \in 1 .. 8 |->
                       SendTo(1, Text(i - 1, IF i - 1 < 10 THEN 14 ELSE 15), FALSE)]
                   \o <<ReceiveFrom(2, 0, TRUE)>>
                   \o [i \in 1 .. 8 |->
                       SendTo(1, Text(i + 7, IF i + 7 < 10 THEN 14 ELSE 15), FALSE)]
             r == WhileOk(ReceiveFrom(1, 100, FALSE))
             x == SendTo(2, NoBytes, TRUE)
             c3 == <<r, x, r>>
  <1>1. AllTests[12 + 1] = <<s, c2, c3>> BY TestsAt, Zenon DEF Test12
  <1>2. TwoChildren(12, s) BY TwoBoxesAt
  <1>3. c2 \in Seq(Easy(12)) BY EasyEight
  <1>4. r \in Easy(12)
    <2> DEFINE y == ReceiveFrom(1, 100, FALSE)
    <2>1. y \in Instruction
      <3>1. /\ 1 \in Nat /\ 1 \in 0 .. 1 /\ 100 \in Int /\ FALSE \in BOOLEAN
            /\ 12 # 24
        OBVIOUS
      <3>2. y \in Easy(12) BY <3>1, EasyReceive
      <3> HIDE DEF y
      <3> QED BY <3>2 DEF Easy
    <2>2. y.op = "receive" /\ y.no = 1 BY DEF ReceiveFrom, Blank
    <2> HIDE DEF y
    <2>3. r = [y EXCEPT !.ok = 0] BY DEF WhileOk, y
    <2> HIDE DEF r
    <2>4. r \in Instruction /\ r.op = "receive" /\ r.ok = 0 /\ r.no = 1
      BY <2>1, <2>2, <2>3 DEF Instruction
    <2> QED BY <2>4 DEF Easy, Exit
  <1>5. x \in Easy(12) /\ Hard(12, x) BY EmptySend
  <1> HIDE DEF s, c2, r, x
  <1>6. c3 \in Seq(Easy(12)) /\ Len(c3) = 3 /\ c3[2] = x BY <1>4, <1>5
  <1> HIDE DEF c3
  <1>7. Sleeper(12) = 3 /\ Bar(12) = 2 BY DEF Sleeper, Bar
  <1>8. Stuck(12, IF Sleeper(12) = 2 THEN c2 ELSE c3)
    <2>1. Stuck(12, c3) BY <1>5, <1>6, <1>7 DEF Stuck
    <2> QED BY <1>7, <2>1
  <1>9. 12 \in {11, 12, 21, 22} OBVIOUS
  <1> QED BY <1>1, <1>2, <1>3, <1>6, <1>8, <1>9, TwoChildrenShaped

(* one mailbox without slots; a sender and a receiver *)
LEMMA NoSlotsShaped ==
    ASSUME NEW t \in {21, 22}, NEW qs \in Seq(Int), Len(qs) = 2,
           AllTests[t + 1] = <<Family(0, 50, qs),
                               [i \in 1 .. 2 |-> SendTo(1, Text(i - 1, 15), TRUE)],
                               Times(2, ReceiveFrom(1, 100, TRUE))>>
    PROVE  Shaped(t)
  <1> DEFINE a == <<MakeBox(0, 50)>>
             s == a \o SpawnAll(2, qs) \o Times(Len(qs), Wait)
             x(i) == SendTo(1, Text(i - 1, 15), TRUE)
             c2 == [i \in 1 .. 2 |-> x(i)]
             y == ReceiveFrom(1, 100, TRUE)
             c3 == Times(2, y)
  <1>1. AllTests[t + 1] = <<s, c2, c3>> BY DEF Family
  <1>2. /\ BoxCount(t) = 1 /\ BoxSlots(t, 1) = 0 /\ BoxSize(t) = 50
        /\ Sleeper(t) = 2 /\ Bar(t) = 1 /\ t # 24 /\ t \in {11, 12, 21, 22}
    BY DEF BoxCount, BoxSlots, BoxSize, Sleeper, Bar
  <1>3. a \in Seq(Instruction) /\ Len(a) = 1 /\ a[1] = MakeBox(0, 50)
    <2>1. MakeBox(0, 50) \in Instruction BY MakeBoxType
    <2> QED BY <2>1
  <1>4. /\ y \in Easy(t) /\ \A i \in 1 .. 2 : x(i) \in Easy(t)
    <2>1. 1 \in Nat /\ 1 \in 0 .. 1 /\ 100 \in Int /\ TRUE \in BOOLEAN /\ 15 \in Int
      OBVIOUS
    <2>2. y \in Easy(t) BY <1>2, <2>1, EasyReceive
    <2>3. \A i \in 1 .. 2 : x(i) \in Easy(t)
      <3> TAKE i \in 1 .. 2
      <3>1. i - 1 \in Int OBVIOUS
      <3> QED BY <2>1, <3>1, EasySend
    <2> HIDE DEF x, y
    <2> QED BY <2>2, <2>3
  <1>5. Hard(t, x(1))
    <2> DEFINE m == Text(1 - 1, 15)
    <2>1. m[2] \in 0 .. BoxSize(t) BY <1>2 DEF Text
    <2> HIDE DEF m
    <2>2. x(1) = SendTo(1, m, TRUE) BY DEF m
    <2> HIDE DEF x
    <2>3. x(1).op = "send" /\ x(1).mb = 1 /\ x(1).wait /\ x(1).msg = m
      BY ZenonT(60), <2>2 DEF SendTo, Blank
    <2>4. t \notin {5, 13, 14, 32} /\ t # 16 OBVIOUS
    <2> QED BY <1>2, <2>1, <2>3, <2>4 DEF Hard
  <1> HIDE DEF x, y
  <1>6. c2 \in Seq(Easy(t)) /\ Len(c2) = 2 /\ c2[1] = x(1) BY <1>4
  <1>7. c3 \in Seq(Easy(t)) BY <1>4, TimesAt, 2 \in Nat
  <1> HIDE DEF a, c2, c3
  <1>8. TwoChildren(t, s)
    <2>1. \A k \in 1 .. BoxCount(t) : a[k] = MakeBox(BoxSlots(t, k), BoxSize(t))
      BY <1>2, <1>3
    <2> QED BY ZenonT(60), <1>2, <1>3, <2>1, TwoChildrenAt
  <1> HIDE DEF s
  <1>9. Stuck(t, IF Sleeper(t) = 2 THEN c2 ELSE c3)
    <2>1. Stuck(t, c2) BY <1>2, <1>5, <1>6 DEF Stuck
    <2> QED BY <1>2, <2>1
  <1> QED BY SMTT(60), <1>1, <1>2, <1>6, <1>7, <1>8, <1>9, TwoChildrenShaped

LEMMA Shaped21 == Shaped(21)
  <1> DEFINE qs == <<4, 3>>
  <1>1. qs \in Seq(Int) /\ Len(qs) = 2 OBVIOUS
  <1> HIDE DEF qs
  <1>2. AllTests[21 + 1] = <<Family(0, 50, qs),
                             [i \in 1 .. 2 |-> SendTo(1, Text(i - 1, 15), TRUE)],
                             Times(2, ReceiveFrom(1, 100, TRUE))>>
    BY TestsAt, Zenon DEF Test21, qs
  <1>3. 21 \in {21, 22} OBVIOUS
  <1> QED BY <1>1, <1>2, <1>3, NoSlotsShaped

LEMMA Shaped22 == Shaped(22)
  <1> DEFINE qs == <<3, 4>>
  <1>1. qs \in Seq(Int) /\ Len(qs) = 2 OBVIOUS
  <1> HIDE DEF qs
  <1>2. AllTests[22 + 1] = <<Family(0, 50, qs),
                             [i \in 1 .. 2 |-> SendTo(1, Text(i - 1, 15), TRUE)],
                             Times(2, ReceiveFrom(1, 100, TRUE))>>
    BY TestsAt, Zenon DEF Test22, qs
  <1>3. 22 \in {21, 22} OBVIOUS
  <1> QED BY <1>1, <1>2, <1>3, NoSlotsShaped

LEMMA Shaped32 == Shaped(32)
  <1> DEFINE qs == <<3, 3, 3, 3>>
             s == SpawnAll(2, qs) \o Times(4, Wait)
             c(name) == <<WaitDeviceNamed(name)>>
  <1>1. \A p : Program(32, p) = IF p = 1 THEN s ELSE IF p = 2 THEN c("term0")
                       ELSE IF p = 3 THEN c("term1") ELSE IF p = 4 THEN c("term2")
                       ELSE IF p = 5 THEN c("term3") ELSE <<>>
    <2>1. AllTests[32 + 1] = <<s, c("term0"), c("term1"), c("term2"), c("term3")>>
      BY TestsAt, Zenon DEF Test32
    <2> HIDE DEF s, c
    <2> QED BY <2>1, Programs5
  <1>2. Len(s) = 8 /\ \A i \in 1 .. 8 : s[i] = IF i <= 4 THEN Spawn(1 + i, 3) ELSE WaitFor(0)
    <2>1. qs \in Seq(Int) /\ Len(qs) = 4 /\ \A i \in 1 .. 4 : qs[i] = 3 OBVIOUS
    <2> HIDE DEF qs
    <2> DEFINE b == SpawnAll(2, qs)
               w == Times(4, Wait)
    <2>2. b \in Seq(Instruction) /\ Len(b) = 4 /\ \A i \in 1 .. 4 : b[i] = Spawn(2 + i - 1, 3)
      BY <2>1, SpawnsAt
    <2>3. w \in Seq(Instruction) /\ Len(w) = 4 /\ \A i \in 1 .. 4 : w[i] = WaitFor(0)
      BY WaitsAt
    <2> HIDE DEF b, w
    <2>4. /\ s = b \o w /\ Len(s) = Len(b) + Len(w)
          /\ \A i \in 1 .. Len(b) + Len(w) :
                s[i] = IF i <= Len(b) THEN b[i] ELSE w[i - Len(b)]
      BY <2>2, <2>3, Joined DEF b, w
    <2> HIDE DEF s
    <2>5. \A i \in 1 .. 4 : 2 + i - 1 = 1 + i OBVIOUS
    <2> QED BY <2>2, <2>3, <2>4, <2>5
  <1>3. \A name \in Names : c(name) \in Seq(Easy(32)) /\ Len(c(name)) = 1
                            /\ c(name)[1].op = "device"
    BY DeviceChild
  <1>4. {"term0", "term1", "term2", "term3"} \subseteq Names BY DEF Names
  <1> HIDE DEF s, c
  <1>5. /\ BoxCount(32) = 0 /\ Kids(32) = {1, 2} /\ Sleeper(32) = 2 /\ Bar(32) = 1
        /\ Father(32, 2) = 1 /\ Birth(32, 2) = 1
    BY DEF BoxCount, Kids, Sleeper, Bar, Father, Birth
  <1>6. \A p \in Users : \A i \in 1 .. Len(Program(32, p)) :
            InShape(32, p, i, Program(32, p)[i])
    <2> TAKE p \in Users
    <2> TAKE i \in 1 .. Len(Program(32, p))
    <2>1. CASE p = 1
      <3>1. Program(32, p) = s /\ i \in 1 .. 8 BY <1>1, <1>2, <2>1
      <3>2. CASE i <= 4
        <4>1. s[i] = Spawn(1 + i, 3) BY <1>2, <3>1, <3>2
        <4>2. 1 + i \in Kids(32) => p = Father(32, 1 + i) /\ i = Birth(32, 1 + i)
          <5> SUFFICES ASSUME 1 + i \in Kids(32)
                       PROVE  p = Father(32, 1 + i) /\ i = Birth(32, 1 + i)
            OBVIOUS
          <5>1. 1 + i = 2 /\ i = 1 BY <1>5, <3>1
          <5> QED BY <1>5, <2>1, <5>1
        <4> QED BY <3>1, <4>1, <4>2, SpawnInShape
      <3>3. CASE ~(i <= 4)
        <4>1. s[i] = WaitFor(0) BY <1>2, <3>1, <3>3
        <4> QED BY <3>1, <4>1, EasyWait, EasyInShape
      <3> QED BY <3>2, <3>3
    <2>2. CASE p # 1
      <3>1. <<>> \in Seq(Easy(32)) OBVIOUS
      <3>2. Program(32, p) \in Seq(Easy(32)) BY <1>1, <1>3, <1>4, <2>2, <3>1
      <3> QED BY <3>2, EasyProgram
    <2> QED BY <2>1, <2>2
  <1>7. Hard(32, Program(32, 2)[1]) /\ Len(Program(32, 2)) = 1
    BY <1>1, <1>3, <1>4 DEF Hard
  <1>8. /\ Program(32, 1)[1].op = "spawn" /\ Program(32, 1)[1].kid = 2
        /\ Len(Program(32, 1)) = 8
    <2>1. s[1] = Spawn(1 + 1, 3) BY <1>2
    <2> QED BY <1>1, <1>2, <2>1, SpawnFields
  <1> QED BY <1>5, <1>6, <1>7, <1>8 DEF Shaped

(* process 2 fills the mailbox before it spawns the others *)
LEMMA Shaped24 == RoomForTests => Shaped(24)
  <1> SUFFICES ASSUME RoomForTests PROVE Shaped(24) OBVIOUS
  <1> DEFINE b == MakeBox(5, MAX_MESSAGE)
             s1 == <<b, Spawn(2, 1), Wait>>
             x(i) == SendTo(1, Numbered(i - 1), TRUE)
             a == [i \in 1 .. 5 |-> x(i)]
             qs == <<2, 3, 4, 5>>
             s2 == a \o SpawnAll(3, qs) \o Times(4, Wait)
             c(child) == <<SendTo(1, Text(child + 4, 16), TRUE)>>
             r == ReceiveFrom(1, 100, TRUE)
             c6 == Times(8, r)
  <1>1. \A p : Program(24, p) = IF p = 1 THEN s1 ELSE IF p = 2 THEN s2
                       ELSE IF p = 3 THEN c(1) ELSE IF p = 4 THEN c(2)
                       ELSE IF p = 5 THEN c(3) ELSE IF p = 6 THEN c6 ELSE <<>>
    <2>1. AllTests[24 + 1] = <<s1, s2, c(1), c(2), c(3), c6>>
      BY TestsAt, Zenon DEF Test24
    <2> HIDE DEF s1, s2, c, c6
    <2> QED BY <2>1, Programs6
  <1>2. MAX_MESSAGE \in Nat /\ MAX_MESSAGE > 100 BY TestSizes DEF RoomForTests
  <1>3. /\ BoxCount(24) = 1 /\ BoxSlots(24, 1) = 5 /\ BoxSize(24) = MAX_MESSAGE
        /\ Kids(24) = {1, 2, 3} /\ Sleeper(24) = 3 /\ Bar(24) = 1
        /\ Father(24, 2) = 1 /\ Birth(24, 2) = 2 /\ Father(24, 3) = 2 /\ Birth(24, 3) = 6
    BY DEF BoxCount, BoxSlots, BoxSize, Kids, Sleeper, Bar, Father, Birth
  <1>4. Len(s1) = 3 /\ s1[1] = b /\ s1[2] = Spawn(2, 1) /\ s1[3] = WaitFor(0) BY DEF Wait
  <1>5. \A i \in 1 .. 5 : x(i) \in NumberedSends /\ x(i) \in Instruction
    <2> TAKE i \in 1 .. 5
    <2>1. i - 1 \in Int OBVIOUS
    <2>2. x(i) \in NumberedSends BY <2>1 DEF NumberedSends
    <2> HIDE DEF x
    <2> QED BY <2>2, NumberedFields DEF Easy
  <1>6. \A k \in 1 .. 3 : c(k) \in Seq(Easy(24)) /\ Len(c(k)) = 1
    <2> TAKE k \in 1 .. 3
    <2> DEFINE y == SendTo(1, Text(k + 4, 16), TRUE)
    <2>1. k + 4 \in Int /\ 16 \in Int /\ 1 \in Nat /\ 1 \in 0 .. 1 /\ TRUE \in BOOLEAN
      OBVIOUS
    <2>2. y \in Easy(24) BY <2>1, EasySend
    <2>3. c(k) = <<y>> OBVIOUS
    <2> HIDE DEF y, c
    <2> QED BY <2>2, <2>3
  <1>7. Hard(24, c(1)[1])
    <2> DEFINE m == Text(1 + 4, 16)
               y == SendTo(1, m, TRUE)
    <2>1. m[2] = 16 BY DEF Text
    <2>2. c(1)[1] = y OBVIOUS
    <2> HIDE DEF m, c
    <2>3. y.op = "send" /\ y.mb = 1 /\ y.wait /\ y.msg = m BY DEF SendTo, Blank
    <2> HIDE DEF y
    <2>4. y.msg[2] \in 0 .. BoxSize(24) BY <1>2, <1>3, <2>1, <2>3
    <2> QED BY <1>3, <2>2, <2>3, <2>4 DEF Hard
  <1>8. c6 \in Seq(Easy(24))
    <2>1. /\ 1 \in Nat /\ 1 \in 0 .. 1 /\ 100 \in Int /\ TRUE \in BOOLEAN /\ 8 \in Nat
          /\ 100 < BoxSize(24)
      BY <1>2, <1>3
    <2>2. r \in Easy(24) BY <2>1, EasyReceive
    <2> HIDE DEF r
    <2> QED BY <2>1, <2>2, TimesAt
  <1> HIDE DEF x
  <1>9. a \in Seq(Instruction) /\ Len(a) = 5 /\ \A i \in 1 .. 5 : a[i] = x(i) BY <1>5
  <1>10. qs \in Seq(Int) /\ Len(qs) = 4 OBVIOUS
  <1> HIDE DEF a, qs, c, c6, s1, b
  <1>11. /\ Len(s2) = 13
         /\ \A i \in 1 .. 5 : s2[i] = x(i)
         /\ \A i \in 1 .. 4 : s2[5 + i] = Spawn(3 + i - 1, qs[i])
         /\ \A i \in 10 .. 13 : s2[i] = WaitFor(0)
    <2> DEFINE z == a \o SpawnAll(3, qs) \o Times(Len(qs), Wait)
    <2>1. /\ Len(z) = Len(a) + 2 * Len(qs)
          /\ \A i \in 1 .. Len(a) : z[i] = a[i]
          /\ \A i \in 1 .. Len(qs) : z[Len(a) + i] = Spawn(3 + i - 1, qs[i])
          /\ \A i \in Len(a) + Len(qs) + 1 .. Len(a) + 2 * Len(qs) : z[i] = WaitFor(0)
      BY <1>9, <1>10, StartedAt, 3 \in Nat
    <2>2. s2 = z BY <1>10
    <2> HIDE DEF z, s2
    <2>3. Len(a) = 5 /\ Len(qs) = 4 /\ Len(a) + Len(qs) + 1 = 10 /\ Len(a) + 2 * Len(qs) = 13
      BY <1>9, <1>10
    <2> QED BY <1>9, <2>1, <2>2, <2>3
  <1> HIDE DEF s2
  <1>12. \A p \in Users : \A i \in 1 .. Len(Program(24, p)) :
             InShape(24, p, i, Program(24, p)[i])
    <2> TAKE p \in Users
    <2> TAKE i \in 1 .. Len(Program(24, p))
    <2>1. CASE p = 1
      <3>1. Program(24, p) = s1 /\ i \in 1 .. 3 BY <1>1, <1>4, <2>1
      <3>2. i = 1 \/ i = 2 \/ i = 3 BY <3>1
      <3>3. InShape(24, 1, 1, b)
        <4>1. 1 \in 1 .. BoxCount(24) BY <1>3
        <4> QED BY <1>3, <4>1, MakeInShape DEF b
      <3>4. InShape(24, 1, 2, Spawn(2, 1)) BY <1>3, SpawnInShape
      <3>5. InShape(24, 1, 3, WaitFor(0)) BY EasyWait, EasyInShape
      <3> QED BY <1>4, <2>1, <3>1, <3>2, <3>3, <3>4, <3>5
    <2>2. CASE p = 2
      <3>1. Program(24, p) = s2 /\ i \in 1 .. 13
        <4>1. Program(24, p) = s2 BY <1>1, <2>2
        <4> QED BY <1>11, <4>1
      <3>2. CASE i \in 1 .. 5
        <4>1. x(i) \in Easy(24) BY <1>5, <3>2, NumberedFields
        <4> QED BY <1>11, <3>1, <3>2, <4>1, EasyInShape
      <3>3. CASE i \in 6 .. 9
        <4>1. PICK j \in 1 .. 4 : i = 5 + j
          <5>1. i - 5 \in 1 .. 4 /\ i = 5 + (i - 5) BY <3>3
          <5> QED BY <5>1
        <4>2. s2[i] = Spawn(2 + j, qs[j])
          <5>1. 3 + j - 1 = 2 + j BY <4>1
          <5> QED BY <1>11, <4>1, <5>1
        <4>3. ASSUME 2 + j \in Kids(24)
              PROVE  p = Father(24, 2 + j) /\ i = Birth(24, 2 + j)
          <5>1. 2 + j = 3 /\ i = 6 BY <1>3, <4>1, <4>3
          <5> QED BY <1>3, <2>2, <5>1
        <4> QED BY <3>1, <4>2, <4>3, SpawnInShape
      <3>4. CASE i \in 10 .. 13 BY <1>11, <3>1, <3>4, EasyWait, EasyInShape
      <3> QED BY <3>1, <3>2, <3>3, <3>4
    <2>3. CASE p # 1 /\ p # 2
      <3>1. <<>> \in Seq(Easy(24)) OBVIOUS
      <3>2. c(1) \in Seq(Easy(24)) /\ c(2) \in Seq(Easy(24)) /\ c(3) \in Seq(Easy(24))
        BY <1>6
      <3>3. Program(24, p) \in Seq(Easy(24)) BY <1>1, <1>8, <2>3, <3>1, <3>2
      <3> QED BY <3>3, EasyProgram
    <2> QED BY <2>1, <2>2, <2>3
  <1>13. \A k \in 1 .. BoxCount(24) :
             k <= Len(Program(24, 1)) /\ Program(24, 1)[k].op = "create"
    <2> TAKE k \in 1 .. BoxCount(24)
    <2>1. k = 1 BY <1>3
    <2>2. b.op = "create" BY MakeFields DEF b
    <2> QED BY <1>1, <1>4, <2>1, <2>2
  <1>14. \A k \in Kids(24) \ {1} :
           /\ Birth(24, k) \in 1 .. Len(Program(24, Father(24, k)))
           /\ Program(24, Father(24, k))[Birth(24, k)].op = "spawn"
           /\ Program(24, Father(24, k))[Birth(24, k)].kid = k
    <2> TAKE k \in Kids(24) \ {1}
    <2>1. CASE k = 2
      <3>1. Program(24, 1) = s1 BY <1>1
      <3> QED BY <1>3, <1>4, <2>1, <3>1, SpawnFields
    <2>2. CASE k = 3
      <3>1. Program(24, 2) = s2 BY <1>1
      <3>2. s2[6] = Spawn(3, qs[1])
        <4>1. 1 \in 1 .. 4 /\ 5 + 1 = 6 /\ 3 + 1 - 1 = 3 OBVIOUS
        <4> QED BY <1>11, <4>1
      <3> QED BY SMTT(60), <1>3, <1>11, <2>2, <3>1, <3>2, SpawnFields
    <2> QED BY <1>3, <2>1, <2>2
  <1>15. \A i \in 1 .. 5 : i <= Len(Program(24, 2)) /\ Fills(24, Program(24, 2)[i])
    <2> TAKE i \in 1 .. 5
    <2>1. Program(24, 2)[i] = x(i) /\ Len(Program(24, 2)) = 13 BY <1>1, <1>11
    <2>2. x(i).op = "send" /\ x(i).mb = 1 /\ x(i).wait = TRUE /\ x(i).msg[2] = 17
      BY <1>5, NumberedFields
    <2>3. 17 \in 1 .. BoxSize(24) BY <1>2, <1>3
    <2> DEFINE y == x(i)
    <2>4. y.op = "send" /\ y.mb = 1 /\ y.wait = TRUE /\ y.msg[2] \in 1 .. BoxSize(24)
      BY <2>2, <2>3
    <2> HIDE DEF y
    <2>5. Fills(24, y) BY <2>4 DEF Fills
    <2> QED BY <2>1, <2>5 DEF y
  <1>16. Program(24, 3) = c(1) /\ Len(c(1)) = 1 BY <1>1, <1>6
  <1> QED BY <1>3, <1>7, <1>12, <1>13, <1>14, <1>15, <1>16 DEF Shaped

(* an instruction is as easy when the test looks at its code *)
LEMMA EasyReturning ==
    ASSUME NEW t, NEW codes \in SUBSET Int, NEW x \in Easy(t)
    PROVE  Returning(codes, x) \in Easy(t)
  <1> DEFINE y == [x EXCEPT !.check = codes]
  <1>1. y \in Instruction /\ y.op = x.op /\ y.ok = x.ok /\ y.no = x.no /\ y.size = x.size
    BY DEF Easy, Instruction
  <1> HIDE DEF y
  <1>2. y \in Easy(t) BY <1>1 DEF Easy
  <1> QED BY <1>2 DEF Returning, y

(* program 1 sends an empty message to the second mailbox; what it does    *)
(* behind that does not matter                                             *)
LEMMA Shaped29 == Shaped(29)
  <1> DEFINE x == SendTo(2, NoBytes, TRUE)
             y == Returning({0}, x)
             s3 == Returning({0}, SendTo(1, NoBytes, FALSE))
             s5 == Returning({0}, ReceiveFrom(1, 0, TRUE))
             r2 == Returning({0}, ReceiveFrom(2, 0, TRUE))
             a == <<MakeBox(5, 50), MakeBox(0, 50), s3, Spawn(2, 3), s5, Spawn(3, 4), y>>
             b1 == Times(3, s3)
             b2 == <<Spawn(4, 3)>>
             b3 == Times(3, Wait)
             b4 == <<FreeBox(1), FreeBox(2)>>
             s1 == a \o b1 \o b2 \o b3 \o b4
             s2 == ZeroLenSenderThenReceiver
  <1>1. \A p : Program(29, p) = IF p = 1 THEN s1 ELSE IF p = 2 THEN s2
                       ELSE IF p = 3 THEN ZeroLenReceiver(2)
                       ELSE IF p = 4 THEN ZeroLenReceiver(3) ELSE <<>>
    <2>1. AllTests[29 + 1] = <<s1, s2, ZeroLenReceiver(2), ZeroLenReceiver(3)>>
      BY TestsAt, Zenon DEF Test29
    <2> HIDE DEF s1, s2
    <2> QED BY <2>1, Programs4
  <1>2. /\ BoxCount(29) = 2 /\ BoxSlots(29, 1) = 5 /\ BoxSlots(29, 2) = 0 /\ BoxSize(29) = 50
        /\ Kids(29) = {1} /\ Sleeper(29) = 1 /\ Bar(29) = 7 /\ 29 # 24
    BY DEF BoxCount, BoxSlots, BoxSize, Kids, Sleeper, Bar
  <1>3. x \in Easy(29) /\ s3 \in Easy(29) /\ s5 \in Easy(29) /\ r2 \in Easy(29)
    <2>1. /\ 1 \in Nat /\ 2 \in Nat /\ 1 \in 0 .. 1 /\ 2 \in 0 .. 2 /\ 0 \in Int
          /\ TRUE \in BOOLEAN /\ FALSE \in BOOLEAN /\ {0} \in SUBSET Int
      OBVIOUS
    <2>2. x \in Easy(29) BY <2>1, EasySend DEF NoBytes
    <2>3. SendTo(1, NoBytes, FALSE) \in Easy(29) BY <2>1, EasySend DEF NoBytes
    <2>4. ReceiveFrom(1, 0, TRUE) \in Easy(29) BY <1>2, <2>1, EasyReceive
    <2>5. ReceiveFrom(2, 0, TRUE) \in Easy(29) BY <1>2, <2>1, EasyReceive
    <2> QED BY <2>1, <2>2, <2>3, <2>4, <2>5, EasyReturning
  <1>4. y \in Easy(29) /\ Hard(29, y)
    <2>1. y \in Easy(29)
      <3>1. {0} \in SUBSET Int OBVIOUS
      <3> HIDE DEF x
      <3> QED BY <1>3, <3>1, EasyReturning
    <2>2. x.op = "send" /\ x.mb = 2 /\ x.wait = TRUE /\ x.msg = NoBytes /\ x \in Instruction
      BY <1>3 DEF SendTo, Blank, Easy
    <2> HIDE DEF x
    <2>3. y.op = "send" /\ y.mb = 2 /\ y.wait = TRUE /\ y.msg = NoBytes
      BY <2>2 DEF Returning, Instruction
    <2>4. NoBytes[2] \in 0 .. BoxSize(29) BY <1>2 DEF NoBytes, Text
    <2> HIDE DEF y
    <2> QED BY <1>2, <2>1, <2>3, <2>4 DEF Hard
  <1> HIDE DEF x, y, s3, s5, r2
  <1>5. /\ a \in Seq(Instruction) /\ Len(a) = 7
        /\ a[1] = MakeBox(5, 50) /\ a[2] = MakeBox(0, 50) /\ a[3] = s3
        /\ a[4] = Spawn(2, 3) /\ a[5] = s5 /\ a[6] = Spawn(3, 4) /\ a[7] = y
    <2>1. /\ MakeBox(5, 50) \in Instruction /\ MakeBox(0, 50) \in Instruction
          /\ Spawn(2, 3) \in Instruction /\ Spawn(3, 4) \in Instruction
      BY MakeBoxType, SpawnType
    <2>2. s3 \in Instruction /\ s5 \in Instruction /\ y \in Instruction
      BY <1>3, <1>4 DEF Easy
    <2> QED BY <2>1, <2>2
  <1>6. /\ Len(s1) \in Nat /\ Len(s1) >= 7 /\ \A i \in 1 .. 7 : s1[i] = a[i]
    <2>1. /\ b1 \in Seq(Instruction) /\ b2 \in Seq(Instruction)
          /\ b3 \in Seq(Instruction) /\ b4 \in Seq(Instruction)
      <3>1. s3 \in Instruction /\ Wait \in Instruction /\ 3 \in Nat
        <4>1. Wait \in Instruction BY WaitType DEF Wait
        <4> QED BY <1>3, <4>1 DEF Easy
      <3>2. b1 \in Seq(Instruction) /\ b3 \in Seq(Instruction) BY <3>1, TimesAt
      <3>3. Spawn(4, 3) \in Instruction BY SpawnType
      <3>4. FreeBox(1) \in Instruction /\ FreeBox(2) \in Instruction
        BY BlankType DEF FreeBox, Instruction
      <3> QED BY <3>2, <3>3, <3>4
    <2> HIDE DEF a, b1, b2, b3, b4
    <2> DEFINE Begins(s) == /\ s \in Seq(Instruction) /\ Len(s) \in Nat /\ Len(s) >= 7
                            /\ \A i \in 1 .. 7 : s[i] = a[i]
    <2>2. ASSUME NEW u, NEW v \in Seq(Instruction), Begins(u) PROVE Begins(u \o v)
      <3>1. u \in Seq(Instruction) /\ Len(u) \in Nat /\ Len(u) >= 7 /\ Len(v) \in Nat
        BY <2>2
      <3>2. /\ u \o v \in Seq(Instruction) /\ Len(u \o v) = Len(u) + Len(v)
            /\ \A i \in 1 .. Len(u) + Len(v) :
                  (u \o v)[i] = IF i <= Len(u) THEN u[i] ELSE v[i - Len(u)]
        BY <3>1, Joined
      <3>3. \A i \in 1 .. 7 : (u \o v)[i] = a[i] BY <2>2, <3>1, <3>2
      <3> QED BY <3>1, <3>2, <3>3
    <2>3. Begins(a) BY <1>5
    <2> HIDE DEF Begins
    <2>4. Begins(a \o b1) BY <2>1, <2>2, <2>3
    <2>5. Begins(a \o b1 \o b2) BY <2>1, <2>2, <2>4
    <2>6. Begins(a \o b1 \o b2 \o b3) BY <2>1, <2>2, <2>5
    <2>7. Begins(s1) BY <2>1, <2>2, <2>6
    <2> QED BY <2>7 DEF Begins
  <1> HIDE DEF s1, a
  <1>7. /\ s2 \in Seq(Easy(29)) /\ ZeroLenReceiver(2) \in Seq(Easy(29))
        /\ ZeroLenReceiver(3) \in Seq(Easy(29))
    <2>1. s2 = <<s5, s3>> BY DEF s3, s5, ZeroLenSenderThenReceiver
    <2>2. ZeroLenReceiver(2) = <<r2>> BY DEF r2, ZeroLenReceiver
    <2>3. ZeroLenReceiver(3) = Times(3, s5) BY DEF s5, ZeroLenReceiver
    <2>4. Times(3, s5) \in Seq(Easy(29)) BY <1>3, TimesAt, 3 \in Nat
    <2>5. <<s5, s3>> \in Seq(Easy(29)) /\ <<r2>> \in Seq(Easy(29)) BY <1>3
    <2> QED BY <2>1, <2>2, <2>3, <2>4, <2>5
  <1> HIDE DEF s2
  <1>8. \A p \in Users : \A i \in 1 .. Len(Program(29, p)) :
            InShape(29, p, i, Program(29, p)[i])
    <2> TAKE p \in Users
    <2> TAKE i \in 1 .. Len(Program(29, p))
    <2>1. CASE p = 1
      <3>1. Program(29, p) = s1 /\ i \in Nat /\ i >= 1 BY <1>1, <1>6, <2>1
      <3>2. CASE i > 7
        <4>1. ~Reached(29, p, i) BY <1>2, <2>1, <3>1, <3>2 DEF Reached
        <4> QED BY <4>1 DEF InShape
      <3>3. CASE i <= 7
        <4>1. i = 1 \/ i = 2 \/ i = 3 \/ i = 4 \/ i = 5 \/ i = 6 \/ i = 7
          BY <3>1, <3>3
        <4>2. s1[i] = a[i] BY <1>6, <4>1
        <4>3. 1 \in 1 .. BoxCount(29) /\ 2 \in 1 .. BoxCount(29) BY <1>2
        <4>4. InShape(29, 1, 1, MakeBox(5, 50)) BY <1>2, <4>3, MakeInShape
        <4>5. InShape(29, 1, 2, MakeBox(0, 50)) BY <1>2, <4>3, MakeInShape
        <4>6. InShape(29, 1, 3, s3) /\ InShape(29, 1, 5, s5) /\ InShape(29, 1, 7, y)
          BY <1>3, <1>4, EasyInShape
        <4>7. InShape(29, 1, 4, Spawn(2, 3)) /\ InShape(29, 1, 6, Spawn(3, 4))
          BY <1>2, SpawnInShape
        <4> QED BY <1>5, <2>1, <3>1, <4>1, <4>2, <4>4, <4>5, <4>6, <4>7
      <3> QED BY <3>1, <3>2, <3>3
    <2>2. CASE p # 1
      <3>1. <<>> \in Seq(Easy(29)) OBVIOUS
      <3>2. Program(29, p) \in Seq(Easy(29)) BY <1>1, <1>7, <2>2, <3>1
      <3> QED BY <3>2, EasyProgram
    <2> QED BY <2>1, <2>2
  <1>9. \A k \in 1 .. BoxCount(29) :
            k <= Len(Program(29, 1)) /\ Program(29, 1)[k].op = "create"
    <2> TAKE k \in 1 .. BoxCount(29)
    <2>1. k = 1 \/ k = 2 BY <1>2
    <2>2. Program(29, 1) = s1 /\ s1[k] = a[k] /\ k <= Len(s1) BY <1>1, <1>6, <2>1
    <2>3. a[k].op = "create" BY <1>5, <2>1, MakeFields
    <2> QED BY <2>2, <2>3
  <1>10. Program(29, 1) = s1 /\ s1[7] = y /\ 7 \in 1 .. Len(s1) BY <1>1, <1>5, <1>6
  <1> QED BY <1>2, <1>4, <1>8, <1>9, <1>10 DEF Shaped

(* two mailboxes, filled without waiting, and a send that repeats itself *)
LEMMA Shaped16 == Shaped(16)
  <1> DEFINE b1 == MakeBox(MAXSLOTS, 32)
             b2 == OrExit(MakeBox(5, 32))
             a == <<b1, b2>>
             u == [i \in 1 .. 5 |-> SendTo(2, Text(i, 8), FALSE)]
             v == [i \in 1 .. MAXSLOTS |-> SendTo(1, Text(5 + i, 12), FALSE)]
             x == Forever(SendTo(1, Text(0, 12), FALSE))
             au == a \o u
             auv == au \o v
             s == auv \o <<x>>
  <1>1. \A p : Program(16, p) = IF p = 1 THEN s ELSE <<>>
    <2>1. AllTests[16 + 1] = <<s>> BY TestsAt, Zenon DEF Test16
    <2> HIDE DEF s
    <2> QED BY <2>1, Programs1
  <1>2. /\ BoxCount(16) = 2 /\ BoxSlots(16, 1) = MAXSLOTS /\ BoxSlots(16, 2) = 5
        /\ BoxSize(16) = 32 /\ Kids(16) = {1} /\ Sleeper(16) = 1
        /\ Bar(16) = 8 + MAXSLOTS /\ 16 # 24
    BY DEF BoxCount, BoxSlots, BoxSize, Kids, Sleeper, Bar
  <1>3. MAXSLOTS \in Nat BY TestSizes
  <1>4. b2 \in Instruction /\ b2.op = "create" /\ InShape(16, 1, 2, b2)
    <2> DEFINE y == MakeBox(5, 32)
    <2>1. /\ y \in Instruction /\ y.op = "create" /\ y.ok = 1
          /\ y.slots = 5 /\ y.size = 32
      BY MakeBoxType, MakeFields
    <2> HIDE DEF y
    <2> DEFINE z == [y EXCEPT !.no = Exit]
    <2>2. b2 = z BY DEF OrExit, y
    <2> HIDE DEF b2
    <2>3. /\ z \in Instruction /\ z.op = "create" /\ z.ok = 1
          /\ z.slots = 5 /\ z.size = 32
      BY <2>1 DEF Instruction, Exit
    <2> HIDE DEF z
    <2>4. InShape(16, 1, 2, z) BY <1>2, <2>3 DEF InShape
    <2> QED BY <2>2, <2>3, <2>4
  <1>5. /\ a \in Seq(Instruction) /\ Len(a) = 2
        /\ \A i \in 1 .. 2 : InShape(16, 1, i, a[i]) /\ a[i].op = "create"
    <2>1. b1 \in Instruction /\ b1.op = "create" BY <1>3, MakeBoxType
    <2>2. InShape(16, 1, 1, b1) BY <1>2, MakeInShape
    <2> HIDE DEF b1, b2
    <2>3. \A i \in 1 .. 2 : InShape(16, 1, i, a[i]) /\ a[i].op = "create"
      <3> TAKE i \in 1 .. 2
      <3>1. i = 1 \/ i = 2 OBVIOUS
      <3> QED BY <1>4, <2>1, <2>2, <3>1
    <2> QED BY <1>4, <2>1, <2>3
  <1>6. u \in Seq(Easy(16)) /\ Len(u) = 5
    <2> DEFINE y(i) == SendTo(2, Text(i, 8), FALSE)
    <2>1. \A i \in 1 .. 5 : y(i) \in Easy(16)
      <3> TAKE i \in 1 .. 5
      <3>1. i \in Int /\ 8 \in Int /\ 2 \in Nat /\ 2 \in 0 .. 2 /\ FALSE \in BOOLEAN OBVIOUS
      <3> QED BY <3>1, EasySend
    <2>2. u = [i \in 1 .. 5 |-> y(i)] OBVIOUS
    <2> HIDE DEF y, u
    <2> QED BY <2>1, <2>2
  <1>7. v \in Seq(Easy(16)) /\ Len(v) = MAXSLOTS
    <2> DEFINE y(i) == SendTo(1, Text(5 + i, 12), FALSE)
    <2>1. \A i \in 1 .. MAXSLOTS : y(i) \in Easy(16)
      <3> TAKE i \in 1 .. MAXSLOTS
      <3>1. /\ 5 + i \in Int /\ 12 \in Int /\ 1 \in Nat /\ 1 \in 0 .. 1
            /\ FALSE \in BOOLEAN
        OBVIOUS
      <3> QED BY <3>1, EasySend
    <2>2. v = [i \in 1 .. MAXSLOTS |-> y(i)] OBVIOUS
    <2> HIDE DEF y, v
    <2> QED BY <1>3, <2>1, <2>2
  <1>8. x \in Easy(16) /\ Hard(16, x)
    <2> DEFINE y == SendTo(1, Text(0, 12), FALSE)
    <2>1. y \in Easy(16)
      <3>1. 0 \in Int /\ 12 \in Int /\ 1 \in Nat /\ 1 \in 0 .. 1 /\ FALSE \in BOOLEAN OBVIOUS
      <3> QED BY <3>1, EasySend
    <2>2. y.op = "send" BY DEF SendTo, Blank
    <2> HIDE DEF y
    <2> DEFINE z == [y EXCEPT !.ok = 0]
               w == [z EXCEPT !.no = 0]
    <2>3. x = w BY DEF Forever, y
    <2>4. z \in Instruction /\ z.op = "send" /\ z.ok = 0 BY <2>1, <2>2 DEF Easy, Instruction
    <2> HIDE DEF x, z
    <2>5. w \in Instruction /\ w.op = "send" /\ w.ok = 0 /\ w.no = 0
      BY <2>4 DEF Instruction
    <2> HIDE DEF w
    <2> QED BY <2>3, <2>5 DEF Easy, Hard, Exit
  <1> HIDE DEF a, b1, b2, u, v, x
  <1>9. u \in Seq(Instruction) /\ v \in Seq(Instruction) /\ <<x>> \in Seq(Instruction)
    <2>1. \A y \in Easy(16) : y \in Instruction BY DEF Easy
    <2> QED BY <1>6, <1>7, <1>8, <2>1
  <1>10. /\ au \in Seq(Instruction) /\ Len(au) = 7
         /\ \A i \in 1 .. 7 : au[i] = IF i <= 2 THEN a[i] ELSE u[i - 2]
    <2>1. /\ au \in Seq(Instruction) /\ Len(au) = Len(a) + Len(u)
          /\ \A i \in 1 .. Len(a) + Len(u) :
                au[i] = IF i <= Len(a) THEN a[i] ELSE u[i - Len(a)]
      BY <1>5, <1>9, Joined
    <2> HIDE DEF au
    <2>2. Len(a) = 2 /\ Len(u) = 5 /\ Len(a) + Len(u) = 7 BY <1>5, <1>6
    <2> QED BY <2>1, <2>2
  <1> HIDE DEF au
  <1>11. /\ auv \in Seq(Instruction) /\ Len(auv) = 7 + MAXSLOTS
         /\ \A i \in 1 .. 7 + MAXSLOTS : auv[i] = IF i <= 7 THEN au[i] ELSE v[i - 7]
    <2>1. /\ auv \in Seq(Instruction) /\ Len(auv) = Len(au) + Len(v)
          /\ \A i \in 1 .. Len(au) + Len(v) :
                auv[i] = IF i <= Len(au) THEN au[i] ELSE v[i - Len(au)]
      BY <1>9, <1>10, Joined
    <2> HIDE DEF auv
    <2>2. Len(au) = 7 /\ Len(v) = MAXSLOTS BY <1>7, <1>10
    <2> QED BY <2>1, <2>2
  <1> HIDE DEF auv
  <1>12. /\ Len(s) = 8 + MAXSLOTS /\ s[8 + MAXSLOTS] = x
         /\ \A i \in 1 .. 7 + MAXSLOTS : s[i] = auv[i]
    <2>1. /\ s \in Seq(Instruction) /\ Len(s) = Len(auv) + Len(<<x>>)
          /\ \A i \in 1 .. Len(auv) + Len(<<x>>) :
                s[i] = IF i <= Len(auv) THEN auv[i] ELSE <<x>>[i - Len(auv)]
      BY <1>9, <1>11, Joined
    <2> HIDE DEF s
    <2>2. Len(auv) = 7 + MAXSLOTS /\ Len(<<x>>) = 1 /\ <<x>>[1] = x BY <1>11
    <2>3. \A i \in 1 .. 7 + MAXSLOTS : s[i] = auv[i] BY <1>3, <2>1, <2>2
    <2>4. s[8 + MAXSLOTS] = <<x>>[1]
      <3>1. /\ 8 + MAXSLOTS \in 1 .. Len(auv) + Len(<<x>>) /\ ~(8 + MAXSLOTS <= Len(auv))
            /\ 8 + MAXSLOTS - Len(auv) = 1
        BY <1>3, <2>2
      <3> QED BY <2>1, <3>1
    <2>5. Len(s) = 8 + MAXSLOTS BY <1>3, <2>1, <2>2
    <2> QED BY <2>2, <2>3, <2>4, <2>5
  <1> HIDE DEF s
  <1>13. \A i \in 1 .. 2 : s[i] = a[i]
    <2> TAKE i \in 1 .. 2
    <2>1. i \in 1 .. 7 /\ i \in 1 .. 7 + MAXSLOTS /\ i <= 2 /\ i <= 7 BY <1>3
    <2> QED BY <1>10, <1>11, <1>12, <2>1
  <1>14. \A i \in 1 .. 8 + MAXSLOTS : i > 2 => s[i] \in Easy(16)
    <2> SUFFICES ASSUME NEW i \in 1 .. 8 + MAXSLOTS, i > 2 PROVE s[i] \in Easy(16)
      OBVIOUS
    <2>1. CASE i <= 7
      <3>1. s[i] = u[i - 2]
        <4>1. i \in 1 .. 7 /\ i \in 1 .. 7 + MAXSLOTS /\ ~(i <= 2) BY <1>3, <2>1
        <4> QED BY <1>10, <1>11, <1>12, <2>1, <4>1
      <3>2. i - 2 \in 1 .. Len(u) BY <1>6, <2>1
      <3> QED BY <1>6, <3>1, <3>2, ElementOf
    <2>2. CASE i > 7 /\ i <= 7 + MAXSLOTS
      <3>1. s[i] = v[i - 7] BY <1>3, <1>11, <1>12, <2>2
      <3>2. i - 7 \in 1 .. Len(v) BY <1>3, <1>7, <2>2
      <3> QED BY <1>7, <3>1, <3>2, ElementOf
    <2>3. CASE i = 8 + MAXSLOTS BY <1>8, <1>12, <2>3
    <2> QED BY <1>3, <2>1, <2>2, <2>3
  <1>15. \A p \in Users : \A i \in 1 .. Len(Program(16, p)) :
             InShape(16, p, i, Program(16, p)[i])
    <2> TAKE p \in Users
    <2> TAKE i \in 1 .. Len(Program(16, p))
    <2>1. CASE p = 1
      <3>1. Program(16, p) = s /\ i \in 1 .. 8 + MAXSLOTS BY <1>1, <1>12, <2>1
      <3>2. CASE i <= 2
        <4>1. i \in 1 .. 2 BY <3>1, <3>2
        <4> QED BY <1>5, <1>13, <2>1, <3>1, <4>1
      <3>3. CASE i > 2 BY <1>14, <3>1, <3>3, EasyInShape
      <3> QED BY <1>3, <3>1, <3>2, <3>3
    <2>2. CASE p # 1
      <3>1. <<>> \in Seq(Easy(16)) OBVIOUS
      <3>2. Program(16, p) \in Seq(Easy(16)) BY <1>1, <2>2, <3>1
      <3> QED BY <3>2, EasyProgram
    <2> QED BY <2>1, <2>2
  <1>16. \A k \in 1 .. BoxCount(16) :
             k <= Len(Program(16, 1)) /\ Program(16, 1)[k].op = "create"
    <2> TAKE k \in 1 .. BoxCount(16)
    <2>1. k \in 1 .. 2 BY <1>2
    <2>2. k <= 8 + MAXSLOTS BY <1>3, <2>1
    <2> QED BY <1>1, <1>5, <1>12, <1>13, <2>1, <2>2
  <1>17. Program(16, 1) = s /\ 8 + MAXSLOTS \in 1 .. Len(s) BY <1>1, <1>3, <1>12
  <1> QED BY <1>2, <1>8, <1>12, <1>15, <1>16, <1>17 DEF Shaped

LEMMA AllShaped == RoomForTests => \A t \in NeverEnd : Shaped(t)
  BY Shaped05, Shaped11, Shaped12, Shaped13, Shaped14, Shaped16, Shaped21, Shaped22,
     Shaped24, Shaped29, Shaped32
  DEF NeverEnd
-----------------------------------------------------------------------------
(* The processes of a test that does not end *)

(* what holds before each step of such a test *)
Hanging ==
    /\ RoomForTests /\ test \in NeverEnd
    /\ RInv /\ BootSoFar /\ BInv

LEMMA Room ==
    ASSUME RoomForTests
    PROVE  /\ Main = 0 /\ {1, 2, 3} \subseteq Users /\ ~MallocMayFail
           /\ MaxDevices + 2 <= MaxMbox
           /\ MaxDevices \in Nat /\ MaxMbox \in Nat /\ IntSize \in Nat
           /\ MAXSLOTS \in Nat /\ MAX_MESSAGE \in Nat /\ MAX_MESSAGE > 100
  <1>1. Main = 0 BY ProcAssumption
  <1>2. {1, 2, 3} \subseteq 1 .. 7 OBVIOUS
  <1>3. {1, 2, 3} \subseteq Users BY <1>1, <1>2 DEF RoomForTests, Users
  <1> QED BY <1>1, <1>3, TableAssumption, TestSizes DEF RoomForTests

(* the numbers that describe these tests *)
LEMMA Figures ==
    ASSUME RoomForTests, NEW t \in NeverEnd
    PROVE  /\ Sleeper(t) \in {1, 2, 3} /\ Bar(t) \in Nat /\ Bar(t) > 0
           /\ BoxCount(t) \in 0 .. 2 /\ BoxSize(t) \in Nat
           /\ \A k \in 1 .. 2 : BoxSlots(t, k) \in Nat
           /\ Kids(t) \subseteq {1, 2, 3} /\ 1 \in Kids(t) /\ Sleeper(t) \in Kids(t)
           /\ \A c \in Kids(t) : /\ Birth(t, c) \in Nat /\ Birth(t, c) > 0
                                 /\ Father(t, c) \in {0, 1, 2}
                                 /\ c = 1 <=> Father(t, c) = 0
                                 /\ Father(t, c) # c
  <1>0. MAXSLOTS \in Nat /\ MAX_MESSAGE \in Nat /\ Main = 0 BY Room
  <1>1. /\ Sleeper(t) \in {1, 2, 3} /\ Bar(t) \in Nat /\ Bar(t) > 0
        /\ BoxCount(t) \in 0 .. 2 /\ BoxSize(t) \in Nat
    BY <1>0 DEF Sleeper, Bar, BoxCount, BoxSize
  <1>2. \A k \in 1 .. 2 : BoxSlots(t, k) \in Nat BY <1>0 DEF BoxSlots
  <1>3. Kids(t) \subseteq {1, 2, 3} /\ 1 \in Kids(t) /\ Sleeper(t) \in Kids(t)
    BY <1>1 DEF Kids
  <1>4. \A c \in {1, 2, 3} : Birth(t, c) \in Nat /\ Birth(t, c) > 0 BY DEF Birth
  <1>5. \A c \in {1, 2, 3} : /\ Father(t, c) \in {0, 1, 2}
                             /\ c = 1 <=> Father(t, c) = 0
                             /\ Father(t, c) # c
    BY <1>0 DEF Father
  <1> QED BY <1>1, <1>2, <1>3, <1>4, <1>5

(* the instruction that gives birth to c *)
LEMMA BirthPlace ==
    ASSUME Hanging, NEW c \in Kids(test)
    PROVE  LET f == Father(test, c)
               i == Birth(test, c)
           IN  /\ f \in Proc /\ c \in Users /\ i \in 1 .. Len(Code(f))
               /\ Code(f)[i].op = "spawn" /\ Code(f)[i].kid = c
  <1>0. /\ RoomForTests /\ test \in NeverEnd /\ Main = 0 /\ {1, 2, 3} \subseteq Users
        /\ Main \in Proc /\ Users \subseteq Proc
    BY Room, MainAssumption DEF Hanging, Users
  <1>1. Shaped(test) BY <1>0, AllShaped
  <1> DEFINE f == Father(test, c)
             i == Birth(test, c)
  <1>2. c \in {1, 2, 3} /\ f \in {0, 1, 2} /\ (c = 1 <=> f = 0) BY <1>0, Figures
  <1>3. f \in Proc /\ c \in Users BY <1>0, <1>2
  <1>4. CASE c = 1
    <2>1. f = Main /\ i = 1 BY <1>4 DEF Father, Birth
    <2>2. Code(f) = EntryPoint BY <2>1 DEF Code, CodeOf
    <2>3. Len(EntryPoint) = 2 /\ EntryPoint[1] = Spawn(1, HIGHEST_PRIORITY)
      BY DEF EntryPoint
    <2>4. EntryPoint[1].op = "spawn" /\ EntryPoint[1].kid = 1 BY <2>3, SpawnFields
    <2> QED BY <1>3, <1>4, <2>1, <2>2, <2>3, <2>4
  <1>5. CASE c # 1
    <2>1. f # Main BY <1>0, <1>2, <1>5
    <2>2. Code(f) = Program(test, f) BY <2>1 DEF Code, CodeOf
    <2>3. c \in Kids(test) \ {1} BY <1>5
    <2> QED BY <1>1, <1>3, <2>2, <2>3 DEF Shaped
  <1> QED BY <1>4, <1>5

(* the shape of the instruction that a process of the test is at *)
LEMMA HereShape ==
    ASSUME Hanging, phase # "stopped", NEW p \in Users, todo[p] # <<>>
    PROVE  LET x == Instr(p)
               i == Done(p) + 1
           IN  /\ x.op = "spawn" /\ x.kid \in Kids(test) =>
                      p = Father(test, x.kid) /\ i = Birth(test, x.kid)
               /\ x.op = "create" =>
                      /\ p = 1 /\ i \in 1 .. BoxCount(test) /\ x.ok = 1
                      /\ x.slots = BoxSlots(test, i) /\ x.size = BoxSize(test)
               /\ Exit \in {x.ok, x.no} => x.op = "create"
               /\ x.op # "free"
               /\ x.op = "receive" /\ test = 24 => x.size < BoxSize(test)
  <1>0. /\ RoomForTests /\ test \in NeverEnd /\ RInv /\ p \in Proc /\ p # Main
        /\ Located(p) /\ Core
    BY DEF Hanging, Users, BInv
  <1> DEFINE x == Instr(p)
             i == Done(p) + 1
  <1>1. i \in 1 .. Len(Code(p)) /\ x = Code(p)[i] BY <1>0, Here
  <1>2. Code(p) = Program(test, p) BY <1>0 DEF Code, CodeOf
  <1>3. InShape(test, p, i, x) BY <1>0, <1>1, <1>2, AllShaped DEF Shaped
  <1>4. Reached(test, p, i)
    <2>1. Done(p) \in Int /\ Bar(test) \in Nat BY <1>0, Codes, Figures
    <2>2. p = Sleeper(test) => Done(p) < Bar(test) BY <1>0 DEF Core, HeldBack
    <2> QED BY <2>1, <2>2 DEF Reached
  <1> HIDE DEF x, i
  <1>5. /\ x.op = "spawn" /\ x.kid \in Kids(test) =>
               p = Father(test, x.kid) /\ i = Birth(test, x.kid)
        /\ x.op = "create" =>
               /\ p = 1 /\ i \in 1 .. BoxCount(test) /\ x.ok = 1
               /\ x.slots = BoxSlots(test, i) /\ x.size = BoxSize(test)
        /\ Exit \in {x.ok, x.no} => x.op = "create"
        /\ x.op # "free"
        /\ x.op = "receive" /\ test = 24 => x.size < BoxSize(test)
    BY <1>3, <1>4 DEF InShape
  <1> QED BY <1>5 DEF x, i

-----------------------------------------------------------------------------
(* The calls of such a test *)

(* what a call of the test can name, besides ids that are never valid *)
Named(mb) == mb \in {NegativeId, LargeId} \union 1 .. Len(made)
Grown == made' = made \/ \E code \in Int : made' = Append(made, code)

LEMMA SameName ==
    ASSUME RInv, Grown, NEW mb, Named(mb)
    PROVE  Named(mb)' /\ MboxId(mb)' = MboxId(mb)
  <1>1. made \in Seq(Int)
    <2>1. made \in Seq(-1 .. MaxMbox - 1) BY RInvParts DEF RTypeOK
    <2> QED BY <2>1, TableAssumption
  <1>2. CASE made' = made BY <1>2 DEF Named, MboxId
  <1>3. ASSUME NEW code \in Int, made' = Append(made, code)
        PROVE  Named(mb)' /\ MboxId(mb)' = MboxId(mb)
    <2>1. Len(made') = Len(made) + 1 /\ Len(made) \in Nat BY <1>1, <1>3
    <2>2. \A k \in 1 .. Len(made) : made'[k] = made[k] BY <1>1, <1>3
    <2>3. mb \in 1 .. Len(made) => mb \in 1 .. Len(made') BY <2>1
    <2>4. CASE mb \in {NegativeId, LargeId} BY <2>4 DEF Named, MboxId
    <2>5. CASE mb \in 1 .. Len(made)
      <3>1. made'[mb] = made[mb] BY <2>2, <2>5
      <3> QED BY <2>3, <2>5, <3>1 DEF Named, MboxId
    <2> QED BY <2>4, <2>5 DEF Named
  <1> QED BY <1>2, <1>3 DEF Grown

LEMMA MatchesStays ==
    ASSUME RInv, NEW q \in Proc, Matches(q), Stays(q), call'[q] = call[q],
           waiting'[q] = waiting[q], Grown
    PROVE  Matches(q)'
  <1>1. Instr(q)' = Instr(q) BY DEF Stays, Instr
  <1>2. waiting[q] # NoDevice => Matches(q)' BY <1>1 DEF Matches
  <1>3. ASSUME waiting[q] = NoDevice, call[q].op # "none",
               NEW mb, mb = Instr(q).mb
        PROVE  Matches(q)'
    <2>1. /\ Instr(q).op = call[q].op /\ Instr(q).wait
          /\ call[q].op = "send" => call[q].msg = Instr(q).msg
          /\ call[q].op = "receive" => call[q].size = Instr(q).size
      BY <1>3 DEF Matches
    <2>2. Named(mb) /\ call[q].mb = MboxId(mb) BY <1>3 DEF Matches, Named
    <2>3. Named(mb)' /\ MboxId(mb)' = MboxId(mb) BY <2>2, SameName
    <2>4. Instr(q).mb' = mb BY <1>1, <1>3
    <2>5. Instr(q).mb' \in {NegativeId, LargeId} \union 1 .. Len(made')
      BY <2>3, <2>4 DEF Named
    <2>6. call'[q].mb = MboxId(Instr(q).mb)'
      <3>1. MboxId(Instr(q).mb)' = MboxId(mb)' BY <2>4 DEF MboxId
      <3> QED BY <2>2, <2>3, <3>1
    <2> QED BY <1>1, <1>3, <2>1, <2>5, <2>6 DEF Matches
  <1>4. waiting[q] = NoDevice /\ call[q].op = "none" => Matches(q)' BY DEF Matches
  <1> QED BY <1>2, <1>3, <1>4

LEMMA MatchesOutside ==
    ASSUME NEW q \in Proc, Outside(q)'
    PROVE  Matches(q)'
  BY DEF Matches, Outside, Idle, NoCall

(* process 1 makes the next of its mailboxes *)
Makes(p) ==
    /\ p = 1 /\ Instr(p).op = "create" /\ Outside(p)'
    /\ Len(made) < BoxCount(test) /\ Done(1) = Len(made)
    /\ CreateMailbox(p, BoxSlots(test, Len(made) + 1), BoxSize(test))
    /\ UNCHANGED dvars
    /\ made' = Append(made, nextMailboxId)
    /\ Passes(p)

Sends(p) ==
    LET x == Instr(p)
    IN  /\ x.op = "send" /\ Named(x.mb) /\ MboxId(x.mb) \in Int
        /\ x.msg \in Msg /\ Size[x.msg] = x.msg[2] /\ x.wait \in BOOLEAN
        /\ SendOutcome(p, MboxId(x.mb), x.msg, x.wait)
        /\ waiting[p] = NoDevice
        /\ UNCHANGED <<dvars, made>>

Receives(p) ==
    LET x == Instr(p)
    IN  /\ x.op = "receive" /\ Named(x.mb) /\ MboxId(x.mb) \in Int /\ x.size \in Int
        /\ x.wait \in BOOLEAN
        /\ ReceiveOutcome(p, MboxId(x.mb), x.size, x.wait)
        /\ waiting[p] = NoDevice
        /\ UNCHANGED <<dvars, made>>

Listens(p) ==
    /\ Instr(p).op = "device"
    /\ \E h \in Device : ReceiveOutcome(p, h, IntSize, TRUE)
    /\ waiting'[p] # NoDevice
    /\ UNCHANGED <<phase, nextDevice, deviceMbox, made>>

(* wait_device finds no such device and stops the machine *)
Stops(p) == phase' = "stopped" /\ Instr(p).op = "device"

LEMMA CallNames ==
    ASSUME RInv, NEW p \in Users, stage[p] = "live", todo[p] # <<>>
    PROVE  LET x == Instr(p)
           IN  /\ x.op \in {"send", "receive"} => Named(x.mb) /\ MboxId(x.mb) \in Int
               /\ x.op = "send" => x.msg \in Msg /\ Size[x.msg] = x.msg[2]
               /\ x.op = "receive" => x.size \in Int
               /\ x.op = "device" => Device0[x.name] \in Device
               /\ x.wait \in BOOLEAN
  <1> DEFINE x == Instr(p)
  <1>0. p \in Proc BY DEF Users
  <1>1. /\ x.op = "send" => x.msg \in Msg /\ Size[x.msg] = x.msg[2]
        /\ x.op = "receive" => x.size \in BufSizes
        /\ x.op = "device" => Device0[x.name] \in Device
        /\ x.op \in {"send", "receive", "free"} => MboxId(x.mb) \in MboxArg
        /\ x.wait \in BOOLEAN
    BY Arguments
  <1>2. PICK k, b, b2, k1, b1 \in Nat :
            Does(x, Need(test), k, b, k1, b1) /\ b <= Len(made)
    BY <1>0, InstrFacts
  <1>3. x.op \in {"send", "receive"} => x.mb \in 0 .. b \union {LargeId}
    BY <1>2 DEF Does
  <1>4. Len(made) \in Nat BY RInvParts, MadeLength
  <1> HIDE DEF x
  <1>5. x.op \in {"send", "receive"} => Named(x.mb)
    BY <1>2, <1>3, <1>4 DEF Named, NegativeId
  <1>6. MboxArg \subseteq Int /\ BufSizes \subseteq Int
    BY TableAssumption, ArgumentAssumption DEF MboxArg
  <1>7. /\ x.op \in {"send", "receive"} => Named(x.mb) /\ MboxId(x.mb) \in Int
        /\ x.op = "send" => x.msg \in Msg /\ Size[x.msg] = x.msg[2]
        /\ x.op = "receive" => x.size \in Int
        /\ x.op = "device" => Device0[x.name] \in Device
        /\ x.wait \in BOOLEAN
    BY <1>1, <1>5, <1>6
  <1> QED BY <1>7 DEF x

(* what a process of the test does in a call *)
LEMMA CallKinds ==
    ASSUME Hanging, phase = "up", NEW p \in Proc, stage[p] = "live", KernelCall(p)
    PROVE  Makes(p) \/ Sends(p) \/ Receives(p) \/ Listens(p) \/ Stops(p)
  <1>0. /\ RInv /\ TypeOK /\ DTypeOK /\ RTypeOK /\ SlotsPrefix /\ CallOK /\ InCall(p)
        /\ p \in Users /\ todo[p] # <<>> /\ Core /\ ~MallocMayFail
        /\ RoomForTests /\ test \in NeverEnd
    <2>1. RInv /\ RoomForTests BY DEF Hanging
    <2>2. p \in Users /\ todo[p] # <<>> BY <2>1, CallMoves
    <2>3. Core BY DEF Hanging, BInv
    <2>4. ~MallocMayFail BY <2>1, Room
    <2> QED BY <2>1, <2>2, <2>3, <2>4, RInvParts DEF RInv, DInv, Inv1, Hanging
  <1> DEFINE x == Instr(p)
  <1>1. /\ x.op \in {"send", "receive"} => Named(x.mb) /\ MboxId(x.mb) \in Int
        /\ x.op = "send" => x.msg \in Msg /\ Size[x.msg] = x.msg[2]
        /\ x.op = "receive" => x.size \in Int
        /\ x.op = "device" => Device0[x.name] \in Device
        /\ x.wait \in BOOLEAN
    BY <1>0, CallNames
  <1>2. /\ x.op = "create" =>
               /\ p = 1 /\ Done(p) + 1 \in 1 .. BoxCount(test) /\ x.ok = 1
               /\ x.slots = BoxSlots(test, Done(p) + 1) /\ x.size = BoxSize(test)
        /\ x.op # "free"
    BY <1>0, HereShape
  <1>3. /\ \A q \in Proc : ~signal[q] /\ call[q].op \in {"none", "send", "receive"}
        /\ \A id \in Id : mailboxes[id].status # "released"
        /\ Matches(p) /\ DevicesQuiet /\ BoxesMade
    BY <1>0 DEF Core, Unfreed
  <1>4. At(p, "create") \/ made' = made BY DEF KernelCall, Proceed
  <1> HIDE DEF x
  <1>5. CASE CreateCall(p)
    <2>1. /\ x.op = "create" /\ At(p, "create") /\ Outside(p)' /\ UNCHANGED dvars
      BY <1>0, <1>5, CreateResult DEF CreateCall, x
    <2> DEFINE n == Len(made)
    <2>2. n \in Nat /\ Done(p) \in Int /\ BoxCount(test) \in 0 .. 2
      BY <1>0, MadeLength, Codes, Figures
    <2>3. /\ n <= BoxCount(test) /\ n <= Done(1) /\ (n < BoxCount(test) => Done(1) = n)
          /\ nextMailboxId = MaxDevices + n
      BY <1>3 DEF BoxesMade
    <2>4. p = 1 /\ n < BoxCount(test) /\ Done(1) = n BY <1>2, <2>1, <2>2, <2>3
    <2>5. nextMailboxId < MaxMbox /\ nextMailboxId >= 0
      BY <1>0, <2>2, <2>3, <2>4, Room
    <2>6. x.slots = BoxSlots(test, n + 1) /\ x.size = BoxSize(test) /\ x.ok = 1
      BY <1>2, <2>1, <2>4
    <2>7. CreateMailbox(p, BoxSlots(test, n + 1), BoxSize(test))
      <3>1. ~CreateTableFull(p) BY <2>2, <2>3, <2>5, <1>0, Room DEF CreateTableFull
      <3>2. ~CreateNoMemory(p, x.slots, x.size) BY <1>0 DEF CreateNoMemory
      <3> QED BY <1>5, <2>6, <3>1, <3>2 DEF CreateCall, x
    <2>8. result'[p].code = nextMailboxId
      BY <1>0, <2>7 DEF CreateMailbox, Return, TypeOK
    <2>9. made' = Append(made, nextMailboxId)
      BY <2>1, <2>8 DEF KernelCall, Proceed
    <2>10. Passes(p)
      <3>1. \A i \in DOMAIN made : made[i] >= 0
        <4>1. made \in Seq(-1 .. MaxMbox - 1) BY <1>0, RInvParts DEF RTypeOK
        <4>2. \A i \in 1 .. Len(made) : made[i] = MaxDevices + i - 1
          BY <1>3 DEF BoxesMade
        <4>3. MaxDevices \in Nat BY <1>0, Room
        <4>4. DOMAIN made = 1 .. Len(made) BY <4>1
        <4> HIDE DEF n
        <4>5. \A i \in 1 .. Len(made) : made[i] >= 0 BY <4>2, <4>3
        <4> QED BY <4>4, <4>5
      <3>2. Passed(p) BY <2>5, <2>8, <3>1 DEF Passed
      <3>3. Onward(p) = 1 BY <2>6, <3>2 DEF Onward, x
      <3>4. 1 # Exit BY DEF Exit
      <3> QED BY <1>0, <2>1, <3>3, <3>4, CallMoves
    <2> QED BY <2>1, <2>4, <2>7, <2>9, <2>10 DEF Makes, x
  <1>6. ~CreateCall(p) => made' = made
    <2>1. ~CreateCall(p) => ~At(p, "create") BY <1>0, CallFacts
    <2> QED BY <1>4, <2>1
  <1>7. ASSUME SendTurn(p, MboxId(x.mb), x.msg, x.wait), x.op = "send",
               waiting[p] = NoDevice, UNCHANGED dvars, ~CreateCall(p)
        PROVE  Sends(p)
    <2>1. SendOutcome(p, MboxId(x.mb), x.msg, x.wait) BY <1>0, <1>1, <1>7, SendEffect
    <2> QED BY <1>1, <1>6, <1>7, <2>1 DEF Sends, x
  <1>8. ASSUME ReceiveTurn(p, MboxId(x.mb), x.size, x.wait), x.op = "receive",
               waiting[p] = NoDevice, UNCHANGED dvars, ~CreateCall(p)
        PROVE  Receives(p)
    <2>1. ReceiveOutcome(p, MboxId(x.mb), x.size, x.wait)
      BY <1>0, <1>1, <1>8, ReceiveEffect
    <2> QED BY <1>1, <1>6, <1>8, <2>1 DEF Receives, x
  <1>9. ASSUME NEW h \in Device, ReceiveTurn(p, h, IntSize, TRUE), x.op = "device",
               waiting'[p] # NoDevice, UNCHANGED <<phase, nextDevice, deviceMbox>>,
               ~CreateCall(p)
        PROVE  Listens(p)
    <2>1. h \in Int /\ IntSize \in Int /\ TRUE \in BOOLEAN
      BY TableAssumption DEF Device
    <2> DEFINE w == TRUE
    <2>2. ReceiveTurn(p, h, IntSize, w) /\ w \in BOOLEAN BY <1>9
    <2> HIDE DEF w
    <2>3. ReceiveOutcome(p, h, IntSize, w) BY <1>0, <2>1, <2>2, ReceiveEffect
    <2>4. ReceiveOutcome(p, h, IntSize, TRUE) BY <2>3 DEF w
    <2> QED BY <1>6, <1>9, <2>4 DEF Listens, x
  <1>10. CASE SendCall(p)
    <2>1. /\ SendTurn(p, MboxId(x.mb), x.msg, x.wait) /\ x.op = "send"
          /\ waiting[p] = NoDevice /\ UNCHANGED dvars
      BY <1>10 DEF SendCall, At, Outside, x
    <2>2. ~CreateCall(p) BY <2>1 DEF CreateCall, At, x
    <2> QED BY <1>7, <2>1, <2>2
  <1>11. CASE ReceiveCall(p)
    <2>1. /\ ReceiveTurn(p, MboxId(x.mb), x.size, x.wait) /\ x.op = "receive"
          /\ waiting[p] = NoDevice /\ UNCHANGED dvars
      BY <1>11 DEF ReceiveCall, At, Outside, x
    <2>2. ~CreateCall(p) BY <2>1 DEF CreateCall, At, x
    <2> QED BY <1>8, <2>1, <2>2
  <1>12. ~FreeCall(p) BY <1>2 DEF FreeCall, At, x
  <1>13. CASE DeviceCall(p)
    <2>1. x.op = "device" BY <1>13 DEF DeviceCall, At, x
    <2>2. ~CreateCall(p) BY <2>1 DEF CreateCall, At, x
    <2>3. CASE WaitDevice(p, Device0[x.name])
      <3>1. PICK h \in Device : h = Device0[x.name] BY <1>1, <2>1
      <3>2. deviceMbox[h] = h BY <1>3 DEF DevicesQuiet
      <3>3. WaitDevice(p, h) BY <2>3, <3>1
      <3>4. ReceiveTurn(p, h, IntSize, TRUE) BY <3>2, <3>3 DEF WaitDevice
      <3>5. UNCHANGED <<phase, nextDevice, deviceMbox>> BY <3>3 DEF WaitDevice
      <3>6. waiting'[p] = h BY <1>0, <3>3 DEF WaitDevice, DTypeOK
      <3>7. h # NoDevice BY DEF Device, NoDevice
      <3> QED BY <1>9, <2>1, <2>2, <3>4, <3>5, <3>6, <3>7
    <2>4. CASE WaitUnknownDevice(p) BY <2>1, <2>4 DEF WaitUnknownDevice, Stops, x
    <2> QED BY <1>13, <2>3, <2>4 DEF DeviceCall, x
  <1>14. CASE Resume(p)
    <2>1. ~WaitDeviceReturn(p)
      BY <1>3 DEF WaitDeviceReturn, Matches, Idle, NoCall
    <2>2. Continue(p) /\ UNCHANGED dvars BY <1>14, <2>1 DEF Resume
    <2>3. ~Interrupted(p) \/ call[p].op = "none"
      BY <1>0, <1>3 DEF Interrupted, CallOK
    <2>4. ~CreateCall(p) \/ call[p].op = "none" BY <1>0, CreateResult DEF Outside, Idle, NoCall
    <2>5. SendRetry(p) \/ ReceiveRetry(p)
      <3>1. ~SendInterrupted(p) BY <2>3 DEF SendInterrupted, Running
      <3>2. ~ReceiveInterrupted(p) BY <2>3 DEF ReceiveInterrupted, Running
      <3>3. ~Running(p, "free_send") /\ ~Running(p, "free_receive")
        BY <1>3 DEF Running
      <3>4. ~FreeSender(p) /\ ~FreeReceiver(p) /\ ~FreeReturn(p)
        BY <3>3 DEF FreeSender, FreeReceiver, FreeReturn, SendersFreed
      <3> QED BY <2>2, <3>1, <3>2, <3>4 DEF Continue
    <2>6. CASE SendRetry(p)
      <3>1. call[p].op = "send" /\ SendTurn(p, call[p].mb, call[p].msg, TRUE)
        BY <2>6 DEF SendRetry, Running
      <3>2. waiting[p] = NoDevice BY <1>3, <3>1 DEF Matches
      <3>3. /\ x.op = "send" /\ x.wait = TRUE /\ call[p].mb = MboxId(x.mb)
            /\ call[p].msg = x.msg
        BY <1>1, <1>3, <3>1, <3>2 DEF Matches, x
      <3>4. SendTurn(p, MboxId(x.mb), x.msg, x.wait) BY <3>1, <3>3
      <3> QED BY <1>7, <2>2, <2>4, <3>1, <3>2, <3>3, <3>4
    <2>7. CASE ReceiveRetry(p)
      <3>1. call[p].op = "receive" /\ ReceiveTurn(p, call[p].mb, call[p].size, TRUE)
        BY <2>7 DEF ReceiveRetry, Running
      <3>2. CASE waiting[p] = NoDevice
        <4>1. /\ x.op = "receive" /\ x.wait = TRUE /\ call[p].mb = MboxId(x.mb)
              /\ call[p].size = x.size
          BY <1>1, <1>3, <3>1, <3>2 DEF Matches, x
        <4>2. ReceiveTurn(p, MboxId(x.mb), x.size, x.wait) BY <3>1, <4>1
        <4> QED BY <1>8, <2>2, <2>4, <3>1, <3>2, <4>1, <4>2
      <3>3. CASE waiting[p] # NoDevice
        <4>1. call[p].mb \in Device /\ call[p].size = IntSize /\ x.op = "device"
          BY <1>3, <3>3 DEF Matches, x
        <4>2. PICK h \in Device : h = call[p].mb BY <4>1
        <4>3. ReceiveTurn(p, h, IntSize, TRUE) BY <3>1, <4>1, <4>2
        <4>4. waiting'[p] # NoDevice /\ UNCHANGED <<phase, nextDevice, deviceMbox>>
          BY <2>2, <3>3 DEF dvars
        <4> QED BY <1>9, <2>4, <3>1, <4>1, <4>3, <4>4
      <3> QED BY <3>2, <3>3
    <2> QED BY <2>5, <2>6, <2>7
  <1> QED BY <1>5, <1>10, <1>11, <1>12, <1>13, <1>14 DEF KernelCall

LEMMA CallProgress ==
    ASSUME Hanging, phase = "up", NEW p \in Proc, stage[p] = "live", KernelCall(p)
    PROVE  /\ p \in Users /\ todo[p] # <<>> /\ Instr(p).op \notin {"spawn", "wait"}
           /\ Stays(p) \/ Passes(p)
           /\ ~Outside(p)' => Stays(p)
           /\ {Instr(p).ok, Instr(p).no} = {0} => Stays(p)
           /\ \A q \in Proc \ {p} : Stays(q)
           /\ test' = test /\ stage' = stage /\ parent' = parent
  <1>0. RInv BY DEF Hanging
  <1>1. /\ p \in Users /\ todo[p] # <<>>
        /\ test' = test /\ stage' = stage /\ parent' = parent
        /\ \A q \in Proc \ {p} : Stays(q)
        /\ ~Outside(p)' => Stays(p)
        /\ Outside(p)' => \/ Onward(p) = 0 /\ Stays(p)
                          \/ Onward(p) = 1 /\ Passes(p)
                          \/ Onward(p) = Exit /\ Leaves(p)
    BY <1>0, CallMoves
  <1>2. Makes(p) \/ Instr(p).op \in {"send", "receive", "device"}
    BY CallKinds DEF Sends, Receives, Listens, Stops
  <1>3. Makes(p) => Instr(p).op = "create" /\ Passes(p) BY DEF Makes
  <1>4. Exit \in {Instr(p).ok, Instr(p).no} => Instr(p).op = "create"
    BY <1>1, HereShape
  <1>5. Onward(p) \in {Instr(p).ok, Instr(p).no} BY DEF Onward
  <1>6. Stays(p) \/ Passes(p) BY <1>1, <1>2, <1>3, <1>4, <1>5
  <1>7. {Instr(p).ok, Instr(p).no} = {0} => Stays(p)
    BY SMTT(60), <1>1, <1>5 DEF Exit
  <1> QED BY <1>1, <1>2, <1>3, <1>6, <1>7

-----------------------------------------------------------------------------
(* The family stays together *)

LEMMA KinStays ==
    ASSUME Hanging, NEW c \in Kids(test), Kin(c), test' = test,
           parent'[c] = parent[c], (stage'[c] = "unborn") <=> (stage[c] = "unborn"),
           \/ Stays(Father(test, c))
           \/ /\ Passes(Father(test, c))
              /\ Done(Father(test, c)) + 1 # Birth(test, c)
    PROVE  Kin(c)'
  <1>1. PICK f : f = Father(test, c) OBVIOUS
  <1>2. /\ f \in Proc /\ RInv /\ Located(f) /\ Birth(test, c) \in Nat
    BY <1>1, BirthPlace, Figures DEF Hanging, BInv
  <1>3. Done(f) \in Int BY <1>2, Codes
  <1>4. (Done(f)' < Birth(test, c)) <=> (Done(f) < Birth(test, c))
    BY <1>1, <1>2, <1>3, DoneMoves
  <1>5. f = Father(test', c) /\ Birth(test', c) = Birth(test, c) BY <1>1
  <1> HIDE DEF Stays, Passes
  <1>6. /\ Done(f) < Birth(test, c) => stage[c] = "unborn"
        /\ ~(Done(f) < Birth(test, c)) => stage[c] # "unborn" /\ parent[c] = f
    BY <1>1 DEF Kin
  <1>7. Kin(c)' <=> IF Done(f)' < Birth(test, c)
                    THEN stage'[c] = "unborn"
                    ELSE stage'[c] # "unborn" /\ parent'[c] = f
    BY <1>5 DEF Kin
  <1> QED BY <1>4, <1>6, <1>7

(* a process at another instruction gives birth to nobody *)
LEMMA NoBirth ==
    ASSUME Hanging, NEW c \in Kids(test), todo[Father(test, c)] # <<>>,
           Instr(Father(test, c)).op = "spawn" => Instr(Father(test, c)).kid # c
    PROVE  Done(Father(test, c)) + 1 # Birth(test, c)
  <1>1. PICK f : f = Father(test, c) OBVIOUS
  <1>2. f \in Proc /\ RInv /\ Located(f) BY <1>1, BirthPlace DEF Hanging, BInv
  <1>3. Instr(f) = Code(f)[Done(f) + 1] BY <1>1, <1>2, Here
  <1>4. /\ Code(f)[Birth(test, c)].op = "spawn"
        /\ Code(f)[Birth(test, c)].kid = c
    BY <1>1, BirthPlace
  <1> QED BY <1>1, <1>3, <1>4

(* and one that is born is born where it should be *)
LEMMA SpawnPlace ==
    ASSUME Hanging, phase # "stopped", NEW p \in Proc, todo[p] # <<>>,
           Instr(p).op = "spawn", Instr(p).kid \in Kids(test)
    PROVE  /\ p = Father(test, Instr(p).kid)
           /\ Done(p) + 1 = Birth(test, Instr(p).kid)
  <1>1. CASE p # Main BY <1>1, HereShape DEF Users
  <1>2. CASE p = Main
    <2>0. RInv /\ Located(p) BY DEF Hanging, BInv
    <2>1. Done(p) + 1 \in 1 .. Len(Code(p)) /\ Instr(p) = Code(p)[Done(p) + 1]
      BY <2>0, Here
    <2>2. Code(p) = EntryPoint BY <1>2 DEF Code, CodeOf
    <2>3. /\ Len(EntryPoint) = 2 /\ EntryPoint[1] = Spawn(1, HIGHEST_PRIORITY)
          /\ EntryPoint[2] = WaitFor(0)
      BY DEF EntryPoint, Wait
    <2>4. EntryPoint[1].kid = 1 /\ EntryPoint[2].op = "wait"
      BY <2>3, SpawnFields, WaitFields
    <2>5. Done(p) + 1 = 1 \/ Done(p) + 1 = 2 BY <2>1, <2>2, <2>3
    <2>6. Done(p) + 1 = 1 BY <2>1, <2>2, <2>4, <2>5
    <2>7. Instr(p).kid = 1 BY <2>1, <2>2, <2>4, <2>6
    <2> QED BY <1>2, <2>6, <2>7 DEF Father, Birth
  <1> QED BY <1>1, <1>2

LEMMA KinRun ==
    ASSUME Hanging, phase = "up", NEW p \in Proc, stage[p] = "live",
           KSpawn(p) \/ KWait(p) \/ KExit(p) \/ KernelCall(p), NEW c \in Kids(test)
    PROVE  Kin(c)'
  <1>0. RInv /\ Located(p) /\ Kin(c) /\ c \in Proc
    BY BirthPlace DEF Hanging, BInv, Users
  <1> DEFINE f == Father(test, c)
  <1>1. f \in Proc /\ c \in Users BY BirthPlace
  <1>2. CASE KSpawn(p)
    <2>1. /\ test' = test /\ Instr(p).op = "spawn" /\ todo[p] # <<>>
          /\ Passes(p) /\ \A q \in Proc \ {p} : Stays(q)
          /\ IF c = Instr(p).kid
               THEN stage'[c] = "live" /\ parent'[c] = p
               ELSE stage'[c] = stage[c] /\ parent'[c] = parent[c]
      BY <1>0, <1>2, SpawnMoves DEF Passes
    <2>2. CASE c = Instr(p).kid
      <3>1. p = f /\ Done(p) + 1 = Birth(test, c) BY <2>1, <2>2, SpawnPlace
      <3>2. Done(p)' = Done(p) + 1 BY <1>0, <2>1, DoneMoves
      <3>3. Birth(test, c) \in Nat BY Figures DEF Hanging
      <3>4. /\ p = Father(test', c) /\ Birth(test', c) = Birth(test, c)
            /\ ~(Done(p)' < Birth(test, c))
        BY <2>1, <3>1, <3>2, <3>3
      <3> QED BY <2>1, <2>2, <3>4 DEF Kin
    <2>3. CASE c # Instr(p).kid
      <3>1. f = p => Done(f) + 1 # Birth(test, c) BY <2>1, <2>3, NoBirth
      <3> QED BY <1>0, <1>1, <2>1, <2>3, <3>1, KinStays
    <2> QED BY <2>2, <2>3
  <1>3. CASE KWait(p)
    <2>1. /\ test' = test /\ parent' = parent /\ Instr(p).op = "wait" /\ todo[p] # <<>>
          /\ Passes(p) /\ \A q \in Proc \ {p} : Stays(q)
      BY <1>0, <1>3, WaitMoves DEF Passes
    <2>2. (stage'[c] = "unborn") <=> (stage[c] = "unborn")
      BY <1>0, <1>3, WaitMoves DEF QuitChildren
    <2>3. f = p => Done(f) + 1 # Birth(test, c) BY <2>1, NoBirth
    <2> QED BY <1>0, <1>1, <2>1, <2>2, <2>3, KinStays
  <1>4. CASE KExit(p)
    <2>1. /\ test' = test /\ parent' = parent /\ Stays(f)
          /\ (stage'[c] = "unborn") <=> (stage[c] = "unborn")
      BY <1>0, <1>4, ExitMoves DEF Stays
    <2> QED BY <1>0, <1>1, <2>1, KinStays
  <1>5. CASE KernelCall(p)
    <2>1. /\ todo[p] # <<>> /\ Instr(p).op # "spawn"
          /\ Stays(p) \/ Passes(p)
          /\ \A q \in Proc \ {p} : Stays(q)
          /\ test' = test /\ stage' = stage /\ parent' = parent
      BY <1>5, CallProgress
    <2>2. f = p => Done(f) + 1 # Birth(test, c) BY <2>1, NoBirth
    <2> QED BY <1>0, <1>1, <2>1, <2>2, KinStays
  <1> QED BY <1>2, <1>3, <1>4, <1>5

-----------------------------------------------------------------------------
(* The sleeper is held back, and the mailboxes stay as the test left them *)

(* the instruction that the sleeper never gets past *)
LEMMA BarHard ==
    ASSUME Hanging, NEW p \in Proc, p = Sleeper(test), todo[p] # <<>>,
           Done(p) + 1 = Bar(test)
    PROVE  Hard(test, Instr(p)) /\ Instr(p).op \in {"send", "device"}
  <1>1. RInv /\ Located(p) /\ RoomForTests /\ test \in NeverEnd BY DEF Hanging, BInv
  <1>2. Instr(p) = Code(p)[Bar(test)] BY <1>1, Here
  <1>3. Main = 0 /\ Sleeper(test) # 0 BY SMTT(60), <1>1, Room, Figures
  <1>4. Code(p) = Program(test, p) BY <1>3 DEF Code, CodeOf
  <1>5. Hard(test, Instr(p)) BY <1>1, <1>2, <1>4, AllShaped DEF Shaped
  <1> QED BY <1>5 DEF Hard

(* process 1 makes its mailboxes before anything else *)
LEMMA BoxesFirst ==
    ASSUME Hanging, phase = "up", todo[1] # <<>>, Len(made) < BoxCount(test)
    PROVE  Instr(1).op = "create"
  <1>1. /\ RInv /\ RoomForTests /\ test \in NeverEnd /\ BoxesMade
        /\ \A p \in Proc : Located(p)
    BY DEF Hanging, BInv, Core
  <1>2. 1 \in Users /\ 1 \in Proc /\ 1 # Main BY <1>1, Room DEF Users
  <1>3. Done(1) = Len(made) BY <1>1 DEF BoxesMade
  <1>4. Instr(1) = Code(1)[Done(1) + 1] BY <1>1, <1>2, Here
  <1>5. Code(1) = Program(test, 1) BY <1>2 DEF Code, CodeOf
  <1>6. Len(made) \in Nat /\ BoxCount(test) \in 0 .. 2
    BY <1>1, RInvParts, MadeLength, Figures
  <1>7. Len(made) + 1 \in 1 .. BoxCount(test) BY <1>6
  <1> QED BY <1>1, <1>3, <1>4, <1>5, <1>7, AllShaped DEF Shaped

(* process 2 of test 24 fills the mailbox before anything else *)
LEMMA FillsFirst ==
    ASSUME Hanging, test = 24, todo[2] # <<>>, Done(2) < 5
    PROVE  Fills(test, Instr(2))
  <1>1. /\ RInv /\ RoomForTests /\ test \in NeverEnd /\ \A p \in Proc : Located(p)
    BY DEF Hanging, BInv
  <1>2. 2 \in Proc /\ 2 # Main BY <1>1, Room DEF Users
  <1>3. Instr(2) = Code(2)[Done(2) + 1] /\ Done(2) + 1 \in 1 .. Len(Code(2))
    BY <1>1, <1>2, Here
  <1>4. Code(2) = Program(test, 2) BY <1>2 DEF Code, CodeOf
  <1>5. Done(2) \in Int BY <1>1, <1>2, Codes
  <1>6. Done(2) + 1 \in 1 .. 5 BY <1>3, <1>5
  <1>7. Shaped(test) BY <1>1, AllShaped
  <1>8. \A i \in 1 .. 5 : Fills(test, Program(test, 2)[i]) BY <1>7 DEF Shaped
  <1> QED BY <1>3, <1>4, <1>6, <1>8

(* a step of p alone *)
Alone(p) ==
    /\ test' = test
    /\ Stays(p) \/ Passes(p)
    /\ \A q \in Proc \ {p} : Stays(q)

LEMMA AloneDone ==
    ASSUME Hanging, NEW p \in Proc, Alone(p), NEW q \in Proc
    PROVE  /\ Done(q) \in Int
           /\ Done(q)' = Done(q) \/ (q = p /\ Passes(p) /\ Done(q)' = Done(q) + 1)
  <1>1. RInv /\ Located(q) BY DEF Hanging, BInv
  <1> QED BY <1>1, Codes, DoneMoves DEF Alone

LEMMA HeldBackStays ==
    ASSUME Hanging, phase = "up", NEW p \in Proc, Alone(p),
           p = Sleeper(test) /\ Done(p) + 1 = Bar(test) => ~Passes(p)
    PROVE  HeldBack'
  <1>1. HeldBack /\ RoomForTests /\ test \in NeverEnd BY DEF Hanging, BInv, Core
  <1>2. PICK s : s = Sleeper(test) OBVIOUS
  <1>3. s \in Proc /\ Bar(test) \in Nat BY <1>1, <1>2, Figures, Room DEF Users
  <1>4. /\ Done(s) \in Int
        /\ Done(s)' = Done(s) \/ (s = p /\ Passes(p) /\ Done(s)' = Done(s) + 1)
    BY <1>3, AloneDone
  <1>5. Done(s) < Bar(test) BY <1>1, <1>2 DEF HeldBack
  <1>6. Done(s)' < Bar(test) BY <1>2, <1>3, <1>4, <1>5
  <1>7. Sleeper(test') = s /\ Bar(test') = Bar(test) BY <1>2 DEF Alone
  <1> QED BY <1>6, <1>7 DEF HeldBack

LEMMA BoxesStay ==
    ASSUME Hanging, phase = "up", NEW p \in Proc, Alone(p),
           Passes(p) => Instr(p).op # "create",
           UNCHANGED <<made, nextMailboxId>>,
           \A k \in Id : /\ mailboxes'[k].slotSize = mailboxes[k].slotSize
                         /\ Len(mailboxes'[k].slots) = Len(mailboxes[k].slots)
    PROVE  BoxesMade'
  <1>1. /\ RInv /\ RoomForTests /\ test \in NeverEnd /\ BoxesMade
    BY DEF Hanging, BInv, Core
  <1>2. 1 \in Proc BY <1>1, Room DEF Users
  <1>3. /\ Done(1) \in Int
        /\ Done(1)' = Done(1) \/ (1 = p /\ Passes(p) /\ Done(1)' = Done(1) + 1)
    BY <1>2, AloneDone
  <1>4. Len(made) \in Nat /\ BoxCount(test) \in 0 .. 2
    BY <1>1, RInvParts, MadeLength, Figures
  <1>5. Len(made) < BoxCount(test) => Done(1)' = Done(1)
    <2>1. 1 = p /\ Passes(p) => todo[1] # <<>> BY DEF Passes
    <2> QED BY <1>3, <2>1, BoxesFirst
  <1>6. /\ Len(made) <= BoxCount(test) /\ Len(made) <= Done(1)'
        /\ Len(made) < BoxCount(test) => Done(1)' = Len(made)
    BY <1>1, <1>3, <1>4, <1>5 DEF BoxesMade
  <1>7. nextMailboxId = MaxDevices + Len(made) BY <1>1 DEF BoxesMade
  <1>8. \A k \in 1 .. Len(made) :
            LET id == MaxDevices + k - 1
            IN  /\ made[k] = id
                /\ mailboxes'[id].slotSize = BoxSize(test)
                /\ Len(mailboxes'[id].slots) = Allocated(BoxSlots(test, k))
    <2> TAKE k \in 1 .. Len(made)
    <2> DEFINE id == MaxDevices + k - 1
    <2>1. id \in Id BY SMTT(60), <1>1, <1>4, <1>6, Room DEF Id
    <2>2. /\ made[k] = id /\ mailboxes[id].slotSize = BoxSize(test)
          /\ Len(mailboxes[id].slots) = Allocated(BoxSlots(test, k))
      BY <1>1 DEF BoxesMade
    <2> QED BY <2>1, <2>2
  <1>9. test' = test BY DEF Alone
  <1> QED BY <1>6, <1>7, <1>8, <1>9 DEF BoxesMade

(* a mailbox that the test has made *)
LEMMA TheBox ==
    ASSUME Hanging, phase = "up", NEW k \in 1 .. Len(made)
    PROVE  LET id == MaxDevices + k - 1
           IN  /\ id \in Id /\ id \notin Device /\ k \in 1 .. 2 /\ made[k] = id
               /\ k <= BoxCount(test) /\ MboxId(k) = id
               /\ mailboxes[id].slotSize = BoxSize(test)
               /\ Len(mailboxes[id].slots) = Allocated(BoxSlots(test, k))
  <1>1. /\ RInv /\ RoomForTests /\ test \in NeverEnd /\ BoxesMade
    BY DEF Hanging, BInv, Core
  <1> DEFINE id == MaxDevices + k - 1
  <1>2. Len(made) \in Nat /\ BoxCount(test) \in 0 .. 2 /\ Len(made) <= BoxCount(test)
    BY <1>1, RInvParts, MadeLength, Figures DEF BoxesMade
  <1>3. id \in Id /\ id \notin Device /\ k \in 1 .. 2 BY SMTT(60), <1>1, <1>2, Room DEF Id, Device
  <1>4. /\ made[k] = id /\ mailboxes[id].slotSize = BoxSize(test)
        /\ Len(mailboxes[id].slots) = Allocated(BoxSlots(test, k))
    BY <1>1 DEF BoxesMade
  <1>5. MboxId(k) = id BY <1>3, <1>4 DEF MboxId, NegativeId, LargeId
  <1>6. k <= BoxCount(test) BY <1>2
  <1> QED BY <1>3, <1>4, <1>5, <1>6

LEMMA FilledStays ==
    ASSUME Hanging, phase = "up", NEW p \in Proc, Alone(p),
           test = 24 /\ p = 2 /\ Passes(p) => Instr(p).op # "send",
           Grown,
           test = 24 /\ Len(made) > 0 => \A i \in 1 .. 5 :
               mailboxes[MaxDevices].slots[i] # NoMsg =>
                   mailboxes'[MaxDevices].slots[i] # NoMsg
    PROVE  Filled'
  <1>1. /\ RInv /\ RoomForTests /\ Filled BY DEF Hanging, BInv, Core
  <1>2. 2 \in Proc BY <1>1, Room DEF Users
  <1> SUFFICES ASSUME test' = 24, NEW i \in 1 .. 5, Done(2)' >= i
               PROVE  Len(made)' > 0 /\ mailboxes'[MaxDevices].slots[i] # NoMsg
    BY DEF Filled
  <1>3. test = 24 BY DEF Alone
  <1>4. /\ Done(2) \in Int
        /\ Done(2)' = Done(2) \/ (2 = p /\ Passes(p) /\ Done(2)' = Done(2) + 1)
    BY <1>2, AloneDone
  <1>5. Done(2) >= i
    <2> SUFFICES ASSUME ~(Done(2) >= i) PROVE FALSE OBVIOUS
    <2>1. Done(2) < 5 /\ 2 = p /\ Passes(p) BY <1>4
    <2>2. todo[2] # <<>> BY <2>1 DEF Passes
    <2>3. Instr(2).op = "send" BY <1>3, <2>1, <2>2, FillsFirst DEF Fills
    <2> QED BY <1>3, <2>1, <2>3
  <1>6. Len(made) > 0 /\ mailboxes[MaxDevices].slots[i] # NoMsg
    BY <1>1, <1>3, <1>5 DEF Filled
  <1>7. Len(made') > 0
    <2>1. made \in Seq(-1 .. MaxMbox - 1) BY <1>1, RInvParts DEF RTypeOK
    <2>2. \A code : made' = Append(made, code) => Len(made') = Len(made) + 1 BY <2>1
    <2>3. Len(made) \in Nat BY <2>1
    <2> QED BY <1>6, <2>2, <2>3 DEF Grown
  <1> QED BY <1>3, <1>6, <1>7

-----------------------------------------------------------------------------
(* Steps that leave the mailboxes alone *)

LEMMA StaysOrPasses ==
    ASSUME RInv, NEW p \in Proc, Stays(p) PROVE ~Passes(p)
  <1>1. todo[p] \in Seq(Instruction) BY RInvParts DEF RTypeOK
  <1>2. todo[p] # <<>> => Len(Tail(todo[p])) = Len(todo[p]) - 1 /\ Len(todo[p]) \in Nat
    BY <1>1, TailDone
  <1> SUFFICES ASSUME Passes(p) PROVE FALSE OBVIOUS
  <1>3. todo[p] # <<>> /\ Tail(todo[p]) = todo[p] BY DEF Stays, Passes
  <1>4. Len(todo[p]) = Len(todo[p]) - 1 /\ Len(todo[p]) \in Nat BY <1>2, <1>3
  <1> QED BY <1>4

LEMMA QuietCore ==
    ASSUME Hanging, phase = "up", NEW p \in Proc, Alone(p), UNCHANGED <<allvars, made>>,
           Passes(p) => Instr(p).op \in {"spawn", "wait"} /\ Outside(p)
    PROVE  Core'
  <1>1. RInv /\ Core /\ Located(p) BY DEF Hanging, BInv
  <1>2. /\ UNCHANGED <<mailboxes, nextMailboxId, call, signal>>
        /\ UNCHANGED <<phase, nextDevice, deviceMbox, waiting, made>>
    BY DEF allvars, vars, dvars
  <1>3. HeldBack'
    <2>1. p = Sleeper(test) /\ Done(p) + 1 = Bar(test) => ~Passes(p)
      <3> SUFFICES ASSUME p = Sleeper(test), Done(p) + 1 = Bar(test), Passes(p)
                   PROVE  FALSE
        OBVIOUS
      <3>1. todo[p] # <<>> BY DEF Passes
      <3> QED BY <3>1, BarHard
    <2> QED BY <2>1, HeldBackStays
  <1>4. Unfreed' BY <1>1, <1>2 DEF Core, Unfreed
  <1>5. \A q \in Proc : Matches(q)'
    <2> TAKE q \in Proc
    <2>1. Matches(q) BY <1>1 DEF Core
    <2>2. CASE Stays(q) BY <1>1, <1>2, <2>1, <2>2, MatchesStays DEF Grown
    <2>3. CASE ~Stays(q)
      <3>1. q = p /\ Passes(p) BY <2>3 DEF Alone
      <3>2. Outside(q)' BY <1>2, <3>1 DEF Outside, Idle
      <3> QED BY <3>2, MatchesOutside
    <2> QED BY <2>2, <2>3
  <1>6. DevicesQuiet' BY <1>1, <1>2 DEF Core, DevicesQuiet, FullSlots
  <1>7. BoxesMade' BY <1>2, BoxesStay
  <1>8. Filled' BY <1>2, FilledStays DEF Grown
  <1>9. Booting' BY <1>2 DEF Booting
  <1> QED BY <1>3, <1>4, <1>5, <1>6, <1>7, <1>8, <1>9 DEF Core

LEMMA SpawnWaitExitCore ==
    ASSUME Hanging, phase = "up", NEW p \in Proc, stage[p] = "live",
           KSpawn(p) \/ KWait(p) \/ KExit(p)
    PROVE  Core'
  <1>1. RInv BY DEF Hanging
  <1>2. CASE KSpawn(p)
    <2>1. Outside(p) /\ Instr(p).op = "spawn" BY <1>2 DEF KSpawn, At
    <2>2. Alone(p) /\ UNCHANGED <<allvars, made>> BY <1>1, <1>2, SpawnMoves DEF Alone
    <2> QED BY <2>1, <2>2, QuietCore
  <1>3. CASE KWait(p)
    <2>1. Outside(p) /\ Instr(p).op = "wait" BY <1>3 DEF KWait, At
    <2>2. Alone(p) /\ UNCHANGED <<allvars, made>> BY <1>1, <1>3, WaitMoves DEF Alone
    <2> QED BY <2>1, <2>2, QuietCore
  <1>4. CASE KExit(p)
    <2>1. Stays(p) BY <1>1, <1>4, ExitMoves DEF Stays
    <2>2. ~Passes(p) BY <1>1, <2>1, StaysOrPasses
    <2>3. Alone(p) /\ UNCHANGED <<allvars, made>>
      BY <1>1, <1>4, <2>1, ExitMoves DEF Alone, Stays
    <2> QED BY <2>2, <2>3, QuietCore
  <1> QED BY <1>2, <1>3, <1>4

-----------------------------------------------------------------------------
(* Steps of calls *)

LEMMA CallAlone ==
    ASSUME Hanging, phase = "up", NEW p \in Proc, stage[p] = "live", KernelCall(p)
    PROVE  /\ RInv /\ TypeOK /\ Core /\ Located(p) /\ todo[p] # <<>>
           /\ RoomForTests /\ test \in NeverEnd
           /\ Alone(p) /\ OthersStay(p)
           /\ ~Outside(p)' => Stays(p)
           /\ {Instr(p).ok, Instr(p).no} = {0} => Stays(p)
           /\ Device \subseteq Id
  <1>1. RInv /\ TypeOK /\ DTypeOK /\ InCall(p) /\ RoomForTests /\ test \in NeverEnd
    BY RInvParts DEF Hanging
  <1>2. Core /\ Located(p) BY DEF Hanging, BInv
  <1>3. OthersStay(p) BY <1>1, CallFacts
  <1>4. Device \subseteq Id BY TableAssumption DEF Device, Id
  <1> QED BY <1>1, <1>2, <1>3, <1>4, CallProgress DEF Alone

LEMMA OthersMatch ==
    ASSUME Hanging, phase = "up", NEW p \in Proc, stage[p] = "live", KernelCall(p),
           Grown, Matches(p)'
    PROVE  \A q \in Proc : Matches(q)'
  <1>1. RInv /\ Alone(p) /\ OthersStay(p) /\ Core BY CallAlone
  <1> TAKE q \in Proc
  <1>2. CASE q # p
    <2>1. Stays(q) /\ call'[q] = call[q] /\ waiting'[q] = waiting[q] /\ Matches(q)
      BY <1>1, <1>2 DEF Alone, OthersStay, Core
    <2> QED BY <1>1, <2>1, MatchesStays
  <1> QED BY <1>2

LEMMA NamesNoDevice ==
    ASSUME Hanging, phase = "up", NEW mb, Named(mb)
    PROVE  MboxId(mb) \notin Device /\ (MboxId(mb) \in Id => mb \in 1 .. Len(made))
  <1>0. RoomForTests BY DEF Hanging
  <1>1. /\ MaxDevices \in Nat /\ MaxMbox \in Nat /\ MaxDevices + 2 <= MaxMbox
    BY <1>0, Room
  <1>2. CASE mb = NegativeId
    <2>1. MboxId(mb) = -1 BY <1>2 DEF MboxId
    <2> QED BY <1>1, <2>1 DEF Device, Id
  <1>3. CASE mb = LargeId
    <2>1. MboxId(mb) = MaxMbox BY <1>3 DEF MboxId, NegativeId, LargeId
    <2> QED BY <1>1, <2>1 DEF Device, Id
  <1>4. CASE mb \in 1 .. Len(made) BY <1>4, TheBox
  <1> QED BY <1>2, <1>3, <1>4 DEF Named

(* whoever sends at the bar finds no room *)
LEMMA NoRoomAtBar ==
    ASSUME Hanging, phase = "up", NEW p \in Proc, stage[p] = "live", todo[p] # <<>>,
           p = Sleeper(test), Done(p) + 1 = Bar(test), test # 16,
           Instr(p).op = "send", Named(Instr(p).mb), Instr(p).msg \in Msg,
           Size[Instr(p).msg] = Instr(p).msg[2]
    PROVE  NoRoom(MboxId(Instr(p).mb), Instr(p).msg) /\ Instr(p).wait
  <1> DEFINE x == Instr(p)
             k == BoxCount(test)
             id == MaxDevices + k - 1
  <1>1. /\ RInv /\ RoomForTests /\ test \in NeverEnd /\ Core /\ TypeOK
        /\ \A c \in Kids(test) : Kin(c)
    BY RInvParts DEF Hanging, BInv
  <1>2. x.mb = k /\ x.wait /\ x.msg[2] \in 0 .. BoxSize(test) /\ test \notin {5, 13, 14, 32}
    BY BarHard DEF Hard
  <1>3. k \in 1 .. 2 BY <1>1, <1>2 DEF BoxCount, NeverEnd
  <1>4. k \in 1 .. Len(made) BY <1>2, <1>3 DEF Named, NegativeId, LargeId
  <1>5. /\ id \in Id /\ MboxId(k) = id /\ mailboxes[id].slotSize = BoxSize(test)
        /\ Len(mailboxes[id].slots) = Allocated(BoxSlots(test, k))
    BY <1>4, TheBox
  <1>6. SendValid(id, x.msg)
    <2>1. mailboxes[id].status # "released" BY <1>1, <1>5 DEF Core, Unfreed
    <2>2. Size[x.msg] <= BoxSize(test) BY <1>2
    <2> QED BY <1>5, <2>1, <2>2 DEF SendValid
  <1>7. mailboxes[id].slots \in Seq(Slot) BY <1>1, <1>5 DEF TypeOK, Mailbox
  <1>8. CASE test # 24
    <2>1. BoxSlots(test, k) = 0 BY <1>1, <1>2, <1>8 DEF BoxSlots, BoxCount, NeverEnd
    <2>2. Len(mailboxes[id].slots) = 0 BY <1>5, <2>1 DEF Allocated
    <2>3. EmptySlots(id) = {} BY <1>7, <2>2 DEF EmptySlots
    <2> QED BY <1>2, <1>5, <1>6, <2>3 DEF NoRoom
  <1>9. CASE test = 24
    <2>1. k = 1 /\ BoxSlots(test, k) = 5 /\ p = 3 BY <1>9 DEF BoxCount, BoxSlots, Sleeper
    <2>2. id = MaxDevices BY <1>1, <2>1, Room
    <2>3. Len(mailboxes[id].slots) = 5 BY <1>5, <2>1 DEF Allocated
    <2>4. 3 \in Kids(test) /\ Father(test, 3) = 2 /\ Birth(test, 3) = 6
      BY <1>9 DEF Kids, Sleeper, Father, Birth
    <2>5. ~(Done(2) < 6) BY <1>1, <2>1, <2>4 DEF Kin
    <2>6. Done(2) \in Int BY <1>1, Room, Codes DEF Users
    <2>7. \A i \in 1 .. 5 : mailboxes[MaxDevices].slots[i] # NoMsg
      BY <1>1, <1>9, <2>5, <2>6 DEF Core, Filled
    <2>8. EmptySlots(id) = {} BY SMTT(60), <1>7, <2>2, <2>3, <2>7 DEF EmptySlots
    <2> QED BY <1>2, <1>5, <1>6, <2>8 DEF NoRoom
  <1> QED BY <1>8, <1>9

LEMMA SendHeld ==
    ASSUME Hanging, phase = "up", NEW p \in Proc, stage[p] = "live", KernelCall(p),
           Sends(p)
    PROVE  HeldBack'
  <1>1. /\ RInv /\ todo[p] # <<>> /\ Alone(p) /\ (~Outside(p)' => Stays(p))
        /\ {Instr(p).ok, Instr(p).no} = {0} => Stays(p)
    BY CallAlone
  <1> SUFFICES ASSUME p = Sleeper(test), Done(p) + 1 = Bar(test)
               PROVE  ~Passes(p)
    BY <1>1, HeldBackStays
  <1> DEFINE x == Instr(p)
  <1>2. CASE test = 16
    <2>1. Hard(test, x) BY <1>1, BarHard
    <2>2. x.ok = 0 /\ x.no = 0 BY <1>2, <2>1 DEF Hard
    <2>3. Stays(p) BY <1>1, <2>2
    <2> QED BY <1>1, <2>3, StaysOrPasses
  <1>3. CASE test # 16
    <2>1. /\ x.op = "send" /\ Named(x.mb) /\ x.msg \in Msg /\ Size[x.msg] = x.msg[2]
          /\ SendOutcome(p, MboxId(x.mb), x.msg, x.wait)
      BY DEF Sends
    <2>2. NoRoom(MboxId(x.mb), x.msg) /\ x.wait BY <1>1, <1>3, <2>1, NoRoomAtBar
    <2>3. call'[p] = Sending(MboxId(x.mb), x.msg) BY <2>1, <2>2 DEF SendOutcome
    <2>4. ~Outside(p)' BY <2>3 DEF Outside, Idle, Sending, NoCall
    <2> QED BY <1>1, <2>4, StaysOrPasses
  <1> QED BY <1>2, <1>3

LEMMA SendFills ==
    ASSUME Hanging, phase = "up", NEW p \in Proc, stage[p] = "live", KernelCall(p),
           Sends(p)
    PROVE  Filled'
  <1> DEFINE x == Instr(p)
  <1>1. /\ RInv /\ TypeOK /\ todo[p] # <<>> /\ Alone(p) /\ (~Outside(p)' => Stays(p))
        /\ Core /\ RoomForTests
    BY CallAlone
  <1>2. /\ Named(x.mb) /\ x.msg \in Msg /\ Size[x.msg] = x.msg[2] /\ made' = made
        /\ SendOutcome(p, MboxId(x.mb), x.msg, x.wait) /\ waiting' = waiting
        /\ waiting[p] = NoDevice
    BY DEF Sends, dvars
  <1>3. test = 24 /\ Len(made) > 0 =>
            MaxDevices \in Id /\ Len(mailboxes[MaxDevices].slots) = 5
    <2> SUFFICES ASSUME test = 24, Len(made) > 0
                 PROVE  MaxDevices \in Id /\ Len(mailboxes[MaxDevices].slots) = 5
      OBVIOUS
    <2>1. 1 \in 1 .. Len(made) /\ MaxDevices + 1 - 1 = MaxDevices
      BY <1>1, RInvParts, MadeLength, Room
    <2>2. Allocated(BoxSlots(test, 1)) = 5 BY DEF BoxSlots, Allocated
    <2>3. /\ MaxDevices + 1 - 1 \in Id
          /\ Len(mailboxes[MaxDevices + 1 - 1].slots) = Allocated(BoxSlots(test, 1))
      BY <2>1, TheBox
    <2> QED BY <2>1, <2>2, <2>3
  <1>4. test = 24 /\ Len(made) > 0 => \A i \in 1 .. 5 :
            mailboxes[MaxDevices].slots[i] # NoMsg =>
                mailboxes'[MaxDevices].slots[i] # NoMsg
    BY <1>2, <1>3 DEF SendOutcome
  <1>5. CASE ~(test = 24 /\ p = 2 /\ Passes(p) /\ Done(2) < 5)
    <2> SUFFICES ASSUME test' = 24, NEW i \in 1 .. 5, Done(2)' >= i
                 PROVE  Len(made)' > 0 /\ mailboxes'[MaxDevices].slots[i] # NoMsg
      BY DEF Filled
    <2>1. test = 24 /\ 2 \in Proc BY <1>1, Room DEF Alone, Users
    <2>2. /\ Done(2) \in Int
          /\ Done(2)' = Done(2) \/ (2 = p /\ Passes(p) /\ Done(2)' = Done(2) + 1)
      BY <1>1, <2>1, AloneDone
    <2>3. Done(2) >= i BY <1>5, <2>1, <2>2
    <2> QED BY <1>1, <1>2, <1>4, <2>1, <2>3 DEF Core, Filled
  <1>6. CASE test = 24 /\ p = 2 /\ Passes(p) /\ Done(2) < 5
    <2>1. /\ x.mb = 1 /\ x.wait /\ x.msg[2] \in 1 .. BoxSize(test)
      BY <1>1, <1>6, FillsFirst DEF Fills
    <2>2. 1 \in 1 .. Len(made) BY <1>2, <2>1 DEF Named, NegativeId, LargeId
    <2>3. MaxDevices + 1 - 1 = MaxDevices BY <1>1, Room
    <2>4. /\ MboxId(1) = MaxDevices /\ MaxDevices \in Id
          /\ mailboxes[MaxDevices].slotSize = BoxSize(test)
      BY <2>2, <2>3, TheBox
    <2>5. Len(mailboxes[MaxDevices].slots) = 5 /\ Len(made) > 0
      BY <1>3, <1>6, <2>2
    <2>6. mailboxes[MaxDevices].status # "released" BY <1>1, <2>4 DEF Core, Unfreed
    <2>7. BoxSize(test) \in Nat BY <1>1, Figures DEF Hanging
    <2>8. Size[x.msg] > 0 /\ Size[x.msg] <= BoxSize(test) BY <1>2, <2>1, <2>7
    <2>9. SendValid(MaxDevices, x.msg) BY <2>4, <2>6, <2>8 DEF SendValid
    <2>10. call'[p] = NoCall
      <3>1. ~Stays(p) BY <1>1, <1>6, StaysOrPasses
      <3> QED BY <1>1, <3>1 DEF Outside, Idle
    <2>11. MboxId(x.mb) = MaxDevices BY <2>1, <2>4
    <2>12. \A i \in 1 .. 5 :
              (\A j \in 1 .. i - 1 : mailboxes[MaxDevices].slots[j] # NoMsg) =>
                  mailboxes'[MaxDevices].slots[i] # NoMsg
      BY <1>2, <2>1, <2>5, <2>8, <2>9, <2>10, <2>11 DEF SendOutcome
    <2> SUFFICES ASSUME NEW i \in 1 .. 5, Done(2)' >= i
                 PROVE  Len(made)' > 0 /\ mailboxes'[MaxDevices].slots[i] # NoMsg
      BY DEF Filled
    <2>13. Done(2) \in Int /\ (Done(2)' = Done(2) \/ Done(2)' = Done(2) + 1)
      BY <1>1, <1>6, AloneDone
    <2>14. \A j \in 1 .. i - 1 : Done(2) >= j BY <2>13
    <2>15. \A j \in 1 .. i - 1 : mailboxes[MaxDevices].slots[j] # NoMsg
      BY <1>1, <1>6, <2>14 DEF Core, Filled
    <2> QED BY <1>2, <2>5, <2>12, <2>15
  <1> QED BY <1>5, <1>6

(* what a send and a receive share: the mailboxes keep their shape, those  *)
(* of the devices stay empty, and the call is the one p is at or is over   *)
LEMMA TurnCore ==
    ASSUME Hanging, phase = "up", NEW p \in Proc, stage[p] = "live", KernelCall(p),
           SameShape, made' = made, UNCHANGED <<phase, deviceMbox>>,
           \A h \in Device : mailboxes'[h].slots = mailboxes[h].slots,
           Instr(p).op # "create", call'[p].op \in {"none", "send", "receive"},
           Matches(p)', HeldBack', Filled'
    PROVE  Core'
  <1>1. Core /\ Alone(p) /\ OthersStay(p) /\ Device \subseteq Id BY CallAlone
  <1>2. /\ UNCHANGED <<nextMailboxId, signal>>
        /\ \A k \in Id : /\ mailboxes'[k].status = mailboxes[k].status
                         /\ mailboxes'[k].slotSize = mailboxes[k].slotSize
                         /\ Len(mailboxes'[k].slots) = Len(mailboxes[k].slots)
    BY DEF SameShape
  <1>3. Unfreed'
    <2>1. \A q \in Proc : call'[q].op \in {"none", "send", "receive"}
      BY <1>1 DEF OthersStay, Core, Unfreed
    <2> QED BY <1>1, <1>2, <2>1 DEF Core, Unfreed
  <1>4. DevicesQuiet'
    <2>1. \A h \in Device : FullSlots(h)' = FullSlots(h) BY DEF FullSlots
    <2> QED BY <1>1, <1>2, <2>1 DEF Core, DevicesQuiet
  <1>5. BoxesMade' BY <1>1, <1>2, BoxesStay
  <1>6. \A q \in Proc : Matches(q)' BY OthersMatch DEF Grown
  <1>7. Booting' BY DEF Booting
  <1> QED BY <1>3, <1>4, <1>5, <1>6, <1>7 DEF Core

LEMMA SendCore ==
    ASSUME Hanging, phase = "up", NEW p \in Proc, stage[p] = "live", KernelCall(p),
           Sends(p)
    PROVE  Core'
  <1>1. /\ RInv /\ TypeOK /\ (~Outside(p)' => Stays(p)) /\ Device \subseteq Id
    BY CallAlone
  <1>2. PICK mb, m, w : mb = Instr(p).mb /\ m = Instr(p).msg /\ w = Instr(p).wait
    OBVIOUS
  <1>3. /\ Instr(p).op = "send" /\ Named(mb) /\ waiting' = waiting /\ made' = made
        /\ SendOutcome(p, MboxId(mb), m, w) /\ waiting[p] = NoDevice /\ w \in BOOLEAN
        /\ UNCHANGED <<phase, deviceMbox>>
    BY <1>2 DEF Sends, dvars
  <1>4. /\ SameShape
        /\ \A k \in Id \ {MboxId(mb)} : mailboxes'[k] = mailboxes[k]
        /\ call'[p] = NoCall \/ (w /\ call'[p] = Sending(MboxId(mb), m))
    BY <1>3 DEF SendOutcome
  <1>5. \A h \in Device : mailboxes'[h].slots = mailboxes[h].slots
    BY <1>1, <1>3, <1>4, NamesNoDevice
  <1>6. call'[p].op \in {"none", "send", "receive"} BY <1>4 DEF NoCall, Sending
  <1>7. Matches(p)'
    <2>1. CASE call'[p] = NoCall
      BY <1>3, <2>1, MatchesOutside DEF Outside, Idle
    <2>2. CASE w /\ call'[p] = Sending(MboxId(mb), m)
      <3>1. /\ call'[p].op = "send" /\ call'[p].mb = MboxId(mb) /\ call'[p].msg = m
        BY <2>2 DEF Sending
      <3>2. Instr(p)' = Instr(p)
        <4>1. ~Outside(p)' BY <3>1 DEF Outside, Idle, NoCall
        <4> QED BY <1>1, <4>1 DEF Stays, Instr
      <3>3. Named(mb)' /\ MboxId(mb)' = MboxId(mb) BY <1>1, <1>3, SameName DEF Grown
      <3>4. /\ Instr(p)'.op = "send" /\ Instr(p)'.wait /\ Instr(p)'.mb = mb
            /\ Instr(p)'.msg = m
        BY <1>2, <1>3, <2>2, <3>2
      <3>5. MboxId(Instr(p).mb)' = MboxId(mb) BY <3>3, <3>4 DEF MboxId
      <3>6. mb \in {NegativeId, LargeId} \union 1 .. Len(made') BY <3>3 DEF Named
      <3>7. waiting'[p] = NoDevice BY <1>3
      <3> QED BY <3>1, <3>4, <3>5, <3>6, <3>7 DEF Matches
    <2> QED BY <1>4, <2>1, <2>2
  <1> QED BY <1>3, <1>4, <1>5, <1>6, <1>7, SendHeld, SendFills, TurnCore

LEMMA ReceiveHeld ==
    ASSUME Hanging, phase = "up", NEW p \in Proc, stage[p] = "live", KernelCall(p),
           Receives(p)
    PROVE  HeldBack'
  <1>1. todo[p] # <<>> /\ Alone(p) BY CallAlone
  <1>2. Instr(p).op = "receive" BY DEF Receives
  <1>3. p = Sleeper(test) /\ Done(p) + 1 = Bar(test) => ~Passes(p)
    BY <1>1, <1>2, BarHard
  <1> QED BY <1>1, <1>3, HeldBackStays

(* test 24's receivers have too small a buffer *)
LEMMA ReceiveFilled ==
    ASSUME Hanging, phase = "up", NEW p \in Proc, stage[p] = "live", KernelCall(p),
           Receives(p)
    PROVE  Filled'
  <1>1. /\ RInv /\ RoomForTests /\ todo[p] # <<>> /\ Alone(p) BY CallAlone
  <1> DEFINE x == Instr(p)
  <1>2. /\ x.op = "receive" /\ Named(x.mb) /\ x.size \in Int /\ made' = made
        /\ ReceiveOutcome(p, MboxId(x.mb), x.size, x.wait)
    BY DEF Receives
  <1>3. test = 24 /\ Len(made) > 0 =>
            mailboxes'[MaxDevices] = mailboxes[MaxDevices]
    <2> SUFFICES ASSUME test = 24, Len(made) > 0
                 PROVE  mailboxes'[MaxDevices] = mailboxes[MaxDevices]
      OBVIOUS
    <2>1. 1 \in 1 .. Len(made) /\ MaxDevices + 1 - 1 = MaxDevices
      BY <1>1, RInvParts, MadeLength, Room
    <2>2. MaxDevices \in Id /\ mailboxes[MaxDevices].slotSize = BoxSize(test)
      BY <2>1, TheBox
    <2>3. CASE MboxId(x.mb) # MaxDevices BY <1>2, <2>2, <2>3 DEF ReceiveOutcome
    <2>4. CASE MboxId(x.mb) = MaxDevices
      <3>0. p \in Users BY CallProgress
      <3>1. x.size < BoxSize(test) BY <1>1, <1>2, <3>0, HereShape
      <3>2. BoxSize(test) \in Nat BY <1>1, Figures DEF Hanging
      <3>3. ~ReceiveValid(MboxId(x.mb), x.size)
        BY <1>2, <2>2, <2>4, <3>1, <3>2 DEF ReceiveValid
      <3> QED BY <1>2, <3>3 DEF ReceiveOutcome
    <2> QED BY <2>3, <2>4
  <1>4. x.op # "send" BY <1>2
  <1> QED BY <1>1, <1>2, <1>3, <1>4, FilledStays DEF Grown

LEMMA ReceiveCore ==
    ASSUME Hanging, phase = "up", NEW p \in Proc, stage[p] = "live", KernelCall(p),
           Receives(p)
    PROVE  Core'
  <1>1. /\ RInv /\ TypeOK /\ (~Outside(p)' => Stays(p)) /\ Device \subseteq Id
    BY CallAlone
  <1>2. PICK mb, n, w : mb = Instr(p).mb /\ n = Instr(p).size /\ w = Instr(p).wait
    OBVIOUS
  <1>3. /\ Instr(p).op = "receive" /\ Named(mb) /\ waiting' = waiting /\ made' = made
        /\ ReceiveOutcome(p, MboxId(mb), n, w) /\ waiting[p] = NoDevice /\ w \in BOOLEAN
        /\ UNCHANGED <<phase, deviceMbox>>
    BY <1>2 DEF Receives, dvars
  <1>4. /\ SameShape
        /\ \A k \in Id \ {MboxId(mb)} : mailboxes'[k] = mailboxes[k]
        /\ call'[p] = NoCall \/ (w /\ call'[p] = Receiving(MboxId(mb), n))
    BY <1>3 DEF ReceiveOutcome
  <1>5. \A h \in Device : mailboxes'[h].slots = mailboxes[h].slots
    BY <1>1, <1>3, <1>4, NamesNoDevice
  <1>6. call'[p].op \in {"none", "send", "receive"} BY <1>4 DEF NoCall, Receiving
  <1>7. Matches(p)'
    <2>1. CASE call'[p] = NoCall
      BY <1>3, <2>1, MatchesOutside DEF Outside, Idle
    <2>2. CASE w /\ call'[p] = Receiving(MboxId(mb), n)
      <3>1. /\ call'[p].op = "receive" /\ call'[p].mb = MboxId(mb) /\ call'[p].size = n
        BY <2>2 DEF Receiving
      <3>2. Instr(p)' = Instr(p)
        <4>1. ~Outside(p)' BY <3>1 DEF Outside, Idle, NoCall
        <4> QED BY <1>1, <4>1 DEF Stays, Instr
      <3>3. Named(mb)' /\ MboxId(mb)' = MboxId(mb) BY <1>1, <1>3, SameName DEF Grown
      <3>4. /\ Instr(p)'.op = "receive" /\ Instr(p)'.wait /\ Instr(p)'.mb = mb
            /\ Instr(p)'.size = n
        BY <1>2, <1>3, <2>2, <3>2
      <3>5. MboxId(Instr(p).mb)' = MboxId(mb) BY <3>3, <3>4 DEF MboxId
      <3>6. mb \in {NegativeId, LargeId} \union 1 .. Len(made') BY <3>3 DEF Named
      <3>7. waiting'[p] = NoDevice BY <1>3
      <3> QED BY <3>1, <3>4, <3>5, <3>6, <3>7 DEF Matches
    <2> QED BY <1>4, <2>1, <2>2
  <1> QED BY <1>3, <1>4, <1>5, <1>6, <1>7, ReceiveHeld, ReceiveFilled, TurnCore

(* whoever waits on a device goes on waiting *)
LEMMA ListenCore ==
    ASSUME Hanging, phase = "up", NEW p \in Proc, stage[p] = "live", KernelCall(p),
           Listens(p)
    PROVE  Core'
  <1>1. /\ RInv /\ RoomForTests /\ Core /\ Alone(p) /\ Device \subseteq Id
        /\ ~Outside(p)' => Stays(p)
    BY CallAlone
  <1>2. PICK h \in Device : ReceiveOutcome(p, h, IntSize, TRUE) BY DEF Listens
  <1>3. /\ Instr(p).op = "device" /\ waiting'[p] # NoDevice
        /\ UNCHANGED <<phase, deviceMbox, made>>
    BY DEF Listens
  <1>4. DevicesQuiet BY <1>1 DEF Core
  <1>5. /\ SameShape
        /\ \A k \in Id \ {h} : mailboxes'[k] = mailboxes[k]
        /\ \A k \in Id : FullSlots(k) = {} => mailboxes'[k].slots = mailboxes[k].slots
        /\ NothingThere(h, IntSize) => call'[p] = Receiving(h, IntSize)
    BY <1>2 DEF ReceiveOutcome
  <1>6. NothingThere(h, IntSize)
    <2>1. /\ h \in Id /\ mailboxes[h].status = "inuse" /\ mailboxes[h].slotSize = IntSize
          /\ FullSlots(h) = {}
      BY <1>1, <1>4 DEF DevicesQuiet
    <2> QED BY <2>1, TableAssumption DEF NothingThere, ReceiveValid
  <1>7. /\ call'[p].op = "receive" /\ call'[p].mb = h /\ call'[p].size = IntSize
    BY <1>5, <1>6 DEF Receiving
  <1>8. Stays(p) /\ ~Passes(p)
    <2>1. ~Outside(p)' BY <1>7 DEF Outside, Idle, NoCall
    <2> QED BY <1>1, <2>1, StaysOrPasses
  <1>9. Matches(p)'
    <2>1. Instr(p)' = Instr(p) BY <1>8 DEF Stays, Instr
    <2> QED BY <1>3, <1>7, <2>1 DEF Matches
  <1>10. \A g \in Device : mailboxes'[g].slots = mailboxes[g].slots
    BY <1>1, <1>4, <1>5 DEF DevicesQuiet
  <1>11. HeldBack' BY <1>1, <1>8, HeldBackStays
  <1>12. Filled'
    <2>1. test = 24 /\ Len(made) > 0 =>
              mailboxes'[MaxDevices] = mailboxes[MaxDevices]
      <3> SUFFICES ASSUME Len(made) > 0
                   PROVE  mailboxes'[MaxDevices] = mailboxes[MaxDevices]
        OBVIOUS
      <3>1. 1 \in 1 .. Len(made) /\ MaxDevices + 1 - 1 = MaxDevices
        BY <1>1, RInvParts, MadeLength, Room
      <3>2. MaxDevices \in Id /\ MaxDevices \notin Device BY <3>1, TheBox
      <3> QED BY <1>5, <3>2
    <2> QED BY <1>1, <1>3, <1>8, <2>1, FilledStays DEF Grown
  <1> QED BY <1>3, <1>5, <1>7, <1>9, <1>10, <1>11, <1>12, TurnCore

LEMMA MakeCore ==
    ASSUME Hanging, phase = "up", NEW p \in Proc, stage[p] = "live", KernelCall(p),
           Makes(p)
    PROVE  Core'
  <1> DEFINE n == Len(made)
             slots == BoxSlots(test, n + 1)
             size == BoxSize(test)
             id == nextMailboxId
             b == Initialised(mailboxes[id], slots, size, Allocated(slots))
  <1>1. /\ RInv /\ TypeOK /\ RoomForTests /\ test \in NeverEnd /\ Core /\ Alone(p)
        /\ OthersStay(p) /\ Device \subseteq Id /\ todo[p] # <<>>
    BY CallAlone
  <1>2. /\ p = 1 /\ Instr(p).op = "create" /\ Outside(p)'
        /\ n < BoxCount(test) /\ Done(1) = n /\ CreateMailbox(p, slots, size)
        /\ UNCHANGED dvars /\ made' = Append(made, id) /\ Passes(p)
    BY DEF Makes
  <1>3. UNCHANGED <<phase, nextDevice, deviceMbox, waiting>> BY <1>2 DEF dvars
  <1>4. /\ made \in Seq(Int) /\ n \in Nat /\ BoxCount(test) \in 0 .. 2
        /\ MaxDevices \in Nat /\ MaxDevices + 2 <= MaxMbox /\ MaxMbox \in Nat
    <2>1. made \in Seq(-1 .. MaxMbox - 1) BY <1>1, RInvParts DEF RTypeOK
    <2> QED BY SMTT(60), <1>1, <2>1, Room, Figures
  <1>5. id = MaxDevices + n /\ id \in Id /\ id \notin Device
    <2>1. id = MaxDevices + n BY <1>1, <1>2 DEF Core, BoxesMade
    <2> QED BY <1>2, <1>4, <2>1 DEF Id, Device
  <1>6. /\ mailboxes' = [mailboxes EXCEPT ![id] = b]
        /\ nextMailboxId' = id + 1 /\ signal' = signal
        /\ call' = [call EXCEPT ![p] = NoCall]
    BY <1>2 DEF CreateMailbox, Return
  <1>7. slots \in Nat
    <2>1. n + 1 \in 1 .. 2 BY <1>2, <1>4
    <2> QED BY <1>1, <2>1, Figures
  <1>8. /\ b.status = "inuse" /\ b.slotSize = size
        /\ Len(b.slots) = Allocated(slots)
    <2>1. mailboxes[id] \in Mailbox BY <1>1, <1>5 DEF TypeOK
    <2>2. /\ b.status = "inuse" /\ b.slotSize = size
          /\ b.slots = [i \in 1 .. Allocated(slots) |-> NoMsg]
      BY <2>1 DEF Initialised, Mailbox
    <2>3. Allocated(slots) \in Nat BY <1>7 DEF Allocated
    <2> HIDE DEF b, slots
    <2> QED BY <2>2, <2>3
  <1> HIDE DEF b, slots, size
  <1>9. /\ mailboxes'[id] = b
        /\ \A k \in Id \ {id} : mailboxes'[k] = mailboxes[k]
    BY <1>1, <1>5, <1>6 DEF TypeOK
  <1>10. HeldBack'
    <2>1. p = Sleeper(test) /\ Done(p) + 1 = Bar(test) => ~Passes(p)
      BY <1>1, <1>2, BarHard
    <2> QED BY <1>1, <2>1, HeldBackStays
  <1>11. Unfreed'
    <2>1. \A q \in Proc : call'[q].op \in {"none", "send", "receive"}
      BY <1>1, <1>6 DEF TypeOK, NoCall, Core, Unfreed
    <2>2. \A k \in Id : mailboxes'[k].status # "released"
      BY <1>1, <1>8, <1>9 DEF Core, Unfreed
    <2> QED BY <1>1, <1>6, <2>1, <2>2 DEF Core, Unfreed
  <1>12. \A q \in Proc : Matches(q)'
    <2>1. Grown BY <1>2, <1>5, <1>4 DEF Grown, Id
    <2> QED BY <1>2, <2>1, MatchesOutside, OthersMatch
  <1>13. DevicesQuiet'
    <2>1. \A h \in Device : mailboxes'[h] = mailboxes[h] BY <1>1, <1>5, <1>9
    <2> QED BY <1>1, <1>3, <2>1 DEF Core, DevicesQuiet, FullSlots
  <1>14. BoxesMade'
    <2>1. /\ Len(made') = n + 1 /\ made'[n + 1] = id
          /\ \A k \in 1 .. n : made'[k] = made[k]
      BY <1>2, <1>4, <1>5
    <2>2. Done(1)' = n + 1
      <3>1. Located(1) BY <1>1, <1>2, CallAlone
      <3> QED BY <1>1, <1>2, <3>1, DoneMoves DEF Alone
    <2>3. test' = test BY <1>1 DEF Alone
    <2>4. \A k \in 1 .. n + 1 :
              /\ made'[k] = MaxDevices + k - 1
              /\ mailboxes'[MaxDevices + k - 1].slotSize = BoxSize(test)
              /\ Len(mailboxes'[MaxDevices + k - 1].slots)
                     = Allocated(BoxSlots(test, k))
      <3> TAKE k \in 1 .. n + 1
      <3>1. CASE k = n + 1
        <4>1. MaxDevices + k - 1 = id BY <1>4, <1>5, <3>1
        <4> QED BY <1>8, <1>9, <2>1, <3>1, <4>1 DEF slots, size
      <3>2. CASE k # n + 1
        <4>1. k \in 1 .. Len(made) BY <1>4, <3>2
        <4>2. /\ MaxDevices + k - 1 \in Id /\ made[k] = MaxDevices + k - 1
              /\ mailboxes[MaxDevices + k - 1].slotSize = BoxSize(test)
              /\ Len(mailboxes[MaxDevices + k - 1].slots) = Allocated(BoxSlots(test, k))
          BY <4>1, TheBox
        <4>3. MaxDevices + k - 1 # id BY <1>4, <1>5, <4>1
        <4> QED BY <1>9, <2>1, <4>1, <4>2, <4>3
      <3> QED BY <3>1, <3>2
    <2>5. nextMailboxId' = MaxDevices + (n + 1) BY <1>4, <1>5, <1>6
    <2>6. n + 1 <= BoxCount(test) BY <1>2, <1>4
    <2> QED BY <1>4, <2>1, <2>2, <2>3, <2>4, <2>5, <2>6 DEF BoxesMade
  <1>15. Filled'
    <2> SUFFICES ASSUME test' = 24, NEW i \in 1 .. 5, Done(2)' >= i PROVE FALSE
      BY DEF Filled
    <2>1. test = 24 /\ 2 \in Proc BY <1>1, Room DEF Alone, Users
    <2>2. Done(2) \in Int /\ Done(2)' = Done(2) BY <1>1, <1>2, <2>1, AloneDone
    <2>3. Done(2) >= 1 BY <2>2
    <2>4. Len(made) > 0 BY <1>1, <2>1, <2>3 DEF Core, Filled
    <2>5. BoxCount(test) = 1 BY <2>1 DEF BoxCount
    <2> QED BY <1>2, <1>4, <2>4, <2>5
  <1>16. Booting' BY <1>3 DEF Booting
  <1> QED BY <1>10, <1>11, <1>12, <1>13, <1>14, <1>15, <1>16 DEF Core

LEMMA CallCore ==
    ASSUME Hanging, phase = "up", NEW p \in Proc, stage[p] = "live", KernelCall(p),
           phase' # "stopped"
    PROVE  Core'
  BY CallKinds, SendCore, ReceiveCore, ListenCore, MakeCore DEF Stops

-----------------------------------------------------------------------------
(* The boot *)

LEMMA BootCore ==
    ASSUME Hanging, Boot
    PROVE  Core'
  <1>0. /\ phase = "booting" /\ UNCHANGED rvars /\ (BootCreate \/ BootFinish)
    BY DEF Boot, BootCreate, BootFinish
  <1>1. /\ RInv /\ DInv /\ TypeOK /\ DTypeOK /\ RoomForTests /\ ~MallocMayFail /\ Core
        /\ test \in NeverEnd /\ CallOK /\ Main \in Proc
    BY <1>0, RInvParts, Room, MainAssumption
    DEF Hanging, BInv, RInv, DInv, Inv1
  <1>2. /\ made = <<>> /\ \A p \in Proc : Done(p) = 0 /\ call[p].op = "none"
        /\ \A h \in Device : h < nextDevice => deviceMbox[h] # -1
    BY <1>0, <1>1 DEF Core, Booting
  <1>3. /\ nextMailboxId = nextDevice
        /\ \A id \in Id : mailboxes[id] = IF id < nextDevice THEN DeviceMailbox(id)
                                                             ELSE EmptyMailbox
        /\ \A h \in Device : h < nextDevice => deviceMbox[h] = h
    BY <1>0, <1>2 DEF Hanging, BootSoFar
  <1>4. /\ test' = test /\ made' = made /\ todo' = todo BY <1>0 DEF rvars
  <1>5. \A p \in Proc : Done(p)' = Done(p) BY <1>4 DEF Done, Code, CodeOf
  <1>6. HeldBack'
    <2>1. HeldBack BY <1>1 DEF Core
    <2> QED BY <1>4, <2>1 DEF HeldBack, Done, Code, CodeOf
  <1>7. \A p \in Proc : waiting[p] = NoDevice
    BY <1>1, <1>2 DEF Core, Matches
  <1>8. waiting' = waiting /\ signal' = signal
    BY <1>0, <1>1 DEF BootCreate, BootFinish, CreateMailbox, CreateNoMemory
  <1>9. ASSUME \A p \in Proc : call'[p].op = "none"
        PROVE  \A p \in Proc : Matches(p)'
    BY <1>7, <1>8, <1>9 DEF Matches
  <1>10. CASE BootCreate
    <2>1. /\ CreateMailbox(Main, SlotsOf(nextDevice), IntSize)
          /\ deviceMbox' = [deviceMbox EXCEPT ![nextDevice] = result'[Main].code]
          /\ nextDevice' = nextDevice + 1 /\ nextDevice < MaxDevices
          /\ phase' = "booting"
      BY <1>0, <1>1, <1>10 DEF BootCreate, CreateNoMemory
    <2>2. /\ nextDevice \in Nat /\ nextDevice \in Device /\ nextDevice \in Id
      BY <1>1, <2>1, TableAssumption DEF DTypeOK, Device, Id
    <2>3. result'[Main].code = nextDevice
      BY <1>1, <1>3, <2>1 DEF CreateMailbox, Return, TypeOK
    <2>4. \A h \in Device : h < nextDevice' => deviceMbox'[h] # -1
      <3> TAKE h \in Device
      <3>1. CASE h = nextDevice BY <1>1, <2>1, <2>2, <2>3, <3>1 DEF DTypeOK
      <3>2. CASE h # nextDevice
        <4>1. deviceMbox'[h] = deviceMbox[h] BY <1>1, <2>1, <3>2 DEF DTypeOK
        <4>2. h < nextDevice' => h < nextDevice
          BY <2>1, <2>2, <3>2, TableAssumption DEF Device
        <4> QED BY <1>2, <4>1, <4>2
      <3> QED BY <3>1, <3>2
    <2>5. \A p \in Proc : call'[p].op = "none"
      BY <1>1, <1>2, <2>1 DEF CreateMailbox, Return, TypeOK, NoCall
    <2>6. \A id \in Id : mailboxes'[id].status # "released"
      <3> TAKE id \in Id
      <3>1. CASE id = nextDevice
        <4>1. mailboxes[id] \in Mailbox BY <1>1 DEF TypeOK
        <4>2. mailboxes'[id] = Initialised(mailboxes[id], SlotsOf(id), IntSize,
                                           Allocated(SlotsOf(id)))
          BY <1>1, <1>3, <2>1, <3>1 DEF CreateMailbox, TypeOK
        <4>3. mailboxes'[id].status = "inuse" BY <4>1, <4>2 DEF Initialised, Mailbox
        <4> QED BY <4>3
      <3>2. CASE id # nextDevice
        <4>1. mailboxes'[id] = mailboxes[id]
          BY <1>1, <1>3, <2>1, <3>2 DEF CreateMailbox, TypeOK
        <4> QED BY <1>1, <4>1 DEF Core, Unfreed
      <3> QED BY <3>1, <3>2
    <2>7. Unfreed' BY <1>1, <1>8, <2>5, <2>6 DEF Core, Unfreed
    <2>8. Booting' BY <1>2, <1>4, <1>5, <2>4, <2>5 DEF Booting
    <2> QED BY <1>6, <1>9, <2>1, <2>5, <2>7, <2>8 DEF Core
  <1>11. CASE BootFinish
    <2>1. /\ nextDevice = MaxDevices /\ nextMailboxId' = MaxDevices /\ phase' = "up"
          /\ UNCHANGED <<mailboxes, call, signal, deviceMbox>>
      BY <1>11 DEF BootFinish
    <2>2. \A p \in Proc : call'[p].op = "none" BY <1>2, <2>1
    <2>3. Unfreed' BY <1>1, <2>1 DEF Core, Unfreed
    <2>4. DevicesQuiet'
      <3> SUFFICES ASSUME NEW h \in Device
                   PROVE  /\ deviceMbox[h] = h /\ mailboxes[h].status = "inuse"
                          /\ mailboxes[h].slotSize = IntSize /\ FullSlots(h) = {}
        BY <2>1 DEF DevicesQuiet, FullSlots
      <3>1. h < nextDevice /\ h \in Id /\ h \in Int
        BY <2>1, TableAssumption DEF Device, Id
      <3>2. deviceMbox[h] = h /\ mailboxes[h] = DeviceMailbox(h) BY <1>3, <3>1
      <3>3. PICK slots : /\ slots = (IF h = 0 THEN 0 ELSE DeviceSlots)
                         /\ mailboxes[h] = Initialised(EmptyMailbox, slots, IntSize,
                                                       Allocated(slots))
        BY <3>2 DEF DeviceMailbox
      <3>4. /\ mailboxes[h].status = "inuse" /\ mailboxes[h].slotSize = IntSize
            /\ mailboxes[h].slots = [i \in 1 .. Allocated(slots) |-> NoMsg]
        BY <3>3 DEF Initialised, EmptyMailbox
      <3>5. FullSlots(h) = {} BY <3>4 DEF FullSlots
      <3> QED BY <3>2, <3>4, <3>5
    <2>5. BoxesMade'
      <3>1. 1 \in Proc BY <1>1, Room DEF Users
      <3>2. Done(1)' = 0 /\ Len(made') = 0 BY <1>2, <1>4, <1>5, <3>1
      <3>3. BoxCount(test') \in 0 .. 2 BY <1>1, <1>4, Figures
      <3>4. nextMailboxId' = MaxDevices + 0 BY <2>1, TableAssumption
      <3> QED BY <3>2, <3>3, <3>4 DEF BoxesMade
    <2>6. Filled'
      <3>1. 2 \in Proc BY <1>1, Room DEF Users
      <3>2. Done(2)' = 0 BY <1>2, <1>5, <3>1
      <3> QED BY <3>2 DEF Filled
    <2>7. Booting' BY <2>1 DEF Booting
    <2> QED BY <1>6, <1>9, <2>2, <2>3, <2>4, <2>5, <2>6, <2>7 DEF Core
  <1> QED BY <1>0, <1>10, <1>11

-----------------------------------------------------------------------------
(* The boot process ends only after everybody down to the sleeper *)

LEMMA ParentsFirst ==
    ASSUME Hanging, phase # "stopped", NoOrphans', parent' = parent,
           NEW c \in Kids(test), stage'[c] = stage[c],
           stage'[Father(test, c)] \in {"quit", "reaped"}, todo[Father(test, c)] = <<>>
    PROVE  /\ stage[c] \in {"quit", "reaped"} /\ todo[c] = <<>>
           /\ Done(c) = Len(Code(c)) /\ c # Sleeper(test)
  <1>1. PICK f : f = Father(test, c) OBVIOUS
  <1>2. /\ RInv /\ RTypeOK /\ RoomForTests /\ test \in NeverEnd /\ Core /\ Kin(c)
        /\ f \in Proc /\ c \in Users /\ c \in Proc /\ Located(c) /\ Located(f)
    BY <1>1, RInvParts, BirthPlace DEF Hanging, BInv, Users
  <1>3. Birth(test, c) \in 1 .. Len(Code(f)) /\ Len(Code(f)) \in Nat
    BY <1>1, <1>2, BirthPlace, Codes
  <1>4. Done(f) = Len(Code(f)) BY <1>1, <1>2, <1>3 DEF Done
  <1>5. stage[c] # "unborn" /\ parent[c] = f
    <2>1. ~(Done(f) < Birth(test, c)) BY <1>3, <1>4
    <2> QED BY <1>1, <1>2, <2>1 DEF Kin
  <1>6. Children(f)' = {} BY <1>1, <1>2 DEF NoOrphans
  <1>7. stage[c] \notin {"live", "quit"}
    <2>1. c \notin Children(f)' BY <1>6
    <2> QED BY <1>2, <1>5, <2>1 DEF Children
  <1>8. stage[c] = "reaped" BY <1>2, <1>5, <1>7 DEF RTypeOK
  <1>9. todo[c] = <<>> BY <1>2, <1>8 DEF Located
  <1>10. Done(c) = Len(Code(c)) /\ Len(Code(c)) \in Nat
    BY <1>2, <1>9, Codes DEF Done
  <1>11. c # Sleeper(test)
    <2> SUFFICES ASSUME c = Sleeper(test) PROVE FALSE OBVIOUS
    <2>1. Done(c) < Bar(test) BY <1>2 DEF Core, HeldBack
    <2>2. c # Main BY <1>2 DEF Users
    <2>3. Code(c) = Program(test, c) BY <2>2 DEF Code, CodeOf
    <2>4. Bar(test) \in 1 .. Len(Code(c)) BY <1>2, <2>3, AllShaped DEF Shaped
    <2> QED BY <1>10, <2>1, <2>4
  <1> QED BY <1>8, <1>9, <1>10, <1>11

LEMMA NoEnd ==
    ASSUME Hanging, phase = "up", KExit(Main), NoOrphans'
    PROVE  FALSE
  <1>1. /\ RInv /\ RoomForTests /\ test \in NeverEnd /\ Main \in Proc /\ Main = 0
        /\ \A c \in Kids(test) : c \in Proc
    BY Room, MainAssumption, BirthPlace DEF Hanging, Users
  <1>2. /\ parent' = parent /\ todo[Main] = <<>>
        /\ \A q \in Proc : stage'[q] = IF q = Main THEN "quit" ELSE stage[q]
    BY <1>1, ExitMoves
  <1>3. /\ Kids(test) \subseteq {1, 2, 3} /\ 1 \in Kids(test)
        /\ Sleeper(test) \in Kids(test)
    BY <1>1, Figures
  <1>4. \A c \in Kids(test) : stage'[c] = stage[c] BY <1>1, <1>2, <1>3
  <1>5. ASSUME NEW c \in Kids(test), stage'[Father(test, c)] \in {"quit", "reaped"},
               todo[Father(test, c)] = <<>>
        PROVE  /\ stage'[c] \in {"quit", "reaped"} /\ todo[c] = <<>>
               /\ c # Sleeper(test)
    BY <1>2, <1>4, <1>5, ParentsFirst
  <1>6. stage'[1] \in {"quit", "reaped"} /\ todo[1] = <<>> /\ 1 # Sleeper(test)
    <2>1. Father(test, 1) = Main BY DEF Father
    <2> QED BY <1>1, <1>2, <1>3, <1>5, <2>1
  <1>7. CASE test # 24
    <2>1. Father(test, Sleeper(test)) = 1 BY <1>6, <1>7 DEF Father
    <2> QED BY <1>3, <1>5, <1>6, <2>1
  <1>8. CASE test = 24
    <2>1. 2 \in Kids(test) /\ Father(test, 2) = 1 BY <1>8 DEF Kids, Father
    <2>2. stage'[2] \in {"quit", "reaped"} /\ todo[2] = <<>> BY <1>5, <1>6, <2>1
    <2>3. Sleeper(test) = 3 /\ Father(test, 3) = 2 BY <1>8 DEF Sleeper, Father
    <2> QED BY <1>3, <1>5, <2>2, <2>3
  <1> QED BY <1>7, <1>8

-----------------------------------------------------------------------------
(* The invariant *)

LEMMA CoreUnchanged ==
    ASSUME Core, UNCHANGED runvars
    PROVE  Core'
  <1>1. /\ UNCHANGED <<mailboxes, nextMailboxId, call, signal>>
        /\ UNCHANGED <<phase, nextDevice, deviceMbox, waiting>>
        /\ UNCHANGED <<test, todo, made, stage, parent>>
    BY DEF runvars, allvars, vars, dvars, rvars
  <1>2. \A p \in Proc : Done(p)' = Done(p) /\ Instr(p)' = Instr(p)
    BY <1>1 DEF Done, Code, CodeOf, Instr
  <1>3. HeldBack' BY <1>1 DEF Core, HeldBack, Done, Code, CodeOf
  <1>4. Unfreed' BY <1>1 DEF Core, Unfreed
  <1>5. Booting' BY <1>1, <1>2 DEF Core, Booting
  <1>6. ASSUME NEW p \in Proc PROVE Matches(p)'
    <2>1. Matches(p) BY DEF Core
    <2>2. MboxId(Instr(p).mb)' = MboxId(Instr(p).mb) BY <1>1, <1>2 DEF MboxId
    <2> QED BY <1>1, <1>2, <2>1, <2>2 DEF Matches
  <1>7. DevicesQuiet => DevicesQuiet' BY <1>1 DEF DevicesQuiet, FullSlots
  <1>8. BoxesMade => BoxesMade'
    <2>1. Done(1)' = Done(1) BY <1>1 DEF Done, Code, CodeOf
    <2> QED BY <1>1, <2>1 DEF BoxesMade
  <1>9. Filled => Filled'
    <2>1. Done(2)' = Done(2) BY <1>1 DEF Done, Code, CodeOf
    <2> QED BY <1>1, <2>1 DEF Filled
  <1> QED BY <1>1, <1>3, <1>4, <1>5, <1>6, <1>7, <1>8, <1>9 DEF Core

LEMMA TestStays ==
    ASSUME RInv, [RNext]_runvars
    PROVE  test' = test
  <1>1. UNCHANGED runvars \/ Boot => test' = test BY DEF runvars, Boot, rvars
  <1>2. ASSUME NEW p \in Proc, Run(p) PROVE test' = test
    BY <1>2, Zenon DEF Run, KSpawn, KWait, KExit, KernelCall, Proceed
  <1> QED BY <1>1, <1>2 DEF RNext

(* only k_exit of the boot process ends the test *)
LEMMA NotEnded ==
    ASSUME Hanging, phase = "up", NoOrphans', NEW p \in Proc, stage[p] = "live",
           KSpawn(p) \/ KWait(p) \/ KExit(p) \/ KernelCall(p)
    PROVE  ~Ended'
  <1>1. RInv /\ ~Ended /\ Main \in Proc BY MainAssumption DEF Hanging, BInv
  <1>2. stage[Main] # "quit" BY <1>1 DEF Ended
  <1>3. CASE KSpawn(p)
    <2>1. stage'[Main] \in {"live", stage[Main]} BY <1>1, <1>3, SpawnMoves
    <2> QED BY <1>2, <2>1 DEF Ended
  <1>4. CASE KWait(p)
    <2>1. stage'[Main] \in {"reaped", stage[Main]} BY <1>1, <1>4, WaitMoves
    <2> QED BY <1>2, <2>1 DEF Ended
  <1>5. CASE KExit(p)
    <2>1. p # Main BY <1>5, NoEnd
    <2>2. stage'[Main] = stage[Main] BY <1>1, <1>5, <2>1, ExitMoves
    <2> QED BY <1>2, <2>2 DEF Ended
  <1>6. CASE KernelCall(p)
    <2>1. stage' = stage BY <1>6, CallProgress
    <2> QED BY <1>2, <2>1 DEF Ended
  <1> QED BY <1>3, <1>4, <1>5, <1>6

LEMMA BStep ==
    ASSUME RoomForTests, RInv, RInv', BootSoFar, BInv, [RNext]_runvars
    PROVE  BInv'
  <1>1. test' = test BY TestStays
  <1>2. \A p \in Proc : Located(p)' BY LocatedStep DEF BInv
  <1>3. CASE test \notin NeverEnd BY <1>1, <1>2, <1>3 DEF BInv
  <1>4. CASE test \in NeverEnd
    <2>1. Hanging BY <1>4 DEF Hanging
    <2>2. NoOrphans' BY DEF RInv, RunInv
    <2>3. ~Ended /\ (phase # "stopped" => Core) /\ \A c \in Kids(test) : Kin(c)
      BY <1>4 DEF BInv
    <2>4. SUFFICES /\ \A c \in Kids(test) : Kin(c)'
                   /\ phase' # "stopped" => Core'
                   /\ ~Ended'
      BY <1>1, <1>2 DEF BInv
    <2>5. UNCHANGED rvars => /\ \A c \in Kids(test) : Kin(c)'
                             /\ ~Ended'
      BY <2>3 DEF rvars, Kin, Ended, Done, Code, CodeOf
    <2>6. CASE UNCHANGED runvars
      <3>1. UNCHANGED rvars /\ phase' = phase
        BY <2>6 DEF runvars, allvars, dvars
      <3> QED BY <2>3, <2>5, <2>6, <3>1, CoreUnchanged
    <2>7. CASE Boot BY <2>1, <2>5, <2>7, BootCore DEF Boot
    <2>8. ASSUME NEW p \in Proc, Run(p)
          PROVE  /\ \A c \in Kids(test) : Kin(c)'
                 /\ phase' # "stopped" => Core'
                 /\ ~Ended'
      <3>1. /\ phase = "up" /\ stage[p] = "live"
            /\ KSpawn(p) \/ KWait(p) \/ KExit(p) \/ KernelCall(p)
        BY <2>8 DEF Run, Dispatched, CanRun
      <3>2. \A c \in Kids(test) : Kin(c)' BY <2>1, <3>1, KinRun
      <3>3. phase' # "stopped" => Core' BY <2>1, <3>1, SpawnWaitExitCore, CallCore
      <3>4. ~Ended' BY <2>1, <2>2, <3>1, NotEnded
      <3> QED BY <3>2, <3>3, <3>4
    <2> QED BY <2>6, <2>7, <2>8 DEF RNext
  <1> QED BY <1>3, <1>4

LEMMA BInit ==
    ASSUME RoomForTests, RInit
    PROVE  BInv
  <1>0. RInv /\ DInit /\ Main \in Proc BY RInitRun, MainAssumption DEF RInit
  <1>1. /\ stage = [p \in Proc |-> IF p = Main THEN "live" ELSE "unborn"]
        /\ todo = [p \in Proc |-> IF p = Main THEN EntryPoint ELSE Program(test, p)]
        /\ made = <<>>
    BY DEF RInit
  <1>2. \A p \in Proc : todo[p] = Code(p) BY <1>1 DEF Code, CodeOf
  <1>3. \A p \in Proc : Done(p) = 0 /\ Len(Code(p)) \in Nat
    BY <1>0, <1>2, Codes DEF Done
  <1>4. \A p \in Proc : Located(p)
    <2> TAKE p \in Proc
    <2>1. \A i \in 1 .. Len(todo[p]) : todo[p][i] = Code(p)[Done(p) + i]
      BY <1>2, <1>3
    <2>2. stage[p] \notin {"quit", "reaped"} BY <1>1
    <2> QED BY <1>3, <2>1, <2>2 DEF Located
  <1> SUFFICES ASSUME test \in NeverEnd
               PROVE  (\A c \in Kids(test) : Kin(c)) /\ Core /\ ~Ended
    BY <1>4 DEF BInv
  <1>5. \A c \in Kids(test) : Kin(c)
    <2> TAKE c \in Kids(test)
    <2>1. /\ c \in {1, 2, 3} /\ Father(test, c) \in {0, 1, 2}
          /\ Birth(test, c) \in Nat /\ Birth(test, c) > 0
      BY Figures
    <2>2. Father(test, c) \in Proc /\ c \in Proc /\ c # Main
      BY <1>0, <2>1, Room DEF Users
    <2>3. Done(Father(test, c)) < Birth(test, c) BY <1>3, <2>1, <2>2
    <2>4. stage[c] = "unborn" BY <1>1, <2>2
    <2> QED BY <2>3, <2>4 DEF Kin
  <1>6. HeldBack
    <2>1. Sleeper(test) \in Proc /\ Bar(test) \in Nat /\ Bar(test) > 0
      BY Figures, Room DEF Users
    <2> QED BY <1>3, <2>1 DEF HeldBack
  <1>7. /\ phase = "booting" /\ nextDevice = 0
        /\ \A p \in Proc : ~signal[p] /\ call[p].op = "none" /\ waiting[p] = NoDevice
        /\ \A id \in Id : mailboxes[id].status = "empty"
    BY <1>0 DEF DInit, NoCall, EmptyMailbox
  <1>8. Unfreed BY <1>7 DEF Unfreed
  <1>9. Booting BY <1>1, <1>3, <1>7, TableAssumption DEF Booting, Device
  <1>10. \A p \in Proc : Matches(p) BY <1>7 DEF Matches
  <1>11. Core BY <1>6, <1>7, <1>8, <1>9, <1>10 DEF Core
  <1>12. ~Ended BY <1>0, <1>1 DEF Ended
  <1> QED BY <1>5, <1>11, <1>12

-----------------------------------------------------------------------------
(* The theorem *)

(* The tests of NeverEnd never come to their end, whoever is dispatched    *)
(* and whatever else the other processes do, as long as there is room for  *)
(* what they spawn and create: the process that waits on a device which    *)
(* nothing interrupts, on a mailbox without slots or on one that nobody    *)
(* with a large enough buffer empties, never gets on, and neither do those *)
(* that wait for it.                                                       *)
THEOREM TestsNeverEnd == RoomForTests /\ RSpec => []TestsHang
  <1>1. RInit => RInv /\ BootSoFar
    <2>1. DInit => BootSoFar
      BY TableAssumption DEF DInit, BootSoFar, Id, Device
    <2> QED BY <2>1, RInitRun DEF RInit
  <1>2. RoomForTests /\ RInit => BInv BY BInit
  <1>3. RInv /\ [RNext]_runvars => RInv' BY RStepRun
  <1>4. RInv /\ BootSoFar /\ [RNext]_runvars => BootSoFar'
    <2> SUFFICES ASSUME RInv, BootSoFar, [RNext]_runvars PROVE BootSoFar' OBVIOUS
    <2>1. DInv /\ [DNext]_allvars BY RStepDevices DEF RInv
    <2> QED BY <2>1, DStepSoFar
  <1>5. RoomForTests /\ RInv /\ RInv' /\ BootSoFar /\ BInv /\ [RNext]_runvars => BInv'
    BY BStep
  <1>6. BInv => TestsHang BY DEF BInv, TestsHang
  <1>7. RoomForTests => [](RoomForTests) OBVIOUS
  <1> QED BY <1>1, <1>2, <1>3, <1>4, <1>5, <1>6, <1>7, PTL DEF RSpec

=============================================================================
