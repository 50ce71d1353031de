--------------------------- MODULE ProgramsProofs ---------------------------
(***************************************************************************)
(* What all the test programs have in common, for every value of their     *)
(* constants: each waits at least as often as it spawns, and uses a        *)
(* mailbox only when it has been created.                                  *)
(***************************************************************************)
EXTENDS TestPrograms, TLAPS, SequenceTheorems

Names == {"", "clock", "term0", "term1", "term2", "term3"}

Instruction ==
    [op : {"none", "create", "send", "receive", "free", "device", "spawn", "wait"},
     mb : Nat, slots : Int, size : Int, msg : Int \X Int, wait : BOOLEAN,
     name : Names, kid : Nat, priority : Int, ok : Int, no : Int, check : SUBSET Int]

(* What instruction x does to the number of children that have not been    *)
(* waited for, and to the number of mailboxes created, when the children   *)
(* of the test count on n mailboxes.  Whatever x returns, the program goes *)
(* on behind it, repeats it, or ends without children.                     *)
Does(x, n, kids, boxes, kids2, boxes2) ==
    \/ /\ x.op = "spawn"
       /\ x.kid # 1 => n <= boxes
       /\ kids2 = kids + 1 /\ boxes2 = boxes
    \/ /\ x.op = "wait"
       /\ kids = kids2 + 1 \/ (kids = 0 /\ kids2 = 0)
       /\ boxes2 = boxes
    \/ /\ x.op \notin {"spawn", "wait"}
       /\ x.op \in {"send", "receive", "free"} => x.mb \in 0 .. boxes \union {LargeId}
       /\ {x.ok, x.no} \subseteq {0, 1, Exit}
       /\ Exit \in {x.ok, x.no} => kids = 0
       /\ kids2 = kids
       /\ boxes2 = IF x.op = "create" THEN boxes + 1 ELSE boxes

(* Program s leads from these numbers of children and mailboxes to those:  *)
(* the two functions give the numbers before each of its instructions.     *)
Leads(s, n, kids, boxes, kids2, boxes2) ==
    /\ s \in Seq(Instruction)
    /\ \E K, B \in [1 .. Len(s) + 1 -> Nat] :
          /\ K[1] = kids /\ B[1] = boxes
          /\ K[Len(s) + 1] = kids2 /\ B[Len(s) + 1] = boxes2
          /\ \A i \in 1 .. Len(s) : Does(s[i], n, K[i], B[i], K[i + 1], B[i + 1])

(* a program that is all right when it starts with this many mailboxes *)
Sound(s, n, boxes) == \E b \in Nat : Leads(s, n, 0, boxes, 0, b)

(* the first program makes the n mailboxes that the others count on *)
AllSound(t, n) == \A k \in DOMAIN t : Sound(t[k], n, IF k = 1 THEN 0 ELSE n)
TestSound(t) == \E n \in Nat : AllSound(t, n)

-----------------------------------------------------------------------------
(* Programs put together *)

LEMMA LeadsNone ==
    ASSUME NEW n \in Nat, NEW k \in Nat, NEW b \in Nat
    PROVE  Leads(<<>>, n, k, b, k, b)
  <1> DEFINE K == [i \in 1 .. 1 |-> k]
             B == [i \in 1 .. 1 |-> b]
             s == <<>>
  <1>1. Len(s) = 0 /\ s \in Seq(Instruction) OBVIOUS
  <1>2. K \in [1 .. 1 -> Nat] /\ B \in [1 .. 1 -> Nat] /\ K[1] = k /\ B[1] = b
    OBVIOUS
  <1> HIDE DEF K, B, s
  <1>3. Len(s) + 1 = 1 /\ 1 .. Len(s) = {} BY <1>1
  <1>4. Leads(s, n, k, b, k, b) BY <1>1, <1>2, <1>3 DEF Leads
  <1> QED BY <1>4 DEF s

LEMMA LeadsOne ==
    ASSUME NEW x \in Instruction, NEW n \in Nat, NEW k \in Nat, NEW b \in Nat,
           NEW k2 \in Nat, NEW b2 \in Nat, Does(x, n, k, b, k2, b2)
    PROVE  Leads(<<x>>, n, k, b, k2, b2)
  <1> DEFINE K == [i \in 1 .. 2 |-> IF i = 1 THEN k ELSE k2]
             B == [i \in 1 .. 2 |-> IF i = 1 THEN b ELSE b2]
             s == <<x>>
  <1>1. Len(s) = 1 /\ s \in Seq(Instruction) /\ s[1] = x OBVIOUS
  <1>2. K \in [1 .. 2 -> Nat] /\ B \in [1 .. 2 -> Nat] OBVIOUS
  <1>3. K[1] = k /\ B[1] = b /\ K[2] = k2 /\ B[2] = b2 OBVIOUS
  <1> HIDE DEF K, B, s
  <1>4. \A i \in 1 .. Len(s) : Does(s[i], n, K[i], B[i], K[i + 1], B[i + 1])
    <2> SUFFICES ASSUME NEW i \in 1 .. Len(s)
                 PROVE  Does(s[i], n, K[i], B[i], K[i + 1], B[i + 1])
      OBVIOUS
    <2>1. i = 1 /\ i + 1 = 2 BY <1>1
    <2> QED BY <1>1, <1>3, <2>1
  <1>5. Len(s) + 1 = 2 BY <1>1
  <1>6. Leads(s, n, k, b, k2, b2) BY <1>1, <1>2, <1>3, <1>4, <1>5 DEF Leads
  <1> QED BY <1>6 DEF s

LEMMA LeadsConcat ==
    ASSUME NEW s, NEW t, NEW n, NEW k, NEW b, NEW k2, NEW b2, NEW k3, NEW b3,
           Leads(s, n, k, b, k2, b2), Leads(t, n, k2, b2, k3, b3)
    PROVE  Leads(s \o t, n, k, b, k3, b3)
  <1>1. PICK K1, B1 \in [1 .. Len(s) + 1 -> Nat] :
            /\ K1[1] = k /\ B1[1] = b
            /\ K1[Len(s) + 1] = k2 /\ B1[Len(s) + 1] = b2
            /\ \A i \in 1 .. Len(s) : Does(s[i], n, K1[i], B1[i], K1[i + 1], B1[i + 1])
    BY DEF Leads
  <1>2. PICK K2, B2 \in [1 .. Len(t) + 1 -> Nat] :
            /\ K2[1] = k2 /\ B2[1] = b2
            /\ K2[Len(t) + 1] = k3 /\ B2[Len(t) + 1] = b3
            /\ \A i \in 1 .. Len(t) : Does(t[i], n, K2[i], B2[i], K2[i + 1], B2[i + 1])
    BY DEF Leads
  <1>3. s \in Seq(Instruction) /\ t \in Seq(Instruction) BY DEF Leads
  <1> DEFINE l == Len(s)
             m == Len(t)
             K == [i \in 1 .. l + m + 1 |-> IF i <= l THEN K1[i] ELSE K2[i - l]]
             B == [i \in 1 .. l + m + 1 |-> IF i <= l THEN B1[i] ELSE B2[i - l]]
  <1>4. l \in Nat /\ m \in Nat BY <1>3
  <1>5. /\ s \o t \in Seq(Instruction) /\ Len(s \o t) = l + m
        /\ \A i \in 1 .. l + m : (s \o t)[i] = IF i <= l THEN s[i] ELSE t[i - l]
    BY <1>3
  <1>6. /\ K1 \in [1 .. l + 1 -> Nat] /\ B1 \in [1 .. l + 1 -> Nat]
        /\ K2 \in [1 .. m + 1 -> Nat] /\ B2 \in [1 .. m + 1 -> Nat]
        /\ K1[l + 1] = K2[1] /\ B1[l + 1] = B2[1]
        /\ K1[1] = k /\ B1[1] = b /\ K2[m + 1] = k3 /\ B2[m + 1] = b3
    BY <1>1, <1>2
  <1>7. /\ \A i \in 1 .. l : Does(s[i], n, K1[i], B1[i], K1[i + 1], B1[i + 1])
        /\ \A i \in 1 .. m : Does(t[i], n, K2[i], B2[i], K2[i + 1], B2[i + 1])
    BY <1>1, <1>2
  <1> HIDE DEF l, m
  <1>8. K \in [1 .. l + m + 1 -> Nat] /\ B \in [1 .. l + m + 1 -> Nat]
    <2>1. ASSUME NEW i \in 1 .. l + m + 1
          PROVE  /\ i <= l => K1[i] \in Nat /\ B1[i] \in Nat
                 /\ ~(i <= l) => K2[i - l] \in Nat /\ B2[i - l] \in Nat
      <3>1. i <= l => i \in 1 .. l + 1 BY <1>4
      <3>2. ~(i <= l) => i - l \in 1 .. m + 1 BY <1>4
      <3> QED BY <1>6, <3>1, <3>2
    <2> QED BY <2>1
  <1>9. /\ \A i \in 1 .. l + 1 : K[i] = K1[i] /\ B[i] = B1[i]
        /\ \A i \in 1 .. m + 1 : K[l + i] = K2[i] /\ B[l + i] = B2[i]
    <2>1. ASSUME NEW i \in 1 .. l + 1 PROVE K[i] = K1[i] /\ B[i] = B1[i]
      <3>1. CASE i <= l BY <1>4, <3>1
      <3>2. CASE i = l + 1
        <4>1. i \in 1 .. l + m + 1 /\ ~(i <= l) /\ i - l = 1 BY <1>4, <3>2
        <4> QED BY <1>6, <3>2, <4>1
      <3> QED BY <1>4, <3>1, <3>2
    <2>2. ASSUME NEW i \in 1 .. m + 1 PROVE K[l + i] = K2[i] /\ B[l + i] = B2[i]
      <3>1. l + i \in 1 .. l + m + 1 /\ ~(l + i <= l) /\ (l + i) - l = i BY <1>4
      <3> QED BY <3>1
    <2> QED BY <2>1, <2>2
  <1> HIDE DEF K, B
  <1>10. ASSUME NEW i \in 1 .. l + m
         PROVE  Does((s \o t)[i], n, K[i], B[i], K[i + 1], B[i + 1])
    <2>1. CASE i <= l
      <3>1. i \in 1 .. l /\ i \in 1 .. l + 1 /\ i + 1 \in 1 .. l + 1 BY <1>4, <2>1
      <3>2. (s \o t)[i] = s[i] BY <1>5, <2>1
      <3> QED BY <1>7, <1>9, <3>1, <3>2
    <2>2. CASE ~(i <= l)
      <3> DEFINE j == i - l
      <3>1. /\ j \in 1 .. m /\ j \in 1 .. m + 1 /\ j + 1 \in 1 .. m + 1
            /\ i = l + j /\ i + 1 = l + (j + 1)
        BY <1>4, <2>2
      <3>2. (s \o t)[i] = t[j] BY <1>5, <2>2
      <3> HIDE DEF j
      <3>3. K[i] = K2[j] /\ B[i] = B2[j] /\ K[i + 1] = K2[j + 1] /\ B[i + 1] = B2[j + 1]
        BY <1>9, <3>1
      <3> QED BY <1>7, <3>1, <3>2, <3>3
    <2> QED BY <2>1, <2>2
  <1>11. /\ K[1] = k /\ B[1] = b /\ K[l + m + 1] = k3 /\ B[l + m + 1] = b3
    <2>1. 1 \in 1 .. l + 1 /\ m + 1 \in 1 .. m + 1 /\ l + m + 1 = l + (m + 1) BY <1>4
    <2> QED BY <1>6, <1>9, <2>1
  <1> DEFINE u == s \o t
  <1>12. /\ u \in Seq(Instruction) /\ Len(u) = l + m
         /\ \A i \in 1 .. l + m : Does(u[i], n, K[i], B[i], K[i + 1], B[i + 1])
    BY <1>5, <1>10
  <1> HIDE DEF u
  <1>13. Leads(u, n, k, b, k3, b3) BY <1>8, <1>11, <1>12 DEF Leads
  <1> QED BY <1>13 DEF u

(* What is left of a program when its first instruction is over. *)
LEMMA LeadsOn ==
    ASSUME NEW s, NEW n, NEW k, NEW b, NEW k2, NEW b2,
           Leads(s, n, k, b, k2, b2), s # <<>>
    PROVE  \E k1, b1 \in Nat : /\ Does(Head(s), n, k, b, k1, b1)
                               /\ Leads(Tail(s), n, k1, b1, k2, b2)
  <1>1. PICK K, B \in [1 .. Len(s) + 1 -> Nat] :
            /\ K[1] = k /\ B[1] = b
            /\ K[Len(s) + 1] = k2 /\ B[Len(s) + 1] = b2
            /\ \A i \in 1 .. Len(s) : Does(s[i], n, K[i], B[i], K[i + 1], B[i + 1])
    BY DEF Leads
  <1> DEFINE l == Len(s)
             t == Tail(s)
             K1 == [i \in 1 .. l |-> K[i + 1]]
             B1 == [i \in 1 .. l |-> B[i + 1]]
  <1>2. s \in Seq(Instruction) BY DEF Leads
  <1>3. /\ l \in Nat /\ l >= 1 /\ Head(s) = s[1]
        /\ t \in Seq(Instruction) /\ Len(t) = l - 1
        /\ \A i \in 1 .. l - 1 : t[i] = s[i + 1]
    BY <1>2
  <1>4. K \in [1 .. l + 1 -> Nat] /\ B \in [1 .. l + 1 -> Nat] OBVIOUS
  <1>5. \A i \in 1 .. l : Does(s[i], n, K[i], B[i], K[i + 1], B[i + 1]) BY <1>1
  <1>6. K[l + 1] = k2 /\ B[l + 1] = b2 BY <1>1
  <1> HIDE DEF l, t
  <1>7. /\ K1 \in [1 .. (l - 1) + 1 -> Nat] /\ B1 \in [1 .. (l - 1) + 1 -> Nat]
        /\ K1[1] = K[2] /\ B1[1] = B[2] /\ K1[(l - 1) + 1] = k2 /\ B1[(l - 1) + 1] = b2
        /\ \A i \in 1 .. l : K1[i] = K[i + 1] /\ B1[i] = B[i + 1]
    BY SMTT(30), <1>3, <1>4, <1>6
  <1> HIDE DEF K1, B1
  <1>8. ASSUME NEW i \in 1 .. l - 1
        PROVE  Does(t[i], n, K1[i], B1[i], K1[i + 1], B1[i + 1])
    <2>1. i \in 1 .. l /\ i + 1 \in 1 .. l BY <1>3
    <2>2. Does(s[i + 1], n, K[i + 1], B[i + 1], K[i + 1 + 1], B[i + 1 + 1])
      BY <1>5, <2>1
    <2> QED BY <1>3, <1>7, <2>1, <2>2
  <1>9. Leads(t, n, K[2], B[2], k2, b2) BY <1>3, <1>7, <1>8 DEF Leads
  <1>10. K[2] \in Nat /\ B[2] \in Nat BY <1>3, <1>4
  <1>11. Does(Head(s), n, k, b, K[2], B[2])
    <2>1. 1 \in 1 .. l /\ 1 + 1 = 2 BY <1>3
    <2> QED BY <1>1, <1>3, <1>5, <2>1
  <1> QED BY <1>9, <1>10, <1>11 DEF t

-----------------------------------------------------------------------------
(* Instructions *)

(* the calls that a program with k children may make of b mailboxes *)
Calls(k, b) ==
    {x \in Instruction :
        /\ x.op \in {"send", "receive", "free", "device"}
        /\ x.mb \in 0 .. b \union {LargeId}
        /\ {x.ok, x.no} \subseteq IF k = 0 THEN {0, 1, Exit} ELSE {0, 1}}

LEMMA BlankType ==
    /\ Blank \in Instruction
    /\ Blank.mb = 0 /\ Blank.ok = 1 /\ Blank.no = 1
  <1>1. NoBytes \in Int \X Int BY DEF NoBytes, Text
  <1> QED BY <1>1 DEF Blank, Instruction, NegativeId, Names

LEMMA MakeBoxType ==
    ASSUME NEW slots \in Int, NEW size \in Int
    PROVE  /\ MakeBox(slots, size) \in Instruction
           /\ MakeBox(slots, size).op = "create"
           /\ MakeBox(slots, size).ok = 1 /\ MakeBox(slots, size).no = 1
  BY BlankType DEF MakeBox, Instruction

LEMMA SendType ==
    ASSUME NEW k \in Nat, NEW b \in Nat, NEW mb \in 0 .. b \union {LargeId},
           NEW msg \in Int \X Int, NEW wait \in BOOLEAN
    PROVE  SendTo(mb, msg, wait) \in Calls(k, b)
  <1> DEFINE x == SendTo(mb, msg, wait)
  <1>0. mb \in Nat BY DEF LargeId
  <1>1. x \in Instruction BY <1>0, BlankType DEF SendTo, Instruction
  <1>2. x.op = "send" /\ x.mb = mb /\ x.ok = 1 /\ x.no = 1
    BY BlankType DEF SendTo, Instruction
  <1> HIDE DEF x
  <1>3. x \in Calls(k, b) BY <1>1, <1>2 DEF Calls
  <1> QED BY <1>3 DEF x

LEMMA ReceiveType ==
    ASSUME NEW k \in Nat, NEW b \in Nat, NEW mb \in 0 .. b \union {LargeId},
           NEW size \in Int, NEW wait \in BOOLEAN
    PROVE  ReceiveFrom(mb, size, wait) \in Calls(k, b)
  <1> DEFINE x == ReceiveFrom(mb, size, wait)
  <1>0. mb \in Nat BY DEF LargeId
  <1>1. x \in Instruction BY <1>0, BlankType DEF ReceiveFrom, Instruction
  <1>2. x.op = "receive" /\ x.mb = mb /\ x.ok = 1 /\ x.no = 1
    BY BlankType DEF ReceiveFrom, Instruction
  <1> HIDE DEF x
  <1>3. x \in Calls(k, b) BY <1>1, <1>2 DEF Calls
  <1> QED BY <1>3 DEF x

LEMMA FreeType ==
    ASSUME NEW k \in Nat, NEW b \in Nat, NEW mb \in 0 .. b \union {LargeId}
    PROVE  FreeBox(mb) \in Calls(k, b)
  <1> DEFINE x == FreeBox(mb)
  <1>0. mb \in Nat BY DEF LargeId
  <1>1. x \in Instruction BY <1>0, BlankType DEF FreeBox, Instruction
  <1>2. x.op = "free" /\ x.mb = mb /\ x.ok = 1 /\ x.no = 1
    BY BlankType DEF FreeBox, Instruction
  <1> HIDE DEF x
  <1>3. x \in Calls(k, b) BY <1>1, <1>2 DEF Calls
  <1> QED BY <1>3 DEF x

LEMMA DeviceType ==
    ASSUME NEW k \in Nat, NEW b \in Nat, NEW name \in Names
    PROVE  WaitDeviceNamed(name) \in Calls(k, b)
  <1> DEFINE x == WaitDeviceNamed(name)
  <1>1. x \in Instruction BY BlankType DEF WaitDeviceNamed, Instruction, LargeId
  <1>2. x.op = "device" /\ x.mb = 0 /\ x.ok = 1 /\ x.no = 1
    BY BlankType DEF WaitDeviceNamed, Instruction
  <1> HIDE DEF x
  <1>3. x \in Calls(k, b) BY <1>1, <1>2 DEF Calls
  <1> QED BY <1>3 DEF x

(* the same with numbers for the message *)
LEMMA CallType ==
    ASSUME NEW k \in Nat, NEW b \in Nat, NEW mb \in 0 .. b
    PROVE  /\ \A m, l \in Int : /\ SendTo(mb, Text(m, l), TRUE) \in Calls(k, b)
                                /\ SendTo(mb, Text(m, l), FALSE) \in Calls(k, b)
           /\ \A size \in Int : /\ ReceiveFrom(mb, size, TRUE) \in Calls(k, b)
                                /\ ReceiveFrom(mb, size, FALSE) \in Calls(k, b)
           /\ FreeBox(mb) \in Calls(k, b)
  <1>1. mb \in 0 .. b \union {LargeId} /\ TRUE \in BOOLEAN /\ FALSE \in BOOLEAN
    OBVIOUS
  <1>2. \A m, l \in Int : Text(m, l) \in Int \X Int BY DEF Text
  <1> QED BY <1>1, <1>2, SendType, ReceiveType, FreeType

(* the numbers that the tests' calls have *)
LEMMA Numbers ==
    /\ {0, 1, 2, 8, 12, 13, 14, 15, 16, 17, 19, 27, 30, 32, 50, 80, 100} \subseteq Int
    /\ 1 \in 0 .. 1 /\ {0, 1, 2} \subseteq 0 .. 2
  OBVIOUS

LEMMA ReturningType ==
    ASSUME NEW k, NEW b, NEW x \in Calls(k, b), NEW codes \in SUBSET Int
    PROVE  Returning(codes, x) \in Calls(k, b)
  BY DEF Returning, Calls, Instruction

LEMMA ReturningBoxType ==
    ASSUME NEW slots \in Int, NEW size \in Int, NEW codes \in SUBSET Int
    PROVE  LET x == Returning(codes, MakeBox(slots, size))
           IN  x \in Instruction /\ x.op = "create" /\ x.ok = 1 /\ x.no = 1
  <1> DEFINE x == MakeBox(slots, size)
  <1>1. x \in Instruction /\ x.op = "create" /\ x.ok = 1 /\ x.no = 1 BY MakeBoxType
  <1> HIDE DEF x
  <1>2. LET y == Returning(codes, x)
        IN  y \in Instruction /\ y.op = "create" /\ y.ok = 1 /\ y.no = 1
    BY <1>1 DEF Returning, Instruction
  <1> QED BY <1>2 DEF x

LEMMA OrExitType ==
    ASSUME NEW b, NEW x \in Calls(0, b)
    PROVE  OrExit(x) \in Calls(0, b)
  BY DEF OrExit, Calls, Instruction, Exit

LEMMA WhileOkType ==
    ASSUME NEW k, NEW b, NEW x \in Calls(k, b)
    PROVE  WhileOk(x) \in Calls(k, b)
  BY DEF WhileOk, Calls, Instruction

LEMMA ForeverType ==
    ASSUME NEW k, NEW b, NEW x \in Calls(k, b)
    PROVE  Forever(x) \in Calls(k, b)
  <1> DEFINE y == [x EXCEPT !.ok = 0]
  <1>1. y \in Calls(k, b) BY DEF Calls, Instruction
  <1> HIDE DEF y
  <1>2. [y EXCEPT !.no = 0] \in Calls(k, b) BY <1>1 DEF Calls, Instruction
  <1>3. Forever(x) = [y EXCEPT !.no = 0] BY DEF Forever, y
  <1> QED BY <1>2, <1>3

LEMMA SpawnType ==
    ASSUME NEW kid \in Nat, NEW priority \in Int
    PROVE  /\ Spawn(kid, priority) \in Instruction
           /\ Spawn(kid, priority).op = "spawn" /\ Spawn(kid, priority).kid = kid
  BY BlankType DEF Spawn, Instruction

LEMMA WaitType ==
    ASSUME NEW kid \in Nat
    PROVE  WaitFor(kid) \in Instruction /\ WaitFor(kid).op = "wait"
  BY BlankType DEF WaitFor, Instruction

-----------------------------------------------------------------------------
(* The blocks that programs are made of *)

(* One instruction. *)
LEMMA LeadsCreate ==
    ASSUME NEW n \in Nat, NEW k \in Nat, NEW b \in Nat, NEW b2 \in Nat, b2 = b + 1,
           NEW slots \in Int, NEW size \in Int
    PROVE  Leads(<<MakeBox(slots, size)>>, n, k, b, k, b2)
  <1> DEFINE x == MakeBox(slots, size)
  <1>1. x \in Instruction /\ x.op = "create" /\ x.ok = 1 /\ x.no = 1 BY MakeBoxType
  <1> HIDE DEF x
  <1>2. Does(x, n, k, b, k, b2) BY <1>1 DEF Does, Exit
  <1>3. Leads(<<x>>, n, k, b, k, b2) BY <1>1, <1>2, LeadsOne
  <1> QED BY <1>3 DEF x

LEMMA LeadsSpawn ==
    ASSUME NEW n \in Nat, NEW k \in Nat, NEW b \in Nat, n <= b,
           NEW k2 \in Nat, k2 = k + 1, NEW kid \in Nat, NEW priority \in Int
    PROVE  Leads(<<Spawn(kid, priority)>>, n, k, b, k2, b)
  <1> DEFINE x == Spawn(kid, priority)
  <1>1. x \in Instruction /\ x.op = "spawn" BY SpawnType
  <1> HIDE DEF x
  <1>2. Does(x, n, k, b, k2, b) BY <1>1 DEF Does
  <1>3. Leads(<<x>>, n, k, b, k2, b) BY <1>1, <1>2, LeadsOne
  <1> QED BY <1>3 DEF x

LEMMA LeadsWait ==
    ASSUME NEW n \in Nat, NEW k \in Nat, NEW b \in Nat, NEW k2 \in Nat, k = k2 + 1,
           NEW kid \in Nat
    PROVE  Leads(<<WaitFor(kid)>>, n, k, b, k2, b)
  <1> DEFINE x == WaitFor(kid)
  <1>1. x \in Instruction /\ x.op = "wait" BY WaitType
  <1> HIDE DEF x
  <1>2. Does(x, n, k, b, k2, b) BY <1>1 DEF Does
  <1>3. Leads(<<x>>, n, k, b, k2, b) BY <1>1, <1>2, LeadsOne
  <1> QED BY <1>3 DEF x

(* Calls change neither number. *)
LEMMA LeadsCalls ==
    ASSUME NEW n \in Nat, NEW k \in Nat, NEW b \in Nat, NEW s \in Seq(Calls(k, b))
    PROVE  Leads(s, n, k, b, k, b)
  <1> DEFINE K == [i \in 1 .. Len(s) + 1 |-> k]
             B == [i \in 1 .. Len(s) + 1 |-> b]
  <1>1. s \in Seq(Instruction) /\ \A i \in 1 .. Len(s) : s[i] \in Calls(k, b)
    BY DEF Calls
  <1>2. Len(s) \in Nat OBVIOUS
  <1>3. \A i \in 1 .. Len(s) : i \in 1 .. Len(s) + 1 /\ i + 1 \in 1 .. Len(s) + 1
    BY <1>2
  <1>4. \A x \in Calls(k, b) : Does(x, n, k, b, k, b)
    BY DEF Does, Calls, Exit
  <1>5. \A i \in 1 .. Len(s) : Does(s[i], n, K[i], B[i], K[i + 1], B[i + 1])
    BY <1>1, <1>3, <1>4
  <1>6. /\ K \in [1 .. Len(s) + 1 -> Nat] /\ B \in [1 .. Len(s) + 1 -> Nat]
        /\ K[1] = k /\ K[Len(s) + 1] = k /\ B[1] = b /\ B[Len(s) + 1] = b
    BY <1>2
  <1> HIDE DEF K, B
  <1> QED BY <1>1, <1>5, <1>6 DEF Leads

(* SpawnAll starts as many children as there are priorities. *)
LEMMA LeadsSpawns ==
    ASSUME NEW n \in Nat, NEW k \in Nat, NEW b \in Nat, n <= b,
           NEW first \in Nat, NEW priorities \in Seq(Int)
    PROVE  Leads(SpawnAll(first, priorities), n, k, b, k + Len(priorities), b)
  <1> DEFINE l == Len(priorities)
             s == SpawnAll(first, priorities)
             K == [i \in 1 .. l + 1 |-> k + i - 1]
             B == [i \in 1 .. l + 1 |-> b]
  <1>1. l \in Nat /\ DOMAIN priorities = 1 .. l OBVIOUS
  <1>2. s = [i \in 1 .. l |-> Spawn(first + i - 1, priorities[i])]
    BY <1>1 DEF SpawnAll
  <1>3. \A i \in 1 .. l : first + i - 1 \in Nat /\ priorities[i] \in Int
    BY <1>1
  <1> HIDE DEF l, s
  <1>4. \A i \in 1 .. l : s[i] \in Instruction /\ s[i].op = "spawn"
    BY <1>2, <1>3, SpawnType
  <1>5. s \in Seq(Instruction) /\ Len(s) = l
    <2>1. s \in [1 .. l -> Instruction] BY <1>2, <1>4
    <2> QED BY <1>1, <2>1
  <1>6. /\ K \in [1 .. l + 1 -> Nat] /\ B \in [1 .. l + 1 -> Nat]
        /\ K[1] = k /\ K[l + 1] = k + l /\ B[1] = b /\ B[l + 1] = b
        /\ \A i \in 1 .. l : K[i + 1] = K[i] + 1 /\ B[i] = b /\ B[i + 1] = b
    BY <1>1
  <1> HIDE DEF K, B
  <1>7. \A i \in 1 .. l : Does(s[i], n, K[i], B[i], K[i + 1], B[i + 1])
    BY <1>4, <1>6 DEF Does
  <1>8. Leads(s, n, k, b, k + l, b) BY <1>5, <1>6, <1>7 DEF Leads
  <1> QED BY <1>8 DEF l, s

(* Times(m, Wait) is enough for m of them. *)
LEMMA LeadsWaits ==
    ASSUME NEW n \in Nat, NEW k \in Nat, NEW b \in Nat, NEW m \in Nat, k <= m
    PROVE  Leads(Times(m, Wait), n, k, b, 0, b)
  <1> DEFINE s == Times(m, Wait)
             K == [i \in 1 .. m + 1 |-> IF i <= k THEN (k + 1) - i ELSE 0]
             B == [i \in 1 .. m + 1 |-> b]
  <1>1. Wait \in Instruction /\ Wait.op = "wait" BY WaitType DEF Wait
  <1>2. s \in Seq(Instruction) /\ Len(s) = m /\ \A i \in 1 .. m : s[i] = Wait
    BY <1>1 DEF Times
  <1>3. /\ K \in [1 .. m + 1 -> Nat] /\ B \in [1 .. m + 1 -> Nat]
        /\ K[1] = k /\ K[m + 1] = 0 /\ B[1] = b /\ B[m + 1] = b
        /\ \A i \in 1 .. m : K[i] = K[i + 1] + 1 \/ (K[i] = 0 /\ K[i + 1] = 0)
        /\ \A i \in 1 .. m : B[i] = b /\ B[i + 1] = b
    OBVIOUS
  <1> HIDE DEF s, K, B
  <1>4. \A i \in 1 .. m : Does(s[i], n, K[i], B[i], K[i + 1], B[i + 1])
    BY <1>1, <1>2, <1>3 DEF Does
  <1>5. Leads(s, n, k, b, 0, b) BY <1>2, <1>3, <1>4 DEF Leads
  <1> QED BY <1>5 DEF s

(* Times(m, MakeBox) creates m mailboxes. *)
LEMMA LeadsCreates ==
    ASSUME NEW n \in Nat, NEW k \in Nat, NEW b \in Nat, NEW m \in Nat,
           NEW slots \in Int, NEW size \in Int
    PROVE  Leads(Times(m, MakeBox(slots, size)), n, k, b, k, b + m)
  <1> DEFINE x == MakeBox(slots, size)
             s == Times(m, x)
             K == [i \in 1 .. m + 1 |-> k]
             B == [i \in 1 .. m + 1 |-> b + i - 1]
  <1>1. x \in Instruction /\ x.op = "create" /\ x.ok = 1 /\ x.no = 1 BY MakeBoxType
  <1> HIDE DEF x
  <1>2. s \in Seq(Instruction) /\ Len(s) = m /\ \A i \in 1 .. m : s[i] = x
    BY <1>1 DEF Times
  <1>3. /\ K \in [1 .. m + 1 -> Nat] /\ B \in [1 .. m + 1 -> Nat]
        /\ K[1] = k /\ K[m + 1] = k /\ B[1] = b /\ B[m + 1] = b + m
        /\ \A i \in 1 .. m : K[i] = k /\ K[i + 1] = k /\ B[i + 1] = B[i] + 1
    OBVIOUS
  <1> HIDE DEF s, K, B
  <1>4. \A i \in 1 .. m : Does(s[i], n, K[i], B[i], K[i + 1], B[i + 1])
    BY SMTT(30), <1>1, <1>2, <1>3 DEF Does, Exit
  <1>5. Leads(s, n, k, b, k, b + m) BY <1>2, <1>3, <1>4 DEF Leads
  <1> QED BY <1>5 DEF s, x

-----------------------------------------------------------------------------
(* Whole programs and tests *)

LEMMA SoundLeads ==
    ASSUME NEW s, NEW n, NEW b, NEW b2 \in Nat, Leads(s, n, 0, b, 0, b2)
    PROVE  Sound(s, n, b)
  BY DEF Sound

LEMMA SoundCalls ==
    ASSUME NEW n \in Nat, NEW b \in Nat, NEW s \in Seq(Calls(0, b))
    PROVE  Sound(s, n, b)
  BY LeadsCalls, SoundLeads

LEMMA SeqType ==
    ASSUME NEW S, NEW m \in Nat, NEW s \in [1 .. m -> S]
    PROVE  s \in Seq(S)
  OBVIOUS

LEMMA TimesType ==
    ASSUME NEW S, NEW x \in S, NEW m \in Nat
    PROVE  Times(m, x) \in Seq(S)
  BY DEF Times

(* SendAndReceive, whatever its options, needs the first mailbox only. *)
LEMMA SendAndReceiveType ==
    ASSUME NEW sends \in Nat, NEW receives \in Nat, NEW options \in Int,
           NEW b \in Nat, b >= 1
    PROVE  SendAndReceive(sends, receives, options) \in Seq(Calls(0, b))
  <1> DEFINE set(option) == (options \div option) % 2 = 1
             wait == ~set(OPTION_NON_BLOCKING)
             start == IF set(OPTION_START_NUMBER) THEN (options \div 256) % 256 ELSE 0
             sending == [i \in 1 .. sends |-> SendTo(1, Numbered(start + i - 1), wait)]
             receiving == Times(receives, ReceiveFrom(1, MAX_MESSAGE, wait))
             free == IF set(OPTION_FREE_FIRST) THEN <<FreeBox(1)>> ELSE <<>>
             S == Calls(0, b)
  <1>1. SendAndReceive(sends, receives, options) =
            free \o (IF set(OPTION_RECEIVE_FIRST) THEN receiving \o sending
                                                  ELSE sending \o receiving)
    BY Zenon DEF SendAndReceive
  <1>2. wait \in BOOLEAN /\ start \in Int OBVIOUS
  <1>3. 1 \in 0 .. b \union {LargeId} /\ MAX_MESSAGE \in Int BY TestSizes
  <1> HIDE DEF wait, start
  <1>4. receiving \in Seq(S)
    <2>1. ReceiveFrom(1, MAX_MESSAGE, wait) \in S BY <1>2, <1>3, ReceiveType
    <2> QED BY <2>1, TimesType
  <1>5. sending \in Seq(S)
    <2>1. ASSUME NEW i \in 1 .. sends
          PROVE  SendTo(1, Numbered(start + i - 1), wait) \in S
      <3>1. Numbered(start + i - 1) \in Int \X Int BY <1>2 DEF Numbered, Text
      <3> QED BY <1>2, <1>3, <3>1, SendType
    <2> QED BY <2>1
  <1>6. free \in Seq(S)
    <2>1. FreeBox(1) \in S BY <1>3, FreeType
    <2> QED BY <2>1
  <1> HIDE DEF receiving, sending, free, S, set
  <1>7. (IF set(OPTION_RECEIVE_FIRST) THEN receiving \o sending
                                      ELSE sending \o receiving) \in Seq(S)
    BY <1>4, <1>5
  <1>8. SendAndReceive(sends, receives, options) \in Seq(S) BY <1>1, <1>6, <1>7
  <1> QED BY <1>8 DEF S

LEMMA SendAndReceiveSound ==
    ASSUME NEW sends \in Nat, NEW receives \in Nat, NEW options \in Int
    PROVE  Sound(SendAndReceive(sends, receives, options), 1, 1)
  <1>1. \A b \in Nat : b >= 1 =>
            SendAndReceive(sends, receives, options) \in Seq(Calls(0, b))
    BY SendAndReceiveType
  <1> DEFINE one == 1
             s == SendAndReceive(sends, receives, options)
  <1>2. one \in Nat /\ one >= 1 /\ one = 1 OBVIOUS
  <1> HIDE DEF one, s
  <1>3. s \in Seq(Calls(0, one)) BY <1>1, <1>2 DEF s
  <1>4. Sound(s, one, one) BY <1>2, <1>3, SoundCalls
  <1> QED BY <1>2, <1>4 DEF s

LEMMA SenderSound == \A m \in Nat : Sound(Sender(m), 1, 1)
  BY SendAndReceiveSound DEF Sender, OPTION_NONE

LEMMA ReceiverSound == \A m \in Nat : Sound(Receiver(m), 1, 1)
  BY SendAndReceiveSound DEF Receiver, OPTION_NONE

LEMMA FreerSound == Sound(Freer, 1, 1)
  BY SendAndReceiveSound DEF Freer, OPTION_FREE_FIRST

(* A family waits for as many children as it starts. *)
LEMMA LeadsFamily ==
    ASSUME NEW n \in Nat, n <= 1, NEW slots \in Int, NEW size \in Int,
           NEW priorities \in Seq(Int)
    PROVE  Leads(Family(slots, size, priorities), n, 0, 0, 0, 1)
  <1> DEFINE l == Len(priorities)
             a == <<MakeBox(slots, size)>>
             s == SpawnAll(2, priorities)
             w == Times(l, Wait)
  <1>1. l \in Nat OBVIOUS
  <1> HIDE DEF l
  <1>2. Leads(a, n, 0, 0, 0, 1) BY LeadsCreate
  <1>3. Leads(s, n, 0, 1, 0 + Len(priorities), 1) BY LeadsSpawns
  <1>4. Leads(w, n, l, 1, 0, 1) BY <1>1, LeadsWaits
  <1>5. 0 + Len(priorities) = l BY <1>1 DEF l
  <1> HIDE DEF a, s, w
  <1>6. Leads(a \o s, n, 0, 0, l, 1) BY <1>2, <1>3, <1>5, LeadsConcat
  <1>7. Leads((a \o s) \o w, n, 0, 0, 0, 1) BY <1>4, <1>5, <1>6, LeadsConcat
  <1>8. Family(slots, size, priorities) = (a \o s) \o w BY DEF Family, a, s, w, l
  <1> QED BY <1>7, <1>8

LEMMA FamilySound ==
    ASSUME NEW slots \in Int, NEW size \in Int, NEW priorities \in Seq(Int)
    PROVE  Sound(Family(slots, size, priorities), 1, 0)
  BY LeadsFamily, SoundLeads

-----------------------------------------------------------------------------
(* The tests *)

(* families and groups of children of these sizes *)
LEMMA Family2Sound ==
    ASSUME NEW slots \in Int, NEW size \in Int,
           NEW p1 \in Int, NEW p2 \in Int
    PROVE  Sound(Family(slots, size, <<p1, p2>>), 1, 0)
  <1> DEFINE t == <<p1, p2>>
  <1>1. t \in Seq(Int) OBVIOUS
  <1> HIDE DEF t
  <1>2. Sound(Family(slots, size, t), 1, 0) BY <1>1, FamilySound
  <1> QED BY <1>2 DEF t

LEMMA Family5Sound ==
    ASSUME NEW slots \in Int, NEW size \in Int,
           NEW p1 \in Int, NEW p2 \in Int, NEW p3 \in Int, NEW p4 \in Int, NEW p5 \in Int
    PROVE  Sound(Family(slots, size, <<p1, p2, p3, p4, p5>>), 1, 0)
  <1> DEFINE t == <<p1, p2, p3, p4, p5>>
  <1>1. t \in Seq(Int) OBVIOUS
  <1> HIDE DEF t
  <1>2. Sound(Family(slots, size, t), 1, 0) BY <1>1, FamilySound
  <1> QED BY <1>2 DEF t

LEMMA LeadsSpawns2 ==
    ASSUME NEW n \in Nat, NEW k \in Nat, NEW b \in Nat, n <= b, NEW first \in Nat,
           NEW k2, k2 = k + 2,
           NEW p1 \in Int, NEW p2 \in Int
    PROVE  Leads(SpawnAll(first, <<p1, p2>>), n, k, b, k2, b)
  <1> DEFINE t == <<p1, p2>>
  <1>1. t \in Seq(Int) /\ Len(t) = 2 OBVIOUS
  <1> HIDE DEF t
  <1>2. Leads(SpawnAll(first, t), n, k, b, k + Len(t), b) BY <1>1, LeadsSpawns
  <1> QED BY <1>1, <1>2 DEF t

LEMMA LeadsSpawns4 ==
    ASSUME NEW n \in Nat, NEW k \in Nat, NEW b \in Nat, n <= b, NEW first \in Nat,
           NEW k2, k2 = k + 4,
           NEW p1 \in Int, NEW p2 \in Int, NEW p3 \in Int, NEW p4 \in Int
    PROVE  Leads(SpawnAll(first, <<p1, p2, p3, p4>>), n, k, b, k2, b)
  <1> DEFINE t == <<p1, p2, p3, p4>>
  <1>1. t \in Seq(Int) /\ Len(t) = 4 OBVIOUS
  <1> HIDE DEF t
  <1>2. Leads(SpawnAll(first, t), n, k, b, k + Len(t), b) BY <1>1, LeadsSpawns
  <1> QED BY <1>1, <1>2 DEF t

LEMMA LeadsSpawns5 ==
    ASSUME NEW n \in Nat, NEW k \in Nat, NEW b \in Nat, n <= b, NEW first \in Nat,
           NEW k2, k2 = k + 5,
           NEW p1 \in Int, NEW p2 \in Int, NEW p3 \in Int, NEW p4 \in Int, NEW p5 \in Int
    PROVE  Leads(SpawnAll(first, <<p1, p2, p3, p4, p5>>), n, k, b, k2, b)
  <1> DEFINE t == <<p1, p2, p3, p4, p5>>
  <1>1. t \in Seq(Int) /\ Len(t) = 5 OBVIOUS
  <1> HIDE DEF t
  <1>2. Leads(SpawnAll(first, t), n, k, b, k + Len(t), b) BY <1>1, LeadsSpawns
  <1> QED BY <1>1, <1>2 DEF t

LEMMA Sound04 == TestSound(Test04)
  <1>1. Sound(Family(10, 50, <<4, 3>>), 1, 0) BY Family2Sound
  <1>2. Sound(Sender(1), 1, 1) /\ Sound(Receiver(1), 1, 1)
    BY SenderSound, ReceiverSound
  <1>3. AllSound(Test04, 1) BY <1>1, <1>2 DEF AllSound, Test04
  <1> QED BY <1>3 DEF TestSound

LEMMA Sound06 == TestSound(Test06)
  <1>1. Sound(Family(5, 50, <<4, 3>>), 1, 0) BY Family2Sound
  <1>2. Sound(Sender(6), 1, 1) /\ Sound(Receiver(6), 1, 1)
    BY SenderSound, ReceiverSound
  <1>3. AllSound(Test06, 1) BY <1>1, <1>2 DEF AllSound, Test06
  <1> QED BY <1>3 DEF TestSound

(* the senders of one message each that tests 7 to 10 start *)
LEMMA SendOneSound ==
    /\ Sound(SendAndReceive(1, 0, StartingAt(5)), 1, 1)
    /\ Sound(SendAndReceive(1, 0, StartingAt(5) + OPTION_NON_BLOCKING), 1, 1)
    /\ Sound(SendAndReceive(1, 0, StartingAt(6)), 1, 1)
    /\ Sound(SendAndReceive(1, 0, StartingAt(7)), 1, 1)
    /\ Sound(SendAndReceive(0, 0, OPTION_NONE), 1, 1)
  BY SendAndReceiveSound
     DEF StartingAt, OPTION_START_NUMBER, OPTION_NON_BLOCKING, OPTION_NONE

LEMMA Sound07 == TestSound(Test07)
  <1>1. Sound(Family(5, 50, <<3, 3, 3, 3, 2>>), 1, 0)
    BY Family5Sound
  <1>2. Sound(Sender(5), 1, 1) /\ Sound(Receiver(8), 1, 1)
    BY SenderSound, ReceiverSound
  <1>3. AllSound(Test07, 1) BY <1>1, <1>2, SendOneSound DEF AllSound, Test07
  <1> QED BY <1>3 DEF TestSound

LEMMA Sound08 == TestSound(Test08)
  <1>1. Sound(Family(5, 50, <<3, 3, 3, 3, 2>>), 1, 0)
    BY Family5Sound
  <1>2. Sound(Sender(5), 1, 1) /\ Sound(Freer, 1, 1)
    BY SenderSound, FreerSound
  <1>3. AllSound(Test08, 1) BY <1>1, <1>2, SendOneSound DEF AllSound, Test08
  <1> QED BY <1>3 DEF TestSound

LEMMA Sound10 == TestSound(Test10)
  <1>1. Sound(Family(5, 50, <<3, 3, 3, 3, 2>>), 1, 0)
    BY Family5Sound
  <1>2. Sound(Sender(5), 1, 1) /\ Sound(Receiver(6), 1, 1)
    BY SenderSound, ReceiverSound
  <1>3. AllSound(Test10, 1) BY <1>1, <1>2, SendOneSound DEF AllSound, Test10
  <1> QED BY <1>3 DEF TestSound

LEMMA Sound26 == TestSound(Test26)
  <1>1. Sound(Family(5, MAX_MESSAGE, <<4, 3, 2, 3, 1>>), 1, 0)
    <2>1. MAX_MESSAGE \in Int BY TestSizes
    <2> QED BY <2>1, Family5Sound
  <1>2. Sound(SendAndReceive(5, 5, OPTION_RECEIVE_FIRST), 1, 1)
    BY SendAndReceiveSound DEF OPTION_RECEIVE_FIRST
  <1>3. Sound(Receiver(1), 1, 1) /\ Sound(Freer, 1, 1)
    BY ReceiverSound, FreerSound
  <1>4. AllSound(Test26, 1) BY <1>1, <1>2, <1>3 DEF AllSound, Test26
  <1> QED BY <1>4 DEF TestSound

LEMMA JoinOne ==
    ASSUME NEW x, NEW y, NEW z
    PROVE  /\ <<x>> \o <<y>> = <<x, y>>
           /\ <<x, y>> \o <<z>> = <<x, y, z>>
  <1> DEFINE S == {x, y, z}
             a == <<x>>
             b == <<x, y>>
             c == <<y>>
             d == <<z>>
             e == <<x, y, z>>
  <1>1. /\ a \in Seq(S) /\ Len(a) = 1 /\ a[1] = x
        /\ b \in Seq(S) /\ Len(b) = 2 /\ b[1] = x /\ b[2] = y
        /\ c \in Seq(S) /\ Len(c) = 1 /\ c[1] = y
        /\ d \in Seq(S) /\ Len(d) = 1 /\ d[1] = z
        /\ e \in Seq(S) /\ Len(e) = 3 /\ e[1] = x /\ e[2] = y /\ e[3] = z
    OBVIOUS
  <1> HIDE DEF S, a, b, c, d, e
  <1>2. \A s, t \in Seq(S) :
            /\ s \o t \in Seq(S) /\ Len(s \o t) = Len(s) + Len(t)
            /\ \A i \in 1 .. Len(s) + Len(t) :
                  (s \o t)[i] = IF i <= Len(s) THEN s[i] ELSE t[i - Len(s)]
    BY ConcatProperties
  <1>3. a \o c = b
    <2>1. /\ a \o c \in Seq(S) /\ Len(a \o c) = 2
          /\ \A i \in 1 .. 2 : (a \o c)[i] = IF i <= 1 THEN a[i] ELSE c[i - 1]
      BY SMTT(30), <1>1, <1>2
    <2>2. \A i \in 1 .. Len(a \o c) : (a \o c)[i] = b[i] BY <1>1, <2>1
    <2> QED BY <1>1, <2>1, <2>2, SeqEqual
  <1>4. b \o d = e
    <2>1. /\ b \o d \in Seq(S) /\ Len(b \o d) = 3
          /\ \A i \in 1 .. 3 : (b \o d)[i] = IF i <= 2 THEN b[i] ELSE d[i - 2]
      BY SMTT(30), <1>1, <1>2
    <2>2. \A i \in 1 .. Len(b \o d) : (b \o d)[i] = e[i] BY <1>1, <2>1
    <2> QED BY <1>1, <2>1, <2>2, SeqEqual
  <1> QED BY <1>3, <1>4 DEF a, b, c, d, e

LEMMA LeadsTwo ==
    ASSUME NEW x, NEW y, NEW n, NEW k, NEW b, NEW k1, NEW b1, NEW k2, NEW b2,
           Leads(<<x>>, n, k, b, k1, b1), Leads(<<y>>, n, k1, b1, k2, b2)
    PROVE  Leads(<<x, y>>, n, k, b, k2, b2)
  <1>1. Leads(<<x>> \o <<y>>, n, k, b, k2, b2) BY LeadsConcat
  <1>2. <<x>> \o <<y>> = <<x, y>> BY JoinOne
  <1> QED BY <1>1, <1>2

LEMMA LeadsThree ==
    ASSUME NEW x, NEW y, NEW z, NEW n, NEW k, NEW b, NEW k1, NEW b1, NEW k2, NEW b2,
           NEW k3, NEW b3, Leads(<<x>>, n, k, b, k1, b1),
           Leads(<<y>>, n, k1, b1, k2, b2), Leads(<<z>>, n, k2, b2, k3, b3)
    PROVE  Leads(<<x, y, z>>, n, k, b, k3, b3)
  <1>1. Leads(<<x, y>>, n, k, b, k2, b2) BY LeadsTwo
  <1>2. Leads(<<x, y>> \o <<z>>, n, k, b, k3, b3) BY <1>1, LeadsConcat
  <1>3. <<x, y>> \o <<z>> = <<x, y, z>> BY JoinOne
  <1> QED BY <1>2, <1>3


LEMMA LeadsCall ==
    ASSUME NEW n \in Nat, NEW k \in Nat, NEW b \in Nat, NEW x \in Calls(k, b)
    PROVE  Leads(<<x>>, n, k, b, k, b)
  <1>1. <<x>> \in Seq(Calls(k, b)) OBVIOUS
  <1> QED BY <1>1, LeadsCalls

LEMMA LeadsOrExit ==
    ASSUME NEW n \in Nat, NEW b \in Nat, NEW b2 \in Nat, b2 = b + 1,
           NEW slots \in Int, NEW size \in Int
    PROVE  Leads(<<OrExit(MakeBox(slots, size))>>, n, 0, b, 0, b2)
  <1> DEFINE x == MakeBox(slots, size)
             y == OrExit(x)
  <1>1. x \in Instruction /\ x.op = "create" /\ x.ok = 1 BY MakeBoxType
  <1> HIDE DEF x
  <1>2. y \in Instruction /\ y.op = "create" /\ y.ok = 1 /\ y.no = Exit
    BY <1>1 DEF OrExit, Instruction, Exit
  <1> HIDE DEF y
  <1>3. Does(y, n, 0, b, 0, b2) BY <1>2 DEF Does, Exit
  <1>4. Leads(<<y>>, n, 0, b, 0, b2) BY <1>2, <1>3, LeadsOne
  <1> QED BY <1>4 DEF x, y

LEMMA LeadsReturning ==
    ASSUME NEW n \in Nat, NEW b \in Nat, NEW b2 \in Nat, b2 = b + 1,
           NEW slots \in Int, NEW size \in Int, NEW codes \in SUBSET Int
    PROVE  Leads(<<Returning(codes, MakeBox(slots, size))>>, n, 0, b, 0, b2)
  <1> DEFINE x == Returning(codes, MakeBox(slots, size))
  <1>1. x \in Instruction /\ x.op = "create" /\ x.ok = 1 /\ x.no = 1
    BY ReturningBoxType
  <1> HIDE DEF x
  <1>2. Does(x, n, 0, b, 0, b2) BY <1>1 DEF Does, Exit
  <1>3. Leads(<<x>>, n, 0, b, 0, b2) BY <1>1, <1>2, LeadsOne
  <1> QED BY <1>3 DEF x

LEMMA NothingSound == \A n, b \in Nat : Sound(<<>>, n, b)
  BY LeadsNone, SoundLeads

(* a test without children *)
LEMMA AloneSound ==
    ASSUME NEW s, Sound(s, 0, 0)
    PROVE  TestSound(<<s>>)
  <1>1. AllSound(<<s>>, 0) BY DEF AllSound
  <1> QED BY <1>1 DEF TestSound

(* a test with two children, or five *)
LEMMA ThreeSound ==
    ASSUME NEW n \in Nat, NEW s1, NEW s2, NEW s3,
           Sound(s1, n, 0), Sound(s2, n, n), Sound(s3, n, n)
    PROVE  TestSound(<<s1, s2, s3>>)
  <1>1. AllSound(<<s1, s2, s3>>, n) BY DEF AllSound
  <1> QED BY <1>1 DEF TestSound

LEMMA SixSound ==
    ASSUME NEW n \in Nat, NEW s1, NEW s2, NEW s3, NEW s4, NEW s5, NEW s6,
           Sound(s1, n, 0), Sound(s2, n, n), Sound(s3, n, n), Sound(s4, n, n),
           Sound(s5, n, n), Sound(s6, n, n)
    PROVE  TestSound(<<s1, s2, s3, s4, s5, s6>>)
  <1>1. AllSound(<<s1, s2, s3, s4, s5, s6>>, n) BY DEF AllSound
  <1> QED BY <1>1 DEF TestSound

LEMMA Sound00 == TestSound(Test00)
  <1>1. Sound(<<>>, 0, 0) BY NothingSound
  <1>2. TestSound(<< <<>> >>) BY <1>1, AloneSound
  <1> QED BY <1>2 DEF Test00

LEMMA Sound01 == TestSound(Test01)
  <1> DEFINE x == MakeBox(10, 50)
             y == MakeBox(20, 30)
  <1>1. Leads(<<x>>, 0, 0, 0, 0, 1) /\ Leads(<<y>>, 0, 0, 1, 0, 2) BY SMTT(30), LeadsCreate
  <1> HIDE DEF x, y
  <1>2. Leads(<<x, y>>, 0, 0, 0, 0, 2) BY <1>1, LeadsTwo
  <1>3. TestSound(<< <<x, y>> >>) BY <1>2, SoundLeads, AloneSound
  <1> QED BY <1>3 DEF Test01, x, y

LEMMA Sound02 == TestSound(Test02)
  <1> DEFINE s == Times(MAXMBOX + 3, MakeBox(10, 50))
  <1>1. MAXMBOX + 3 \in Nat BY TestSizes
  <1>2. Leads(s, 0, 0, 0, 0, 0 + (MAXMBOX + 3)) BY <1>1, LeadsCreates
  <1>3. 0 + (MAXMBOX + 3) \in Nat BY <1>1
  <1> HIDE DEF s
  <1>4. TestSound(<<s>>) BY <1>2, <1>3, SoundLeads, AloneSound
  <1> QED BY <1>4 DEF Test02, s

LEMMA Sound03 == TestSound(Test03)
  <1> DEFINE x == MakeBox(10, 50)
             y == SendTo(1, Text(0, 12), TRUE)
             z == ReceiveFrom(1, 80, TRUE)
  <1>1. Leads(<<x>>, 0, 0, 0, 0, 1) BY LeadsCreate
  <1>2. y \in Calls(0, 1) /\ z \in Calls(0, 1) BY CallType, Numbers
  <1> HIDE DEF x, y, z
  <1>3. Leads(<<y>>, 0, 0, 1, 0, 1) /\ Leads(<<z>>, 0, 0, 1, 0, 1) BY <1>2, LeadsCall
  <1>4. Leads(<<x, y, z>>, 0, 0, 0, 0, 1) BY <1>1, <1>3, LeadsThree
  <1>5. TestSound(<< <<x, y, z>> >>) BY <1>4, SoundLeads, AloneSound
  <1> QED BY <1>5 DEF Test03, x, y, z

(* a mailbox and two calls: tests 15, 33 and 34 *)
LEMMA BoxAndTwoCalls ==
    ASSUME NEW slots \in Int, NEW size \in Int,
           NEW x \in Calls(0, 1), NEW y \in Calls(0, 1)
    PROVE  TestSound(<< <<MakeBox(slots, size), x, y>> >>)
  <1> DEFINE a == MakeBox(slots, size)
  <1>1. Leads(<<a>>, 0, 0, 0, 0, 1) BY LeadsCreate
  <1> HIDE DEF a
  <1>2. Leads(<<x>>, 0, 0, 1, 0, 1) /\ Leads(<<y>>, 0, 0, 1, 0, 1) BY LeadsCall
  <1>3. Leads(<<a, x, y>>, 0, 0, 0, 0, 1) BY <1>1, <1>2, LeadsThree
  <1>4. TestSound(<< <<a, x, y>> >>) BY <1>3, SoundLeads, AloneSound
  <1> QED BY <1>4 DEF a

LEMMA Sound15 == TestSound(Test15)
  <1> DEFINE x == SendTo(1, Text(0, 12), TRUE)
             y == ReceiveFrom(1, 80, TRUE)
             x2 == OrExit(x)
  <1>1. x \in Calls(0, 1) /\ y \in Calls(0, 1) BY CallType, Numbers
  <1> HIDE DEF x, y
  <1>2. x2 \in Calls(0, 1) BY <1>1, OrExitType
  <1> HIDE DEF x2
  <1>3. TestSound(<< <<MakeBox(10, 5), x2, y>> >>) BY <1>1, <1>2, BoxAndTwoCalls
  <1> QED BY <1>3 DEF Test15, x, y, x2

LEMMA Sound33 == TestSound(Test33)
  <1> DEFINE x == SendTo(1, Text(0, 13), TRUE)
             y == ReceiveFrom(1, 32, TRUE)
             x2 == Returning({0}, x)
             y2 == Returning({13}, y)
  <1>1. x \in Calls(0, 1) /\ y \in Calls(0, 1) BY CallType, Numbers
  <1>2. {0} \in SUBSET Int /\ {13} \in SUBSET Int OBVIOUS
  <1> HIDE DEF x, y
  <1>3. x2 \in Calls(0, 1) /\ y2 \in Calls(0, 1) BY <1>1, <1>2, ReturningType
  <1> HIDE DEF x2, y2
  <1>4. TestSound(<< <<MakeBox(10, 13), x2, y2>> >>) BY <1>3, BoxAndTwoCalls
  <1> QED BY <1>4 DEF Test33, x, y, x2, y2

LEMMA Sound34 == TestSound(Test34)
  <1> DEFINE x == SendTo(1, Text(0, 13), TRUE)
             y == ReceiveFrom(1, 32, TRUE)
             x2 == OrExit(x)
  <1>1. x \in Calls(0, 1) /\ y \in Calls(0, 1) BY CallType, Numbers
  <1> HIDE DEF x, y
  <1>2. x2 \in Calls(0, 1) BY <1>1, OrExitType
  <1> HIDE DEF x2
  <1>3. TestSound(<< <<MakeBox(10, 12), x2, y>> >>) BY <1>1, <1>2, BoxAndTwoCalls
  <1> QED BY <1>3 DEF Test34, x, y, x2

LEMMA Sound35 == TestSound(Test35)
  <1> DEFINE x == Returning({-1}, MakeBox(10, MAX_MESSAGE + 1))
             y == Returning({-1}, MakeBox(10, -1))
             z == Returning({-1}, MakeBox(-1, 10))
  <1>1. {-1} \in SUBSET Int /\ MAX_MESSAGE + 1 \in Int /\ {-1, 10} \subseteq Int
    BY TestSizes
  <1>2. /\ Leads(<<x>>, 0, 0, 0, 0, 1) /\ Leads(<<y>>, 0, 0, 1, 0, 2)
        /\ Leads(<<z>>, 0, 0, 2, 0, 3)
    BY <1>1, LeadsReturning
  <1> HIDE DEF x, y, z
  <1>3. Leads(<<x, y, z>>, 0, 0, 0, 0, 3) BY <1>2, LeadsThree
  <1>4. TestSound(<< <<x, y, z>> >>) BY <1>3, SoundLeads, AloneSound
  <1> QED BY <1>4 DEF Test35, x, y, z

LEMMA Sound16 == TestSound(Test16)
  <1> DEFINE x == MakeBox(MAXSLOTS, 32)
             y == OrExit(MakeBox(5, 32))
             c == [i \in 1 .. 5 |-> SendTo(2, Text(i, 8), FALSE)]
             d == [i \in 1 .. MAXSLOTS |-> SendTo(1, Text(5 + i, 12), FALSE)]
             z == SendTo(1, Text(0, 12), FALSE)
             z2 == Forever(z)
  <1>1. MAXSLOTS \in Nat BY TestSizes
  <1>2. Leads(<<x>>, 0, 0, 0, 0, 1) /\ Leads(<<y>>, 0, 0, 1, 0, 2)
    BY <1>1, LeadsCreate, LeadsOrExit
  <1>3. c \in Seq(Calls(0, 2))
    <2>1. \A i \in Int : SendTo(2, Text(i, 8), FALSE) \in Calls(0, 2)
      BY CallType, Numbers
    <2>2. \A i \in 1 .. 5 : i \in Int OBVIOUS
    <2>3. \A i \in 1 .. 5 : SendTo(2, Text(i, 8), FALSE) \in Calls(0, 2)
      BY <2>1, <2>2
    <2>4. c \in [1 .. 5 -> Calls(0, 2)] BY <2>3
    <2> QED BY <2>4, SeqType
  <1>4. d \in Seq(Calls(0, 2))
    <2>1. \A i \in 1 .. MAXSLOTS : 5 + i \in Int BY <1>1
    <2>2. \A i \in 1 .. MAXSLOTS : SendTo(1, Text(5 + i, 12), FALSE) \in Calls(0, 2)
      BY <2>1, CallType, Numbers
    <2>3. d \in [1 .. MAXSLOTS -> Calls(0, 2)] BY <2>2
    <2> QED BY <1>1, <2>3, SeqType
  <1>5. z \in Calls(0, 2) BY CallType, Numbers
  <1> HIDE DEF x, y, c, d, z
  <1>6. z2 \in Calls(0, 2) BY <1>5, ForeverType
  <1> HIDE DEF z2
  <1>7. Leads(<<x, y>>, 0, 0, 0, 0, 2) BY <1>2, LeadsTwo
  <1>8. /\ Leads(c, 0, 0, 2, 0, 2) /\ Leads(d, 0, 0, 2, 0, 2)
        /\ Leads(<<z2>>, 0, 0, 2, 0, 2)
    BY <1>3, <1>4, <1>6, LeadsCalls, LeadsCall
  <1> DEFINE s == ((<<x, y>> \o c) \o d) \o <<z2>>
  <1>9. Leads(s, 0, 0, 0, 0, 2) BY <1>7, <1>8, LeadsConcat
  <1> HIDE DEF s
  <1>10. TestSound(<<s>>) BY <1>9, SoundLeads, AloneSound
  <1>11. Test16 = <<s>> BY Zenon DEF Test16, s, x, y, c, d, z, z2
  <1> QED BY <1>10, <1>11

LEMMA Sound25 == TestSound(Test25)
  <1> DEFINE m == MAXMBOX - 5
             a == Times(m, MakeBox(10, 50))
             c == [i \in 1 .. FreedCount |-> FreeBox(FirstFreed + i)]
             d == Times(LateCreates, MakeBox(10, 50))
  <1>1. /\ m \in Nat /\ LateCreates \in Nat /\ FreedCount \in Nat /\ FirstFreed \in Nat
        /\ \A i \in 1 .. FreedCount : FirstFreed + i \in 0 .. m
    BY TestSizes
  <1> HIDE DEF m
  <1>2. Leads(a, 0, 0, 0, 0, 0 + m) BY <1>1, LeadsCreates
  <1>3. c \in Seq(Calls(0, m))
    <2>1. \A i \in 1 .. FreedCount : FreeBox(FirstFreed + i) \in Calls(0, m)
      BY <1>1, CallType
    <2>2. c \in [1 .. FreedCount -> Calls(0, m)] BY <2>1
    <2> QED BY <1>1, <2>2
  <1>4. Leads(d, 0, 0, m, 0, m + LateCreates) BY <1>1, LeadsCreates
  <1> HIDE DEF a, c, d
  <1>5. Leads(c, 0, 0, m, 0, m) BY <1>1, <1>3, LeadsCalls
  <1>6. 0 + m = m /\ m + LateCreates \in Nat BY <1>1
  <1> DEFINE s == (a \o c) \o d
  <1>7. Leads(s, 0, 0, 0, 0, m + LateCreates) BY <1>2, <1>4, <1>5, <1>6, LeadsConcat
  <1> HIDE DEF s
  <1>8. TestSound(<<s>>) BY <1>6, <1>7, SoundLeads, AloneSound
  <1>9. Test25 = <<s>> BY Zenon DEF Test25, s, a, c, d, m
  <1> QED BY <1>8, <1>9

LEMMA Sound28 == TestSound(Test28)
  <1> DEFINE S == Calls(0, 2)
             Rejected(mb) ==
                 <<Returning({-1}, SendTo(mb, Text(0, 13), FALSE)),
                   Returning({-1}, ReceiveFrom(mb, 50, FALSE)),
                   Returning({-1}, FreeBox(mb))>>
             x == MakeBox(10, 50)
             y == MakeBox(5, 50)
             z == FreeBox(2)
             c == Rejected(NegativeId)
             d == Rejected(LargeId)
             e == Rejected(2)
             f1 == Returning({0}, SendTo(1, Text(1, 19), FALSE))
             f2 == Returning(0 .. MAX_MESSAGE, ReceiveFrom(1, 50, FALSE))
             f3 == FreeBox(1)
             f == <<f1, f2, f3>>
  <1>1. \A i \in S, codes \in SUBSET Int : Returning(codes, i) \in S
    BY ReturningType
  <1>2. /\ {-1} \in SUBSET Int /\ {0} \in SUBSET Int /\ 0 .. MAX_MESSAGE \in SUBSET Int
        /\ Text(0, 13) \in Int \X Int /\ Text(1, 19) \in Int \X Int
        /\ TRUE \in BOOLEAN /\ FALSE \in BOOLEAN /\ 50 \in Int /\ 2 \in Nat /\ 0 \in Nat
    BY TestSizes DEF Text
  <1>3. {NegativeId, LargeId, 1, 2} \subseteq 0 .. 2 \union {LargeId} BY DEF NegativeId
  <1>4. \A mb \in 0 .. 2 \union {LargeId} : Rejected(mb) \in Seq(S)
    <2> TAKE mb \in 0 .. 2 \union {LargeId}
    <2> DEFINE i1 == SendTo(mb, Text(0, 13), FALSE)
               i2 == ReceiveFrom(mb, 50, FALSE)
               i3 == FreeBox(mb)
    <2>1. i1 \in S BY <1>2, SendType
    <2>2. i2 \in S BY <1>2, ReceiveType
    <2>3. i3 \in S BY <1>2, FreeType
    <2> HIDE DEF i1, i2, i3, S
    <2> DEFINE j1 == Returning({-1}, i1)
               j2 == Returning({-1}, i2)
               j3 == Returning({-1}, i3)
    <2>4. j1 \in S /\ j2 \in S /\ j3 \in S BY <1>1, <1>2, <2>1, <2>2, <2>3
    <2> HIDE DEF j1, j2, j3
    <2>5. <<j1, j2, j3>> \in Seq(S) BY <2>4
    <2> QED BY <2>5 DEF j1, j2, j3, i1, i2, i3
  <1>5. c \in Seq(S) /\ d \in Seq(S) /\ e \in Seq(S) BY Zenon, <1>3, <1>4
  <1>6. z \in S /\ f3 \in S BY CallType, Numbers
  <1>7. f1 \in S
    <2>1. SendTo(1, Text(1, 19), FALSE) \in S BY CallType, Numbers
    <2> QED BY <1>1, <1>2, <2>1
  <1>8. f2 \in S
    <2>1. ReceiveFrom(1, 50, FALSE) \in S BY CallType, Numbers
    <2> QED BY <1>1, <1>2, <2>1
  <1> HIDE DEF f1, f2, f3, S
  <1>9. f \in Seq(S) BY <1>6, <1>7, <1>8
  <1>10. Leads(<<x>>, 0, 0, 0, 0, 1) /\ Leads(<<y>>, 0, 0, 1, 0, 2) BY LeadsCreate
  <1> HIDE DEF x, y, z, c, d, e, f, Rejected
  <1>11. /\ Leads(<<z>>, 0, 0, 2, 0, 2) /\ Leads(c, 0, 0, 2, 0, 2)
         /\ Leads(d, 0, 0, 2, 0, 2) /\ Leads(e, 0, 0, 2, 0, 2) /\ Leads(f, 0, 0, 2, 0, 2)
    BY <1>5, <1>6, <1>9, LeadsCalls, LeadsCall DEF S
  <1>12. Leads(<<x, y, z>>, 0, 0, 0, 0, 2) BY <1>10, <1>11, LeadsThree
  <1> DEFINE s == (((<<x, y, z>> \o c) \o d) \o e) \o f
  <1>13. Leads(s, 0, 0, 0, 0, 2) BY <1>11, <1>12, LeadsConcat
  <1> HIDE DEF s
  <1>14. TestSound(<<s>>) BY <1>13, SoundLeads, AloneSound
  <1>15. Test28 = <<s>>
    BY Zenon DEF Test28, s, x, y, z, c, d, e, f, f1, f2, f3, Rejected
  <1> QED BY <1>14, <1>15

-----------------------------------------------------------------------------
(* Tests whose first program does more than start and wait *)

LEMMA CallSound ==
    ASSUME NEW n \in Nat, NEW b \in Nat, NEW x \in Calls(0, b)
    PROVE  Sound(<<x>>, n, b) /\ \A m \in Nat : Sound(Times(m, x), n, b)
  <1>1. <<x>> \in Seq(Calls(0, b)) OBVIOUS
  <1>2. \A m \in Nat : Times(m, x) \in Seq(Calls(0, b)) BY TimesType
  <1> QED BY <1>1, <1>2, SoundCalls

LEMMA Sound05 == TestSound(Test05)
  <1> DEFINE x == WaitDeviceNamed("term0")
             a == Times(TerminalWrites, x)
             t == <<3, 4>>
             c == Family(10, 50, t)
             n == 1
  <1>0. n \in Nat /\ n <= 1 /\ n = 1 OBVIOUS
  <1>1. a \in Seq(Calls(0, 0))
    <2>1. "term0" \in Names BY DEF Names
    <2>2. x \in Calls(0, 0) BY <2>1, DeviceType
    <2> QED BY <2>2, TestSizes, TimesType
  <1>2. t \in Seq(Int) OBVIOUS
  <1> HIDE DEF x, t, n
  <1>3. Leads(c, n, 0, 0, 0, 1) BY <1>0, <1>2, LeadsFamily
  <1> HIDE DEF a, c
  <1>4. Leads(a, n, 0, 0, 0, 0) BY <1>0, <1>1, LeadsCalls
  <1> DEFINE first == a \o c
  <1>5. Leads(first, n, 0, 0, 0, 1) BY <1>3, <1>4, LeadsConcat
  <1>6. Test05 = <<first, Sender(1), Receiver(1)>>
    BY Zenon DEF Test05, a, c, x, t
  <1> HIDE DEF first
  <1>7. Sound(first, 1, 0) BY <1>0, <1>5, SoundLeads
  <1>8. Sound(Sender(1), 1, 1) /\ Sound(Receiver(1), 1, 1)
    BY SenderSound, ReceiverSound
  <1>9. AllSound(Test05, 1) BY <1>6, <1>7, <1>8 DEF AllSound
  <1> QED BY <1>9 DEF TestSound

(* k_wait, which finds the one child there is or a certain one, and a new  *)
(* child in its place *)
LEMMA LeadsReplace ==
    ASSUME NEW n \in Nat, NEW k \in Nat, NEW b \in Nat, n <= b, k >= 1,
           NEW kid \in Nat, NEW kid2 \in Nat, NEW priority \in Int
    PROVE  Leads(<<WaitFor(kid), Spawn(kid2, priority)>>, n, k, b, k, b)
  <1> DEFINE x == WaitFor(kid)
             y == Spawn(kid2, priority)
             l == k - 1
  <1>1. l \in Nat /\ k = l + 1 OBVIOUS
  <1> HIDE DEF l
  <1>2. Leads(<<x>>, n, k, b, l, b) BY <1>1, LeadsWait
  <1>3. Leads(<<y>>, n, l, b, k, b) BY <1>1, LeadsSpawn
  <1> HIDE DEF x, y
  <1>4. Leads(<<x, y>>, n, k, b, k, b) BY <1>2, <1>3, LeadsTwo
  <1> QED BY <1>4 DEF x, y

(* a mailbox, one child, and its end *)
LEMMA LeadsBoxChild ==
    ASSUME NEW n \in Nat, n <= 1, NEW slots \in Int, NEW size \in Int,
           NEW kid \in Nat, NEW priority \in Int
    PROVE  Leads(<<MakeBox(slots, size), Spawn(kid, priority), Wait>>, n, 0, 0, 0, 1)
  <1> DEFINE x == MakeBox(slots, size)
             y == Spawn(kid, priority)
             z == Wait
  <1>1. Leads(<<x>>, n, 0, 0, 0, 1) BY LeadsCreate
  <1>2. Leads(<<y>>, n, 0, 1, 1, 1) BY LeadsSpawn
  <1>3. Leads(<<z>>, n, 1, 1, 0, 1) BY LeadsWait DEF Wait
  <1> HIDE DEF x, y, z
  <1>4. Leads(<<x, y, z>>, n, 0, 0, 0, 1) BY <1>1, <1>2, <1>3, LeadsThree
  <1> QED BY <1>4 DEF x, y, z

(* MessagingTest09 waits seven times for six children. *)
LEMMA Sound09 == TestSound(Test09)
  <1> DEFINE n == 1
             a == <<MakeBox(5, 50), Spawn(2, 3), Wait>>
             c == SpawnAll(3, <<3, 3, 3, 2>>)
             d == <<WaitFor(6), Spawn(7, 4)>>
             w == Times(5, Wait)
  <1>0. n \in Nat /\ n <= 1 /\ n = 1 OBVIOUS
  <1> HIDE DEF n
  <1>1. Leads(a, n, 0, 0, 0, 1) BY <1>0, LeadsBoxChild
  <1>2. Leads(c, n, 0, 1, 4, 1)
    <2>1. \A p1, p2, p3, p4 \in Int :
              Leads(SpawnAll(3, <<p1, p2, p3, p4>>), n, 0, 1, 4, 1)
      <3>1. 4 = 0 + 4 OBVIOUS
      <3> QED BY <1>0, <3>1, LeadsSpawns4
    <2> QED BY <2>1
  <1>3. Leads(d, n, 4, 1, 4, 1) BY <1>0, LeadsReplace
  <1>4. Leads(w, n, 4, 1, 0, 1) BY <1>0, LeadsWaits
  <1> HIDE DEF a, c, d, w
  <1> DEFINE first == ((a \o c) \o d) \o w
  <1>5. Leads(first, n, 0, 0, 0, 1) BY <1>1, <1>2, <1>3, <1>4, LeadsConcat
  <1>6. Test09 = <<first, Sender(5), SendAndReceive(1, 0, StartingAt(5)),
                   SendAndReceive(1, 0, StartingAt(6)),
                   SendAndReceive(1, 0, StartingAt(7)),
                   SendAndReceive(0, 0, OPTION_NONE), Freer>>
    BY Zenon DEF Test09, a, c, d, w
  <1> HIDE DEF first
  <1>7. Sound(first, 1, 0) BY <1>0, <1>5, SoundLeads
  <1>8. Sound(Sender(5), 1, 1) /\ Sound(Freer, 1, 1) BY SenderSound, FreerSound
  <1>9. AllSound(Test09, 1) BY <1>6, <1>7, <1>8, SendOneSound DEF AllSound
  <1> QED BY <1>9 DEF TestSound

LEMMA Sound27 == TestSound(Test27)
  <1> DEFINE n == 1
             a == <<MakeBox(5, MAX_MESSAGE)>>
             c == SpawnAll(2, <<1, 2, 3, 4, 1>>)
             d == <<WaitFor(6), Spawn(7, 1)>>
             w == Times(5, Wait)
  <1>0. n \in Nat /\ n <= 1 /\ n = 1 OBVIOUS
  <1> HIDE DEF n
  <1>1. Leads(a, n, 0, 0, 0, 1)
    <2>1. MAX_MESSAGE \in Int BY TestSizes
    <2> QED BY <1>0, <2>1, LeadsCreate
  <1>2. Leads(c, n, 0, 1, 5, 1)
    <2>1. \A p1, p2, p3, p4, p5 \in Int :
              Leads(SpawnAll(2, <<p1, p2, p3, p4, p5>>), n, 0, 1, 5, 1)
      <3>1. 5 = 0 + 5 OBVIOUS
      <3> QED BY <1>0, <3>1, LeadsSpawns5
    <2> QED BY <2>1
  <1>3. Leads(d, n, 5, 1, 5, 1) BY <1>0, LeadsReplace
  <1>4. Leads(w, n, 5, 1, 0, 1) BY <1>0, LeadsWaits
  <1> HIDE DEF a, c, d, w
  <1> DEFINE first == ((a \o c) \o d) \o w
  <1>5. Leads(first, n, 0, 0, 0, 1) BY <1>1, <1>2, <1>3, <1>4, LeadsConcat
  <1>6. Test27 = <<first, SendAndReceive(2, 2, OPTION_RECEIVE_FIRST), Receiver(1),
                   Receiver(1), Receiver(1), SendAndReceive(0, 0, OPTION_NONE), Freer>>
    BY Zenon DEF Test27, a, c, d, w
  <1> HIDE DEF first
  <1>7. Sound(first, 1, 0) BY <1>0, <1>5, SoundLeads
  <1>8. Sound(SendAndReceive(2, 2, OPTION_RECEIVE_FIRST), 1, 1)
    BY SendAndReceiveSound DEF OPTION_RECEIVE_FIRST
  <1>9. Sound(Receiver(1), 1, 1) /\ Sound(Freer, 1, 1) BY ReceiverSound, FreerSound
  <1>10. AllSound(Test27, 1) BY <1>6, <1>7, <1>8, <1>9, SendOneSound DEF AllSound
  <1> QED BY <1>10 DEF TestSound

(* a mailbox and four children *)
LEMMA LeadsBoxFour ==
    ASSUME NEW n \in Nat, n <= 1, NEW slots \in Int, NEW size \in Int,
           NEW p1 \in Int, NEW p2 \in Int, NEW p3 \in Int, NEW p4 \in Int
    PROVE  Leads(<<MakeBox(slots, size)>> \o SpawnAll(2, <<p1, p2, p3, p4>>),
                 n, 0, 0, 4, 1)
  <1> DEFINE a == <<MakeBox(slots, size)>>
             c == SpawnAll(2, <<p1, p2, p3, p4>>)
  <1>1. Leads(a, n, 0, 0, 0, 1) BY LeadsCreate
  <1>2. Leads(c, n, 0, 1, 4, 1)
    <2>1. 4 = 0 + 4 OBVIOUS
    <2> QED BY <2>1, LeadsSpawns4
  <1> HIDE DEF a, c
  <1>3. Leads(a \o c, n, 0, 0, 4, 1) BY <1>1, <1>2, LeadsConcat
  <1> QED BY <1>3 DEF a, c

(* a call of the parent while its four children run *)
LEMMA FourAndCall ==
    ASSUME NEW slots \in Int, NEW size \in Int, NEW x \in Calls(4, 1)
    PROVE  Sound(<<MakeBox(slots, size)>> \o SpawnAll(2, <<2, 3, 4, 2>>)
                 \o <<x>> \o Times(4, Wait), 1, 0)
  <1> DEFINE n == 1
             a == <<MakeBox(slots, size)>> \o SpawnAll(2, <<2, 3, 4, 2>>)
             w == Times(4, Wait)
  <1>0. n \in Nat /\ n <= 1 /\ n = 1 OBVIOUS
  <1> HIDE DEF n
  <1>1. Leads(a, n, 0, 0, 4, 1)
    <2>1. \A p1, p2, p3, p4 \in Int :
              Leads(<<MakeBox(slots, size)>> \o SpawnAll(2, <<p1, p2, p3, p4>>),
                    n, 0, 0, 4, 1)
      BY <1>0, LeadsBoxFour
    <2> QED BY <2>1
  <1>2. Leads(<<x>>, n, 4, 1, 4, 1) BY <1>0, LeadsCall
  <1>3. Leads(w, n, 4, 1, 0, 1) BY <1>0, LeadsWaits
  <1> HIDE DEF a, w
  <1>4. Leads((a \o <<x>>) \o w, n, 0, 0, 0, 1) BY <1>1, <1>2, <1>3, LeadsConcat
  <1>5. Sound((a \o <<x>>) \o w, 1, 0) BY <1>0, <1>4, SoundLeads
  <1> QED BY <1>5 DEF a, w

LEMMA Sound30 == TestSound(Test30)
  <1> DEFINE x == SendTo(1, NoBytes, TRUE)
             y == Returning({0}, x)
             first == <<MakeBox(1, 50)>> \o SpawnAll(2, <<2, 3, 4, 2>>)
                      \o <<y>> \o Times(4, Wait)
  <1>1. x \in Calls(4, 1) BY CallType, Numbers DEF NoBytes
  <1>2. {0} \in SUBSET Int OBVIOUS
  <1> HIDE DEF x
  <1>3. y \in Calls(4, 1) BY <1>1, <1>2, ReturningType
  <1> HIDE DEF y
  <1>4. Sound(first, 1, 0) BY <1>3, FourAndCall
  <1>5. Sound(Sender(1), 1, 1) /\ Sound(Freer, 1, 1) BY SenderSound, FreerSound
  <1>6. Test30 = <<first, Sender(1), Sender(1), Sender(1), Freer>>
    BY Zenon DEF Test30, first, x, y
  <1> HIDE DEF first
  <1>7. AllSound(Test30, 1) BY <1>4, <1>5, <1>6 DEF AllSound
  <1> QED BY <1>7 DEF TestSound

LEMMA Sound31 == TestSound(Test31)
  <1> DEFINE x == ReceiveFrom(1, 0, TRUE)
             first == <<MakeBox(1, 13)>> \o SpawnAll(2, <<2, 3, 4, 2>>)
                      \o <<x>> \o Times(4, Wait)
  <1>1. x \in Calls(4, 1) BY CallType, Numbers
  <1> HIDE DEF x
  <1>2. Sound(first, 1, 0) BY <1>1, FourAndCall
  <1>3. Sound(Receiver(1), 1, 1) /\ Sound(Freer, 1, 1) BY ReceiverSound, FreerSound
  <1>4. Test31 = <<first, Receiver(1), Receiver(1), Receiver(1), Freer>>
    BY Zenon DEF Test31, first, x
  <1> HIDE DEF first
  <1>5. AllSound(Test31, 1) BY <1>2, <1>3, <1>4 DEF AllSound
  <1> QED BY <1>5 DEF TestSound

(* Tests 17 to 20 *)
LEMMA LeadsClose == \A n \in Nat : n <= 1 => Leads(CloseAfterPause, n, 0, 0, 0, 1)
  <1> TAKE n \in Nat
  <1> HAVE n <= 1
  <1> DEFINE a == <<MakeBox(0, 50)>> \o SpawnAll(2, <<3, 3, 3, 3>>)
             d == <<WaitFor(5), Spawn(6, 4)>>
             w == Times(4, Wait)
  <1>1. Leads(a, n, 0, 0, 4, 1)
    <2>1. \A slots, size, p1, p2, p3, p4 \in Int :
              Leads(<<MakeBox(slots, size)>> \o SpawnAll(2, <<p1, p2, p3, p4>>),
                    n, 0, 0, 4, 1)
      BY LeadsBoxFour
    <2>2. {0, 50, 3} \subseteq Int OBVIOUS
    <2> QED BY <2>1, <2>2
  <1>2. Leads(d, n, 4, 1, 4, 1) BY LeadsReplace
  <1>3. Leads(w, n, 4, 1, 0, 1) BY LeadsWaits
  <1> HIDE DEF a, d, w
  <1>4. Leads((a \o d) \o w, n, 0, 0, 0, 1) BY <1>1, <1>2, <1>3, LeadsConcat
  <1>5. CloseAfterPause = (a \o d) \o w BY Zenon DEF CloseAfterPause, a, d, w
  <1> QED BY <1>4, <1>5

LEMMA CloseSound ==
    /\ Sound(CloseAfterPause, 1, 0)
    /\ \A x \in Calls(0, 1) : Sound(CloseAfterPause \o <<x>>, 1, 0)
  <1> DEFINE n == 1
  <1>0. n \in Nat /\ n <= 1 /\ n = 1 OBVIOUS
  <1> HIDE DEF n
  <1>1. Leads(CloseAfterPause, n, 0, 0, 0, 1) BY <1>0, LeadsClose
  <1>2. \A x \in Calls(0, 1) : Leads(CloseAfterPause \o <<x>>, n, 0, 0, 0, 1)
    BY <1>0, <1>1, LeadsCall, LeadsConcat
  <1>3. \A s : Leads(s, n, 0, 0, 0, 1) => Sound(s, 1, 0) BY <1>0, SoundLeads
  <1> QED BY <1>1, <1>2, <1>3

(* the children of tests 17 to 20 *)
LEMMA PauseChildSound ==
    /\ \A pid \in 2 .. 4 : Sound(<<SendTo(1, Text(pid, 14), TRUE)>>, 1, 1)
    /\ Sound(<<ReceiveFrom(1, 32, TRUE)>>, 1, 1)
    /\ Sound(<<FreeBox(1)>>, 1, 1)
    /\ Sound(SimpleDelayExit, 1, 1)
  <1> DEFINE n == 1
  <1>0. n \in Nat /\ n = 1 OBVIOUS
  <1> HIDE DEF n
  <1>1. /\ \A pid \in Int : SendTo(1, Text(pid, 14), TRUE) \in Calls(0, 1)
        /\ ReceiveFrom(1, 32, TRUE) \in Calls(0, 1) /\ FreeBox(1) \in Calls(0, 1)
    BY CallType, Numbers
  <1>2. \A x \in Calls(0, 1) : Sound(<<x>>, n, n) BY <1>0, CallSound
  <1>3. Sound(SimpleDelayExit, n, n) BY <1>0, NothingSound DEF SimpleDelayExit
  <1>4. \A pid \in 2 .. 4 : SendTo(1, Text(pid, 14), TRUE) \in Calls(0, 1)
    <2>1. \A pid \in 2 .. 4 : pid \in Int OBVIOUS
    <2> QED BY <1>1, <2>1
  <1>5. n = 1 => Calls(0, n) = Calls(0, 1) OBVIOUS
  <1> QED BY <1>0, <1>1, <1>2, <1>3, <1>4, <1>5

LEMMA Sound17 == TestSound(Test17)
  <1> DEFINE first == CloseAfterPause
             c2 == <<SendTo(1, Text(2, 14), TRUE)>>
             c3 == <<SendTo(1, Text(3, 14), TRUE)>>
             c4 == <<SendTo(1, Text(4, 14), TRUE)>>
             d == <<FreeBox(1)>>
             n == 1
  <1>0. n \in Nat /\ n = 1 OBVIOUS
  <1>3. Sound(first, n, 0) BY CloseSound
  <1>4. Sound(d, n, n) /\ Sound(SimpleDelayExit, n, n) BY PauseChildSound
  <1>5. Sound(c2, n, n) /\ Sound(c3, n, n) /\ Sound(c4, n, n)
    <2>1. 2 \in 2 .. 4 /\ 3 \in 2 .. 4 /\ 4 \in 2 .. 4 OBVIOUS
    <2> QED BY <2>1, PauseChildSound
  <1>6. Test17 = <<first, c2, c3, c4, SimpleDelayExit, d>>
    BY Zenon DEF Test17, first, c2, c3, c4, d
  <1> HIDE DEF first, c2, c3, c4, d, n
  <1>7. TestSound(<<first, c2, c3, c4, SimpleDelayExit, d>>)
    BY <1>0, <1>3, <1>4, <1>5, SixSound
  <1> QED BY <1>6, <1>7

LEMMA Sound18 == TestSound(Test18)
  <1> DEFINE first == CloseAfterPause
             c == <<ReceiveFrom(1, 32, TRUE)>>
             d == <<FreeBox(1)>>
             n == 1
  <1>0. n \in Nat /\ n = 1 OBVIOUS
  <1>3. Sound(first, n, 0) BY CloseSound
  <1>4. Sound(d, n, n) /\ Sound(SimpleDelayExit, n, n) BY PauseChildSound
  <1>5. Sound(c, n, n) BY PauseChildSound
  <1>6. Test18 = <<first, c, c, c, SimpleDelayExit, d>>
    BY Zenon DEF Test18, first, c, d
  <1> HIDE DEF first, c, d, n
  <1>7. TestSound(<<first, c, c, c, SimpleDelayExit, d>>)
    BY <1>0, <1>3, <1>4, <1>5, SixSound
  <1> QED BY <1>6, <1>7

LEMMA Sound19 == TestSound(Test19)
  <1> DEFINE x == SendTo(1, Text(0, 27), FALSE)
             y == Returning({-1}, x)
             first == CloseAfterPause \o <<y>>
             c2 == <<SendTo(1, Text(2, 14), TRUE)>>
             c3 == <<SendTo(1, Text(3, 14), TRUE)>>
             c4 == <<SendTo(1, Text(4, 14), TRUE)>>
             d == <<FreeBox(1)>>
             n == 1
  <1>0. n \in Nat /\ n = 1 OBVIOUS
  <1>1. x \in Calls(0, 1) BY CallType, Numbers
  <1>8. {-1} \in SUBSET Int OBVIOUS
  <1> HIDE DEF x
  <1>2. y \in Calls(0, 1) BY <1>1, <1>8, ReturningType
  <1> HIDE DEF y
  <1>3. Sound(first, n, 0) BY <1>2, CloseSound
  <1>4. Sound(d, n, n) /\ Sound(SimpleDelayExit, n, n) BY PauseChildSound
  <1>5. Sound(c2, n, n) /\ Sound(c3, n, n) /\ Sound(c4, n, n)
    <2>1. 2 \in 2 .. 4 /\ 3 \in 2 .. 4 /\ 4 \in 2 .. 4 OBVIOUS
    <2> QED BY <2>1, PauseChildSound
  <1>6. Test19 = <<first, c2, c3, c4, SimpleDelayExit, d>>
    BY Zenon DEF Test19, x, y, first, c2, c3, c4, d
  <1> HIDE DEF first, c2, c3, c4, d, n
  <1>7. TestSound(<<first, c2, c3, c4, SimpleDelayExit, d>>)
    BY <1>0, <1>3, <1>4, <1>5, SixSound
  <1> QED BY <1>6, <1>7

LEMMA Sound20 == TestSound(Test20)
  <1> DEFINE x == ReceiveFrom(1, 30, FALSE)
             y == Returning({-1}, x)
             first == CloseAfterPause \o <<y>>
             c == <<ReceiveFrom(1, 32, TRUE)>>
             d == <<FreeBox(1)>>
             n == 1
  <1>0. n \in Nat /\ n = 1 OBVIOUS
  <1>1. x \in Calls(0, 1) BY CallType, Numbers
  <1>8. {-1} \in SUBSET Int OBVIOUS
  <1> HIDE DEF x
  <1>2. y \in Calls(0, 1) BY <1>1, <1>8, ReturningType
  <1> HIDE DEF y
  <1>3. Sound(first, n, 0) BY <1>2, CloseSound
  <1>4. Sound(d, n, n) /\ Sound(SimpleDelayExit, n, n) BY PauseChildSound
  <1>5. Sound(c, n, n) BY PauseChildSound
  <1>6. Test20 = <<first, c, c, c, SimpleDelayExit, d>>
    BY Zenon DEF Test20, x, y, first, c, d
  <1> HIDE DEF first, c, d, n
  <1>7. TestSound(<<first, c, c, c, SimpleDelayExit, d>>)
    BY <1>0, <1>3, <1>4, <1>5, SixSound
  <1> QED BY <1>6, <1>7

(* the children of tests 21 and 22 *)
LEMMA TwoSound ==
    /\ Sound([i \in 1 .. 2 |-> SendTo(1, Text(i - 1, 15), TRUE)], 1, 1)
    /\ Sound(Times(2, ReceiveFrom(1, 100, TRUE)), 1, 1)
  <1> DEFINE n == 1
             s == [i \in 1 .. 2 |-> SendTo(1, Text(i - 1, 15), TRUE)]
  <1>0. n \in Nat /\ n = 1 OBVIOUS
  <1> HIDE DEF n
  <1>1. ReceiveFrom(1, 100, TRUE) \in Calls(0, 1) BY CallType, Numbers
  <1>2. \A x \in Calls(0, n), m \in Nat : Sound(Times(m, x), n, n)
    BY <1>0, CallSound
  <1>3. s \in Seq(Calls(0, 1))
    <2>1. \A i \in 1 .. 2 : i - 1 \in Int OBVIOUS
    <2>2. \A j \in Int : SendTo(1, Text(j, 15), TRUE) \in Calls(0, 1)
      BY CallType, Numbers
    <2>3. \A i \in 1 .. 2 : SendTo(1, Text(i - 1, 15), TRUE) \in Calls(0, 1)
      BY <2>1, <2>2
    <2>4. s \in [1 .. 2 -> Calls(0, 1)] BY <2>3
    <2> QED BY <2>4, SeqType
  <1> HIDE DEF s
  <1>4. Sound(s, n, n) BY <1>0, <1>3, SoundCalls
  <1> QED BY <1>0, <1>1, <1>2, <1>4 DEF s

LEMMA Sound21 == TestSound(Test21)
  <1> DEFINE first == Family(0, 50, <<4, 3>>)
             c == [i \in 1 .. 2 |-> SendTo(1, Text(i - 1, 15), TRUE)]
             d == Times(2, ReceiveFrom(1, 100, TRUE))
             n == 1
  <1>0. n \in Nat /\ n = 1 OBVIOUS
  <1>1. Sound(first, n, 0) BY Family2Sound
  <1>2. Sound(c, n, n) /\ Sound(d, n, n) BY TwoSound
  <1>3. Test21 = <<first, c, d>> BY Zenon DEF Test21, first, c, d
  <1> HIDE DEF first, c, d, n
  <1>4. TestSound(<<first, c, d>>) BY <1>0, <1>1, <1>2, ThreeSound
  <1> QED BY <1>3, <1>4

LEMMA Sound22 == TestSound(Test22)
  <1> DEFINE first == Family(0, 50, <<3, 4>>)
             c == [i \in 1 .. 2 |-> SendTo(1, Text(i - 1, 15), TRUE)]
             d == Times(2, ReceiveFrom(1, 100, TRUE))
             n == 1
  <1>0. n \in Nat /\ n = 1 OBVIOUS
  <1>1. Sound(first, n, 0) BY Family2Sound
  <1>2. Sound(c, n, n) /\ Sound(d, n, n) BY TwoSound
  <1>3. Test22 = <<first, c, d>> BY Zenon DEF Test22, first, c, d
  <1> HIDE DEF first, c, d, n
  <1>4. TestSound(<<first, c, d>>) BY <1>0, <1>1, <1>2, ThreeSound
  <1> QED BY <1>3, <1>4

(* tests 11 and 12: two mailboxes, two children *)
LEMMA TwoBoxesSound ==
    Sound(<<MakeBox(5, 50), MakeBox(0, 50)>> \o SpawnAll(2, <<4, 3>>)
          \o Times(2, Wait), 2, 0)
  <1> DEFINE n == 2
             x == MakeBox(5, 50)
             y == MakeBox(0, 50)
             a == <<x, y>>
             c == SpawnAll(2, <<4, 3>>)
             w == Times(2, Wait)
  <1>0. n \in Nat /\ n <= 2 /\ n = 2 OBVIOUS
  <1> HIDE DEF n
  <1>1. Leads(<<x>>, n, 0, 0, 0, 1) /\ Leads(<<y>>, n, 0, 1, 0, 2)
    BY <1>0, LeadsCreate
  <1>2. Leads(c, n, 0, 2, 2, 2)
    <2>1. \A p1, p2 \in Int : Leads(SpawnAll(2, <<p1, p2>>), n, 0, 2, 2, 2)
      <3>1. 2 = 0 + 2 OBVIOUS
      <3> QED BY <1>0, <3>1, LeadsSpawns2
    <2> QED BY <2>1
  <1>3. Leads(w, n, 2, 2, 0, 2) BY <1>0, LeadsWaits
  <1> HIDE DEF x, y, c, w
  <1>4. Leads(a, n, 0, 0, 0, 2) BY <1>1, LeadsTwo
  <1> HIDE DEF a
  <1>5. Leads((a \o c) \o w, n, 0, 0, 0, 2) BY <1>2, <1>3, <1>4, LeadsConcat
  <1>6. Sound((a \o c) \o w, 2, 0) BY <1>0, <1>5, SoundLeads
  <1> QED BY <1>6 DEF a, c, w, x, y

LEMMA SendEightSound ==
    Sound([i \in 1 .. 8 |-> SendTo(1, Text(i - 1, IF i - 1 < 10 THEN 14 ELSE 15), FALSE)]
          \o <<ReceiveFrom(2, 0, TRUE)>>
          \o [i \in 1 .. 8 |-> SendTo(1, Text(i + 7, IF i + 7 < 10 THEN 14 ELSE 15), FALSE)],
          2, 2)
  <1> DEFINE n == 2
             S == Calls(0, 2)
             a == [i \in 1 .. 8 |->
                       SendTo(1, Text(i - 1, IF i - 1 < 10 THEN 14 ELSE 15), FALSE)]
             x == ReceiveFrom(2, 0, TRUE)
             d == [i \in 1 .. 8 |->
                       SendTo(1, Text(i + 7, IF i + 7 < 10 THEN 14 ELSE 15), FALSE)]
  <1>0. n \in Nat /\ n = 2 /\ Calls(0, n) = S OBVIOUS
  <1>1. \A m, l \in Int : SendTo(1, Text(m, l), FALSE) \in S BY CallType, Numbers
  <1>2. x \in S BY CallType, Numbers
  <1> HIDE DEF S
  <1>3. \A i \in 1 .. 8 : /\ i - 1 \in Int /\ (IF i - 1 < 10 THEN 14 ELSE 15) \in Int
                          /\ i + 7 \in Int /\ (IF i + 7 < 10 THEN 14 ELSE 15) \in Int
    OBVIOUS
  <1>4. a \in Seq(S)
    <2>1. a \in [1 .. 8 -> S] BY <1>1, <1>3
    <2> QED BY <2>1, SeqType
  <1>5. d \in Seq(S)
    <2>1. d \in [1 .. 8 -> S] BY <1>1, <1>3
    <2> QED BY <2>1, SeqType
  <1> HIDE DEF a, x, d, n
  <1>6. (a \o <<x>>) \o d \in Seq(S) BY <1>2, <1>4, <1>5
  <1>7. Sound((a \o <<x>>) \o d, n, n) BY <1>0, <1>6, SoundCalls
  <1> QED BY <1>0, <1>7 DEF a, x, d

LEMMA Sound11 == TestSound(Test11)
  <1> DEFINE first == <<MakeBox(5, 50), MakeBox(0, 50)>> \o SpawnAll(2, <<4, 3>>)
                      \o Times(2, Wait)
             c == [i \in 1 .. 8 |->
                       SendTo(1, Text(i - 1, IF i - 1 < 10 THEN 14 ELSE 15), FALSE)]
                  \o <<ReceiveFrom(2, 0, TRUE)>>
                  \o [i \in 1 .. 8 |->
                       SendTo(1, Text(i + 7, IF i + 7 < 10 THEN 14 ELSE 15), FALSE)]
             x == ReceiveFrom(1, 100, TRUE)
             y == SendTo(2, NoBytes, TRUE)
             d == (Times(5, x) \o <<y>>) \o Times(5, x)
             n == 2
  <1>0. n \in Nat /\ n = 2 /\ Calls(0, n) = Calls(0, 2) OBVIOUS
  <1>1. Sound(first, n, 0) /\ Sound(c, n, n) BY TwoBoxesSound, SendEightSound
  <1>2. x \in Calls(0, 2) /\ y \in Calls(0, 2) BY CallType, Numbers DEF NoBytes
  <1>3. Test11 = <<first, c, d>> BY Zenon DEF Test11, first, c, d, x, y
  <1> HIDE DEF first, c, x, y, n
  <1>4. Times(5, x) \in Seq(Calls(0, 2)) /\ <<y>> \in Seq(Calls(0, 2))
    BY <1>2, TimesType
  <1>5. d \in Seq(Calls(0, n)) BY <1>0, <1>4
  <1> HIDE DEF d
  <1>6. Sound(d, n, n) BY <1>0, <1>5, SoundCalls
  <1>7. TestSound(<<first, c, d>>) BY <1>0, <1>1, <1>6, ThreeSound
  <1> QED BY <1>3, <1>7

LEMMA Sound12 == TestSound(Test12)
  <1> DEFINE first == <<MakeBox(5, 50), MakeBox(0, 50)>> \o SpawnAll(2, <<4, 3>>)
                      \o Times(2, Wait)
             c == [i \in 1 .. 8 |->
                       SendTo(1, Text(i - 1, IF i - 1 < 10 THEN 14 ELSE 15), FALSE)]
                  \o <<ReceiveFrom(2, 0, TRUE)>>
                  \o [i \in 1 .. 8 |->
                       SendTo(1, Text(i + 7, IF i + 7 < 10 THEN 14 ELSE 15), FALSE)]
             x == ReceiveFrom(1, 100, FALSE)
             x2 == WhileOk(x)
             y == SendTo(2, NoBytes, TRUE)
             d == <<x2, y, x2>>
             n == 2
  <1>0. n \in Nat /\ n = 2 /\ Calls(0, n) = Calls(0, 2) OBVIOUS
  <1>1. Sound(first, n, 0) /\ Sound(c, n, n) BY TwoBoxesSound, SendEightSound
  <1>2. x \in Calls(0, 2) /\ y \in Calls(0, 2) BY CallType, Numbers DEF NoBytes
  <1>3. Test12 = <<first, c, d>> BY Zenon DEF Test12, first, c, d, x, x2, y
  <1> HIDE DEF first, c, x, y, n
  <1>4. x2 \in Calls(0, 2) BY <1>2, WhileOkType
  <1> HIDE DEF x2
  <1>5. d \in Seq(Calls(0, n)) BY <1>0, <1>2, <1>4
  <1> HIDE DEF d
  <1>6. Sound(d, n, n) BY <1>0, <1>5, SoundCalls
  <1>7. TestSound(<<first, c, d>>) BY <1>0, <1>1, <1>6, ThreeSound
  <1> QED BY <1>3, <1>7

(* tests without a mailbox *)
LEMMA DeviceSound == \A name \in Names : Sound(<<WaitDeviceNamed(name)>>, 0, 0)
  <1>1. \A name \in Names : WaitDeviceNamed(name) \in Calls(0, 0) BY DeviceType
  <1> QED BY <1>1, CallSound

LEMMA OneChildSound ==
    ASSUME NEW priority \in Int, NEW name \in Names
    PROVE  TestSound(<< <<Spawn(2, priority), Wait>>, <<WaitDeviceNamed(name)>> >>)
  <1> DEFINE x == Spawn(2, priority)
             y == Wait
             c == <<WaitDeviceNamed(name)>>
  <1>1. Leads(<<x>>, 0, 0, 0, 1, 0) BY LeadsSpawn
  <1>2. Leads(<<y>>, 0, 1, 0, 0, 0) BY LeadsWait DEF Wait
  <1>3. Sound(c, 0, 0) BY DeviceSound
  <1> HIDE DEF x, y, c
  <1>4. Leads(<<x, y>>, 0, 0, 0, 0, 0) BY <1>1, <1>2, LeadsTwo
  <1>5. Sound(<<x, y>>, 0, 0) BY <1>4, SoundLeads
  <1> DEFINE first == <<x, y>>
  <1> HIDE DEF first
  <1>6. AllSound(<<first, c>>, 0) BY <1>3, <1>5 DEF AllSound, first
  <1>7. TestSound(<<first, c>>) BY <1>6 DEF TestSound
  <1> QED BY <1>7 DEF first, x, y, c

LEMMA Sound13 == TestSound(Test13)
  <1>1. "clock" \in Names /\ 4 \in Int BY DEF Names
  <1>2. TestSound(<< <<Spawn(2, 4), Wait>>, <<WaitDeviceNamed("clock")>> >>)
    BY <1>1, OneChildSound
  <1> QED BY Zenon, <1>2 DEF Test13

LEMMA Sound14 == TestSound(Test14)
  <1>1. "term0" \in Names /\ 3 \in Int BY DEF Names
  <1>2. TestSound(<< <<Spawn(2, 3), Wait>>, <<WaitDeviceNamed("term0")>> >>)
    BY <1>1, OneChildSound
  <1> QED BY Zenon, <1>2 DEF Test14

LEMMA Sound32 == TestSound(Test32)
  <1> DEFINE n == 0
             a == SpawnAll(2, <<3, 3, 3, 3>>)
             w == Times(4, Wait)
             first == a \o w
             c0 == <<WaitDeviceNamed("term0")>>
             c1 == <<WaitDeviceNamed("term1")>>
             c2 == <<WaitDeviceNamed("term2")>>
             c3 == <<WaitDeviceNamed("term3")>>
  <1>0. n \in Nat /\ n <= 0 /\ n = 0 OBVIOUS
  <1>1. {"term0", "term1", "term2", "term3"} \subseteq Names BY DEF Names
  <1>2. Sound(c0, 0, 0) /\ Sound(c1, 0, 0) /\ Sound(c2, 0, 0) /\ Sound(c3, 0, 0)
    BY <1>1, DeviceSound
  <1> HIDE DEF n
  <1>3. Leads(a, n, 0, 0, 4, 0)
    <2>1. \A p1, p2, p3, p4 \in Int :
              Leads(SpawnAll(2, <<p1, p2, p3, p4>>), n, 0, 0, 4, 0)
      <3>1. 4 = 0 + 4 OBVIOUS
      <3> QED BY <1>0, <3>1, LeadsSpawns4
    <2> QED BY <2>1
  <1>4. Leads(w, n, 4, 0, 0, 0) BY <1>0, LeadsWaits
  <1>5. Test32 = <<first, c0, c1, c2, c3>>
    BY Zenon DEF Test32, first, a, w, c0, c1, c2, c3
  <1> HIDE DEF a, w, c0, c1, c2, c3
  <1>6. Leads(first, n, 0, 0, 0, 0) BY <1>3, <1>4, LeadsConcat
  <1> HIDE DEF first
  <1>7. Sound(first, 0, 0) BY <1>0, <1>6, SoundLeads
  <1>8. AllSound(<<first, c0, c1, c2, c3>>, 0) BY <1>2, <1>7 DEF AllSound
  <1>9. TestSound(<<first, c0, c1, c2, c3>>) BY <1>8 DEF TestSound
  <1> QED BY <1>5, <1>9

(* Tests 23 and 24: program 2 starts the other four. *)
LEMMA FourSpawned == Leads(SpawnAll(3, <<2, 4, 4, 5>>), 1, 0, 1, 4, 1)
                     /\ Leads(SpawnAll(3, <<2, 3, 4, 5>>), 1, 0, 1, 4, 1)
  <1> DEFINE n == 1
  <1>0. n \in Nat /\ n <= 1 /\ n = 1 OBVIOUS
  <1> HIDE DEF n
  <1>1. \A p1, p2, p3, p4 \in Int :
            Leads(SpawnAll(3, <<p1, p2, p3, p4>>), n, 0, 1, 4, 1)
    <2>1. 4 = 0 + 4 OBVIOUS
    <2> QED BY <1>0, <2>1, LeadsSpawns4
  <1> QED BY <1>0, <1>1

LEMMA FourWaited == Leads(Times(4, Wait), 1, 4, 1, 0, 1)
  <1> DEFINE n == 1
  <1>0. n \in Nat /\ n = 1 OBVIOUS
  <1> HIDE DEF n
  <1>1. Leads(Times(4, Wait), n, 4, 1, 0, 1) BY <1>0, LeadsWaits
  <1> QED BY <1>0, <1>1

LEMMA BoxChildSound ==
    \A size \in Int : Sound(<<MakeBox(5, size), Spawn(2, 1), Wait>>, 1, 0)
  <1> TAKE size \in Int
  <1> DEFINE n == 1
             s == <<MakeBox(5, size), Spawn(2, 1), Wait>>
  <1>0. n \in Nat /\ n <= 1 /\ n = 1 OBVIOUS
  <1> HIDE DEF n
  <1>1. Leads(s, n, 0, 0, 0, 1) BY <1>0, LeadsBoxChild
  <1> HIDE DEF s
  <1>2. Sound(s, 1, 0) BY <1>0, <1>1, SoundLeads
  <1> QED BY <1>2 DEF s

LEMMA NumberedSound ==
    \A m \in Nat : [i \in 1 .. m |-> SendTo(1, Numbered(i - 1), TRUE)] \in Seq(Calls(0, 1))
  <1> TAKE m \in Nat
  <1>1. \A i \in 1 .. m : i - 1 \in Int OBVIOUS
  <1>2. \A j \in Int : SendTo(1, Numbered(j), TRUE) \in Calls(0, 1)
    BY CallType, Numbers DEF Numbered
  <1>3. \A i \in 1 .. m : SendTo(1, Numbered(i - 1), TRUE) \in Calls(0, 1)
    BY <1>1, <1>2
  <1>4. [i \in 1 .. m |-> SendTo(1, Numbered(i - 1), TRUE)] \in [1 .. m -> Calls(0, 1)]
    BY <1>3
  <1> QED BY <1>4, SeqType

LEMMA Sound23 == TestSound(Test23)
  <1> DEFINE n == 1
             first == <<MakeBox(5, MAX_MESSAGE), Spawn(2, 1), Wait>>
             a == SpawnAll(3, <<2, 4, 4, 5>>)
             w == Times(4, Wait)
             second == a \o w
             x == ReceiveFrom(1, 100, TRUE)
             c == <<x>>
             d == [i \in 1 .. 3 |-> SendTo(1, Numbered(i - 1), TRUE)]
  <1>0. n \in Nat /\ n = 1 /\ Calls(0, n) = Calls(0, 1) OBVIOUS
  <1>1. Sound(first, n, 0)
    <2>1. MAX_MESSAGE \in Int BY TestSizes
    <2> QED BY <2>1, BoxChildSound
  <1>2. Leads(a, n, 0, 1, 4, 1) /\ Leads(w, n, 4, 1, 0, 1) BY FourSpawned, FourWaited
  <1>3. x \in Calls(0, 1) BY CallType, Numbers
  <1>4. d \in Seq(Calls(0, 1))
    <2>1. 3 \in Nat OBVIOUS
    <2> QED BY <2>1, NumberedSound
  <1>5. Test23 = <<first, second, c, c, c, d>>
    BY Zenon DEF Test23, first, second, a, w, c, x, d
  <1> HIDE DEF n, first, a, w, x, d
  <1>6. Leads(second, n, 0, 1, 0, 1) BY <1>2, LeadsConcat
  <1>7. Sound(c, n, n) BY <1>0, <1>3, CallSound
  <1>8. Sound(d, n, n) BY <1>0, <1>4, SoundCalls
  <1> HIDE DEF second, c
  <1>9. Sound(second, n, n) BY <1>0, <1>6, SoundLeads
  <1>10. TestSound(<<first, second, c, c, c, d>>)
    BY <1>0, <1>1, <1>7, <1>8, <1>9, SixSound
  <1> QED BY <1>5, <1>10

LEMMA Sound24 == TestSound(Test24)
  <1> DEFINE n == 1
             first == <<MakeBox(5, MAX_MESSAGE), Spawn(2, 1), Wait>>
             s == [i \in 1 .. 5 |-> SendTo(1, Numbered(i - 1), TRUE)]
             a == SpawnAll(3, <<2, 3, 4, 5>>)
             w == Times(4, Wait)
             second == (s \o a) \o w
             c1 == <<SendTo(1, Text(1 + 4, 16), TRUE)>>
             c2 == <<SendTo(1, Text(2 + 4, 16), TRUE)>>
             c3 == <<SendTo(1, Text(3 + 4, 16), TRUE)>>
             x == ReceiveFrom(1, 100, TRUE)
             d == Times(8, x)
  <1>0. n \in Nat /\ n = 1 /\ Calls(0, n) = Calls(0, 1) OBVIOUS
  <1>1. Sound(first, n, 0)
    <2>1. MAX_MESSAGE \in Int BY TestSizes
    <2> QED BY <2>1, BoxChildSound
  <1>2. Leads(a, n, 0, 1, 4, 1) /\ Leads(w, n, 4, 1, 0, 1) BY FourSpawned, FourWaited
  <1>3. s \in Seq(Calls(0, 1))
    <2>1. 5 \in Nat OBVIOUS
    <2> QED BY <2>1, NumberedSound
  <1>4. x \in Calls(0, 1) BY CallType, Numbers
  <1>5. c1 \in Seq(Calls(0, 1)) /\ c2 \in Seq(Calls(0, 1)) /\ c3 \in Seq(Calls(0, 1))
    <2>1. \A i \in Int : SendTo(1, Text(i, 16), TRUE) \in Calls(0, 1)
      BY CallType, Numbers
    <2>2. 1 + 4 \in Int /\ 2 + 4 \in Int /\ 3 + 4 \in Int OBVIOUS
    <2> DEFINE y1 == SendTo(1, Text(1 + 4, 16), TRUE)
               y2 == SendTo(1, Text(2 + 4, 16), TRUE)
               y3 == SendTo(1, Text(3 + 4, 16), TRUE)
    <2>3. y1 \in Calls(0, 1) /\ y2 \in Calls(0, 1) /\ y3 \in Calls(0, 1)
      BY <2>1, <2>2
    <2> HIDE DEF y1, y2, y3
    <2>4. /\ <<y1>> \in Seq(Calls(0, 1)) /\ <<y2>> \in Seq(Calls(0, 1))
          /\ <<y3>> \in Seq(Calls(0, 1))
      BY <2>3
    <2> QED BY <2>4 DEF y1, y2, y3
  <1>6. Test24 = <<first, second, c1, c2, c3, d>>
    BY Zenon DEF Test24, first, second, s, a, w, c1, c2, c3, x, d
  <1> HIDE DEF n, first, a, w, x, s, c1, c2, c3
  <1>7. Leads(s, n, 0, 1, 0, 1) BY <1>0, <1>3, LeadsCalls
  <1>8. Leads(second, n, 0, 1, 0, 1) BY <1>2, <1>7, LeadsConcat
  <1>9. Sound(d, n, n) BY <1>0, <1>4, CallSound
  <1>10. Sound(c1, n, n) /\ Sound(c2, n, n) /\ Sound(c3, n, n)
    BY <1>0, <1>5, SoundCalls
  <1> HIDE DEF second, d
  <1>11. Sound(second, n, n) BY <1>0, <1>8, SoundLeads
  <1>12. TestSound(<<first, second, c1, c2, c3, d>>)
    BY <1>0, <1>1, <1>9, <1>10, <1>11, SixSound
  <1> QED BY <1>6, <1>12

(* Test 29 *)
LEMMA JoinSeven ==
    ASSUME NEW e1, NEW e2, NEW e3, NEW e4, NEW e5, NEW e6, NEW e7
    PROVE  (<<e1, e2, e3>> \o <<e4, e5, e6>>) \o <<e7>> =
               <<e1, e2, e3, e4, e5, e6, e7>>
  <1> DEFINE S == {e1, e2, e3, e4, e5, e6, e7}
             u == <<e1, e2, e3>>
             v == <<e4, e5, e6>>
             w == <<e7>>
             t == <<e1, e2, e3, e4, e5, e6, e7>>
  <1>1. /\ u \in Seq(S) /\ Len(u) = 3 /\ u[1] = e1 /\ u[2] = e2 /\ u[3] = e3
        /\ v \in Seq(S) /\ Len(v) = 3 /\ v[1] = e4 /\ v[2] = e5 /\ v[3] = e6
        /\ w \in Seq(S) /\ Len(w) = 1 /\ w[1] = e7
        /\ t \in Seq(S) /\ Len(t) = 7 /\ t[1] = e1 /\ t[2] = e2 /\ t[3] = e3
        /\ t[4] = e4 /\ t[5] = e5 /\ t[6] = e6 /\ t[7] = e7
    OBVIOUS
  <1> HIDE DEF S, u, v, w, t
  <1>2. \A p, q \in Seq(S) :
            /\ p \o q \in Seq(S) /\ Len(p \o q) = Len(p) + Len(q)
            /\ \A i \in 1 .. Len(p) + Len(q) :
                  (p \o q)[i] = IF i <= Len(p) THEN p[i] ELSE q[i - Len(p)]
    BY ConcatProperties
  <1> DEFINE uv == u \o v
  <1>3. /\ uv \in Seq(S) /\ Len(uv) = 6
        /\ \A i \in 1 .. 6 : uv[i] = IF i <= 3 THEN u[i] ELSE v[i - 3]
    <2>1. /\ uv \in Seq(S) /\ Len(uv) = Len(u) + Len(v)
          /\ \A i \in 1 .. Len(u) + Len(v) :
                uv[i] = IF i <= Len(u) THEN u[i] ELSE v[i - Len(u)]
      BY <1>1, <1>2
    <2>2. Len(u) = 3 /\ Len(u) + Len(v) = 6 BY <1>1
    <2> QED BY <2>1, <2>2
  <1> HIDE DEF uv
  <1>4. /\ uv \o w \in Seq(S) /\ Len(uv \o w) = 7
        /\ \A i \in 1 .. 7 : (uv \o w)[i] = IF i <= 6 THEN uv[i] ELSE w[i - 6]
    <2>1. /\ uv \o w \in Seq(S) /\ Len(uv \o w) = Len(uv) + Len(w)
          /\ \A i \in 1 .. Len(uv) + Len(w) :
                (uv \o w)[i] = IF i <= Len(uv) THEN uv[i] ELSE w[i - Len(uv)]
      BY <1>1, <1>2, <1>3
    <2>2. Len(uv) = 6 /\ Len(uv) + Len(w) = 7 BY <1>1, <1>3
    <2> QED BY <2>1, <2>2
  <1>5. \A i \in 1 .. 6 : uv[i] = t[i] BY <1>1, <1>3
  <1>6. \A i \in 1 .. Len(uv \o w) : (uv \o w)[i] = t[i] BY SMTT(60), <1>1, <1>4, <1>5
  <1>7. uv \o w = t BY <1>1, <1>4, <1>6, SeqEqual
  <1> QED BY <1>7 DEF uv, u, v, w, t

LEMMA Sound29 == TestSound(Test29)
  <1> DEFINE n == 2
             send == SendTo(1, NoBytes, FALSE)
             sent == Returning({0}, send)
             receive == ReceiveFrom(1, 0, TRUE)
             received == Returning({0}, receive)
             send2 == SendTo(2, NoBytes, TRUE)
             sent2 == Returning({0}, send2)
             receive2 == ReceiveFrom(2, 0, TRUE)
             received2 == Returning({0}, receive2)
             e1 == MakeBox(5, 50)
             e2 == MakeBox(0, 50)
             e4 == Spawn(2, 3)
             e6 == Spawn(3, 4)
             a == <<e1, e2, sent, e4, received, e6, sent2>>
             c == Times(3, sent)
             d == <<Spawn(4, 3)>>
             w == Times(3, Wait)
             f1 == FreeBox(1)
             f2 == FreeBox(2)
             f == <<f1, f2>>
             first == (((a \o c) \o d) \o w) \o f
  <1>0. n \in Nat /\ n <= 2 /\ n = 2 /\ Calls(0, n) = Calls(0, 2) OBVIOUS
  <1>1. \A k \in Nat : /\ send \in Calls(k, 2) /\ receive \in Calls(k, 2)
                       /\ send2 \in Calls(k, 2) /\ receive2 \in Calls(k, 2)
                       /\ f1 \in Calls(k, 2) /\ f2 \in Calls(k, 2)
    <2> TAKE k \in Nat
    <2>1. \A m, l \in Int : /\ SendTo(1, Text(m, l), FALSE) \in Calls(k, 2)
                            /\ SendTo(2, Text(m, l), TRUE) \in Calls(k, 2)
      BY CallType, Numbers
    <2>2. send \in Calls(k, 2) /\ send2 \in Calls(k, 2) BY <2>1, Numbers DEF NoBytes
    <2>3. receive \in Calls(k, 2) /\ receive2 \in Calls(k, 2) BY CallType, Numbers
    <2>4. f1 \in Calls(k, 2) /\ f2 \in Calls(k, 2) BY CallType, Numbers
    <2> QED BY <2>2, <2>3, <2>4
  <1>2. {0} \in SUBSET Int OBVIOUS
  <1>3. Test29 = <<first, <<received, sent>>, ZeroLenReceiver(2), ZeroLenReceiver(3)>>
    BY Zenon DEF Test29, ZeroLenSenderThenReceiver, first, a, c, d, w, f, f1, f2,
                 e1, e2, e4, e6, sent, received, sent2, send, receive, send2
  <1>4. /\ ZeroLenReceiver(2) = <<received2>> /\ ZeroLenReceiver(3) = Times(3, received)
    BY DEF ZeroLenReceiver
  <1> HIDE DEF n
  <1>5. Leads(<<e1>>, n, 0, 0, 0, 1) /\ Leads(<<e2>>, n, 0, 1, 0, 2)
    BY <1>0, LeadsCreate
  <1>6. /\ Leads(<<e4>>, n, 0, 2, 1, 2) /\ Leads(<<e6>>, n, 1, 2, 2, 2)
        /\ Leads(d, n, 2, 2, 3, 2)
    BY <1>0, LeadsSpawn
  <1>7. Leads(w, n, 3, 2, 0, 2) BY <1>0, LeadsWaits
  <1> HIDE DEF e1, e2, e4, e6, d, w, f1, f2, send, receive, send2, receive2
  <1>8. \A k \in Nat : /\ sent \in Calls(k, 2) /\ received \in Calls(k, 2)
                       /\ sent2 \in Calls(k, 2) /\ received2 \in Calls(k, 2)
    BY <1>1, <1>2, ReturningType
  <1> HIDE DEF sent, received, sent2, received2
  <1>9. /\ Leads(<<sent>>, n, 0, 2, 0, 2) /\ Leads(<<received>>, n, 1, 2, 1, 2)
        /\ Leads(<<sent2>>, n, 2, 2, 2, 2)
    BY <1>0, <1>8, LeadsCall
  <1>10. c \in Seq(Calls(2, 2)) BY <1>8, TimesType
  <1>11. Leads(c, n, 2, 2, 2, 2) BY <1>0, <1>10, LeadsCalls
  <1>12. f \in Seq(Calls(0, 2)) BY <1>1
  <1>13. Leads(f, n, 0, 2, 0, 2) BY <1>0, <1>12, LeadsCalls
  <1> HIDE DEF c, f
  <1>14. Leads(<<e1, e2, sent>>, n, 0, 0, 0, 2) BY <1>5, <1>9, LeadsThree
  <1>15. Leads(<<e4, received, e6>>, n, 0, 2, 2, 2) BY <1>6, <1>9, LeadsThree
  <1>16. Leads(a, n, 0, 0, 2, 2)
    <2> DEFINE u == <<e1, e2, sent>>
               v == <<e4, received, e6>>
               x == <<sent2>>
    <2>1. (u \o v) \o x = a BY JoinSeven
    <2>2. Leads(u, n, 0, 0, 0, 2) /\ Leads(v, n, 0, 2, 2, 2) /\ Leads(x, n, 2, 2, 2, 2)
      BY <1>9, <1>14, <1>15
    <2> HIDE DEF u, v, x, a
    <2> QED BY <2>1, <2>2, LeadsConcat
  <1> HIDE DEF a
  <1>17. Leads(first, n, 0, 0, 0, 2)
    BY ZenonT(60), <1>6, <1>7, <1>11, <1>13, <1>16, LeadsConcat
  <1> DEFINE p == <<received, sent>>
             q == <<received2>>
             r == Times(3, received)
  <1>18. p \in Seq(Calls(0, 2)) /\ q \in Seq(Calls(0, 2)) BY <1>8
  <1>19. r \in Seq(Calls(0, 2)) BY <1>8, TimesType
  <1> HIDE DEF first, p, q, r
  <1>20. Sound(first, n, 0) BY <1>0, <1>17, SoundLeads
  <1>21. Sound(p, n, n) /\ Sound(q, n, n) /\ Sound(r, n, n)
    BY <1>0, <1>18, <1>19, SoundCalls
  <1>22. AllSound(<<first, p, q, r>>, n) BY <1>0, <1>20, <1>21 DEF AllSound
  <1>23. TestSound(<<first, p, q, r>>) BY <1>0, <1>22 DEF TestSound
  <1> QED BY <1>3, <1>4, <1>23 DEF p, q, r

-----------------------------------------------------------------------------
(* All tests *)

LEMMA AllTestsSound ==
    /\ Len(AllTests) = 36
    /\ \A t \in 0 .. 35 : TestSound(AllTests[t + 1])
  <1>1. Len(AllTests) = 36 BY DEF AllTests
  <1>2. \A i \in 1 .. 36 : TestSound(AllTests[i])
    BY Sound00, Sound01, Sound02, Sound03, Sound04, Sound05, Sound06, Sound07,
       Sound08, Sound09, Sound10, Sound11, Sound12, Sound13, Sound14, Sound15,
       Sound16, Sound17, Sound18, Sound19, Sound20, Sound21, Sound22, Sound23,
       Sound24, Sound25, Sound26, Sound27, Sound28, Sound29, Sound30, Sound31,
       Sound32, Sound33, Sound34, Sound35 DEF AllTests
  <1>3. \A t \in 0 .. 35 : t + 1 \in 1 .. 36 OBVIOUS
  <1> QED BY <1>1, <1>2, <1>3
=============================================================================
