---------------------------- MODULE TestPrograms ----------------------------
(***************************************************************************)
(* MessagingTest00 to MessagingTest35 as data.  A test is a sequence of    *)
(* programs: the first is its MessagingEntryPoint, program k is the child  *)
(* that Spawn(k, priority) starts.  A program is a sequence of             *)
(* instructions, followed by k_exit.  Output is left out, and so are       *)
(* SystemDelay and device_control, which change nothing that the mailboxes *)
(* or the processes keep.                                                  *)
(***************************************************************************)
EXTENDS Integers, Sequences, FiniteSets

CONSTANTS
    MAXMBOX,        \* entries of the table of mailboxes
    MAXSLOTS,       \* the slots of MessagingTest16's big mailbox
    MAX_MESSAGE,    \* the buffer of SendAndReceive
    TerminalWrites, \* 100, the characters that MessagingTest05 writes
    FirstFreed,     \* 20, the first mailbox that MessagingTest25 frees
    FreedCount,     \* 10, how many it frees
    LateCreates     \* 14, how many it creates afterwards

ASSUME TestSizes ==
    /\ {MAXMBOX, MAXSLOTS, MAX_MESSAGE, TerminalWrites, FirstFreed, FreedCount,
        LateCreates} \subseteq Nat
    /\ FirstFreed + FreedCount <= MAXMBOX - 5      \* Test25 frees what it made

-----------------------------------------------------------------------------
(* Instructions.  mb says which mailbox: the mb-th that the test created,  *)
(* or one of the two ids that are never valid.  After a call that returned *)
(* a code >= 0 (a create: if all the creates so far did) the program goes  *)
(* on `ok' instructions further, otherwise `no' further, or exits.  check  *)
(* holds the codes that the test lets pass; it is empty if the test does   *)
(* not look at the code.                                                   *)

NegativeId == 0
LargeId == 9999
Exit == -1

(* a message: what tells it from others, and its length *)
Text(n, length) == <<n, length>>
NoBytes == Text(0, 0)

Blank == [op |-> "none", mb |-> NegativeId, slots |-> 0, size |-> 0,
          msg |-> NoBytes, wait |-> FALSE, name |-> "", kid |-> 0,
          priority |-> 0, ok |-> 1, no |-> 1, check |-> {}]

MakeBox(slots, size) ==
    [Blank EXCEPT !.op = "create", !.slots = slots, !.size = size]
SendTo(mb, msg, wait) ==
    [Blank EXCEPT !.op = "send", !.mb = mb, !.msg = msg, !.wait = wait]
ReceiveFrom(mb, size, wait) ==
    [Blank EXCEPT !.op = "receive", !.mb = mb, !.size = size, !.wait = wait]
FreeBox(mb) == [Blank EXCEPT !.op = "free", !.mb = mb]
WaitDeviceNamed(name) == [Blank EXCEPT !.op = "device", !.name = name]
Spawn(kid, priority) ==
    [Blank EXCEPT !.op = "spawn", !.kid = kid, !.priority = priority]

(* k_wait; the test may expect a certain child to be the one that exited *)
WaitFor(kid) == [Blank EXCEPT !.op = "wait", !.kid = kid]
Wait == WaitFor(0)

Returning(codes, instr) == [instr EXCEPT !.check = codes]
OrExit(instr) == [instr EXCEPT !.no = Exit]
WhileOk(instr) == [instr EXCEPT !.ok = 0]
Forever(instr) == [instr EXCEPT !.ok = 0, !.no = 0]

Times(n, instr) == [i \in 1 .. n |-> instr]

(* one child for each of the priorities, programs first, first + 1, ... *)
SpawnAll(first, priorities) ==
    [i \in DOMAIN priorities |-> Spawn(first + i - 1, priorities[i])]

-----------------------------------------------------------------------------
(* TestCommon.c                                                            *)

(* "Message Number n", n < 10, and its terminating 0 *)
Numbered(n) == Text(n, 17)

(* the bits of options; START_NUMBER says that the byte above them holds   *)
(* the number of the first message                                         *)
OPTION_NONE == 0
OPTION_FREE_FIRST == 1
OPTION_RECEIVE_FIRST == 2
OPTION_NON_BLOCKING == 4
OPTION_START_NUMBER == 128

StartingAt(n) == n * 256 + OPTION_START_NUMBER

SendAndReceive(sends, receives, options) ==
    LET set(option) == (options \div option) % 2 = 1
        wait == ~set(OPTION_NON_BLOCKING)
        start == IF set(OPTION_START_NUMBER) THEN (options \div 256) % 256 ELSE 0
        sending == [i \in 1 .. sends |-> SendTo(1, Numbered(start + i - 1), wait)]
        receiving == Times(receives, ReceiveFrom(1, MAX_MESSAGE, wait))
    IN  (IF set(OPTION_FREE_FIRST) THEN <<FreeBox(1)>> ELSE <<>>)
        \o (IF set(OPTION_RECEIVE_FIRST) THEN receiving \o sending
                                         ELSE sending \o receiving)

Sender(sends) == SendAndReceive(sends, 0, OPTION_NONE)
Receiver(receives) == SendAndReceive(0, receives, OPTION_NONE)
Freer == SendAndReceive(0, 0, OPTION_FREE_FIRST)

SimpleDelayExit == <<>>

-----------------------------------------------------------------------------
(* The tests of one mailbox without children, and of creation              *)

Test00 == << <<>> >>

Test01 == << <<MakeBox(10, 50), MakeBox(20, 30)>> >>

Test02 == << Times(MAXMBOX + 3, MakeBox(10, 50)) >>

Test03 == << <<MakeBox(10, 50), SendTo(1, Text(0, 12), TRUE), ReceiveFrom(1, 80, TRUE)>> >>

Test15 == << <<MakeBox(10, 5), OrExit(SendTo(1, Text(0, 12), TRUE)),
               ReceiveFrom(1, 80, TRUE)>> >>

(* it makes both mailboxes before it looks at their ids, and never ends by *)
(* itself: stop() is to end it                                             *)
Test16 ==
    << <<MakeBox(MAXSLOTS, 32), OrExit(MakeBox(5, 32))>>
       \o [i \in 1 .. 5 |-> SendTo(2, Text(i, 8), FALSE)]
       \o [i \in 1 .. MAXSLOTS |-> SendTo(1, Text(5 + i, 12), FALSE)]
       \o <<Forever(SendTo(1, Text(0, 12), FALSE))>> >>

Test25 ==
    << Times(MAXMBOX - 5, MakeBox(10, 50))
       \o [i \in 1 .. FreedCount |-> FreeBox(FirstFreed + i)]
       \o Times(LateCreates, MakeBox(10, 50)) >>

Test28 ==
    LET Rejected(mb) ==
            <<Returning({-1}, SendTo(mb, Text(0, 13), FALSE)),
              Returning({-1}, ReceiveFrom(mb, 50, FALSE)),
              Returning({-1}, FreeBox(mb))>>
    IN  << <<MakeBox(10, 50), MakeBox(5, 50), FreeBox(2)>>
           \o Rejected(NegativeId) \o Rejected(LargeId) \o Rejected(2)
           \o <<Returning({0}, SendTo(1, Text(1, 19), FALSE)),
                Returning(0 .. MAX_MESSAGE, ReceiveFrom(1, 50, FALSE)),
                FreeBox(1)>> >>

Test33 == << <<MakeBox(10, 13), Returning({0}, SendTo(1, Text(0, 13), TRUE)),
               Returning({13}, ReceiveFrom(1, 32, TRUE))>> >>

Test34 == << <<MakeBox(10, 12), OrExit(SendTo(1, Text(0, 13), TRUE)),
               ReceiveFrom(1, 32, TRUE)>> >>

Test35 == << <<Returning({-1}, MakeBox(10, MAX_MESSAGE + 1)),
               Returning({-1}, MakeBox(10, -1)),
               Returning({-1}, MakeBox(-1, 10))>> >>

-----------------------------------------------------------------------------
(* The tests whose children run SendAndReceive                             *)

(* A wrong form of Family: it waits once too few. *)
FamilyWaitsLess(slots, size, priorities) ==
    <<MakeBox(slots, size)>> \o SpawnAll(2, priorities)
    \o Times(Len(priorities) - 1, Wait)

(* the first program of a test with one mailbox: it starts its children    *)
(* and waits for all of them                                               *)
Family(slots, size, priorities) ==
    <<MakeBox(slots, size)>> \o SpawnAll(2, priorities)
    \o Times(Len(priorities), Wait)

Test04 == <<Family(10, 50, <<4, 3>>), Sender(1), Receiver(1)>>

Test05 ==
    <<Times(TerminalWrites, WaitDeviceNamed("term0")) \o Family(10, 50, <<3, 4>>),
      Sender(1), Receiver(1)>>

Test06 == <<Family(5, 50, <<4, 3>>), Sender(6), Receiver(6)>>

Test07 ==
    <<Family(5, 50, <<3, 3, 3, 3, 2>>), Sender(5),
      SendAndReceive(1, 0, StartingAt(5)), SendAndReceive(1, 0, StartingAt(6)),
      SendAndReceive(1, 0, StartingAt(7)), Receiver(8)>>

Test08 ==
    <<Family(5, 50, <<3, 3, 3, 3, 2>>), Sender(5),
      SendAndReceive(1, 0, StartingAt(5)), SendAndReceive(1, 0, StartingAt(6)),
      SendAndReceive(1, 0, StartingAt(7)), Freer>>

(* child 6 does nothing: it exits when the senders before it are blocked *)
Test09 ==
    <<<<MakeBox(5, 50), Spawn(2, 3), Wait>> \o SpawnAll(3, <<3, 3, 3, 2>>)
      \o <<WaitFor(6), Spawn(7, 4)>> \o Times(5, Wait),
      Sender(5), SendAndReceive(1, 0, StartingAt(5)),
      SendAndReceive(1, 0, StartingAt(6)), SendAndReceive(1, 0, StartingAt(7)),
      SendAndReceive(0, 0, OPTION_NONE), Freer>>

Test10 ==
    <<Family(5, 50, <<3, 3, 3, 3, 2>>), Sender(5),
      SendAndReceive(1, 0, StartingAt(5) + OPTION_NON_BLOCKING),
      SendAndReceive(1, 0, StartingAt(6)), SendAndReceive(1, 0, StartingAt(7)),
      Receiver(6)>>

Test26 ==
    <<Family(5, MAX_MESSAGE, <<4, 3, 2, 3, 1>>),
      SendAndReceive(5, 5, OPTION_RECEIVE_FIRST),
      Receiver(1), Receiver(1), Receiver(1), Freer>>

Test27 ==
    <<<<MakeBox(5, MAX_MESSAGE)>> \o SpawnAll(2, <<1, 2, 3, 4, 1>>)
      \o <<WaitFor(6), Spawn(7, 1)>> \o Times(5, Wait),
      SendAndReceive(2, 2, OPTION_RECEIVE_FIRST),
      Receiver(1), Receiver(1), Receiver(1),
      SendAndReceive(0, 0, OPTION_NONE), Freer>>

Test30 ==
    <<<<MakeBox(1, 50)>> \o SpawnAll(2, <<2, 3, 4, 2>>)
      \o <<Returning({0}, SendTo(1, NoBytes, TRUE))>> \o Times(4, Wait),
      Sender(1), Sender(1), Sender(1), Freer>>

Test31 ==
    <<<<MakeBox(1, 13)>> \o SpawnAll(2, <<2, 3, 4, 2>>)
      \o <<ReceiveFrom(1, 0, TRUE)>> \o Times(4, Wait),
      Receiver(1), Receiver(1), Receiver(1), Freer>>

-----------------------------------------------------------------------------
(* The tests with child functions of their own                             *)

(* the second mailbox has no slots; both children use it to wait for each  *)
(* other                                                                   *)
Test11 ==
    LET HelloThere(i) == SendTo(1, Text(i, IF i < 10 THEN 14 ELSE 15), FALSE)
        SendEightWaitSendEight ==
            [i \in 1 .. 8 |-> HelloThere(i - 1)] \o <<ReceiveFrom(2, 0, TRUE)>>
            \o [i \in 1 .. 8 |-> HelloThere(i + 7)]
        ReceiveFourSendZeroReceiveFour ==
            Times(5, ReceiveFrom(1, 100, TRUE)) \o <<SendTo(2, NoBytes, TRUE)>>
            \o Times(5, ReceiveFrom(1, 100, TRUE))
    IN  <<<<MakeBox(5, 50), MakeBox(0, 50)>> \o SpawnAll(2, <<4, 3>>) \o Times(2, Wait),
          SendEightWaitSendEight, ReceiveFourSendZeroReceiveFour>>

Test12 ==
    LET HelloThere(i) == SendTo(1, Text(i, IF i < 10 THEN 14 ELSE 15), FALSE)
        SendEightWaitSendEight ==
            [i \in 1 .. 8 |-> HelloThere(i - 1)] \o <<ReceiveFrom(2, 0, TRUE)>>
            \o [i \in 1 .. 8 |-> HelloThere(i + 7)]
        NonBlockReceiveSendZeroNonBlockReceive ==
            <<WhileOk(ReceiveFrom(1, 100, FALSE)), SendTo(2, NoBytes, TRUE),
              WhileOk(ReceiveFrom(1, 100, FALSE))>>
    IN  <<<<MakeBox(5, 50), MakeBox(0, 50)>> \o SpawnAll(2, <<4, 3>>) \o Times(2, Wait),
          SendEightWaitSendEight, NonBlockReceiveSendZeroNonBlockReceive>>

Test13 ==
    LET WaitForClockThenExit == <<WaitDeviceNamed("clock")>>
    IN  << <<Spawn(2, 4), Wait>>, WaitForClockThenExit>>

Test14 ==
    LET ReceiveTerminal == <<WaitDeviceNamed("term0")>>
    IN  << <<Spawn(2, 3), Wait>>, ReceiveTerminal>>

Test32 ==
    LET TerminalReceiveTesting(name) == <<WaitDeviceNamed(name)>>
    IN  <<SpawnAll(2, <<3, 3, 3, 3>>) \o Times(4, Wait),
          TerminalReceiveTesting("term0"), TerminalReceiveTesting("term1"),
          TerminalReceiveTesting("term2"), TerminalReceiveTesting("term3")>>

(* three children that are to block on a mailbox without slots, one that   *)
(* is to exit first, and one that then frees the mailbox                   *)
CloseAfterPause ==
    <<MakeBox(0, 50)>> \o SpawnAll(2, <<3, 3, 3, 3>>)
    \o <<WaitFor(5), Spawn(6, 4)>> \o Times(4, Wait)

Test17 ==
    LET SendOneAndExit(pid) == <<SendTo(1, Text(pid, 14), TRUE)>>
        CloseMailbox == <<FreeBox(1)>>
    IN  <<CloseAfterPause, SendOneAndExit(2), SendOneAndExit(3), SendOneAndExit(4),
          SimpleDelayExit, CloseMailbox>>

Test18 ==
    LET ReceiveOneAndExit == <<ReceiveFrom(1, 32, TRUE)>>
        CloseMailbox == <<FreeBox(1)>>
    IN  <<CloseAfterPause, ReceiveOneAndExit, ReceiveOneAndExit, ReceiveOneAndExit,
          SimpleDelayExit, CloseMailbox>>

Test19 ==
    LET SendOneAndExit(pid) == <<SendTo(1, Text(pid, 14), TRUE)>>
        CloseMailbox == <<FreeBox(1)>>
    IN  <<CloseAfterPause \o <<Returning({-1}, SendTo(1, Text(0, 27), FALSE))>>,
          SendOneAndExit(2), SendOneAndExit(3), SendOneAndExit(4),
          SimpleDelayExit, CloseMailbox>>

Test20 ==
    LET ReceiveOneAndExit == <<ReceiveFrom(1, 32, TRUE)>>
        CloseMailbox == <<FreeBox(1)>>
    IN  <<CloseAfterPause \o <<Returning({-1}, ReceiveFrom(1, 30, FALSE))>>,
          ReceiveOneAndExit, ReceiveOneAndExit, ReceiveOneAndExit,
          SimpleDelayExit, CloseMailbox>>

(* sender before receiver on a mailbox without slots *)
Test21 ==
    LET SendTwoAndExit == [i \in 1 .. 2 |-> SendTo(1, Text(i - 1, 15), TRUE)]
        ReceiveTwoAndExit == Times(2, ReceiveFrom(1, 100, TRUE))
    IN  <<Family(0, 50, <<4, 3>>), SendTwoAndExit, ReceiveTwoAndExit>>

(* receiver before sender *)
Test22 ==
    LET SendTwoAndExit == [i \in 1 .. 2 |-> SendTo(1, Text(i - 1, 15), TRUE)]
        ReceiveTwoAndExit == Times(2, ReceiveFrom(1, 100, TRUE))
    IN  <<Family(0, 50, <<3, 4>>), SendTwoAndExit, ReceiveTwoAndExit>>

Test23 ==
    LET SendThreeAndExit == [i \in 1 .. 3 |-> SendTo(1, Numbered(i - 1), TRUE)]
        ReceiveAndExit == <<ReceiveFrom(1, 100, TRUE)>>
        LowPriorityParent == SpawnAll(3, <<2, 4, 4, 5>>) \o Times(4, Wait)
    IN  << <<MakeBox(5, MAX_MESSAGE), Spawn(2, 1), Wait>>, LowPriorityParent,
          ReceiveAndExit, ReceiveAndExit, ReceiveAndExit, SendThreeAndExit>>

Test24 ==
    LET SendOneAndExit(child) == <<SendTo(1, Text(child + 4, 16), TRUE)>>
        ReceiveEightAndExit == Times(8, ReceiveFrom(1, 100, TRUE))
        SendFiveSpawnFour ==
            [i \in 1 .. 5 |-> SendTo(1, Numbered(i - 1), TRUE)]
            \o SpawnAll(3, <<2, 3, 4, 5>>) \o Times(4, Wait)
    IN  << <<MakeBox(5, MAX_MESSAGE), Spawn(2, 1), Wait>>, SendFiveSpawnFour,
          SendOneAndExit(1), SendOneAndExit(2), SendOneAndExit(3),
          ReceiveEightAndExit>>

ZeroLenReceiver(child) ==
    IF child = 2 THEN <<Returning({0}, ReceiveFrom(2, 0, TRUE))>>
                 ELSE Times(3, Returning({0}, ReceiveFrom(1, 0, TRUE)))

ZeroLenSenderThenReceiver ==
    <<Returning({0}, ReceiveFrom(1, 0, TRUE)), Returning({0}, SendTo(1, NoBytes, FALSE))>>

Test29 ==
    <<<<MakeBox(5, 50), MakeBox(0, 50), Returning({0}, SendTo(1, NoBytes, FALSE)),
        Spawn(2, 3), Returning({0}, ReceiveFrom(1, 0, TRUE)),
        Spawn(3, 4), Returning({0}, SendTo(2, NoBytes, TRUE))>>
      \o Times(3, Returning({0}, SendTo(1, NoBytes, FALSE)))
      \o <<Spawn(4, 3)>> \o Times(3, Wait) \o <<FreeBox(1), FreeBox(2)>>,
      ZeroLenSenderThenReceiver, ZeroLenReceiver(2), ZeroLenReceiver(3)>>

-----------------------------------------------------------------------------
AllTests ==
    <<Test00, Test01, Test02, Test03, Test04, Test05, Test06, Test07, Test08,
      Test09, Test10, Test11, Test12, Test13, Test14, Test15, Test16, Test17,
      Test18, Test19, Test20, Test21, Test22, Test23, Test24, Test25, Test26,
      Test27, Test28, Test29, Test30, Test31, Test32, Test33, Test34, Test35>>

Program(test, p) ==
    IF p \in DOMAIN AllTests[test + 1] THEN AllTests[test + 1][p] ELSE <<>>
=============================================================================
