------------------------------ MODULE TestRuns ------------------------------
(***************************************************************************)
(* The test programs running on the kernel: Devices with its boot, the     *)
(* programs of TestPrograms as its users, and as much of the scheduler as  *)
(* they use: k_spawn, k_wait, k_exit, and who is dispatched.  The boot     *)
(* process runs SchedulerEntryPoint and then starts the test as process 1; *)
(* process p runs program p.                                               *)
(***************************************************************************)
EXTENDS Devices, TestPrograms

CONSTANTS
    Cases,          \* the tests to run, and how the scheduler chooses:
                    \* "priority": highest first; "any": in no order
    Device0         \* the handle that device_handle finds for each name

ASSUME CasesAssumption ==
    Cases \subseteq (0 .. Len(AllTests) - 1) \X {"priority", "any"}
ASSUME ProcAssumption == Proc \subseteq Nat /\ Main = 0 /\ MAXMBOX = MaxMbox

(* The constants have every argument that the tests give a call. *)
ASSUME CallsAssumption ==
    \A c \in Cases, p \in Proc : \A i \in DOMAIN Program(c[1], p) :
        LET instr == Program(c[1], p)[i]
        IN  /\ instr.op = "create" => instr.slots \in SlotCounts /\ instr.size \in SlotSizes
            /\ instr.op = "send" => instr.msg \in Msg /\ Size[instr.msg] = instr.msg[2]
            /\ instr.op = "receive" => instr.size \in BufSizes
            /\ instr.op = "device" => Device0[instr.name] \in 0 .. MaxDevices - 1

VARIABLES
    test,           \* the test that is run
    order,          \* how the scheduler chooses
    stage,          \* of each process: "unborn", "live", "quit" or "reaped"
    parent,         \* who spawned it
    priority,       \* as given to k_spawn
    todo,           \* the instructions it has yet to carry out
    made            \* what the mailbox_creates of the test returned

rvars == <<test, order, stage, parent, priority, todo, made>>
runvars == <<allvars, rvars>>

HIGHEST_PRIORITY == 5
NoParent == -1

(* SchedulerEntryPoint after the boot *)
EntryPoint == <<Spawn(1, HIGHEST_PRIORITY), Wait>>

RInit ==
    /\ DInit
    /\ \E c \in Cases : test = c[1] /\ order = c[2]
    /\ stage = [p \in Proc |-> IF p = Main THEN "live" ELSE "unborn"]
    /\ parent = [p \in Proc |-> NoParent]
    /\ priority = [p \in Proc |-> HIGHEST_PRIORITY]
    /\ todo = [p \in Proc |-> IF p = Main THEN EntryPoint ELSE Program(test, p)]
    /\ made = <<>>

-----------------------------------------------------------------------------
(* The processes                                                           *)

Instr(p) == Head(todo[p])
At(p, op) == Outside(p) /\ todo[p] # <<>> /\ Instr(p).op = op

(* the program goes on n instructions further: 0 repeats this one *)
Skip(p, n) ==
    todo' = [todo EXCEPT ![p] = IF n = Exit THEN <<>> ELSE SubSeq(@, n + 1, Len(@))]

Children(p) == {c \in Proc : parent[c] = p /\ stage[c] \in {"live", "quit"}}
QuitChildren(p) == {c \in Children(p) : stage[c] = "quit"}

(* a process in k_wait sleeps until a child has exited *)
AsleepInWait(p) == At(p, "wait") /\ Children(p) # {} /\ QuitChildren(p) = {}

CanRun(p) ==
    /\ phase # "stopped"
    /\ stage[p] = "live"
    /\ pstate[p] = "ready"
    /\ ~AsleepInWait(p)

(* the dispatcher: the highest priority first, anyone among equals *)
Dispatched(p) ==
    /\ CanRun(p)
    /\ order = "priority" => \A q \in Proc : CanRun(q) => priority[q] <= priority[p]

-----------------------------------------------------------------------------
(* k_spawn, k_wait, k_exit                                                 *)

KSpawn(p) ==
    LET c == Instr(p).kid
    IN  /\ At(p, "spawn")
        /\ stage' = [stage EXCEPT ![c] = "live"]
        /\ parent' = [parent EXCEPT ![c] = p]
        /\ priority' = [priority EXCEPT ![c] = Instr(p).priority]
        /\ Skip(p, 1)
        /\ UNCHANGED <<allvars, test, order, made>>

(* any child that has exited; without children k_wait returns at once *)
KWait(p) ==
    /\ At(p, "wait")
    /\ \/ Children(p) = {} /\ UNCHANGED stage
       \/ \E c \in QuitChildren(p) : stage' = [stage EXCEPT ![c] = "reaped"]
    /\ Skip(p, 1)
    /\ UNCHANGED <<allvars, test, order, parent, priority, made>>

KExit(p) ==
    /\ Outside(p) /\ todo[p] = <<>>
    /\ stage' = [stage EXCEPT ![p] = "quit"]
    /\ UNCHANGED <<allvars, test, order, parent, priority, todo, made>>

-----------------------------------------------------------------------------
(* The calls of Messaging and Devices                                      *)

MboxId(mb) == IF mb = NegativeId THEN -1
              ELSE IF mb = LargeId THEN MaxMbox
              ELSE made[mb]

CreateCall(p) ==
    /\ At(p, "create")
    /\ \/ CreateTableFull(p)
       \/ CreateMailbox(p, Instr(p).slots, Instr(p).size)
       \/ CreateNoMemory(p, Instr(p).slots, Instr(p).size)
    /\ UNCHANGED dvars

SendCall(p) ==
    /\ At(p, "send")
    /\ SendTurn(p, MboxId(Instr(p).mb), Instr(p).msg, Instr(p).wait)
    /\ UNCHANGED dvars

ReceiveCall(p) ==
    /\ At(p, "receive")
    /\ ReceiveTurn(p, MboxId(Instr(p).mb), Instr(p).size, Instr(p).wait)
    /\ UNCHANGED dvars

FreeCall(p) ==
    /\ At(p, "free")
    /\ FreeInvalid(p, MboxId(Instr(p).mb)) \/ FreeRelease(p, MboxId(Instr(p).mb))
    /\ UNCHANGED dvars

(* no device_initialize is ever called: device_handle may know the name of *)
(* a device or not                                                         *)
DeviceCall(p) ==
    /\ At(p, "device")
    /\ \/ WaitDevice(p, Device0[Instr(p).name])
       \/ Instr(p).name # "clock" /\ WaitUnknownDevice(p)

(* what a program asks about the call it made: was the code >= 0, and when *)
(* it makes mailboxes, were all the ids it has got                         *)
Passed(p) ==
    /\ result'[p].code >= 0
    /\ At(p, "create") => \A i \in DOMAIN made : made[i] >= 0

(* the program goes on when the call has returned *)
Proceed(p) ==
    LET code == result'[p].code
    IN  /\ IF Outside(p)'
           THEN Skip(p, IF Passed(p) THEN Instr(p).ok ELSE Instr(p).no)
           ELSE UNCHANGED todo
        /\ made' = IF At(p, "create") THEN Append(made, code) ELSE made
        /\ UNCHANGED <<test, order, stage, parent, priority>>

KernelCall(p) ==
    /\ \/ CreateCall(p) \/ SendCall(p) \/ ReceiveCall(p) \/ FreeCall(p)
       \/ DeviceCall(p)
       \/ Resume(p)
    /\ Proceed(p)

Boot == (BootCreate \/ BootFinish) /\ UNCHANGED rvars

Run(p) ==
    /\ phase = "up"
    /\ Dispatched(p)
    /\ KSpawn(p) \/ KWait(p) \/ KExit(p) \/ KernelCall(p)

RNext == Boot \/ \E p \in Proc : Run(p)

RSpec == RInit /\ [][RNext]_runvars

(* The CPU does not idle while some process can run. *)
RFairSpec == RSpec /\ WF_runvars(RNext)

(* There is room for what the tests spawn, create and keep in a buffer, as *)
(* with 2000 mailboxes, 8 devices and a MAX_MESSAGE of 256, and malloc has *)
(* memory for them.                                                        *)
RoomForTests ==
    /\ 1 .. 7 \subseteq Proc
    /\ MaxDevices + 2 <= MaxMbox
    /\ MAX_MESSAGE > 100
    /\ TerminalWrites > 0
    /\ ~MallocMayFail

-----------------------------------------------------------------------------
(* Properties                                                              *)

Ended == stage[Main] = "quit"

ByPriority == order = "priority"

(* These tests come to their end, the second group only if the highest     *)
(* priority runs first: no process of theirs is left asleep in a mailbox   *)
(* or in k_wait, and none goes round in a loop.                            *)
EndInAnyOrder ==
    test \in {0, 1, 2, 3, 9, 15, 17, 18, 19, 20, 23, 25, 27, 28, 30, 31, 33, 34, 35}
EndByPriority == ByPriority /\ test \in {4, 6, 7, 8, 10, 26}

TestsEnd == (EndInAnyOrder \/ EndByPriority) ~> Ended

(* These never do, whoever runs first: they wait on a device that nothing  *)
(* interrupts (5, 13, 14, 32), on a mailbox that has no slots (11, 12, 21, *)
(* 22, 29), or for a receiver whose buffer is too small to be one (24), or *)
(* they send for ever (16).                                                *)
NeverEnd == {5, 11, 12, 13, 14, 16, 21, 22, 24, 29, 32}

TestsHang == Ended => test \notin NeverEnd

(* No test loses a wakeup: though processes are killed, and messages of no *)
(* bytes are sent, a sender of a test sleeps on a mailbox in use only      *)
(* while every empty slot of it is spoken for by a sender already awake.   *)
(* Not so for every program: see BlockedOnlyWithoutSlot in MessagingClaims.*)
SendersKeepUp ==
    \A id \in Id :
        (mailboxes[id].status = "inuse" /\ mailboxes[id].blockedSendList # <<>>) =>
            Cardinality(EmptySlots(id)) <= Cardinality(WokenSenders(id))

(* The headers of these tests say that they come to an end: Test21 expects *)
(* "Two messages sent and received in order via direct delivery", Test24   *)
(* "All 8 messages received in order", Test32 that "All four children      *)
(* receive their respective terminal status and exit".  If the devices are *)
(* known by name, a test that is to end comes to its end.                  *)
TestsEndAsWritten ==
    [](phase # "stopped") => ((test \in NeverEnd \ {16}) ~> Ended)

(* Of these tests some check fails: a child that should be blocked exits   *)
(* first (18, 20), a receive (29) or a send (30) of a message of no bytes  *)
(* fails, and mailbox_create takes any size and count (35).                *)
FailedChecks == {18, 20, 29, 30, 35}

(* When a process leaves an instruction of one of the tests, the code is   *)
(* one that the test lets pass and the child that k_wait found is the one  *)
(* that the test expects.                                                  *)
AllPass(tests) ==
    \A p \in Proc : (test \in tests /\ todo[p] # <<>> /\ todo'[p] # todo[p]) =>
        /\ Instr(p).check # {} => result'[p].code \in Instr(p).check
        /\ Instr(p).op = "wait" /\ Instr(p).kid # 0 => stage'[Instr(p).kid] = "reaped"

(* In all the other tests whatever a test checks comes out as it expects,  *)
(* whatever its children do meanwhile: sends and frees of a released       *)
(* mailbox fail, and the child that only pauses ends while the children    *)
(* before it are asleep in the mailbox.                                    *)
ChecksPass == [][AllPass((0 .. 35) \ FailedChecks)]_runvars

(* A test waits for every child it has spawned: no process exits while a   *)
(* child of it runs, sleeps or has not been waited for, so that nobody is  *)
(* left to use a mailbox when the test is over.                            *)
NoOrphans == \A p \in Proc : stage[p] \in {"quit", "reaped"} => Children(p) = {}
=============================================================================
