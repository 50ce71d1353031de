# Verification of the THREADS messaging layer

The repository is the messaging layer of a teaching kernel: mailboxes through
which processes on one CPU exchange messages, and the device waits built on
them. All of its own logic is in `Messaging.c` and `message.h`. The scheduler
and the machine are binary libraries (`Lib/`, `bin/`) known through
`Include/*.h`. `MessagingTest00` to `35` with `THREADSTestCommon` are the programs
that run on it: they state what is expected, and they are modelled too.

## Inventory

| Part | State | Operations | Interacts with |
|---|---|---|---|
| Mailbox operations | `mailboxes` (status, slotSize, slotCount, slot list, `blockedSendList`, `blockedReceiveList`), `nextMailboxId` | `mailbox_create`, `mailbox_send`, `mailbox_receive`, `mailbox_free` | `block`, `unblock`, `k_kill`, `signaled`, `malloc` |
| Start and devices | `devices[].deviceMbox`, `waitingOnDevice` | `SchedulerEntryPoint`, `wait_device`, `check_io_messaging` | the mailbox operations; the scheduler calls `check_io` |
| Handlers, system calls | `handlers`, `systemCallVector` | `InitializeHandlers` (registers no handler), `nullsys` (halts) | the machine |
| Kernel mode check | none | `checkKernelMode` | halts in user mode |
| Scheduler, machine | process states, signals, priorities, parents and children | external: `block`, `unblock`, `k_kill`, `k_spawn`, `k_wait`, `k_exit`, the dispatcher | everything |
| Test programs | where each process is, the mailbox ids | the 36 entry points, their child functions, `SendAndReceive` | the mailbox operations, `wait_device`, `k_spawn`, `k_wait` |
| Test utilities | none | `CreateMessageTestArgs`, `GetTestName`, `SystemDelay`, children of scheduler tests | the test programs |

What makes it correct, and what is hard:

- *Slots*: messages leave in the order in which they came, none twice and none
  lost, though a slot is "empty" exactly when its `messageSize` is 0, a send
  takes the first empty slot and a receive shifts the run of full slots.
- *Waiting*: whoever sleeps in `block()` is in the list of that mailbox, whoever
  is in a list sleeps there, and a sleeper is woken when what it waits for has
  come. Between `unblock()` and the next turn of the woken process any other
  process may run.
- *Release*: `mailbox_free` runs while others are inside calls on the mailbox
  and yields to those it wakes; all of them must leave with -5.
- *Failure*: `malloc` fails half way through `mailbox_create`; a process is
  killed while it waits.
- *Devices*: the boot's mailboxes stay with the devices, and `check_io` tells the
  scheduler's deadlock test the truth.
- *Time slices*: the calls do not disable interrupts, so another process may come
  in between two statements.
- *Programs*: a test ends only if everyone it has put to sleep is woken by
  someone, whatever order the processes run in, and if it waits for each child.

`PROJECT.json` lists each hazard at its line with the properties that cover it.

## Modules

| Module | Models |
|---|---|
| `Messaging` | the four calls of `Messaging.c`, with the processes that make them |
| `MailboxQueue` | abstract: bounded FIFO queues, handed out once with the room asked for (one slot asked for is none), closed once, from then on changed only by calls that succeed; a create that fails (`OpenHalfWay`) may change the one entry that is not handed out yet |
| `MessagingRefinement` | the mapping from `Messaging` to `MailboxQueue` (`ImplementsQueues`) |
| `Devices` | extends `Messaging`: `SchedulerEntryPoint`, `wait_device`, `check_io_messaging` |
| `DeviceSteps` | the statements of `wait_device` around `waitingOnDevice`, with the interrupt flag and time slices |
| `MessagingClaims` | statements of comments and tests that the code does not keep |
| `MailboxSteps` | the four calls statement by statement; implements `Messaging` (`StretchesAreSteps`) |
| `TestPrograms` | the 36 tests as data: their processes and the calls each makes |
| `TestRuns` | extends `Devices`: the boot, then a test of `TestPrograms` with a scheduler |
| `MessagingProofs` | the theorems of `Messaging` and their proofs |
| `WakeupProofs` | the theorem about lost wakeups |
| `RefinementProofs` | the theorem that the mailboxes are the queues of `MailboxQueue` |
| `DevicesProofs` | the theorems of `Devices`: about the devices, and what `Messaging` promises |
| `StepsProofs` | the theorems of `MailboxSteps`: statement by statement the code does what `Messaging` says |
| `ProgramsProofs` | lemmas about the 36 programs: each waits for its children and uses mailboxes that exist |
| `TestsProofs` | the theorems of `TestRuns` but the next |
| `OutcomesProofs` | the theorem about the tests that never end |
| `MCMessaging`, `MCDevices`, `MCDeviceSteps`, `MCMailboxSteps`, `MCTests` | values of the constants for TLC |

### State and steps

`mailboxes[id]` is the C struct: the list of `MailSlot`s is a sequence whose
entries are messages or `NoMsg` (`messageSize == 0`), the two lists of
`WaitingProcess` are sequences of processes. A message is a model value with a
length (`Size`). `type` is determined by the slot count and read only by
`mailbox_create`, so it appears as `Allocated`; `active`, `mailSlots` and the
back pointers are never read. `call[p]` holds the arguments of the call process
`p` is inside of, `pstate[p]` whether the scheduler has it ready or blocked,
`signal[p]` what `signaled()` would say, `result[p]` what its last call
returned. A receive's `code` is the message's length, its `msg` what is in the
caller's buffer.

A step is a stretch of a call between two points where the CPU may change hands:
from the start of the call, or from the return of `block()`, to the return of
the call or to `block()`. `mailbox_free` also loses the CPU at each `unblock()`,
so each turn of its loops is a step. After the `unblock()` in `mailbox_receive`
only locals are used, so delivery is one step. The alternatives of a stretch are
actions of their own: `SendTurn` is invalid, deposit, would block, no memory or
block; `ReceiveTurn` likewise.

In `MailboxSteps` the statements of a stretch are the steps: each turn of the loop
that looks for a slot, the copy and the assignment of `messageSize`, each move of
the shift, taking a node out of a list and `unblock()`, `malloc` of a node, linking
it and `block()`. `frame[p]` holds the C variables, the call (`op`) and the
statement it is at (`at`). A slot there has its message and
its `messageSize` apart, as between the copy and the assignment they disagree. The
refinement needs a history variable: `shown[id]` is mailbox `id` as it was when no
stretch was in the middle of it, and `Messaging`'s `mailboxes` is `shown`. A stretch
takes effect in its last step, which is sound because it is alone on its mailbox
(next section). `mailbox_create` publishes `nextMailboxId` last, so that its whole
stretch is on the entry nobody has been handed.

In `TestPrograms` an instruction is a call with its arguments, the codes the test
lets pass (`check`) and how far the program goes on after a code >= 0 (`ok`) or
another one (`no`), or that it exits (`Exit`): that is all the control the tests have. (The
one test that looks at the ids of its mailboxes, 16, does so when it has made both:
`Passed`.) A message is a number
and its length. `todo[p]` is what process `p` has yet to do, `made` the ids
returned by the test's `mailbox_create`s, so that a test that uses the -1 of a
failed create does so here. `Run(p)` takes the first instruction of a process that
is dispatched through the actions of `Messaging` and `Devices` unchanged.

### What is assumed of the scheduler library

- `block()` makes the caller not ready; `unblock(pid)` makes it ready.
- `k_kill(pid, SIG_TERM)` sets what `signaled()` reads, for good, and wakes
  nobody. `Signal` is a kill by a process outside the calls; `mailbox_free` kills
  the blocked senders.
- Any ready process may run next. This covers every assignment of priorities.
  `TestRuns` has that ("any") and the highest priority first, anyone among equals
  ("priority"; `Scheduler.h` has `HIGHEST_PRIORITY` 5, though comments of the tests,
  such as Test05:19-20, take lower numbers for higher priorities).
- No interrupt lets another process in within a stretch (`Messaging`, `Devices`,
  `TestRuns`); or one does, but it uses another mailbox (`MailboxSteps`, guard
  `Alone`). Whether kernel mode is preempted is decided in the library. `Alone` is
  needed: with the wrong form `Overlapping`, written above it, the calls no longer
  do what the steps of `Messaging` do, and TLC says so at once. So the code needs one of two things that it does not do itself: no time slices in
  kernel mode, or a lock per mailbox.
- In `Devices` all of `wait_device` up to its first sleep is one step, so that its
  `waitingOnDevice++` is atomic. The code enables interrupts before it (`:437`), so this
  is the assumption above applied to it. `DeviceSteps` drops it: a timer interrupt takes
  the CPU away after any statement that runs with interrupts enabled. With
  `SliceInIncrement` FALSE, as in the run, the increment is one instruction of the build,
  with TRUE a load and a store. `wait_device` returns with interrupts disabled (`:455`); what the
  process does then may still give the CPU away (`Slice` outside).
- `k_spawn` starts a child that is ready and copies its argument string (the tests
  write the next child's arguments into the same buffer); `k_wait` sleeps until a
  child has exited and takes any that has, and without children returns at once.
- `device_handle` knows the names of the devices, or does not (`device_initialize` is
  never called): both are tried. The clock's handle is known.
- A device's mailbox is sent to by processes only: `InitializeHandlers` registers
  no handler.

## Runs

Three processes are the fewest for the cases that matter: one that waits, one
that wakes it, and one that comes in between (two are enough for the queues,
where only the order of deposits and deliveries counts).

| Run | Shows | Bounds |
|---|---|---|
| `messaging_safety` | `TypeOK`, `SlotsPrefix`, `WaitersBlocked`, `BlockedListed`, `ReleasedDrained` | 3 processes, 2 messages of 1 and 2 bytes, a device mailbox without slots and slot size 1, one entry to create with 2 slots of size 2; mallocs fail, processes are killed |
| `messaging_queues` | `SlotsFit`, `ImplementsQueues` | 2 processes, 3 messages of 0, 1 and 2 bytes, slot counts -1, 1 and 3 (3: a shift moves two messages), slot sizes -1, 1 and 2, a device mailbox without slots; mallocs fail, kills |
| `messaging_liveness` | `NoLostWakeup`, `FreeTerminates`, `WaitersReturn` | 3 processes, one mailbox of 0 or 2 slots; kills, no failing mallocs (all three properties have that condition) |
| `mailbox_steps` | `StretchesAreSteps` | 2 processes, 2 messages of 1 byte, a mailbox without slots and one to create with no or 2 slots; mallocs fail |
| `device_steps` | `SchedulerSeesWaiters` | 3 processes, time slices everywhere but within `waitingOnDevice++` |
| `tests` | `NoOrphans`, `TestsHang`, `SendersKeepUp`, `TestsEnd`, `ChecksPass` | all 36 tests by priority, 30 of them in any order; up to 8 processes; no failing mallocs |
| `devices_safety` | `DTypeOK`, `DeviceMailboxesOwn`, `CheckIoTruthful`, `BootEstablishesInit`, `DeviceWaitersReturn` | the boot process and 2 others, the clock and a device with 2 slots, no other mailbox; mallocs fail, kills |

The table has one or two entries in each run, so that `nextMailboxId` reaches
its limit, and ids from -1 to `MaxMbox` are tried, so that the check of the
index is exercised on both sides. All state is finite without further bounds:
a process is in one list at most, and ids are never reused.
`CHECK_DEADLOCK FALSE` is set because everyone may well be blocked: the
program has no other process that would have to run.

`mailbox_steps` compares states without `result` (`VIEW ButResult`): no step reads
it, and TLC compares every step, also one into a state it has seen, with
`Messaging`, what it returns included. Signals are off there, as a signal that
arrives in the middle of a woken sender's stretch would be noticed by `Messaging` at
the stretch's end and by the code at its start.

In `tests` the numbers that only make a test long are smaller: the table has 12
entries (`MAXMBOX` 2000), the big mailbox of Test16 3 slots (2500), Test05 writes 2
characters (100), Test25 frees 2 mailboxes from the second on and makes 3 (10, from
21, 14), the other devices have mailboxes of 2 slots (10) and there are 6 of them. Each limit
is still reached and exceeded by the tests that are about it (02, 16, 25). Tests 7,
8, 10, 11, 12 and 26 have too many interleavings in any order and are run by
priority only. Two processes suffice in `mailbox_steps`, as one stretch at a time uses
a mailbox: the other process is in the list, woken, or at another mailbox.

Every property has a mutant in `PROJECT.json`: a wrong form of one definition,
written above the right one, with which the property fails.

What the less obvious properties say:

- `SlotsPrefix` is why "first empty" and "first full" keep the order.
  `ImplementsQueues` is the order itself, and the capacity: what was asked for, unless
  that was one slot. Only mailboxes that `mailbox_create` has handed out are promised
  anything. The next entry may be in use already, half made by a create that ran out
  of memory; messages sent to it on a guessed id are lost when it is made again.
- `SlotsFit`: `mailbox_receive` checks the buffer against `slotSize` and copies
  `messageSize` bytes. It also has to hold for an entry that is made again
  after a failed create. It does not say that a message fits `slot->message`, which has
  `MAX_MESSAGE` bytes: a mailbox with a larger `slot_size`, which `mailbox_create` accepts
  (Test35), lets a longer message overflow it.
- `WaitersBlocked`, `BlockedListed`: lists and sleeping processes match one to
  one. That is not obvious, since processes may wait on an id that was never
  created or whose create failed half way, and a later `mailbox_create` makes
  that entry into a mailbox under them. It leaves the lists alone, and has to.
- `NoLostWakeup`: while no one is killed and no message is empty, a sender
  sleeps only while each empty slot has an awake sender that is coming for it.
  The condition is needed: run `claim_blocked_without_slot`.
- `FreeTerminates`, `WaitersReturn`: if mallocs do not fail, `mailbox_free` returns and its
  waiters come out with -5. The condition is needed: a `mailbox_create` that runs out of
  memory leaves an entry in use that is not handed out; if it is freed, the next
  `mailbox_create` marks it in use again, a receiver that was woken in between waits on,
  and the loop of `mailbox_free` may wake it again and again (`claim_freed_waiters_leave`).
- `SendersKeepUp`: `NoLostWakeup` without its conditions, for the tests: tests 11, 12, 29
  and 30 send messages of no bytes and tests 08, 09, 17, 19 and 30 free mailboxes that
  senders sleep on, so the conditions fail there, and yet no test loses a wakeup.
- `ReleasedDrained`: only a `mailbox_free` still in its loops leaves waiters on a
  released mailbox.
- `CheckIoTruthful`: the counter matches the processes inside `wait_device`, each call
  of `wait_device` being one step up to its sleep. `SchedulerSeesWaiters` is what the scheduler
  needs of it with time slices in between: asked when no process can run, the answer is
  right. It needs the `disableInterrupts` before the decrement (the mutant leaves it out),
  and that the increment, after `enableInterrupts`, is not torn: with `SliceInIncrement`
  TRUE two increments that overlap count once, the first process to leave takes the flag
  of the other down, and the scheduler sees a deadlock in a wait for a device.
- `StretchesAreSteps`: time slices anywhere change nothing as long as the others use
  other mailboxes, and the loops over slots and nodes compute what the operators of
  `Messaging` (`Shifted`, `RunEnd`, `Append`) say.
- `TestsEnd`, `TestsHang`: see the next section. `NoOrphans`: the hand-counted
  `k_wait`s of each test are enough for its `k_spawn`s, in whatever order children
  end. (Test09 has seven for six children: the last returns at once.)

### What becomes of the tests

`TestsEnd` and `TestsHang` say which tests come to their end and which never can.

| | Tests |
|---|---|
| end in any order | 00-03, 09, 15, 17-20, 23, 25, 27, 28, 30, 31, 33-35 |
| end if the highest priority runs first | 04, 06, 07, 08, 10, 26 |
| never end: wait on a device that nothing interrupts, or stop the machine | 05, 13, 14, 32 |
| never end: wait on a mailbox without slots | 11, 12, 21, 22, 29 |
| never ends: its receiver's buffer of 100 bytes is refused by slots of 256, so the senders wait for good | 24 |
| never ends: sends for ever by intent | 16 |

`ChecksPass` says that every other check a test makes comes out well under every
schedule of the run, but for five tests:

| Test | Its check | The code |
|---|---|---|
| 18, 20 | the pausing child exits first | the receivers before it have buffers of 32 bytes for slots of 50: they get -1 at once and exit |
| 29 | zero-length receives return 0 | -1: the buffer of 0 bytes is smaller than slotSize |
| 30 | the parent's send to the one-slot mailbox returns 0 | the mailbox has no slot |
| 35 | `mailbox_create` rejects sizes out of range | it does not |

The headers of the tests that never end say that they do (16: that the machine halts).
Run `claim_tests_end_as_written` gives an endless behaviour of one of them; `TestsHang` says
that none of the eleven has any other.

### Fairness

`FairSpec` says that a process which is ready inside a call is given the CPU
again (`WF_vars(Continue(p))`), `DFairSpec` the same with the end of
`wait_device`. The code relies on that: it only calls `unblock`, and the scheduler
runs ready processes. With strict priorities a busy process of higher priority
can hold one back for ever; the liveness properties say what holds once it does
not. Nothing is assumed about processes outside calls: they need never make one.
`RFairSpec` assumes only that the CPU does not idle while some process can run
(`WF_runvars(RNext)`): which process runs is the dispatcher's choice, and `TestsEnd`
holds whatever it chooses.

### Disagreements between the code and what is written about it

Each has a run whose counterexample shows it.

| Run | Written | The code |
|---|---|---|
| `claim_send_wakes_receiver` | Test05: "delivers directly to the waiting receiver" | `mailbox_send` never wakes a receiver |
| `claim_blocked_without_slot` | `mailbox_send` blocks "if no slot available" | a woken sender that was killed leaves the slot unused, and the next one asleep |
| `claim_senders_in_order` | Test24: "in FIFO order" | a woken sender that finds the slot taken goes to the end of the list |
| `claim_freed_waiters_leave` | `mailbox_free` (`:378`): waiters are "signaled and unblocked" | a receiver freed from a half-made entry blocks on it again when the next create marks it in use |
| `claim_tests_end_as_written` | Test21 (and 11, 12, 22, 29): "delivered directly to the waiting Child2 via the zero-slot rendezvous mechanism" | on a mailbox without slots blocking sends and receives sleep side by side |
| | Test32 (and 05, 13, 14): "All four children receive their respective terminal status and exit" | nothing sends to the mailbox of a device |
| | Test24: "All 8 messages received in order" | the receiver's 100 bytes are refused by slots of 256; the senders stay blocked |

Others follow from single lines and have no run:

- a send of no bytes returns 0 and leaves its slot empty, so that no receive finds it
  (Test29:46-47, `Messaging.c:244`), and `mailbox_receive` refuses a buffer of no bytes;
- `wait_device` returns 0 also when `mailbox_receive` failed and `*status` is unset
  (`:427-429`, `:453`), and an unknown device halts instead of returning -1 (`:462`);
- `mailbox_create` takes any slot count and slot size (Test35:21-26, `:142-173`), and
  allocates no slot when one is asked for (Test30:17, `:176`);
- Test02:17 "First MAXMBOX calls succeed": the devices have eight of the entries (`:102`);
- Test23:30 "All 3 messages delivered to waiting receivers": their buffers of 100 bytes
  are refused by slots of 256, so none of them waits (`:307`);
- Test18:32 and Test20:31 "Child4 exits first": see the table above;
- slots do not come from one pool of `MAXSLOTS`, so that Test16:13-15 never halts (`:182`);
- receivers that `mailbox_free` wakes are not signalled (`:378`, `:417`), and it never
  returns -5 (`:381`, `:421`);
- released ids are never reused (Test25:20, `:146`);
- a call on an id that was never created is not always rejected (Test28:19, `:234`, `:305`);
- no clock handler exists (Test13:16, `:488`).

## Proofs

Proved for every number of processes, messages, mailboxes, slots and devices, and
any integers as arguments of `mailbox_create`:

| Module | Theorem | Statement |
|---|---|---|
| `MessagingProofs` | `TypeCorrect` | `Spec => []TypeOK` |
| | `SlotsInOrder` | `Spec => []SlotsPrefix` |
| | `MessagesFit` | `Spec => []SlotsFit` |
| | `WaitersAreBlocked` | `Spec => []WaitersBlocked` |
| | `BlockedAreListed` | `Spec => []BlockedListed` |
| | `ReleasedMailboxesDrained` | `Spec => []ReleasedDrained` |
| `WakeupProofs` | `NoWakeupLost` | `Spec => []NoLostWakeup` |
| `RefinementProofs` | `MailboxesAreQueues` | `Spec => ImplementsQueues` |
| `DevicesProofs` | `DevicesTypeCorrect` | `DSpec => []DTypeOK` |
| | `CheckIoTellsTruth` | `DSpec => []CheckIoTruthful` |
| | `DevicesKeepMailboxes` | `DSpec => []DeviceMailboxesOwn` |
| | `BootHandsOverInit` | `DSpec => BootEstablishesInit` |
| | `DevicesKeepOrder` | `DSpec => []SlotsPrefix` |
| | `DevicesKeepFit` | `DSpec => []SlotsFit` |
| | `DevicesKeepWaiters` | `DSpec => []WaitersBlocked` |
| | `DevicesKeepListed` | `DSpec => []BlockedListed` |
| | `DevicesKeepDrained` | `DSpec => []ReleasedDrained` |
| | `DevicesLoseNoWakeup` | `DSpec => []NoLostWakeup` |
| `StepsProofs` | `StretchesInOrder` | `SSpec => []StepInv` |
| | `StretchesImplementSteps` | `SSpec => StretchesAreSteps` |
| | `StatementsAreQueues` | `SSpec => P!ImplementsQueues` |
| | `StatementsKeepOrder` | `SSpec => []QuietInOrder` |
| `TestsProofs` | `TestsLeaveNoOrphans` | `RSpec => []NoOrphans` |
| | `TestsRunOnDevices` | `RSpec => DSpec` |
| | `TestsKeepMailboxes` | `RSpec => [](SlotsPrefix /\ SlotsFit /\ WaitersBlocked /\ BlockedListed)` |
| | `TestsKeepDrained` | `RSpec => []ReleasedDrained` |
| | `TestsSeeIo` | `RSpec => []CheckIoTruthful` |
| `OutcomesProofs` | `TestsNeverEnd` | `RoomForTests /\ RSpec => []TestsHang` |

They rest on the named assumptions of the modules only. `Messaging`, `Devices` and
`MailboxSteps`: there are finitely many processes (a process table), the length of
each message is a natural number, `NoMsg` is no message, the table has room for the
devices, receive buffers have natural sizes, and the boot process is a process.
`TestPrograms` and `TestRuns`: the sizes of the tests are natural numbers and Test25
frees mailboxes that it has made (`TestSizes`), processes are numbered and the boot
process is 0 (`ProcAssumption`), and the constants have the arguments that occur in
the programs (`CallsAssumption`), with a device for each name that the tests use.
`TestsNeverEnd` alone has a hypothesis, `RoomForTests`: processes 1 to 7, two mailboxes
more than the devices have, buffers of more than 100 bytes, a character to write and
mallocs that do not fail. The kernel has all of these (`MAXMBOX` 2000, `MAX_MESSAGE` 256),
and `MCTests` assumes it of the constants of the run. Without it the theorem is
false: with a full table Test16 exits instead of sending for ever.

`Inv1` is `TypeOK`, `CallOK` and `SlotsPrefix`. `TypeOK` is not inductive alone:
after `block()` the pending call is taken up again with the arguments kept in
`call`, and only `CallOK` says that they are a mailbox of the table and, for a
send, a message. `SlotsPrefix` is in it because it says which slot "first empty",
"first full" and the end of the run are (`PrefixSlots`): depositing and shifting
then keep the types and the prefix (`DepositPrefix`, `ShiftPrefix`).

`Inv2` adds `Waiters`. `WaitersBlocked` and `BlockedListed` are not inductive one
without the other: that `Append` puts no process into a list twice needs that
whoever runs is in no list, and that `unblock` of a head leaves no process
asleep without a node needs that each has one node only. Each step is one of
three kinds, each with its lemma: it touches no list (`QuietStep`), appends the
running process (`BlockStep`), or removes a head and makes it ready (`WakeStep`).
`ReleasedDrained` needs `Inv1` only: no process can enter the list of a released
mailbox, as `SendValid` and `ReceiveValid` are evaluated in the step that appends.

`NoLostWakeup` compares two numbers, the empty slots of a mailbox and its senders
that are awake. A deposit takes one of each, or an empty slot only; a sender that
sleeps again has found no empty slot; a delivery adds an empty slot and, because
`WaitersBlocked` says that the head of the list was asleep in that very send, an
awake sender. It is not inductive alone: a woken sender must not leave with -1
(`PendingFits`: its message still fits), and `mailbox_create` must not meet waiters
on the entry it takes (`Fresh`: with messages of at least one byte, slot size 0 keeps
everyone off an entry that was never reached). With `Inv2` these are inductive
(`Good`); the counting is by the library's facts about `Cardinality`.

`ImplementsQueues` follows from `Inv1`: on slots in prefix form, filling the first
empty one is `Append` to the queue (`DepositContents`) and the shift is `Tail`
(`ShiftContents`). Each action of `Messaging` is then one action of `MailboxQueue`: a
create that returns an id is `Open`, as `Allocated` is the `Room` asked for, and one that
runs out of memory is `OpenHalfWay`, which leaves alone all that has been handed out. The
loops of `mailbox_free` and its return are stutters, as the queue was closed and
the answer fixed when the mailbox was marked.

`DInv` says that `waitingOnDevice` is the cardinality of the set of processes
inside `wait_device`, which the two ends of `wait_device` change by one process.
`BootInv` says of the devices that have been given a mailbox, before the boot is
over, what `DeviceMailboxesOwn` says of all of them; afterwards it is kept because no
call changes how many slots a mailbox that was handed out has, or lowers
`nextMailboxId` (`SameLengths`). `BootSoFar` is the table in the middle of a boot
without failures.

The invariants of `Messaging` do not carry over to `Devices` by themselves:
`DSpec` does not start in `Init`, creates of the boot have arguments that no process
may give, and a receive inside `wait_device` is not a `Receive`. `DStepKinds` says that
a step of `Devices` is a step of `Messaging`, a create by the boot process (`Making`),
the receive of a `wait_device` (`Waiting`), or leaves the mailboxes alone (`Aside`).
`Making` needs `QuietBoot`, that nobody is inside a call during the boot, `Aside` that
`BootFinish` does not lower `nextMailboxId` (`BootInv`). The lemmas about creates and
`ReceiveTurn` are stated for any integers, so that they serve for `Making` and
`Waiting` too. `SystemInv` is the conjunction of the invariants.

`StepInv` says for each statement how the mailbox in the table differs from the one
that `Messaging` is shown. While a sender looks for a slot and while it copies they are
equal, and the slots it has passed are full (`InSend`); a receiver that shifts has
moved the slots from the first full one up to `i` (`ShiftedUpTo`), so that when it comes
to the end of the run the table holds `Shifted` of what is shown (`Delivered`); between
taking a node out and `unblock()` the list is one shorter and the node is the head that
is shown (`Taking`, `InFree`); and a mailbox that nobody is at is as it is shown
(`ShownIsView`). Stretches on one mailbox do not overlap (`Apart`), which is the guard
`Alone`. That is not enough: a receive or a free on one mailbox wakes or kills a
process that could be in the middle of a stretch on another one. It never is, because
a listed process is blocked, which is `Inv2` of `MessagingProofs` for the shown
mailboxes (`P!Inv2`), kept by the very steps of `Messaging` that the stretches are
shown to take. As these steps are those of the queues, so are the statements
(`StatementsAreQueues`), and `QuietInOrder` says the same of the table itself, without
the history variable.

`NoOrphans` is about 36 programs of data. `Leads(s, n, k, b, k2, b2)` says that program
`s`, begun with `k` children not yet waited for and `b` mailboxes created, ends with
`k2` and `b2`, whatever its calls return: that an instruction is repeated or left only
forward, that a program that exits early has no children, that a mailbox is used only
when it has been created, and that children are started only when there are as many
mailboxes (`n`) as they count on. It is certified by the two functions that give these numbers
before each instruction, so that programs are put together (`LeadsConcat`) and taken
apart (`LeadsOn`) without induction. `AllTestsSound` gives each test such an `n`, for
every value of the constants that make its programs long. `RunInv` then says where
each process is: what it has still to do leads from at least as many children as it
has to none, and from no more mailboxes than there are (`OnTrack`); a process inside a
call is at that call in its program (`InCall`); the boot process only spawns and waits
(`MainOnly`). With it every call of a test is one that `Devices` allows
(`CallAllowed`), so that `RSpec` implements `DSpec` and all that is proved of
`Devices` holds of the tests.

`TestsHang` says how the programs come out, so it needs where they are. Each of the
eleven tests has a process (`Sleeper`) with an instruction (`Bar`) that it never gets
past: it waits on a device, it sends to a mailbox where it finds no room, or it
goes round in a loop. `Shaped` says what the programs of such a test have in common,
checked for each of them (`Shaped05` to `Shaped32`): which mailboxes process 1 makes
first, that nothing is freed, that nobody receives from the mailbox of the bar with a
buffer large enough, and where those that the sleeper descends from are spawned.
`BInv` then says of every state that each process has done the first `Done(p)`
instructions of its program and has the others before it (`Located`), a pending call is that
of the instruction where its process is (`Matches`), the family is born where it should be
(`Kin`), the mailboxes are those the test made and those of the devices are empty
(`BoxesMade`, `DevicesQuiet`), in Test24 the slots are full before the others are
spawned (`Filled`), nothing is freed or killed (`Unfreed`) and the sleeper has not
passed its bar (`HeldBack`). None of these is inductive alone: that the sleeper finds no
room needs that nobody emptied its mailbox, which needs what every pending call is, which
needs where every process is. A call that completes goes on by its result only, so
the results have to be known: `SendOutcome` and `ReceiveOutcome` say what a send and
a receive return and do to the slots. By `NoOrphans` a process does not exit before its
children, so the boot process does not before the sleeper (`ParentsFirst`, `NoEnd`). Tests 11 and
12, which the run has by priority only, are covered in any order.

Only model-checked:

- liveness (`FreeTerminates`, `WaitersReturn`, `DeviceWaitersReturn`, `TestsEnd`),
  which is out of reach of the prover, as are `ENABLED` and induction over data;
- `ChecksPass`: that the results are those expected needs the exact contents of the
  mailboxes at each check, test by test;
- `SendersKeepUp`: `NoWakeupLost` has conditions that some tests do not meet, so it
  needs to be known of each of those tests who sends what to which mailbox;
- `SchedulerSeesWaiters`, of the small module `DeviceSteps`.

## Not modelled

- Time slices that let two calls into one mailbox: what they do depends on the
  statement they fall on, down to the order of writes in a `memcpy`; the models
  say that they must not happen (`Alone`).
- `k_join`, `k_getpid` and the process table; a signal to a test's process other than
  by `mailbox_free`.
- Message lengths below 0, and `slot_size` above `MAX_MESSAGE` with a message as long:
  both make the copies of `mailbox_send` undefined. The bytes of a message.
- The handlers, the system call vector and `checkKernelMode`, for the reasons in
  `PROJECT.json`; the memory of slots and nodes (the code frees a node
  after its last use and never frees a slot).
- The utilities of `TestCommon.c` that format and parse strings or wait, and its
  children of scheduler tests, which no messaging test starts.

## Plan

1. `ChecksPass` for the tests with one process (00-03, 15, 25, 28, 33, 34), for every
   size of the table that their mailboxes fit into: what a lone process gets back is
   determined by its program. `Located` and `Matches` of `OutcomesProofs` hold for it too.
2. `SendersKeepUp` for every test: those that free nothing kill nobody, those that send
   messages of no bytes and sleep do so on mailboxes without slots, and those that free
   do so to their only mailbox.
