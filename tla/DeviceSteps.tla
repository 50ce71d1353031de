---------------------------- MODULE DeviceSteps ----------------------------
(***************************************************************************)
(* The statements of wait_device around the counter that                   *)
(* check_io_messaging looks at, and the interrupt flag that guards some of *)
(* them.  Devices has all up to the first sleep in one step; here a timer  *)
(* interrupt takes the CPU away after any statement that runs with         *)
(* interrupts enabled.                                                     *)
(*                                                                         *)
(* Of the mailbox only this is left: a turn of mailbox_receive returns or  *)
(* sleeps, and a process that is not inside wait_device wakes a sleeper.   *)
(* An unknown device, which stops the machine, is left out.                *)
(***************************************************************************)
EXTENDS Integers

CONSTANTS
    Proc,               \* the processes
    Nobody,             \* who has the CPU when no process can run
    SliceInIncrement    \* may a time slice come between the load and the store
                        \* of waitingOnDevice++, as the build may have them?

ASSUME NobodyAssumption == Nobody \notin Proc
ASSUME SliceAssumption == SliceInIncrement \in BOOLEAN

VARIABLES
    at,                 \* the statement each process is at
    register,           \* waitingOnDevice as it has loaded it
    waitingOnDevice,
    interrupts,         \* are they enabled while the process runs?
    running             \* who has the CPU

wvars == <<at, register, waitingOnDevice, interrupts, running>>

Statement == {"outside", "increment", "incremented", "receive", "asleep",
              "received", "decrement", "decremented", "gone"}

WInit ==
    /\ at = [p \in Proc |-> "outside"]
    /\ register = [p \in Proc |-> 0]
    /\ waitingOnDevice = 0
    /\ interrupts = [p \in Proc |-> TRUE]
    /\ running \in Proc

Ready(p) == at[p] \notin {"asleep", "gone"}

(* the running process p goes from one statement to the next *)
Goes(p, from, to) ==
    /\ running = p
    /\ at[p] = from
    /\ at' = [at EXCEPT ![p] = to]

(* the CPU goes to a process that is ready, if there is one *)
Dispatch ==
    \/ \E q \in Proc : Ready(q)' /\ running' = q
    \/ running' = Nobody /\ \A q \in Proc : ~Ready(q)'

-----------------------------------------------------------------------------
(* wait_device                                                             *)

Enter(p) ==
    /\ Goes(p, "outside", "increment")
    /\ interrupts' = [interrupts EXCEPT ![p] = TRUE]
    /\ UNCHANGED <<register, waitingOnDevice, running>>

LoadIncremented(p) ==
    /\ Goes(p, "increment", "incremented")
    /\ register' = [register EXCEPT ![p] = waitingOnDevice + 1]
    /\ UNCHANGED <<waitingOnDevice, interrupts, running>>

StoreIncremented(p) ==
    /\ Goes(p, "incremented", "receive")
    /\ waitingOnDevice' = register[p]
    /\ UNCHANGED <<register, interrupts, running>>

(* mailbox_receive finds a message, or fails *)
ReceiveReturns(p) ==
    /\ Goes(p, "receive", "received")
    /\ UNCHANGED <<register, waitingOnDevice, interrupts, running>>

(* mailbox_receive blocks *)
ReceiveSleeps(p) ==
    /\ Goes(p, "receive", "asleep")
    /\ Dispatch
    /\ UNCHANGED <<register, waitingOnDevice, interrupts>>

(* A wrong form of Disable: interrupts stay enabled. *)
DisableMissing(p) ==
    /\ Goes(p, "received", "decrement")
    /\ UNCHANGED <<register, waitingOnDevice, interrupts, running>>

Disable(p) ==
    /\ Goes(p, "received", "decrement")
    /\ interrupts' = [interrupts EXCEPT ![p] = FALSE]
    /\ UNCHANGED <<register, waitingOnDevice, running>>

LoadDecremented(p) ==
    /\ Goes(p, "decrement", "decremented")
    /\ register' = [register EXCEPT ![p] = waitingOnDevice - 1]
    /\ UNCHANGED <<waitingOnDevice, interrupts, running>>

(* and wait_device returns, interrupts still disabled *)
StoreDecremented(p) ==
    /\ Goes(p, "decremented", "outside")
    /\ waitingOnDevice' = register[p]
    /\ UNCHANGED <<register, interrupts, running>>

-----------------------------------------------------------------------------
(* What else happens to a process: it wakes one that sleeps, by a send to  *)
(* the device's mailbox or by freeing it; it exits; it loses the CPU to a  *)
(* timer interrupt, or gives it up outside of wait_device.                 *)

Wake(p, q) ==
    /\ running = p /\ at[p] = "outside"
    /\ at[q] = "asleep"
    /\ at' = [at EXCEPT ![q] = "receive"]
    /\ UNCHANGED <<register, waitingOnDevice, interrupts, running>>

Quit(p) ==
    /\ Goes(p, "outside", "gone")
    /\ Dispatch
    /\ UNCHANGED <<register, waitingOnDevice, interrupts>>

Sliceable(p) ==
    \/ at[p] = "outside"
    \/ interrupts[p] /\ (at[p] = "incremented" => SliceInIncrement)

Slice(p) ==
    /\ running = p
    /\ Sliceable(p)
    /\ \E q \in Proc : Ready(q) /\ running' = q
    /\ UNCHANGED <<at, register, waitingOnDevice, interrupts>>

WNext == \E p \in Proc :
    \/ Enter(p) \/ LoadIncremented(p) \/ StoreIncremented(p)
    \/ ReceiveReturns(p) \/ ReceiveSleeps(p)
    \/ Disable(p) \/ LoadDecremented(p) \/ StoreDecremented(p)
    \/ Quit(p) \/ Slice(p)
    \/ \E q \in Proc : Wake(p, q)

WSpec == WInit /\ [][WNext]_wvars

-----------------------------------------------------------------------------
(* Properties                                                              *)

CheckIo == waitingOnDevice # 0

(* When no process can run, and the scheduler asks check_io_messaging      *)
(* whether that is a deadlock, the answer is yes exactly if one is asleep  *)
(* in wait_device.  disableInterrupts before waitingOnDevice-- is needed   *)
(* for that, and is enough if the increment, which comes after             *)
(* enableInterrupts, is not torn.                                          *)
SchedulerSeesWaiters ==
    ~SliceInIncrement =>
        (running = Nobody => (CheckIo <=> \E p \in Proc : at[p] = "asleep"))
=============================================================================
