-------------------------- MODULE MCMailboxSteps --------------------------
(* Values of the constants of MailboxSteps for TLC. *)
EXTENDS MailboxSteps, TLC

CONSTANTS p1, p2, a, b

Procs == {p1, p2}
Messages == {a, b}
Symmetry == Permutations(Procs) \union Permutations(Messages)

(* No step looks at what a call has returned, so states that differ in     *)
(* result only do the same from there on; what each step returns is still  *)
(* compared with Messaging, at every step.                                 *)
ButResult == <<table, shown, frame, nextMailboxId, call, pstate, signal>>

SameSize == a :> 1 @@ b :> 1
=============================================================================
