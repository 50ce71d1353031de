----------------------------- MODULE MCDevices -----------------------------
(* Values of the constants of Devices for TLC. *)
EXTENDS Devices, TLC

CONSTANTS p1, p2, a

Procs == {Main, p1, p2}
UserSymmetry == Permutations({p1, p2})
OneSize == a :> 1
=============================================================================
