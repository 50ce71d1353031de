--------------------------- MODULE MCDeviceSteps ---------------------------
(* Values of the constants of DeviceSteps for TLC. *)
EXTENDS DeviceSteps, TLC

CONSTANTS p1, p2, p3

Procs3 == {p1, p2, p3}
Procs3Symmetry == Permutations(Procs3)
=============================================================================
