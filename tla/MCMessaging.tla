---------------------------- MODULE MCMessaging ----------------------------
(* Values of the constants of Messaging for TLC. *)
EXTENDS MessagingRefinement, MessagingClaims, TLC

CONSTANTS p1, p2, p3, a, b, z

Procs2 == {p1, p2}
Procs3 == {p1, p2, p3}
Procs3Symmetry == Permutations(Procs3)

Procs2Symmetry == Permutations(Procs2)

(* z is the message of no bytes *)
ZeroSize == a :> 1 @@ z :> 0
ThreeSizes == a :> 1 @@ b :> 2 @@ z :> 0
OneSize == a :> 1
MixedSize == a :> 1 @@ b :> 2

(* what a caller may ask mailbox_create for, sensible or not *)
AnyCounts == {-1, 1, 3}
AnySizes == {-1, 1, 2}
=============================================================================
