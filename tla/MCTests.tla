------------------------------ MODULE MCTests ------------------------------
(* Values of the constants of TestRuns for TLC. *)
EXTENDS TestRuns

(* every message of a test, by its number and its length *)
Texts == (0 .. 20) \X (0 .. 30)
TextLength == [m \in Texts |-> m[2]]

Counts == -1 .. 20
Lengths == -1 .. MAX_MESSAGE + 1
Buffers == 0 .. MAX_MESSAGE

(* the tests that never end, each by priority *)
NeverEnding == (NeverEnd \ {16}) \X {"priority"}

Procs == 0 .. 7

(* There is the room that the theorem about the tests that hang asks for. *)
ASSUME RoomForTestsHolds == RoomForTests

(* every test by priority; in any order those of at most 25,000 states     *)
Handled ==
    (0 .. 35) \X {"priority"}
    \union ((0 .. 35) \ {7, 8, 10, 11, 12, 26}) \X {"any"}
Handles == [name \in {"clock", "term0", "term1", "term2", "term3"} |->
              CASE name = "clock" -> 0 [] name = "term0" -> 1 [] name = "term1" -> 2
                [] name = "term2" -> 3 [] name = "term3" -> 4]
=============================================================================
