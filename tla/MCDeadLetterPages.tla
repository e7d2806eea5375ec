------------------------- MODULE MCDeadLetterPages -------------------------
(* A small instance of DeadLetterPages for TLC. *)
EXTENDS DeadLetterPages

Upto(c, a, f, o) ==
    [b \in {"click", "arrive", "fault", "outside"} |->
        CASE b = "click" -> c [] b = "arrive" -> a [] b = "fault" -> f [] b = "outside" -> o]
OneThingAtATime == {Upto(2, 0, 1, 0), Upto(1, 1, 0, 1)}
=============================================================================
