------------------------------ MODULE MCConsole ------------------------------
(* Small instances of Console for TLC: one activity at a time, with another   *)
(* tab signing in and out.                                                    *)
EXTENDS Console

Upto(g, s, v, m, f) ==
    [a \in Activities |-> CASE a = "go" -> g [] a = "sign" -> s [] a = "save" -> v
                             [] a = "make" -> m [] a = "fault" -> f]
EachActivity ==
    {Upto(1, 3, 0, 0, 1), Upto(1, 1, 2, 0, 1), Upto(2, 0, 2, 0, 1), Upto(2, 1, 0, 2, 1),
     Upto(2, 0, 0, 4, 1)}
=============================================================================
