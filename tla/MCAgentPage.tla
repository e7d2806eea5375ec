----------------------------- MODULE MCAgentPage -----------------------------
(* Small instances of AgentPage for TLC: one activity of the user at a time,  *)
(* most with a fault.                                                         *)
EXTENDS AgentPage

Upto(o, e, s, k, g, f, l) ==
    [b \in Kinds |-> CASE b = "open" -> o [] b = "edit" -> e [] b = "start" -> s [] b = "key" -> k
                       [] b = "get" -> g [] b = "fault" -> f [] b = "logout" -> l]
EachActivity ==
    {Upto(2, 4, 0, 0, 0, 2, 1), Upto(1, 1, 2, 0, 0, 0, 0), Upto(1, 1, 1, 0, 1, 1, 0),
     Upto(2, 2, 1, 0, 0, 0, 0), Upto(1, 1, 0, 2, 0, 1, 1), Upto(0, 0, 0, 4, 0, 2, 1)}
=============================================================================
