----------------------------- MODULE PolicyBoard -----------------------------
(***************************************************************************)
(* What the policy governance of the AURA backend promises, without        *)
(* statements, locks or replicas: users vote for policy versions, and a    *)
(* version enters into force only while it has the required votes.         *)
(* PolicyLifecycle implements it.                                          *)
(***************************************************************************)
CONSTANTS
    Keys,    \* pairs of a policy and a version of it
    Users,
    Quorums  \* sets of users whose votes suffice

VARIABLES
    votes,   \* users who approved each version
    inForce  \* versions that decide requests

Init ==
    /\ votes = [k \in Keys |-> {}]
    /\ inForce = {}

Vote(k, u) ==
    /\ votes' = [votes EXCEPT ![k] = @ \cup {u}]
    /\ UNCHANGED inForce

\* One version enters; versions of the same policy may leave with that step.
Enact(k) ==
    /\ votes[k] \in Quorums
    /\ k \in inForce'
    /\ inForce' \subseteq inForce \cup {k}
    /\ \A j \in inForce : j[1] # k[1] => j \in inForce'
    /\ UNCHANGED votes

Repeal(k) ==
    /\ inForce' = inForce \ {k}
    /\ UNCHANGED votes

Next == \E k \in Keys : Enact(k) \/ Repeal(k) \/ \E u \in Users : Vote(k, u)

Spec == Init /\ [][Next]_<<votes, inForce>>
==============================================================================
