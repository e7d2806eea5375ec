------------------------- MODULE MCPolicyLifecycle -------------------------
(* Small instances of PolicyLifecycle for TLC. *)
EXTENDS PolicyLifecycle, TLC

CONSTANTS s1, s2, r1, r2, p1

OneServer  == [r \in Requests |-> s1]
TwoServers == (r1 :> s1) @@ (r2 :> s2)
Everybody  == [s \in Servers |-> Servers]
Alike          == Permutations(Users) \cup Permutations(Sound)
FirstRolledOut == {<<p1, 1>>}
=============================================================================
