--------------------------- MODULE MCCodegenQueue ---------------------------
(* Small instances of CodegenQueue for TLC. *)
EXTENDS CodegenQueue

CONSTANTS s1, s2, w1

\* The worker belongs to s1; a second server takes part through its reclaimer,
\* its requests and its administrators.
WorkerOnS1 == [w \in {w1} |-> s1]

ReplicaBudget == [stop |-> 1, fault |-> 1, drain |-> 0]
LiveBudget    == [stop |-> 1, fault |-> 1, drain |-> 1]
DrainBudget   == [stop |-> 0, fault |-> 0, drain |-> 3]
=============================================================================
