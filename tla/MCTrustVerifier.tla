--------------------------- MODULE MCTrustVerifier ---------------------------
(* Small instances of TrustVerifier for TLC: administrators at work, and      *)
(* verifiers at work while keys change or calls fail.                         *)
EXTENDS TrustVerifier

Upto(c, f) == [b \in Kinds |-> IF b = "click" THEN c ELSE f]
Overlap   == [oneActive |-> FALSE, cached |-> FALSE, verified |-> FALSE, keys |-> 1]
Single    == [Overlap EXCEPT !.oneActive = TRUE]
Reading   == [Overlap EXCEPT !.verified = TRUE, !.keys = 2]
On(s, B)  == {[budget |-> b, setting |-> s] : b \in B}

KeysAndReaders ==
    On(Overlap, {Upto(3, 0), Upto(2, 1)}) \cup On(Single, {Upto(2, 0)})
      \cup On(Reading, {Upto(1, 0)}) \cup On([Reading EXCEPT !.cached = TRUE], {Upto(0, 2)})
OneRotation == On(Single, {Upto(1, 0)})
=============================================================================
