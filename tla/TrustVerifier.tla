---------------------------- MODULE TrustVerifier ----------------------------
(***************************************************************************)
(* Readers of an organization's keys: the published key set and its cache  *)
(* in Redis (OrgJWKS), and programs that verify trust tokens with the Go   *)
(* SDK, through a TrustCache (VerifyTrustTokenOfflineCached) or without    *)
(* one (VerifyTrustTokenOffline, which the Node SDK has as well).          *)
(*                                                                         *)
(* A verification takes one step between two network calls, and several    *)
(* run at a time.  What a token says, who signed it and whether it has     *)
(* expired are left open: a verification may refuse at every look at a key *)
(* set.  The revocation list is left out, because the route asks for an    *)
(* administrator's session and no SDK sends one: the Go cache takes the    *)
(* refusal for an empty list.  Time is abstracted: what has a lifetime may *)
(* expire at any moment.                                                   *)
(***************************************************************************)
EXTENDS TrustKeys, FiniteSets

CONSTANTS
    Requests, \* verifications running at the same time, numbered
    Limit     \* rows OrgJWKS reads at most (10 in the code)

ASSUME TrustVerifierAssumption == Requests \subseteq Nat /\ Limit \in Nat \ {0}

VARIABLES
    published, \* key set cached in Redis
    held,      \* the TrustCache: whether it has a key set, and within its TTL
    reqs       \* running verifications

verifierVars == <<published, held, reqs>>
vars == <<keyVars, verifierVars, budget>>

\* A call of FetchJWKS on behalf of the TrustCache (forCache) knows the key set
\* that was held when it started, if there was one (spare).
NoReq == [at |-> "idle", forCache |-> FALSE, spare |-> FALSE, keys |-> {}]

TypeOK ==
    /\ KeysTypeOK
    /\ published \in [cached : BOOLEAN, keys : SUBSET Ids]
    /\ held \in [ok : BOOLEAN, fresh : BOOLEAN, keys : SUBSET Ids] /\ (held.fresh => held.ok)
    /\ reqs \in [Requests -> [at : {"idle", "ask", "store", "answered", "look", "judge"},
                              forCache : BOOLEAN, spare : BOOLEAN, keys : SUBSET Ids]]

-----------------------------------------------------------------------------
\* The keys with a public part among the n newest active ones, in the order of
\* created_at.
NewestPublic(n) == {k \in Active : rows[k].public /\ Cardinality({j \in Active : j > k}) < n}
Current == NewestPublic(Limit)

Becomes(v, f) == reqs' = [reqs EXCEPT ![v] = f]

Starts(v) ==
    setting.verified /\ reqs[v].at = "idle" /\ \A w \in Requests : w < v => reqs[w].at # "idle"
\* Mutant: the age of the set that is held is not looked at.
VerifyHeld(v) ==
    /\ Starts(v)
    /\ Becomes(v, [NoReq EXCEPT !.at = IF held.ok THEN "look" ELSE "ask", !.forCache = ~held.ok,
                                !.keys = held.keys])
    /\ UNCHANGED <<keyVars, published, held, budget>>
\* VerifyTrustTokenOfflineCached begins with GetJWKS, which asks when the set it
\* holds is too old.
VerifyCached(v) ==
    /\ Starts(v)
    /\ Becomes(v, [NoReq EXCEPT !.at = IF held.fresh THEN "look" ELSE "ask", !.forCache = ~held.fresh,
                                !.spare = ~held.fresh /\ held.ok, !.keys = held.keys])
    /\ UNCHANGED <<keyVars, published, held, budget>>
\* A call of VerifyTrustTokenOffline that reaches FetchJWKS.
Verify(v) ==
    /\ Starts(v) /\ Becomes(v, [NoReq EXCEPT !.at = "ask"])
    /\ UNCHANGED <<keyVars, published, held, budget>>

\* OrgJWKS, for FetchJWKS: the set cached in Redis, or else rows of the database,
\* which a later step stores.  An error of Redis counts as a miss.
FromRedis(v) == /\ published.cached
                /\ Becomes(v, [reqs[v] EXCEPT !.at = "answered", !.keys = published.keys])
\* An error between two rows ends the set early, and that is stored as well; an
\* error of the query is answered with an empty set and status 200.
FromRows(v, n) == Becomes(v, [reqs[v] EXCEPT !.at = "store", !.keys = NewestPublic(n)])
QueryFails(v)  == Becomes(v, [reqs[v] EXCEPT !.at = "answered", !.keys = {}])
\* A fetch that fails ends the verification, unless a key set is held, however old.
FetchFails(v)  == Becomes(v, IF reqs[v].spare THEN [reqs[v] EXCEPT !.at = "look"] ELSE NoReq)
OrgJWKS(v) ==
    /\ reqs[v].at = "ask"
    /\ \/ FromRedis(v) /\ UNCHANGED budget
       \/ ~published.cached /\ FromRows(v, Limit) /\ UNCHANGED budget
       \/ published.cached /\ FromRows(v, Limit) /\ Fault
       \/ ~published.cached /\ Fault /\ (QueryFails(v) \/ \E n \in 0..Limit - 1 : FromRows(v, n))
       \/ FetchFails(v) /\ Fault
    /\ UNCHANGED <<keyVars, published, held>>
\* The error of the SET is discarded.
StoreJWKS(v) ==
    /\ reqs[v].at = "store" /\ Becomes(v, [reqs[v] EXCEPT !.at = "answered"])
    /\ \/ published' = [cached |-> TRUE, keys |-> reqs[v].keys] /\ UNCHANGED budget
       \/ Fault /\ UNCHANGED published
    /\ UNCHANGED <<keyVars, held>>

\* Mutant: the time of the refresh is noted and its key set is not.
FetchedTimeOnly(v) ==
    /\ reqs[v].at = "answered"
    /\ held' = IF reqs[v].forCache THEN [held EXCEPT !.fresh = TRUE] ELSE held
    /\ Becomes(v, [reqs[v] EXCEPT !.at = IF reqs[v].forCache THEN "look" ELSE "judge"])
    /\ UNCHANGED <<keyVars, published, budget>>
\* The answer arrives; GetJWKS takes the set over, whatever is held by now.
Fetched(v) ==
    /\ reqs[v].at = "answered"
    /\ held' = IF reqs[v].forCache THEN [ok |-> TRUE, fresh |-> TRUE, keys |-> reqs[v].keys] ELSE held
    /\ Becomes(v, [reqs[v] EXCEPT !.at = IF reqs[v].forCache THEN "look" ELSE "judge"])
    /\ UNCHANGED <<keyVars, published, budget>>

\* VerifyTrustTokenOfflineCached looks for the token's key, and the call it ends
\* with, VerifyTrustTokenOffline, fetches the key set once more to judge by.
LookUp(v) ==
    /\ reqs[v].at = "look"
    /\ \/ Becomes(v, NoReq)
       \/ reqs[v].keys # {} /\ Becomes(v, [NoReq EXCEPT !.at = "ask"])
    /\ UNCHANGED <<keyVars, published, held, budget>>
Judge(v) ==
    /\ reqs[v].at = "judge" /\ Becomes(v, NoReq)
    /\ UNCHANGED <<keyVars, published, held, budget>>

\* Either cache expires; the TrustCache keeps the set it held.
ExpirePublished ==
    /\ published.cached /\ published' = [cached |-> FALSE, keys |-> {}]
    /\ UNCHANGED <<keyVars, held, reqs, budget>>
ExpireHeld ==
    /\ held.fresh /\ held' = [held EXCEPT !.fresh = FALSE]
    /\ UNCHANGED <<keyVars, published, reqs, budget>>

-----------------------------------------------------------------------------
Init ==
    /\ KeysInit
    /\ published = [cached |-> setting.cached, keys |-> IF setting.cached THEN Current ELSE {}]
    /\ held = [ok |-> FALSE, fresh |-> FALSE, keys |-> {}]
    /\ reqs = [v \in Requests |-> NoReq]

Run(v) == OrgJWKS(v) \/ StoreJWKS(v) \/ Fetched(v) \/ LookUp(v) \/ Judge(v)
Next ==
    \/ KeysNext /\ UNCHANGED verifierVars
    \/ \E v \in Requests : VerifyCached(v) \/ Verify(v) \/ Run(v)
    \/ ExpirePublished \/ ExpireHeld

\* Verifications run to their end, what has a lifetime expires, the sweeper ticks.
Fairness ==
    /\ \A v \in Requests : WF_vars(Run(v))
    /\ WF_vars(ExpirePublished) /\ WF_vars(ExpireHeld)
    /\ WF_vars((\E k \in Ids : Sweep(k)) /\ UNCHANGED <<verifierVars, setting>>)
Spec == Init /\ [][Next]_vars /\ Fairness

-----------------------------------------------------------------------------
\* Once the keys stay as they are, every key set that a verification looks at or
\* judges by comes to be theirs, however late a slow handler stored an older or a
\* shortened one in Redis, a slow fetch kept one in the TrustCache, or a failing
\* one fell back on it (OrgJWKS; GetJWKS of trust_cache.go).
KeySetCatchesUp ==
    \A S \in SUBSET Ids :
        <>[](Current = S) => <>[](\A v \in Requests : reqs[v].at \in {"look", "judge"} => reqs[v].keys = S)
=============================================================================
