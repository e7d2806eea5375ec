--------------------------- MODULE PolicyLifecycle ---------------------------
(***************************************************************************)
(* The life of a policy version in the AURA backend: added as a draft,     *)
(* approved by enough users, activated, and read by the verification       *)
(* endpoint through a cache of compiled bodies in every replica.           *)
(* Source: backend/internal/policy/repo.go and cache.go, and the handlers  *)
(* in backend/internal/api/policy_*.go and verify_v2.go.                   *)
(*                                                                         *)
(* A step is one SQL statement.  Statements run under READ COMMITTED: an   *)
(* UPDATE fixes the rows it will touch when it starts, then takes their    *)
(* locks one by one and waits for those another transaction holds.  A      *)
(* statement that only reads rows nobody ever changes (a policy, a body)   *)
(* is part of the step that uses what it read.  A refusal that has changed *)
(* nothing is no step.                                                     *)
(***************************************************************************)
EXTENDS Naturals, FiniteSets

CONSTANTS
    Servers,     \* backend processes
    Requests,    \* requests being served at one time
    Home,        \* Home[r] is the process that serves r
    Listeners,   \* Listeners[s]: processes reached by the event bus of s
    Policies, Users,
    Bodies,      \* contents of versions
    Sound,       \* bodies that compile
    NoBody, NoKey,
    Required,    \* AURA_POLICY_APPROVALS_REQUIRED
    Rollouts,    \* active rows of policy_rollouts, which no code writes
    MaxVersion   \* bound: versions of a policy

ASSUME PolicyAssumption ==
    /\ Home \in [Requests -> Servers]
    /\ Listeners \in [Servers -> SUBSET Servers]
    /\ IsFiniteSet(Users) /\ NoKey \notin Policies \X (1..MaxVersion)
    /\ Sound \subseteq Bodies /\ NoBody \notin Bodies
    /\ Required \in Nat \ {0} /\ MaxVersion \in Nat \ {0}
    /\ Rollouts \subseteq Policies \X (1..MaxVersion)

VARIABLES
    policies,   \* rows of policies
    body,       \* body of each version, NoBody when there is no such row
    status,     \* committed status of each version, "none" when there is no row
    approvals,  \* rows of policy_version_approvals
    assigned,   \* policies assigned to the organization
    pc,         \* where each request is
    aim,        \* the version it is about
    rows,       \* versions its UPDATE will touch
    holds,      \* row locks its transaction has
    used,       \* the body a verification evaluates
    cache,      \* compiledCache of each process
    inval,      \* policy.invalidate events on the way
    activated,  \* history: versions that have been active
    dropped,    \* history: versions whose approval request stopped half-way
    raced       \* history: policies that grew while an UPDATE of theirs ran

tableVars   == <<policies, body, status, approvals, assigned>>
requestVars == <<pc, aim, rows, holds, used>>
cacheVars   == <<cache, inval>>
histVars    == <<activated, dropped, raced>>
vars == <<tableVars, requestVars, cacheVars, histVars>>

Versions == 1..MaxVersion
Key      == Policies \X Versions
Statuses == {"none", "draft", "approved", "active"}
Places   == {"idle", "insert", "count", "promote", "demote", "lock", "invalidate",
             "listed", "compile", "answer"}
Exists(p) == {k \in Key : k[1] = p /\ body[k] # NoBody}
Quorum(k) == Cardinality(approvals[k]) >= Required

TypeTables ==
    /\ policies \subseteq Policies /\ assigned \subseteq policies
    /\ body \in [Key -> Bodies \cup {NoBody}]
    /\ status \in [Key -> Statuses]
    /\ approvals \in [Key -> SUBSET Users]

TypeRequests ==
    /\ pc \in [Requests -> Places]
    /\ aim \in [Requests -> Key \cup {NoKey}]
    /\ \A r \in Requests : aim[r] = NoKey <=> pc[r] = "idle"
    /\ rows \in [Requests -> SUBSET Key]
    /\ holds \in [Requests -> SUBSET Key]
    /\ used \in [Requests -> Bodies \cup {NoBody}]

TypeCaches ==
    /\ cache \in [Servers -> [Key -> Bodies \cup {NoBody}]]
    /\ inval \subseteq Servers \X Policies

TypeHistory ==
    activated \subseteq Key /\ dropped \subseteq Key /\ raced \subseteq Policies

TypeOK == TypeTables /\ TypeRequests /\ TypeCaches /\ TypeHistory

Init ==
    /\ policies = {} /\ assigned = {}
    /\ body = [k \in Key |-> NoBody]
    /\ status = [k \in Key |-> "none"]
    /\ approvals = [k \in Key |-> {}]
    /\ pc = [r \in Requests |-> "idle"]
    /\ aim = [r \in Requests |-> NoKey]
    /\ rows = [r \in Requests |-> {}]
    /\ holds = [r \in Requests |-> {}]
    /\ used = [r \in Requests |-> NoBody]
    /\ cache = [s \in Servers |-> [k \in Key |-> NoBody]]
    /\ inval = {}
    /\ activated = {} /\ dropped = {} /\ raced = {}

Begin(r, place, k) ==
    /\ pc' = [pc EXCEPT ![r] = place]
    /\ aim' = [aim EXCEPT ![r] = k]
Go(r, place) ==
    /\ pc' = [pc EXCEPT ![r] = place]
    /\ UNCHANGED aim
Reply(r) == Begin(r, "idle", NoKey)

\* A row some other transaction has updated: later writers of it wait.
Locked(r, k) == \E q \in Requests \ {r} : k \in holds[q]

-----------------------------------------------------------------------------
(* CreatePolicy, AddPolicyVersion and AssignPolicy.                        *)

CreatePolicy(p) ==
    /\ p \notin policies
    /\ policies' = policies \cup {p}
    /\ UNCHANGED <<body, status, approvals, assigned, requestVars, cacheVars, histVars>>

\* COALESCE(MAX(version), 0) + 1
IsNextVersion(p, v) ==
    /\ \A k \in Exists(p) : k[2] < v
    /\ v = 1 \/ <<p, v - 1>> \in Exists(p)

ReadMaxVersion(r, p, v) ==
    /\ pc[r] = "idle" /\ p \in policies
    /\ IsNextVersion(p, v)
    /\ Begin(r, "insert", <<p, v>>)
    /\ UNCHANGED <<tableVars, rows, holds, used, cacheVars, histVars>>

\* The unique index on (policy_id, version) refuses a number taken since.
\* A body that is compiled into the cache here leaves it in "invalidate".
InsertVersion(r, b) ==
    /\ pc[r] = "insert"
    /\ IF body[aim[r]] = NoBody
       THEN /\ body' = [body EXCEPT ![aim[r]] = b]
            /\ status' = [status EXCEPT ![aim[r]] = "draft"]
            /\ raced' = raced \cup {p \in Policies : \E q \in Requests :
                                       pc[q] = "lock" /\ p = aim[q][1] /\ p = aim[r][1]}
            /\ Go(r, "invalidate")
       ELSE Reply(r) /\ UNCHANGED <<body, status, raced>>
    /\ UNCHANGED <<policies, approvals, assigned, rows, holds, used, cacheVars,
                   activated, dropped>>

\* Mutant: no foreign key from assignments to policies.
AssignAnything(r, p) ==
    /\ pc[r] = "idle"
    /\ assigned' = assigned \cup {p}
    /\ Begin(r, "invalidate", <<p, 1>>)
    /\ UNCHANGED <<policies, body, status, approvals, rows, holds, used, cacheVars, histVars>>

AssignPolicy(r, p) ==
    /\ pc[r] = "idle" /\ p \in policies
    /\ assigned' = assigned \cup {p}
    /\ Begin(r, "invalidate", <<p, 1>>)
    /\ UNCHANGED <<policies, body, status, approvals, rows, holds, used, cacheVars, histVars>>

-----------------------------------------------------------------------------
(* ApprovePolicyVersion.                                                   *)

\* GetVersion, Compile and RecordApproval (ON CONFLICT DO NOTHING).
RecordApproval(r, k, u) ==
    /\ pc[r] = "idle"
    /\ body[k] \in Sound
    /\ approvals' = [approvals EXCEPT ![k] = @ \cup {u}]
    /\ Begin(r, "count", k)
    /\ UNCHANGED <<policies, body, status, assigned, rows, holds, used, cacheVars, histVars>>

\* Mutants: the caller is counted twice; the threshold must be exceeded.
CountsCallerTwice(r) ==
    /\ pc[r] = "count"
    /\ Go(r, IF Cardinality(approvals[aim[r]]) + 1 >= Required THEN "promote" ELSE "invalidate")
    /\ UNCHANGED <<tableVars, rows, holds, used, cacheVars, histVars>>

CountsBeyond(r) ==
    /\ pc[r] = "count"
    /\ Go(r, IF Cardinality(approvals[aim[r]]) > Required THEN "promote" ELSE "invalidate")
    /\ UNCHANGED <<tableVars, rows, holds, used, cacheVars, histVars>>

CountApprovals(r) ==
    /\ pc[r] = "count"
    /\ Go(r, IF Quorum(aim[r]) THEN "promote" ELSE "invalidate")
    /\ UNCHANGED <<tableVars, rows, holds, used, cacheVars, histVars>>

\* The UPDATE asks for no particular status: an active version is approved
\* again, and is no longer active.
ApproveVersion(r) ==
    /\ pc[r] = "promote" /\ ~Locked(r, aim[r])
    /\ status' = [status EXCEPT ![aim[r]] = "approved"]
    /\ Go(r, "invalidate")
    /\ UNCHANGED <<policies, body, approvals, assigned, rows, holds, used, cacheVars, histVars>>

-----------------------------------------------------------------------------
(* ActivatePolicyVersion: one transaction.                                 *)

\* Mutant: activation takes a draft as well.
CheckNothing(r, k) ==
    /\ pc[r] = "idle"
    /\ body[k] \in Sound
    /\ Begin(r, "demote", k)
    /\ UNCHANGED <<tableVars, rows, holds, used, cacheVars, histVars>>

\* GetVersion, Compile, a simulation that allows, BEGIN and the SELECT of the
\* status.  The request brings the context that is simulated.
CheckApproved(r, k) ==
    /\ pc[r] = "idle"
    /\ body[k] \in Sound /\ status[k] = "approved"
    /\ Begin(r, "demote", k)
    /\ UNCHANGED <<tableVars, rows, holds, used, cacheVars, histVars>>

\* Mutant: the UPDATE picks the row that is active, and the new one.
TargetsActive(r) == {k \in Exists(aim[r][1]) : status[k] = "active"} \cup {aim[r]}

\* UPDATE ... SET status='draft' WHERE policy_id=$1
Targets(r) == Exists(aim[r][1])

StartDemotion(r) ==
    /\ pc[r] = "demote"
    /\ rows' = [rows EXCEPT ![r] = Targets(r)]
    /\ Go(r, "lock")
    /\ UNCHANGED <<tableVars, holds, used, cacheVars, histVars>>

LockRow(r, k) ==
    /\ pc[r] = "lock" /\ k \in rows[r] \ holds[r] /\ ~Locked(r, k)
    /\ holds' = [holds EXCEPT ![r] = @ \cup {k}]
    /\ UNCHANGED <<tableVars, pc, aim, rows, used, cacheVars, histVars>>

\* Mutant: the transaction stays open.
EndTxLeaks(r) == UNCHANGED <<rows, holds>>

EndTx(r) ==
    /\ rows' = [rows EXCEPT ![r] = {}]
    /\ holds' = [holds EXCEPT ![r] = {}]

\* The second UPDATE, on a row the transaction has locked, and COMMIT.  The
\* compiled body put into the cache next leaves it in "invalidate".
Commit(r) ==
    /\ pc[r] = "lock" /\ holds[r] = rows[r]
    /\ status' = [k \in Key |-> IF k = aim[r] THEN "active"
                                ELSE IF k \in rows[r] THEN "draft"
                                ELSE status[k]]
    /\ activated' = activated \cup {aim[r]}
    /\ EndTx(r)
    /\ Go(r, "invalidate")
    /\ UNCHANGED <<policies, body, approvals, assigned, used, cacheVars, dropped, raced>>

-----------------------------------------------------------------------------
(* DeleteCompiled(pid, 0) and PublishPolicyInvalidate, with which all four *)
(* writers end, and the subscription of every process.                     *)

Forget(c, p) == [k \in Key |-> IF k[1] = p THEN NoBody ELSE c[k]]

Invalidate(r) ==
    /\ pc[r] = "invalidate"
    /\ cache' = [cache EXCEPT ![Home[r]] = Forget(@, aim[r][1])]
    /\ inval' = inval \cup (Listeners[Home[r]] \X {aim[r][1]})
    /\ Reply(r)
    /\ UNCHANGED <<tableVars, rows, holds, used, histVars>>

OnPolicyInvalidate(s, p) ==
    /\ <<s, p>> \in inval
    /\ inval' = inval \ {<<s, p>>}
    /\ cache' = [cache EXCEPT ![s] = Forget(@, p)]
    /\ UNCHANGED <<tableVars, requestVars, histVars>>

-----------------------------------------------------------------------------
(* HandleVerifyV2, from the list of assignments to the decision.           *)

Active == {k \in Key : status[k] = "active" /\ k[1] \in assigned}

\* GetActiveAssignmentsForOrg; a hash of the request picks one row.
ListActive(r, k) ==
    /\ pc[r] = "idle" /\ k \in Active
    /\ Begin(r, "listed", k)
    /\ UNCHANGED <<tableVars, rows, holds, used, cacheVars, histVars>>

\* No federation contract, an action or resource outside of it, no delegation.
Deny(r) ==
    /\ pc[r] = "listed"
    /\ Reply(r)
    /\ UNCHANGED <<tableVars, rows, holds, used, cacheVars, histVars>>

\* Another hash decides whether a rollout of the policy replaces the version.
SelectRollout(r) ==
    /\ pc[r] = "listed"
    /\ \/ Go(r, "compile")
       \/ \E k \in Rollouts : k[1] = aim[r][1] /\ body[k] # NoBody /\ Begin(r, "compile", k)
    /\ UNCHANGED <<tableVars, rows, holds, used, cacheVars, histVars>>

\* Mutant: the cache is keyed by policy only.
CacheKeyOfPolicy(k) == <<k[1], 1>>

CacheKey(k) == k

\* GetCompiled, else Compile and PutCompiled; a body that does not compile
\* ends in a denial.
CompileVersion(r) ==
    LET cached == cache[Home[r]][CacheKey(aim[r])] IN
    /\ pc[r] = "compile"
    /\ \/ /\ cached # NoBody
          /\ used' = [used EXCEPT ![r] = cached]
          /\ Go(r, "answer")
          /\ UNCHANGED cache
       \/ /\ cached = NoBody /\ body[aim[r]] \in Sound
          /\ used' = [used EXCEPT ![r] = body[aim[r]]]
          /\ cache' = [cache EXCEPT ![Home[r]][CacheKey(aim[r])] = body[aim[r]]]
          /\ Go(r, "answer")
       \/ /\ cached = NoBody /\ body[aim[r]] \notin Sound
          /\ Reply(r)
          /\ UNCHANGED <<used, cache>>
    /\ UNCHANGED <<tableVars, rows, holds, inval, histVars>>

Answer(r) ==
    /\ pc[r] = "answer"
    /\ used' = [used EXCEPT ![r] = NoBody]
    /\ Reply(r)
    /\ UNCHANGED <<tableVars, rows, holds, cacheVars, histVars>>

-----------------------------------------------------------------------------
(* What goes wrong: a client that gives up, a deadlock, a crash.           *)

\* Approval and activation pass the request's context to the database; when it
\* ends the next statement fails and a transaction is rolled back.
Abort(r) ==
    /\ pc[r] \in {"count", "promote", "demote", "lock"}
    /\ dropped' = dropped \cup (IF pc[r] \in {"count", "promote"} THEN {aim[r]} ELSE {})
    /\ EndTx(r)
    /\ Reply(r)
    /\ UNCHANGED <<tableVars, used, cacheVars, activated, raced>>

\* Transactions that all wait for a row one of them has.
Deadlocked(S) ==
    \A r \in S : /\ pc[r] = "lock" /\ rows[r] # holds[r]
                 /\ \A k \in rows[r] \ holds[r] : \E q \in S \ {r} : k \in holds[q]

\* The database rolls back one of them and the handler answers 409.
DeadlockVictim(r) ==
    /\ \E S \in SUBSET Requests : r \in S /\ Deadlocked(S)
    /\ EndTx(r)
    /\ Reply(r)
    /\ UNCHANGED <<tableVars, used, cacheVars, histVars>>

Crash(s) ==
    LET here == {r \in Requests : Home[r] = s} IN
    /\ cache' = [cache EXCEPT ![s] = [k \in Key |-> NoBody]]
    /\ inval' = {e \in inval : e[1] # s}
    /\ pc' = [r \in Requests |-> IF r \in here THEN "idle" ELSE pc[r]]
    /\ aim' = [r \in Requests |-> IF r \in here THEN NoKey ELSE aim[r]]
    /\ rows' = [r \in Requests |-> IF r \in here THEN {} ELSE rows[r]]
    /\ holds' = [r \in Requests |-> IF r \in here THEN {} ELSE holds[r]]
    /\ used' = [r \in Requests |-> IF r \in here THEN NoBody ELSE used[r]]
    /\ dropped' = dropped \cup {aim[r] : r \in {q \in here : pc[q] \in {"count", "promote"}}}
    /\ UNCHANGED <<tableVars, activated, raced>>

-----------------------------------------------------------------------------
Arrive(r) ==
    \/ \E p \in Policies, v \in Versions : ReadMaxVersion(r, p, v)
    \/ \E p \in Policies : AssignPolicy(r, p)
    \/ \E k \in Key, u \in Users : RecordApproval(r, k, u)
    \/ \E k \in Key : CheckApproved(r, k) \/ ListActive(r, k)

Serve(r) ==
    \/ \E b \in Bodies : InsertVersion(r, b)
    \/ CountApprovals(r) \/ StartDemotion(r) \/ Commit(r) \/ DeadlockVictim(r)
    \/ Invalidate(r) \/ Deny(r) \/ SelectRollout(r) \/ CompileVersion(r) \/ Answer(r)

\* The statements that wait for a row.
TakeRow(r) == ApproveVersion(r) \/ \E k \in Key : LockRow(r, k)

Next ==
    \/ \E r \in Requests : Arrive(r) \/ Serve(r) \/ TakeRow(r) \/ Abort(r)
    \/ \E p \in Policies : CreatePolicy(p)
    \/ \E s \in Servers : Crash(s) \/ \E p \in Policies : OnPolicyInvalidate(s, p)

Spec == Init /\ [][Next]_vars

\* A handler runs on until it replies; a row lock goes to its waiters in turn.
FairSpec == Spec /\ \A r \in Requests : WF_vars(Serve(r)) /\ SF_vars(TakeRow(r))

-----------------------------------------------------------------------------
(* A version approved or in force has the approvals that are required,     *)
(* whatever approvals, activations and rollbacks did in between            *)
(* (policy_approve.go:72, repo.go:129).                                    *)
ApprovedHasQuorum ==
    \A k \in Key : status[k] \in {"approved", "active"} => Quorum(k)

(* Concurrent activations leave one active version of a policy, unless a   *)
(* version was inserted while the UPDATE of one of them was running        *)
(* (repo.go:132, repo.go:135).                                             *)
OneActive ==
    \A j, k \in Key :
        j[1] = k[1] /\ j[1] \notin raced /\ status[j] = "active" /\ status[k] = "active"
            => j = k

(* A verification evaluates the body of a version that has been active, or *)
(* of one that is rolled out, however the caches of the replicas are       *)
(* filled and cleared (verify_v2.go:108, verify_v2.go:244).                *)
DecisionsFollow ==
    \A r \in Requests : pc[r] = "answer" =>
        /\ used[r] = body[aim[r]]
        /\ aim[r] \in activated \cup Rollouts

(* What the proofs need besides: rows that requests rely on are there, a    *)
(* quorum that was counted still stands, an UPDATE covers the policy unless *)
(* it raced, and caches and requests agree with the bodies.                *)
Standing ==
    /\ \A k \in Key : status[k] = "none" <=> body[k] = NoBody
    /\ \A r \in Requests : pc[r] \in {"count", "promote", "demote", "lock"} =>
                              body[aim[r]] # NoBody
    /\ \A r \in Requests : pc[r] = "lock" =>
                              \A k \in rows[r] : body[k] # NoBody /\ k[1] = aim[r][1]

Counted ==
    \A r \in Requests : pc[r] \in {"promote", "demote", "lock"} => Quorum(aim[r])

Covered ==
    \A r \in Requests : pc[r] = "lock" /\ aim[r][1] \notin raced =>
                           Exists(aim[r][1]) \subseteq rows[r]

Coherent ==
    /\ \A s \in Servers, k \in Key : cache[s][k] \in {NoBody, body[k]}
    /\ \A k \in Key : status[k] = "active" => k \in activated
    /\ \A k \in activated : body[k] # NoBody
    /\ \A r \in Requests : pc[r] = "listed" => aim[r] \in activated
    /\ \A r \in Requests : pc[r] \in {"compile", "answer"} =>
                              aim[r] \in activated \cup Rollouts /\ body[aim[r]] # NoBody

IInv ==
    /\ TypeOK /\ Standing /\ ApprovedHasQuorum /\ Counted
    /\ Covered /\ OneActive /\ Coherent /\ DecisionsFollow

(* Votes and versions in force develop as PolicyBoard allows: a version    *)
(* comes into force by an activation that finds its votes (repo.go:118).   *)
Board == INSTANCE PolicyBoard
             WITH Keys <- Key, Quorums <- {Q \in SUBSET Users : Cardinality(Q) >= Required},
                  votes <- approvals, inForce <- {k \in Key : status[k] = "active"}
BoardSpec == Board!Spec

(* Every request is answered: row locks are released on each way out and a *)
(* deadlock of activations is broken (repo.go:123).                        *)
RequestsEnd == \A r \in Requests : (pc[r] # "idle") ~> (pc[r] = "idle")

(* A version that reaches its quorum becomes approved, unless an approval  *)
(* request of it was cut off after it recorded (policy_approve.go:63-73).  *)
QuorumTakesEffect ==
    \A k \in Key : <>Quorum(k) => <>(status[k] = "approved" \/ k \in dropped)

(* docs/ENTERPRISE.md:74, "Activate a prior version": what activation asks *)
(* of a version that was in force holds of it later on.                    *)
RollbackReady == \A k \in activated : status[k] \in {"approved", "active"}

(* repo.go:117, "sets the given policy version as active and marks others  *)
(* as draft".                                                              *)
OneActiveAlways ==
    \A j, k \in Key : j[1] = k[1] /\ status[j] = "active" /\ status[k] = "active" => j = k
=============================================================================
