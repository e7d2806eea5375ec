# A TLA+ model of AURA

AURA is a trust and authorization service for software agents: organizations register
agents, keys, policies and devices, and ask the backend for decisions, trust tokens
and SDK packages. The backend is one Go program (`src/backend`), run as several
replicas over one PostgreSQL database and one Redis. Administrators use it through a
web console in Svelte (`src/frontend`); programs that receive trust tokens verify them
with the SDKs (`src/sdks`). This directory holds TLA+ models of the stateful parts of
all three, the TLC configurations that check them, and TLAPS proofs about them.

`PROJECT.json` is the machine-readable side of this file: components, runs, mutants,
the map from definitions to source lines, findings, hazards, theorems.

## 1. Inventory

Sources are relative to `src/backend/internal/` for the backend, `src/` otherwise.

| Component | Source | State | Operations | What makes it hard | What makes it correct |
|---|---|---|---|---|---|
| Code-generation queue | `api/queue.go`, `api/sdk_handlers.go`, `api/admin_handlers.go` | Redis stream, consumer group, pending entries, dead letters; per process: job records, artifacts, drain flags | enqueue, read, run, acknowledge, reclaim, dead-letter, drain, requeue, delete | at-least-once delivery, several workers and reclaimers, stale snapshots, SIGTERM, crashes, lost replies | an accepted job is lost at three named places at most; every delivered entry is resolved; bounded redelivery; "drained" means quiet |
| Request gate | `api/middleware.go` | idempotent replies, nonces, per-minute counters, in Redis or in memory | check, run, store; sign check; count | check and store are apart; Redis may fail in between | one effect per key; the stored reply is the one given; the limit binds |
| Trust keys and key sets | `api/trust_keys_handlers.go`, `api/jwks.go`, sweeper in `cmd/server/main.go` | `trust_keys` rows (active, deactivate_after), cached key set in Redis | create, activate, deactivate, rotate, sweep, serve | multi-statement updates, grace deadlines, a cache nobody invalidates | while keys rotate, what is signed now can be verified until it expires |
| Trust tokens | `api/token_handlers.go`, `api/token_v1_handlers.go`, `api/revocation_handlers.go`, `sdks/` | used token ids in Redis and database, revocation list, verifier caches | issue, introspect, mark used, revoke, refresh | two stores, lost replies, a route the verifiers have no access to | a single-use token is accepted at most once |
| Policies | `policy/*.go`, `engine/engine.go`, `api/policy_*.go` | versions with status, approvals, assignments, compiled cache | add, approve, activate, assign, evaluate | check and update in separate statements, row locks taken one by one, clients that give up half-way, a cache per replica | nothing in force without the required approvals; at most one active version; decisions evaluate what is or was in force |
| Verification, approvals, traces | `api/verify_v2.go`, `api/verify_handler.go`, `api/approvals_handlers.go` | decision traces, approval requests | verify, request approval, decide | several stores written in one request | one approval per trace |
| Webhooks and breaker | `api/verify_handler.go`, `api/cbreaker.go`, `api/admin_handlers.go` | in-flight deliveries, webhook dead letters, breaker counters | deliver with retries, requeue, delete; allow, report | timeouts after delivery, restarts during backoff | a failed event ends in the dead letters; the breaker opens and closes again |
| Audit ledger | `audit/ledger.go`, `api/audit_*.go`, `api/compliance_handlers.go` | hash chain per organization, daily anchors, export schedules | append, verify, anchor, schedule | non-transactional append, one anchor row for several writers | an untampered chain verifies |
| Federation | `api/federation_*.go`, loops in `cmd/server/main.go` | per-topic message logs with parents | publish, push, pull, ingest, merge | loss, reordering, concurrent heads | logs converge; merges join every head |
| Event bus | `mesh/*.go` | subscriptions | subscribe, publish, unsubscribe | index captured at subscription time | an unsubscribed handler, and only it, stops being called |
| Relationship graph | `rel/*.go`, `api/rel_*.go` | tuples, cache of check results | write, check, expand, clear | fill racing clear | a check never outlives its time-to-live, nor a clear |
| Devices, attestation, certificates | `api/identity_handlers.go`, `api/agent_mtls_handlers.go`, `api/certs_*.go`, `attest/` | devices, attestations, certificate authority, client certificates | register, attest, issue, revoke, rotate | reads and writes across handlers | no certificate for an unattested device |
| Accounts, keys, SSO, SCIM | `api/auth_handlers.go`, `api/key_handlers.go`, `api/sso_handlers.go`, `api/scim_handlers.go` | rows | single-statement handlers | little | tenancy |
| Web console: session | `frontend/src/routes/login`, `login/sso-callback`, `register`, `(app)/+layout.svelte` | `aura_token` and `aura_org_id` in localStorage, shared by all tabs | sign in, register, SSO callback, sign out, navigate | two keys written by separate steps, read by each page at a moment of its own; on hovering over a link at the earliest; functions that outlive their page | whoever is signed in works on an organization of his own |
| Web console: forms | `(app)/settings`, `agents`, `apikeys`, `onboarding`, `lib/components/*.svelte` | form fields, flags that disable buttons, running requests | save, create, revoke, generate, poll | answers that are lost, late or out of order; dialogs that can be closed and opened again meanwhile; no idempotency key | one filling makes one thing; no button stays disabled; a secret shown once is seen; what is shown of a job was true of it |
| Web console: administration | `(app)/admin/queue`, `(app)/admin/webhooks/dlq`, `(app)/organizations/[orgId]/trust-keys` | table, paging cursor, selection, error, toast | list, page, requeue, delete, rotate | loads that overlap, a shared error variable, buttons that stay enabled, fetches that fail while their handler runs on, other administrators | the table is true of the stream; no entry is lost or resent by accident |
| SDK verifiers | `sdks/node/src/*.js`, `sdks/go`, `sdks/python` | cached key sets with their lifetime | fetch keys, look up, verify | three caches one behind the other, slow fetches, failing ones | the key sets that tokens are judged by catch up with the keys |

The components of the backend meet in three ways. They share the database: policies
are read by the verification endpoints, trust keys by token issue, key sets and
federation, and almost every administrative handler appends to the audit ledger. They
share Redis: the queue, the idempotency store, the caches, the webhook dead letters.
And within one process they call each other: the event bus carries cache
invalidations, the breaker guards the code generator.

The console and the SDKs meet the backend through HTTP only, and the pages of the
console meet each other through localStorage, links and reloads. So a module about a
page contains the handlers it calls, in as many steps as others can come between, and
little else of the backend: `DeadLetterPages` is the page together with the Redis
calls of its handlers, `TrustKeys` the page with the SQL statements, `TrustVerifier`
the verifier on top of `TrustKeys`, `AgentPage` and `Console` have a backend that
answers in one step.

The full list, with what is not modelled and why, is under `components` in
`PROJECT.json`; the places where this code can go wrong in ways a test would hardly
reach are under `hazards`.

## 2. Plan

In order of importance. A component has a module, an `MC` module with its small
instances, a configuration for each question, and, where a theorem is worth it, a
`_proofs` module.

Done:

1. **`CodegenQueue`**: the queue. One action per Redis call or critical section.
2. **`PolicyLifecycle`**: versions, approvals, activation, the compiled cache and its
   invalidation across replicas, decisions that read them. Abstract specification:
   **`PolicyBoard`**, a register of votes and of the versions in force.
3. **`TrustKeys`** and **`TrustVerifier`**, which extends it: signing keys with grace
   deadlines, the page that changes them, the key set cached in Redis, and the Go
   verifiers with and without a cache of their own.
4. **`DeadLetterPages`**: the two dead-letter pages and their handlers.
5. **`Console`**: the session shared by the tabs of a browser, and the pages that
   change something in an organization.
6. **`AgentPage`**: the dialogs of the agent page and the polling of a generation job.

Next:

7. Single use of token ids over two stores (`token_handlers.go`). To prove: a token id
   is accepted once.
8. **`RequestGate`**: idempotency keys, nonces, rate counters. To prove: a stored
   reply belongs to the request it is replayed to, as far as the storage key allows.
9. **`AuditLedger`**: concurrent appends, verification, anchors, schedules. Abstract
   specification: an append-only sequence, refined while appends do not overlap.
10. **`Gossip`** with the event bus: publish, push, ingest, merge over a lossy network.
    To prove: merged messages are never lost.
11. The first delivery of webhooks, with the circuit breaker.
12. **`RelGraph`**: cached checks against writes; bounded reachability against a
    reference definition.
13. **`PolicyEngine`**: evaluation as operators, against a reference semantics.
14. **`DeviceIdentity`**.

Proofs: every invariant the runs check is a theorem by now (section 9). Next come
those of the modules above, each with its component.

## 3. `CodegenQueue`

`POST /sdk/generate` records a job in the memory of the process that serves it and
appends it to a Redis stream. In every process `AURA_QUEUE_WORKERS` worker goroutines
read new entries through one consumer group, and one reclaimer goroutine looks every
few seconds at what was delivered and never acknowledged, claims it and runs it, or,
after too many deliveries, moves it to the dead letters. Administrators switch drain
mode and requeue or delete dead letters.

### State

| Variable | In the code |
|---|---|
| `stream`, `group`, `start`, `last`, `pending`, `stale`, `deliveries` | the Redis stream `aura:jobs:codegen` and its group: entries (an id is its position), whether the group exists, the position it was created at, last-delivered-id, the pending entries list, which of them have been idle for `minIdle`, and their delivery counts |
| `dlq`, `dlqTop` | the stream `aura:jobs:codegen:dlq` |
| `status`, `artifact`, `local` | `sdkJobs.jobs`, `sdkJobs.files` / `zips`, fallback goroutines, per process |
| `pc`, `cur`, `todo`, `age` | where each worker and reclaimer is, the message it handles, the rest of its batch or snapshot, and for how many ticks its read has been blocked |
| `drain`, `ticks`, `drained` | `drainMode`, `drainZeroPendingTicks`, `drainedComplete` |
| `cancelled` | the worker context |
| `adm` | the `RequeueDLQ` loop between its three Redis calls |
| `toggled`, `submitted`, `done`, `deleted`, `dropped`, `stranded` | history: they record what happened and guard nothing, except that a job id is submitted once |

### Actions

A step is one Redis call or one critical section of `sdkJobs.mu`; that is the grain at
which goroutines and processes interleave. `InitRedis`, `CreateGroup` and
`CreateGroupFails` are startup, which runs beside the HTTP server. `GenerateSDK` and
`GenerateSDKLocally` are the request, with and without the fallback. `StartRead`,
`Deliver`, `DeliverLost`, `ReadTimeout`, `Take`, `Quit` are the worker loop; `Tick`,
`Scan`, `Exhaust`, `ExhaustUnwritten`, `Claim`, `Skip` the reclaimer's; `Check`,
`Begin`, `Finish`, `Verdict`, `Ack`, `AckLost` are `processCodegenMessage`, which both
call. `GrowStale` is the passing of time. `QueueDrain`, `RequeueRead`, `RequeueAdd`,
`RequeueAddFails`, `RequeueDel`, `DeleteDLQ` are administration. `Signal` is SIGTERM,
which only cancels the worker context, and `Crash` is the end of a process and its
restart.

Faults come out of a budget: the enqueue, the group creation, a read whose reply is
lost, a claim whose reply is lost, a refused acknowledgement, an unwritten dead
letter, a failed deletion. Two failures are left out because the code treats them as
nothing having happened: XPENDING failing in the reclaimer, which skips that tick, and
XREADGROUP failing without delivering, which is `ReadTimeout` in all but the wait. The
open circuit breaker and the two attempts of the generator are folded into
`CodegenOutcome`: all they change is whether a run ends in an artifact or in an error.
The artifact a process has stored is assumed to stay on its disk. The rate limiter
only appears as the choice between `Take` and `Quit` of a cancelled worker.

### Runs

| Run | Instance | Shows |
|---|---|---|
| `q_replicas` | two processes, one worker, one entry, two deliveries allowed, one stop, one fault out of read, claim, ack, dlq | `NoJobLost`, `DeliveryBound` |
| `q_live` | one process, one worker, one job and two entries, drain threshold 2, one stop, one fault out of enqueue, group, read, xdel, one drain toggle, under fairness | `TypeOK`, `NoJobLost`, `DrainedIsQuiet`, `PendingResolves`, `JobsSettle` |
| `q_drain_toggle` | one process, three drain toggles | a violation of `DrainedIsSafe`, see below |

**Bounds.** `MaxMsgs` caps the entries ever appended, requeued ones included; `Budget`
caps process stops, faults and drain toggles. One entry is enough for every race about
one delivery: two reclaimers with snapshots of it, a reclaimer and a worker, an
administrator's deletion; with one entry nothing can be requeued, so `q_replicas`
shows nothing about `RequeueAdd`. Two entries, in `q_live`, are the job and its
requeued copy (also two of them at once, as a batch), with a failed XDEL between them;
`q_live` checks `NoJobLost` for that reason too. Two processes are what the deployment
runs (`deploy/k8s/deployment-backend.yaml`). One stop covers SIGTERM followed by
SIGKILL, since the crash that follows a signal is free. `BlockTicks` is the number of
reclaimer ticks that fit into one blocked read: with the defaults, five seconds
against ten, that is one, plus one tick that the Go ticker may have buffered; the
default drain threshold is 3. `q_live` uses 1 and 2.

`CHECK_DEADLOCK` is off: when all requests are served and the budget is spent, nothing
need happen.

**Fairness.** The scheduler runs every goroutine, so the worker loop, the reclaimer
loop and `processCodegenMessage` are weakly fair, as are startup and the goroutines of
the local fallback; code generation has a timeout (two attempts of five minutes);
`GrowStale` is time passing; and SIGKILL follows SIGTERM, which is what the platform
does when the process does not end by itself, and this one does not. Requests, faults,
crashes and administrators owe nothing. `JobsSettle` asks that drain mode be off from
some point on, because a drained process does not read, and it speaks of the stream
only once the group exists: a process creates it once, at its start, and goes on
without it when that fails, so nothing makes the group come into being.

**Safety.** `NoJobLost` says that a job answered 202 is waiting (in the stream or in a
fallback goroutine), finished, dead-lettered, deleted by an administrator, or was lost
at one of three places, and names them, because the code does lose it there:

* `Missed`: the group is created at `"$"` (`queue.go:57`), beside a server that takes
  requests already. An entry that is in the stream by then is behind the group for
  good.
* `dropped`: the reclaimer discards the error of the dead-letter write and
  acknowledges the entry (`queue.go:209-223`).
* `stranded`: the enqueue failed, and the goroutine that runs the job instead failed
  or died with its process (`sdk_handlers.go:188`); nobody runs it again.

What the property shows is that there is no fourth: lost replies, duplicate
deliveries, cancelled workers, stale snapshots and requeues never acknowledge or
delete the last trace of a job. `JobsSettle` says that an accepted job comes to one of
these ends. A requeued job may run twice; the code promises nothing against it.
`DeliveryBound` says that the delivery count of an entry exceeds the configured limit
by at most one for each further process.

**`DrainedIsSafe`** is what `docs/RUNBOOKS.md:53` says of `GET
/admin/queue/drain/complete`. It is violated: `QueueDrain` sets `drainMode` and leaves
`drainedComplete` and the tick counter as they are, and the reclaimer clears them only
at a tick that sees drain mode off. Toggling off and on again between two ticks, with
a worker starting a read in between, leaves "drained" standing. `DrainedIsQuiet` is
the same statement with the proviso that drain stayed on, and holds.

### Proofs

`CodegenQueue_proofs` proves, for every value of the constants that satisfies
`QueueAssumption` and `ServersAssumption` (there are finitely many processes, which
only `DeliveriesBounded` needs, as it counts them):

* `TypeCorrect`: `Spec => []TypeOK`. The strengthening is that the deliveries an actor
  holds carry ids that lie in the stream and were delivered.
* `JobsKept`: `Spec => []NoJobLost`. The inductive invariant `KeptInv` is made of
  small facts: entries are delivered only while the group exists (`GroupFirst`); an
  actor about to acknowledge holds an entry whose job is finished, deleted, dropped,
  dead-lettered or in the stream again (`AckIsSafe`); an administrator about to delete
  a dead letter has appended its job again (`DelIsSafe`); a record that says "ready",
  or an artifact, means the job is done (`ReadyIsDone`). `NoJobLost` alone is not
  inductive because `Ack` and `RequeueDel` look at none of this. `EntriesKept` says it
  of every entry behind `start`, `Traced` that a job without an entry is on the
  fallback, finished or stranded.
* `DrainQuiet`: with `EmptyThresh > BlockTicks`, `Spec => []DrainedIsQuiet`. The
  invariant relates the empty ticks counted to the age of every outstanding read: a
  read that began before the count is older than the count, so the count cannot reach
  the threshold while it is out.

The assumption of `DrainQuiet` is a real condition on the configuration: with
`AURA_QUEUE_DRAIN_EMPTY_TICKS=1` a read issued just before the drain can be answered
after "drained".

* `DeliveriesBounded`: `Spec => []DeliveryBound`. The bound alone is not inductive: a
  reclaimer claims by the delivery count it has read earlier. `RoomLeft` adds to the
  deliveries of an entry the processes that may still claim it (`Claimants`: their
  snapshot has the entry below the limit) and bounds the sum; `OneSnapshot` says that
  an entry is in the snapshot of a reclaimer once, so that a claim takes its process
  out of the count.

Model-checked only: the two liveness properties, which are out of the prover's reach
as is everything about fairness.

## 4. `PolicyLifecycle` and `PolicyBoard`

A policy version is added as a draft; users approve it, and when their number reaches
`AURA_POLICY_APPROVALS_REQUIRED` it becomes approved; an approved version can be
activated, which sets every other version of the policy to draft. The verification
endpoint picks an active version among the policies assigned to the organization and
evaluates its compiled body, which each process caches. Any of the four writers ends
by clearing the policy from the cache of its own process and publishing
`policy.invalidate` to the others.

### State

| Variable | In the code |
|---|---|
| `policies`, `body`, `status`, `approvals`, `assigned` | the tables `policies`, `policy_versions`, `policy_version_approvals`, `policy_assignments`, as committed |
| `pc`, `aim` | where each request is, and the policy version it is about |
| `rows`, `holds` | the rows the UPDATE of an activation has chosen, and those its transaction has locked |
| `used` | the compiled body a verification is about to evaluate |
| `cache`, `inval` | `compiledCache` of each process; invalidations on the way |
| `activated`, `dropped`, `raced` | history: versions that have been active; versions with an approval request that was cut off after recording; policies that got a version while an UPDATE of theirs was running |

### Actions

A step is one SQL statement, or one access to the cache.

* `CreatePolicy`, `ReadMaxVersion` and `InsertVersion` (the
  `COALESCE(MAX(version),0)+1` and the INSERT that follows are two statements; the
  unique index refuses the loser of a race), `AssignPolicy`.
* `RecordApproval`, `CountApprovals`, `ApproveVersion`: the three statements of
  `ApprovePolicyVersion`, which run in no transaction.
* `CheckApproved`, `StartDemotion`, `LockRow`, `Commit`: the transaction of
  `ActivateVersion`. Under READ COMMITTED an UPDATE fixes the rows it will touch when
  it starts and then locks them one after the other, waiting for each; `StartDemotion`
  and `LockRow` are these two parts. The second UPDATE meets a row that is locked
  already, so it is part of `Commit`. `ApproveVersion` waits for the row as well,
  `InsertVersion` does not.
* `Invalidate`, `OnPolicyInvalidate`: clearing the cache here and elsewhere.
* `ListActive`, `Deny`, `SelectRollout`, `CompileVersion`, `Answer`: the verification.
* `Abort` is the end of the request's context, on which approval and activation run
  their statements; `DeadlockVictim` is PostgreSQL breaking a deadlock; `Crash` is a
  process restarting with an empty cache and no requests.

What is abstracted. A request that is refused before it has changed anything is no
step. Reads of what never changes (that a policy exists, the body of a version) are
part of the step that uses them. A body is chosen when it is inserted; a body that
does not compile, and one of an engine that is not supported, is one that is not
`Sound`. `AddPolicyVersion` and `ActivatePolicyVersion` put the compiled body into the
cache and then delete it with the rest of the policy; the net effect, a cleared cache,
is in `Invalidate`. So the "warm cache" of `policy_activate.go:82` is cold again at
line 85. The simulation that has to allow before an activation depends on a context
that the request brings, so it restricts nothing. Which of several assigned policies a
verification picks depends on a hash and on an order that the query does not fix; the
model leaves it open. The federation and relationship gates appear as `Deny`.
`Rollouts` are a constant: no code writes `policy_rollouts`. The audit entries of
these handlers are appended for an organization that does not exist and their error is
ignored; they change nothing here.

### Runs

| Run | Instance | Shows |
|---|---|---|
| `pol_gov` | two processes with one request each, one policy, two versions, two users, quorum two, two sound bodies and an unsound one, version 1 rolled out | `TypeOK`, `ApprovedHasQuorum`, `OneActive`, `DecisionsFollow`, `BoardSpec` |
| `pol_live` | one process with two requests, two users, quorum two, two versions, one body, under fairness | `RequestsEnd`, `QuorumTakesEffect` |
| `pol_rollback` | one process with two requests, quorum two | a violation of `RollbackReady` |
| `pol_two_active` | the same | a violation of `OneActiveAlways` |

**Bounds.** `MaxVersion` caps the versions of a policy, `Requests` the requests in
service at one time (any number one after the other). Two versions are enough for one
to displace the other, for a deadlock (two rows, two transactions) and for a version
that appears during an UPDATE. Two requests are every pair of racing handlers; the
proofs cover any number. A quorum of two out of two tells the approvals of one user
apart from those of two. `pol_live` has the same quorum, so that two approvals race
towards it, each recorded before the other counts, and one body, since bodies decide
nothing there. `pol_gov` uses symmetry in the users and the sound bodies; the run with
liveness properties uses none. Deadlock is checked in all of them.

**Fairness.** `Serve(r)`: the goroutine of a request runs on until it replies, and the
database detects deadlocks. `TakeRow(r)` is strongly fair: a row lock is released and
taken over and over by others, and PostgreSQL hands it to its waiters in turn.
Clients, crashes and the event bus owe nothing.

**What holds.** `ApprovedHasQuorum`: a version approved or active has its quorum of
distinct users, whatever overlapping requests do and wherever they are cut off.
`OneActive`: activations that overlap leave one active version, unless a version was
inserted while the UPDATE of one of them ran. `DecisionsFollow`: the body evaluated
belongs to the version chosen, and that version was activated or rolled out. It says
"was" because a verification that has listed its assignments goes on with them; it
does not concern staleness, since a body belongs to its version for good.
`QuorumTakesEffect` makes an exception of versions in `dropped`: a client that
disconnects between the INSERT of the deciding approval and the UPDATE leaves a
version with its quorum in draft, until somebody approves it once more.

**`PolicyBoard`** knows votes and versions in force, and three operations: vote, enact
a version that has its votes (others of the same policy may leave with it), repeal
one. `BoardSpec` maps `inForce` to the rows that are active. Repealing is not only a
consequence of activation: `ApproveVersion` asks for no status, so a further approval
of the active version makes it "approved" and takes it out of force (`repo.go:142`).

**`RollbackReady`** fails. `docs/ENTERPRISE.md:73-74` describes a rollback as
activating a prior version; but the activation that displaced the prior version made
it a draft, and only approved versions are activated. It takes one more approval,
which finds the old votes and approves the version at once.

**`OneActiveAlways`** is the comment at `repo.go:117` without the proviso of
`OneActive`. In the trace an UPDATE waits for its first row lock, which another
activation has; meanwhile a version is added, approved and activated. The UPDATE does
not see the new row, and both end up active.

### Proofs

`PolicyLifecycle_proofs` proves, for every value of the constants that satisfies
`PolicyAssumption`, the theorems `TypeCorrect`, `ApprovalsHold`, `OneInForce`,
`DecisionsSound` and `ImplementsBoard`, one for each property of `pol_gov`. All rest
on one inductive invariant, `IInv`:

* `ApprovedHasQuorum` is not inductive because `ApproveVersion` and `Commit` do not
  look at the votes. `Counted` says that a request past the count, or past the check
  of the status, is about a version with a quorum; votes only grow (`VotesStep`), so
  this survives whatever others do.
* `OneActive` is not inductive because `Commit` demotes the rows chosen earlier.
  `Covered` says that these are all the versions of the policy, unless it raced.
* `Standing` ties `status` to the existence of rows, so that a row chosen or counted
  on is there; versions are never deleted.
* `Coherent` says that a cache holds the body of its key or nothing, and that the
  version a verification is about has been active or is rolled out.

There is one lemma per conjunct (`TypeStep`, `StandingStep`, `CountedStep`,
`CoveredStep`, `CoherentStep`), each with a step per action. `BoardStep` shows that
`Commit` is an `Enact`, `ApproveVersion` a `Repeal` or a stutter, `RecordApproval` a
`Vote`, and everything else a stutter.

Model-checked only: `RequestsEnd` and `QuorumTakesEffect`, which are liveness.

## 5. `DeadLetterPages`

Two pages list what a stream has given up on: `admin/queue` the code-generation jobs,
`admin/webhooks/dlq` the webhooks. Both page backwards through the stream, select
rows, requeue or delete them, and reload. They share the handlers' structure and
differ in how they report a failure, so one module has both; `kind` says which of them
is open.

### State and actions

`dlq`, `top`, `sent` are the stream: ids of the entries, the last one given out, how
often each was put back on the queue or delivered. `items`, `beforeId`, `loading`,
`error`, `selected`, `toast` are the variables of the page; `items` keeps the loads
the table was filled with apart, the rows are their union. `ops` is a pool of running
async functions, each with the place it has reached, in the page (`post`, `answer`,
`list`, `listed`) or in the handler it called (`serve`, `held`, `resent`).

A click is `Post`; `Accept`, `ReadEntry`, `Resend`, `Forget`, `DeleteEntry`, `Answer`
are the handler, one step per Redis call; `Report` is the message and the start of the
reload; `ServeList` and `Show` are the answer to a load and its landing. `PostFails`
is a request that does not arrive, `GiveUp` a fetch that fails, at a proxy or in the
browser, while its handler runs on: no context ties the handler to the fetch, and the
webhook handler may take three seconds an entry (`admin_handlers.go:517-565`). From
then on the page and the handler (`deserted`) go their own ways. `Arrive` is a worker
or the webhook sender adding a dead letter, `OutsideDelete` another administrator. No
button is disabled while an operation runs and only Refresh is while a list loads, so
all of these overlap. A failed Redis call, a failed fetch and a resend that arrived
although it timed out each spend a fault.

### What holds, and what is excused

* `NewestToOldest`, `ListFresh`: the table is in order and true of the stream, unless
  two list loads overlapped (`crossed`): then the older one may land last and replace
  or extend the newer table. A reset load that starts alone repairs it. `ListFresh`
  also excuses what a deserted handler took off (`unheard`): the page has reloaded by
  then and knows of nothing more to wait for.
* `SelectionVisible`: on an idle page without an error all that is selected is shown.
  A failed load does leave an invisible selection, hence "without an error".
* `ResentOnce`: an entry is sent twice only if two handlers held it at once (a double
  click is enough), if its XDEL failed, or if its resend timed out after it had
  arrived (`contested`).
* `NothingDropped`: an entry is on the stream until it was sent or somebody deleted
  it.
* `LoadingEnds`: the page comes back from "Loading" again and again.

No property is about the messages, because none holds that would say more than the
line it is about. The queue page decides by the error variable that all its functions
share (`queue/+page.svelte:95`), so a success can be reported as a failure, and an
answer 200 that counts failed entries is reported as "Requeued"; on the webhook page
the reload clears the message of a failed selection at once
(`dlq/+page.svelte:92-112`). `RequeueDLQ` with `all=true` takes the oldest entries
while the page shows the newest.

### Run

`dlq_pages`: a stream of two entries, pages of one row, two functions at a time;
either two clicks and a fault, or one click, an arrival and an outsider. Two entries
and one row a page give a second page, an append and a cursor; two functions are every
pair that can overlap. Both kinds of page are initial states. Deadlock is checked.
**Fairness**: the browser settles every fetch and the backend runs every handler; the
user owes nothing.

### Proofs

`DeadLetterPages_proofs` proves every property but `LoadingEnds`, for any number of
entries, rows and functions. `NextEffects` first reduces the buttons of two pages to
what they do. Then one inductive invariant per question:

* `HoldInv`: a function holds an entry exactly between its lookup and its XDEL. It
  strengthens `TypeOK`.
* `KeptInv`: who is about to delete has sent, or was told to delete.
* `OnceInv`: an entry that is not contested has one holder, which finds it unsent;
  once sent it is held or gone. `ResentOnce` alone says nothing of an entry sent once
  and about to be sent again.
* `FreshInv`: what is listed is on the stream, or the operation that took it off still
  runs in the page and will reload, or it was taken off by a deserted handler.
* `OrderInv`: the only load in flight asks for what is older than every row.

## 6. `AgentPage`

The page of one agent has three dialogs: one that builds a rule, one that picks an SDK
and polls the job that generates it, one that creates an API key. Dialogs can be
closed by Escape, the cross or the backdrop while they wait, and opened again.

### State and actions

`form`, `picker`, `dialog` are the dialogs, `picker` with every SDK dialog of which
something still runs; `saves`, `starts`, `polls`, `create`, `revoke` the running
functions `handleSave`, `startGenerate`, `checkJob`, `createApiKey`,
`handleRevokeKey`; `data` what `load` returned; `token` whether localStorage still has
a token. Of the backend there are rules `stored`, `jobs`, keys `made` and `revoked`. A
step is the code between two awaits together with the flush of Svelte's reactive
blocks: `Flush` is the block that renders the preview and, since it depends on
`errorMessage`, overwrites whatever message a handler has just set
(`RuleBuilderModal.svelte:93-97`).

The page destroys a closed SDK dialog, but the component has no `onDestroy`: the
interval of `SDKPickerModal.svelte:140` and the calls under way go on over variables
nobody displays (`ClosePicker`), while another dialog is opened.

Every process has job records of its own. A job is the set of statuses they `held`,
the outcomes it has `had`, and whether it is `lost`: never delivered, parked, hung, or
its process died (`JobLost`). It may run again after a failure (`JobRetries`).
`GetSDKJob` is answered by whichever process the load balancer asks, with what that
one holds, or 404. `CodegenQueue` is the other side of this.

### What holds, and what is excused

* `SavedOnce`: a rule dialog stores one rule, unless its answer was lost or an older
  dialog's failure cleared `isLoading` under it (`:228-233`).
* `JobShown`: an outcome shown is one the job has had, and a dialog that has stopped
  asking shows an outcome or an error. Excused (`misled`) is a dialog that shows what
  an answer said that was still under way when polling had ended or another job had
  been started, or whose error a download took off the screen. Answers that overtake
  each other while the dialog polls, and stale ones of other replicas in whatever
  order, are not excused.
* `SecretSeen`: the secret of a key, which the backend gives once, was on the screen,
  unless the answer was lost, or landed when the dialog was hidden or the page
  reloaded.
* `PollingEnds`: every dialog stops polling, one closed meanwhile too, unless its job
  is lost: the processes left may call that one queued or running for ever, and the
  dialog has no limit.

The answer of an older dialog's save closes and resets the dialog that is open now; a
double click on Generate leaves the first job running unseen; a partial failure of
`load` shows empty lists without a message (`+page.ts:108-125`). These are in the
model and contradict nothing the page promises.

### Run

`agent_page`: two calls of each function, two openings, SDK dialogs, jobs and keys,
and one activity of the user at a time, each with the faults that concern it: rule
dialogs; the SDK dialog with two jobs; one job with a download and a fault; two SDK
dialogs of which the first is closed; the keys after a save; keys alone, four clicks
with a sign-out. Activities share nothing but the token and reloads, so pairs of them
add states and no behaviour. The instances with two starts or two SDK dialogs have no
fault, for the size of their graphs: that a job is lost or retried is checked with one
of each. Deadlock is not checked: a page nobody uses stops. **Fairness**: requests are
answered and answers land, the interval timer fires, a job that is not lost is run and
ends (`JobsSettle` of `CodegenQueue`), and the load balancer does not keep a dialog
for ever from a process that knows how its job ended (`AskRunner`, strongly fair,
since the request comes and goes).

### Proofs

`AgentPage_proofs` proves `TypeCorrect`, `OneRule` (`SavedOnce`), `JobIsShown`
(`JobShown`) and `SecretIsSeen` (`SecretSeen`), for any number of dialogs, jobs, keys
and requests in flight. The three dialogs share no variable: `NextParts` sorts the
steps by dialog, `RuleAlone`, `PickerAlone` and `KeyAlone` say what the others leave
alone, and each dialog has an invariant.

* `RuleInv`: unless its save may be sent again by mistake, an opening of the dialog
  has one running save (`Single`), which was told exactly what it stored (`Knows`),
  and while that save runs the button is disabled; a dialog still open when it is gone
  has stored nothing (`Unsaved`). `SavedOnce` alone forgets the save that is on its
  way.
* `PickerInv` has one invariant for each dialog (`DialogInv`) and one for the jobs. An
  answer under way that is not late is about the job shown, and the timer is on
  (`Sincere`); while it is on, the job shown has not ended (`StillAsking`); what a
  process holds of an outcome the job has had (`Honest`). `JobShown` alone says
  nothing of the answer that is about to land.
* `KeyInv`: while a call runs the dialog is loading, and only an answered call has a
  key, so no answer is replaced by another call (`OneCall`).

Model-checked only: `PollingEnds`, which is liveness.

## 7. `TrustKeys` and `TrustVerifier`

`TrustKeys` has the page that creates, rotates, activates and deactivates the signing
keys of an organization, the handlers, one step per SQL statement, and the sweeper
that switches a key off after its grace window. `TrustVerifier` extends it by the
readers: the published key set with its cache in Redis, and programs that verify
tokens with the Go SDK, through a `TrustCache` (the middleware) or without one.

### State and actions

`rows` is the table `trust_keys` in the order of `created_at`; `table`, `loading`,
`error` the page; `ops` its running functions. `Insert`, `Mark` are `RotateTrustKey`;
`Others`, `Self` the two statements of `ActivateTrustKey`; `Off`, `Sweep`. A deadline
is a flag: any moment after it was set may be after it. `published` is the key set
cached in Redis, `held` that of the `TrustCache`, `reqs` the running verifications:
`VerifyCached` asks the `TrustCache` and, when that is too old, `OrgJWKS` with
`StoreJWKS`; `Fetched` takes the answer over; `LookUp` looks for the token's key; the
verification proper fetches once more (`Verify` is a program that starts here) and
ends with `Judge`. `ExpirePublished` and `ExpireHeld` are the ends of lifetimes. A
failed fetch falls back on the set held, however old; a failed query is answered with
an empty set and status 200; an error between two rows ends the set early, and that is
stored.

What a token says, who signed it and whether it has expired are left open: a
verification may refuse at every look at a key set. Three things the code does make a
promise about tokens impossible, and the model leaves them out for that reason:

* An organization's key signs no token on PostgreSQL: `buildTrustToken` scans
  `COALESCE(kid,'')` into a struct field "kid", PostgreSQL names the column
  "coalesce", the scan fails and the server's key of the environment is used
  (`verify_v2.go:383`, and likewise `token_v1_handlers.go:73`,
  `identity_handlers.go:95` and `:203`, `federation_gossip.go:405`).
* Tokens live 120 seconds (`verify_v2.go:364`), the cached key set ten minutes
  (`jwks.go:265`): the tokens of a new key may be refused for the whole of their
  lives.
* No verifier of the repository can read the revocation list. The route is behind
  `AuthMiddleware`, membership and an administrator's role (`cmd/server/main.go:504`,
  `:516`, `:584`), and no SDK sends credentials (`sdks/node/src/trust.js:103-108`,
  `FetchRevocations` of `sdks/go/aura/trust.go`, `sdks/python/aura_sdk.py:174-186`),
  so the answer is always 401. The Node middleware then refuses every request
  (`trustCache.js:41` throws), the Go cache takes an empty list and lets revoked
  tokens pass.

`setting` holds facts of an installation that the repository leaves open:

* `oneActive`: the database has the unique index on active keys. Migration 025 creates
  it and 026, which drops it in its text, has no "+goose Up" section, so `cmd/migrate`
  runs the whole file and creates it again.
* `cached`: the key set was in Redis when the behaviour begins; `verified`: somebody
  verifies tokens; `keys`: the number of active keys to begin with.

### What holds, and what is excused

* `SigningKeyKept`: without the index, rotating and activating one key at a time never
  leaves an organization without an active key. Excused are a deactivation, operations
  that overlap, an activation that fails between its statements, and the sweep of a
  key activated again before its old deadline, which activation does not clear.
* `RotationKeepsKey` is the same of any installation, and fails with the index
  (`trust_rotation`): an exclusive activation with a grace window leaves the other key
  active, the UPDATE of the new one is refused, the deadline passes and the sweeper
  switches the only key off. Migration 026 says "Drop legacy unique index".
* `KeyRetires`: no key stays overdue.
* `KeySetCatchesUp`: once the keys stay as they are, every key set a verification
  looks at or judges by comes to be theirs, however late a slow handler stored an
  older or a shortened set in Redis, a slow fetch kept one in the `TrustCache`, or a
  failing one fell back on it.

Two more things the page promises differ from the code: it accepts a grace in days,
which `time.ParseDuration` refuses, so no deadline is set; and its preview says
"Immediate deactivation (no grace)" where `RotateTrustKey` leaves the other keys
active (`+page.svelte:290`).

### Runs

`trust`: administrators alone (three clicks, or two and a fault; two with the unique
index); and two verifications at a time, with two keys, while one change of keys is
made, or with two faults over a cached set. Three keys are the old one, a new one and
one more; two verifications are enough for one to store a set the other has outdated;
`Limit` is 2 instead of 10, so that a set can be cut short. `trust_rotation`: one
rotation with the index. Deadlock is not checked: administrators may stop.
**Fairness**: verifications run to their end, lifetimes expire, the sweeper ticks.
Nobody has to verify or to change anything.

Left out, besides tokens and revocations: the key set shown beside the table,
introspection and the single use of token ids, and the Python verifier.

### Proofs

For any number of keys, functions of the page and verifications, and any `Limit` above
zero. `TrustKeys_proofs` has the lemmas about a step of the keys,
`TrustVerifier_proofs` the theorems.

* `TypeCorrect`. `KeysInv` adds to the types that what a function handles and a page
  lists exists.
* `KeysImplemented`: the composition refines the keys, `Spec => KeysInit /\
  [][KeysNext]_keyVars`. The readers only read, so `TypeCorrect` and `KeyStays` need
  the steps of the keys only.
* `KeyStays` (`SigningKeyKept`). `KeyKept` is not inductive: a sweep might take the
  last active key. `KeptInv` says that unless excused one operation runs at a time
  (`Alone`), the key of a rotation is active without a deadline until the others have
  theirs (`NewIsFree`), and some active key has no deadline, or one whose sweep is an
  excuse (`OneStays`). That a rotation's INSERT makes an active key needs `Purpose`.
  The theorem is about databases without the index, as the property is;
  `trust_rotation` shows what happens with it. Model-checked only: `KeyRetires` and
  `KeySetCatchesUp`, which are liveness.

## 8. `Console`

The console in one browser. Its tabs share `aura_token` and `aura_org_id`. A login
stores the first, asks for the organizations and stores the second; registration
stores the second only; signing out removes the first only. Each page reads them at a
moment of its own: `load` functions before the page is shown, often when the mouse is
over its link (`app.html:13`, `data-sveltekit-preload-data="hover"`), onboarding when
it is mounted, settings at the click.

### State and actions

`storage` is localStorage, `accounts` the backend's users, `tabs` the page of each tab
with what its `load` returned, `calls` the functions that wait for an answer or a
timer. `busy` are the disabled buttons of a page, `own` its functions, `doc` those of
its document: `goto` and links keep a document and with it every function that runs,
so a function can land on a page that did not start it; loading a document ends them
all (`Gone`). `loaded` is what a link's page was preloaded with, `going` the
navigation under way; until it `Shows`, the old page stays and its buttons work.

`HandleLogin`, `LoginLands`, `OrgsLand`; `HandleRegister`, `RegisterLands` and, two
seconds later, `RegisterTimer`; `HandleLogout`. A login ends when its navigation to
the dashboard has (`LoginEnds`). `SSOCallback` is the backend's handler with the page
it redirects to: it discards every error of the database (`sso_handlers.go:242-282`)
and may redirect with an organization that was not stored, or with the token of a user
that was not (`Stranger`). `Hover`, `Follow` and `Open` navigate. `SaveProfile`,
`SavePassword`, `SaveOrg` are settings; `HandleCreateAgent` with its dialog is the
agents page; `CreateAgent`, `AddRule`, `CreateApiKey` are onboarding; `Revoke` the
keys page. The backend answers in one step, and may do what was asked although the
answer is lost.

### What holds, and what is excused

* `SessionMatches`: once no login is between its two keys, whoever is signed in works
  on his own organization. Excused (`mixed`): the organizations could not be listed or
  the tab was loaded again before they were, somebody registered in a signed-in
  browser, the database failed under the SSO callback, two sign-ins overlapped. What
  is shown is that nothing else separates the two keys, and that a sign-in which
  stores both repairs them.
* `MadeOnce`: one filling of a form makes one thing, unless an answer was lost
  (`lost`): the console sends no Idempotency-Key, although the backend honours one.
* `ButtonsComeBack`: a button disabled for a request is enabled again or its page
  left, whatever the answers, other tabs and superseded navigations do.

No property says that what is displayed is of the session that is stored, because it
is not: a page shows what was loaded on hovering, before a sign-in in another tab, and
the save functions of settings read localStorage at the click
(`settings/+page.svelte:25`, `:62-67`), so a name typed for one organization is given
to another. The model has this (`Hover`, `SaveOrg`).

Also in the model, without a promise they would break: the late answer of a create
reloads whatever page the tab has moved to; the registration's redirect moves a tab
that has signed in meanwhile; onboarding goes on with the token of its mount after a
sign-out; the frame checks for a token only when it is mounted; a refused list of
agents makes the dashboard invite to onboarding; a failed revocation of a key shows
nothing.

### Run

`console`: two users of whom one is registered, two tabs, three functions and things,
one activity at a time while the other tab signs in and out, each with a fault: three
sign-ins; two saves beside a sign-in; two saves over several pages; making things
beside a sign-in; four things over several pages. Two tabs and two users are needed
for a page to be older than the session, three functions for a login and a
registration to overlap with a third. Deadlock is not checked: users may stop.
**Fairness**: a request is answered or given up, a function that was answered goes on,
timers fire, a page that is loaded is displayed. Users owe nothing; the budget of
clicks is what "as soon as they let go" of `ButtonsComeBack` means.

Simplifications: user `u` owns organization `u` and belongs to no other; the requests
of a `load` are answered when they are sent, what it returned is shown later; an
unanswered request of a document that is gone may or may not have arrived; messages
and the texts of forms are left out; a database that fails under the SSO callback
fails for the rest of it, and the mapping of domains to organizations
(`AURA_SSO_DOMAIN_ORG_MAP`) is not configured; the identity provider is external; the
lifetime of the session token is one of the faults.

### Proofs

`Console_proofs` proves `TypeCorrect`, `SessionTogether` and `FillingMadeOnce`, for
any number of users, tabs, functions and things:

* `SessionInv`: a login nothing disturbed is the only one between token and
  organization, and the token stored is its own. So the organization it stores last is
  the token's.
* `MadeInv`: a filling is in one form (`Apart`) and one running function (`Single`),
  which has disabled the button of its form (`Pair`); a thing whose answer is not lost
  keeps its function, which was told so, until the form is emptied (`Answered`,
  `Pending`). `MadeOnce` alone forgets the request that is on its way.

Model-checked only: `ButtonsComeBack`, which is liveness.

## 9. What is proved and what is not

Every invariant that a run checks and does not violate is a theorem for every value of
the constants that satisfies the assumptions of its module; so are two refinements, of
`PolicyBoard` by `PolicyLifecycle` and of the keys by `TrustVerifier`. The bounds of
the runs (entries, keys, dialogs, requests) and their budgets are constants, so a
theorem holds for any of them.

Model-checked only: liveness (`PendingResolves`, `JobsSettle`, `RequestsEnd`,
`QuorumTakesEffect`, `LoadingEnds`, `PollingEnds`, `KeyRetires`, `KeySetCatchesUp`,
`ButtonsComeBack`), which rests on fairness and `ENABLED` and is out of the prover's
reach.

## 10. Not modelled

Everything from number 7 of the plan on. Of the console: the pages for devices, policy
authoring, webhook endpoints and audit export, which load, save and load again as the
pages modelled here do; the public pages. The Node middleware, which refuses every
request (section 7), and the Python verifier. The revocation list. Within the queue:
the read-only status and download handlers, the content of the archives, e-mail,
metrics. Within the policies: the engines that evaluate a body, the preview and
listing handlers, which change nothing. Scores of reputation and risk are
floating-point arithmetic over stored events; the signers of the cloud providers are
pure input and output; the schema enters the modules as the guards it imposes.

## 11. Running

    tlc -config q_replicas.cfg MCCodegenQueue.tla        # about a minute
    tlc -config q_live.cfg MCCodegenQueue.tla            # about two minutes
    tlc -config q_drain_toggle.cfg MCCodegenQueue.tla    # finds the trace
    tlc -config pol_gov.cfg MCPolicyLifecycle.tla        # about two minutes
    tlc -config pol_live.cfg MCPolicyLifecycle.tla       # about two minutes
    tlc -config pol_rollback.cfg MCPolicyLifecycle.tla   # finds the trace
    tlc -config pol_two_active.cfg MCPolicyLifecycle.tla # finds the trace
    tlc -config dlq_pages.cfg MCDeadLetterPages.tla      # about two minutes
    tlc -config agent_page.cfg MCAgentPage.tla           # about two and a half minutes
    tlc -config trust.cfg MCTrustVerifier.tla            # about three minutes
    tlc -config trust_rotation.cfg MCTrustVerifier.tla   # finds the trace
    tlc -config console.cfg MCConsole.tla                # about two and a half minutes
    tlapm CodegenQueue_proofs.tla                        # about a minute
    tlapm PolicyLifecycle_proofs.tla                     # half a minute
    tlapm DeadLetterPages_proofs.tla                     # about two minutes
    tlapm Console_proofs.tla                             # about three minutes
    tlapm AgentPage_proofs.tla                           # about a minute
    tlapm TrustKeys_proofs.tla                           # about a minute
    tlapm TrustVerifier_proofs.tla                       # about a minute
