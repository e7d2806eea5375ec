---------------------------- MODULE CodegenQueue ----------------------------
(***************************************************************************)
(* The SDK code-generation queue of the AURA backend: POST /sdk/generate   *)
(* appends a job to a Redis stream, every server replica runs a pool of    *)
(* workers and one reclaimer that consume it through one consumer group,   *)
(* and administrators drain the queue and manage its dead-letter stream.   *)
(* Source: backend/internal/api/queue.go, sdk_handlers.go and the queue    *)
(* half of admin_handlers.go.                                              *)
(*                                                                         *)
(* Redis is shared and durable: stream, group, pending entries, dead       *)
(* letters.  Everything else lives in one server's memory and dies with    *)
(* it.  A step is one Redis call or one critical section of sdkJobs.mu.    *)
(***************************************************************************)
EXTENDS Naturals, Sequences, FiniteSets

CONSTANTS
    Servers,        \* backend processes; a server also names its reclaimer
    Workers,        \* worker goroutines of all servers
    Home,           \* Home[w] is the server that runs worker w
    Jobs,           \* job ids drawn by newJobID
    ReadCount,      \* AURA_QUEUE_READ_COUNT
    Batch,          \* AURA_QUEUE_AUTOCLAIM_BATCH
    MaxDeliveries,  \* AURA_QUEUE_MAX_DELIVERIES
    EmptyThresh,    \* AURA_QUEUE_DRAIN_EMPTY_TICKS
    BlockTicks,     \* reclaimer ticks that fit into one blocked XREADGROUP
    MaxMsgs,        \* bound: entries ever appended to the stream
    FaultKinds,     \* which Redis calls may fail
    Budget          \* bound: process stops, faults and drain toggles

ASSUME QueueAssumption ==
    /\ Home \in [Workers -> Servers]
    /\ Servers \cap Workers = {}
    /\ \A n \in {ReadCount, Batch, MaxDeliveries, EmptyThresh} : n \in Nat \ {0}
    /\ BlockTicks \in Nat /\ MaxMsgs \in Nat
    /\ FaultKinds \subseteq
         {"enqueue", "group", "read", "claim", "ack", "dlq", "xdel"}
    /\ Budget \in [{"stop", "fault", "drain"} -> Nat]

\* A deployment runs a number of replicas; DeliveryBound counts them.
ASSUME ServersAssumption == IsFiniteSet(Servers)

VARIABLES
    stream,      \* job of each stream entry; an entry's id is its index
    group,       \* the consumer group exists
    start,       \* entries at or below it predate the group
    last,        \* last-delivered-id of the group
    pending,     \* ids delivered and not acknowledged
    stale,       \* pending ids that have been idle for minIdle
    deliveries,  \* delivery count of each id
    dlq,         \* dead letters, [seq |-> own id, msg |-> id they came from]
    dlqTop,      \* last id given to a dead letter
    status,      \* sdkJobs.jobs[id].Status per server, "none" when absent
    artifact,    \* sdkJobs.files or sdkJobs.zips has the job, per server
    local,       \* fallback goroutines that run a job outside the queue
    pc,          \* where each worker or reclaimer is
    cur,         \* the delivery it handles
    todo,        \* the deliveries it still holds
    age,         \* ticks of its server a blocked read has lasted
    drain,       \* drainMode
    ticks,       \* drainZeroPendingTicks
    drained,     \* drainedComplete
    toggled,     \* history: drain went off since ticks was last zeroed
    cancelled,   \* the worker context was cancelled by SIGTERM
    adm,         \* progress of the server's RequeueDLQ loop
    submitted,   \* history: jobs accepted by GenerateSDK
    done,        \* history: jobs whose artifact some server stored
    deleted,     \* history: jobs an administrator removed from the dlq
    dropped,     \* history: jobs acknowledged although their dead letter was not written
    stranded,    \* history: jobs whose fallback run failed, or died with its process
    budget       \* what is left of Budget

redisVars == <<stream, group, start, last, pending, stale, deliveries, dlq, dlqTop>>
memVars   == <<status, artifact, local>>
actorVars == <<pc, cur, todo, age>>
drainVars == <<drain, ticks, drained, toggled>>
histVars  == <<submitted, done, deleted, dropped, stranded>>
vars == <<redisVars, memVars, actorVars, drainVars, cancelled, adm, histVars, budget>>

Actors   == Workers \cup Servers
At(a)    == IF a \in Servers THEN a ELSE Home[a]
Staff(s) == {w \in Workers : Home[w] = s}
Ids      == 1..MaxMsgs
Delivery == [id : Ids, n : Nat]
NoMsg    == [id |-> 0, n |-> 0]
Places   == {"init", "group", "idle", "reading", "scan", "next", "check", "run", "running",
             "ran", "ack"}
Statuses == {"none", "queued", "running", "ready", "error"}
NoEntry  == [stage |-> "none", seq |-> 0, msg |-> 0]

\* Redis hands out and XPENDING lists entries in id order.
Lowest(T)     == {d \in T : \A e \in T : d.id <= e.id}
FirstBatch(S) == {i \in S : Cardinality({k \in S : k < i}) < Batch}
Min2(m, n)    == IF m <= n THEN m ELSE n

TypeRedis ==
    /\ stream \in Seq(Jobs) /\ Len(stream) <= MaxMsgs
    /\ group \in BOOLEAN
    /\ last \in Nat /\ last <= Len(stream)
    /\ start \in Nat /\ start <= last
    /\ pending \subseteq Ids /\ stale \subseteq pending
    /\ deliveries \in [Ids -> Nat]
    /\ dlq \subseteq [seq : Nat, msg : Ids] /\ dlqTop \in Nat

TypeMemory ==
    /\ status \in [Servers -> [Jobs -> Statuses]]
    /\ artifact \in [Servers -> [Jobs -> BOOLEAN]]
    /\ local \in [Servers -> [Jobs -> {"none", "run", "running", "over"}]]

TypeActors ==
    /\ pc \in [Actors -> Places]
    /\ cur \in [Actors -> [id : 0..MaxMsgs, n : Nat]]
    /\ todo \in [Actors -> SUBSET Delivery]
    /\ age \in [Workers -> 0..BlockTicks]

TypeDrain ==
    /\ drain \in [Servers -> BOOLEAN] /\ drained \in [Servers -> BOOLEAN]
    /\ ticks \in [Servers -> 0..EmptyThresh] /\ toggled \in [Servers -> BOOLEAN]

TypeRest ==
    /\ cancelled \in [Servers -> BOOLEAN]
    /\ adm \in [Servers -> [stage : {"none", "read", "added"}, seq : Nat, msg : 0..MaxMsgs]]
    /\ submitted \subseteq Jobs /\ done \subseteq Jobs
    /\ deleted \subseteq Jobs /\ dropped \subseteq Jobs /\ stranded \subseteq Jobs
    /\ budget \in [{"stop", "fault", "drain"} -> Nat]

TypeOK == TypeRedis /\ TypeMemory /\ TypeActors /\ TypeDrain /\ TypeRest

Init ==
    /\ stream = <<>> /\ group = FALSE /\ start = 0 /\ last = 0
    /\ pending = {} /\ stale = {} /\ deliveries = [i \in Ids |-> 0]
    /\ dlq = {} /\ dlqTop = 0
    /\ status = [s \in Servers |-> [j \in Jobs |-> "none"]]
    /\ artifact = [s \in Servers |-> [j \in Jobs |-> FALSE]]
    /\ local = [s \in Servers |-> [j \in Jobs |-> "none"]]
    /\ pc = [a \in Actors |-> IF a \in Servers THEN "init" ELSE "idle"]
    /\ cur = [a \in Actors |-> NoMsg] /\ todo = [a \in Actors |-> {}]
    /\ age = [w \in Workers |-> 0]
    /\ drain = [s \in Servers |-> FALSE] /\ ticks = [s \in Servers |-> 0]
    /\ drained = [s \in Servers |-> FALSE] /\ toggled = [s \in Servers |-> FALSE]
    /\ cancelled = [s \in Servers |-> FALSE]
    /\ adm = [s \in Servers |-> NoEntry]
    /\ submitted = {} /\ done = {} /\ deleted = {} /\ dropped = {} /\ stranded = {}
    /\ budget = Budget

Spend(kind) == /\ budget[kind] > 0
               /\ budget' = [budget EXCEPT ![kind] = @ - 1]
Fault(kind) == kind \in FaultKinds /\ Spend("fault")

\* Variant: the last permitted delivery is not counted.
ExhaustedLate(d) == d.n > MaxDeliveries
\* The delivery count a snapshot shows has reached the limit.
Exhausted(d) == d.n >= MaxDeliveries

\* Variant: a single empty tick will do.
DrainDoneAtOnce(n) == n >= 1
DrainDone(n) == n >= EmptyThresh

Goto(a, l) == pc' = [pc EXCEPT ![a] = l]

\* The actor is through with its current delivery and turns to the next.
Resume(a) == /\ pc' = [pc EXCEPT ![a] = IF todo[a] = {} THEN "idle" ELSE "next"]
             /\ cur' = [cur EXCEPT ![a] = NoMsg]
             /\ UNCHANGED <<todo, age>>

SetStatus(s, j, st) == status' = [status EXCEPT ![s][j] = st]
XAdd(j)    == Len(stream) < MaxMsgs /\ stream' = Append(stream, j)
Running(s) == pc[s] \notin {"init", "group"}   \* StartCodegenWorker has returned
-----------------------------------------------------------------------------
(* Startup: StartCodegenWorker runs in its own goroutine beside the HTTP   *)
(* server, so requests interleave with its two steps.                      *)

InitRedis(s) ==
    /\ pc[s] = "init"
    /\ Goto(s, "group")
    /\ UNCHANGED <<redisVars, memVars, cur, todo, age, drainVars, cancelled, adm, histVars, budget>>

\* XGROUP CREATE ... "$": a new group starts behind whatever the stream
\* holds; an existing group is left alone (BUSYGROUP, ignored).
CreateGroup(s) ==
    /\ pc[s] = "group" /\ ~cancelled[s]
    /\ Goto(s, "idle")
    /\ group' = TRUE
    /\ IF group THEN UNCHANGED <<start, last>>
                ELSE start' = Len(stream) /\ last' = Len(stream)
    /\ UNCHANGED <<stream, pending, stale, deliveries, dlq, dlqTop, memVars, cur, todo, age,
                   drainVars, cancelled, adm, histVars, budget>>

\* The error of the call is discarded; workers start all the same.
CreateGroupFails(s) ==
    /\ pc[s] = "group"
    /\ IF cancelled[s] THEN UNCHANGED budget ELSE Fault("group")
    /\ Goto(s, "idle")
    /\ UNCHANGED <<redisVars, memVars, cur, todo, age, drainVars, cancelled, adm, histVars>>
-----------------------------------------------------------------------------
(* GenerateSDK and runCodegen *)

Submit(s, j) == /\ j \notin submitted
                /\ submitted' = submitted \cup {j}
                /\ SetStatus(s, j, "queued")

GenerateSDK(s, j) ==
    /\ Submit(s, j)
    /\ pc[s] # "init"
    /\ XAdd(j)
    /\ UNCHANGED <<group, start, last, pending, stale, deliveries, dlq, dlqTop, artifact, local,
                   actorVars, drainVars, cancelled, adm, done, deleted, dropped, stranded, budget>>

\* EnqueueCodegen returned an error: no client yet, or XADD failed, in which
\* case Redis may have appended the entry before the reply was lost.
GenerateSDKLocally(s, j) ==
    /\ Submit(s, j)
    /\ \/ pc[s] = "init" /\ UNCHANGED <<stream, budget>>
       \/ pc[s] # "init" /\ Fault("enqueue") /\ UNCHANGED stream
       \/ pc[s] # "init" /\ Fault("enqueue") /\ XAdd(j)
    /\ local' = [local EXCEPT ![s][j] = "run"]
    /\ UNCHANGED <<group, start, last, pending, stale, deliveries, dlq, dlqTop, artifact,
                   actorVars, drainVars, cancelled, adm, done, deleted, dropped, stranded>>

\* Variant: the failure status is misspelt.
CodegenOutcomeMisspelt(s, j) ==
    /\ SetStatus(s, j, "failed")
    /\ UNCHANGED <<artifact, done>>

\* How runCodegen ends: an error before or after the generator ran, or an
\* artifact (the generator's or a placeholder) stored together with "ready".
CodegenOutcome(s, j) ==
    \/ /\ SetStatus(s, j, "error")
       /\ UNCHANGED <<artifact, done>>
    \/ /\ SetStatus(s, j, "ready")
       /\ artifact' = [artifact EXCEPT ![s][j] = TRUE]
       /\ done' = done \cup {j}

\* A fallback goroutine of s still has to run job j, or runs it.
OnFallback(s, j) == local[s][j] \in {"run", "running"}

LocalBegin(s, j) ==
    /\ local[s][j] = "run"
    /\ local' = [local EXCEPT ![s][j] = "running"]
    /\ SetStatus(s, j, "running")
    /\ UNCHANGED <<redisVars, artifact, actorVars, drainVars, cancelled, adm, histVars, budget>>

LocalFinish(s, j) ==
    /\ local[s][j] = "running"
    /\ local' = [local EXCEPT ![s][j] = "over"]
    /\ CodegenOutcome(s, j)
    /\ stranded' = IF status'[s][j] = "ready" THEN stranded ELSE stranded \cup {j}
    /\ UNCHANGED <<redisVars, actorVars, drainVars, cancelled, adm, submitted, deleted, dropped, budget>>
-----------------------------------------------------------------------------
(* The worker loop *)

StartRead(w) ==
    /\ pc[w] = "idle" /\ Running(Home[w])
    /\ ~cancelled[Home[w]] /\ ~drain[Home[w]]
    /\ Goto(w, "reading")
    /\ UNCHANGED <<redisVars, memVars, cur, todo, age, drainVars, cancelled, adm, histVars, budget>>

\* XREADGROUP ">" hands out the next entries nobody in the group has had.
ReadNew(upto) ==
    /\ group /\ last < Len(stream)
    /\ upto = Min2(last + ReadCount, Len(stream))
    /\ last' = upto
    /\ pending' = pending \cup (last + 1)..upto
    /\ deliveries' = [i \in Ids |-> IF i \in (last + 1)..upto THEN 1 ELSE deliveries[i]]
    /\ UNCHANGED <<stream, group, start, stale, dlq, dlqTop>>

Deliver(w) ==
    /\ pc[w] = "reading"
    /\ \E upto \in Ids :
         /\ ReadNew(upto)
         /\ todo' = [todo EXCEPT ![w] = {[id |-> i, n |-> 1] : i \in (last + 1)..upto}]
    /\ Goto(w, "next") /\ age' = [age EXCEPT ![w] = 0]
    /\ UNCHANGED <<memVars, cur, drainVars, cancelled, adm, histVars, budget>>

\* Redis delivered, the reply got lost: the entries are pending, nobody has them.
DeliverLost(w) ==
    /\ pc[w] = "reading" /\ Fault("read")
    /\ \E upto \in Ids : ReadNew(upto)
    /\ Goto(w, "idle") /\ age' = [age EXCEPT ![w] = 0]
    /\ UNCHANGED <<memVars, cur, todo, drainVars, cancelled, adm, histVars>>

\* Nothing new within the block time, or NOGROUP.
ReadTimeout(w) ==
    /\ pc[w] = "reading" /\ ~(group /\ last < Len(stream))
    /\ Goto(w, "idle") /\ age' = [age EXCEPT ![w] = 0]
    /\ UNCHANGED <<redisVars, memVars, cur, todo, drainVars, cancelled, adm, histVars, budget>>

Take(w) ==
    /\ pc[w] = "next"
    /\ \E d \in Lowest(todo[w]) :
         /\ cur' = [cur EXCEPT ![w] = d]
         /\ todo' = [todo EXCEPT ![w] = @ \ {d}]
    /\ Goto(w, "check")
    /\ UNCHANGED <<redisVars, memVars, age, drainVars, cancelled, adm, histVars, budget>>

\* Waiting for the rate limiter, a cancelled worker drops the rest of its batch.
Quit(w) ==
    /\ pc[w] = "next" /\ cancelled[Home[w]]
    /\ todo' = [todo EXCEPT ![w] = {}]
    /\ Goto(w, "idle")
    /\ UNCHANGED <<redisVars, memVars, cur, age, drainVars, cancelled, adm, histVars, budget>>
-----------------------------------------------------------------------------
(* processCodegenMessage, by a worker or by a reclaimer *)

JobOf(a) == stream[cur[a].id]

\* Variant: a job that is already running counts as taken care of.
CheckTrustsRunning(a) ==
    /\ pc[a] = "check"
    /\ LET s == At(a)
           j == JobOf(a) IN
         /\ Goto(a, IF status[s][j] \in {"running", "ready"} \/ artifact[s][j] THEN "ack" ELSE "run")
         /\ IF status[s][j] = "none" THEN SetStatus(s, j, "queued") ELSE UNCHANGED status
    /\ UNCHANGED <<redisVars, artifact, local, cur, todo, age, drainVars, cancelled, adm,
                   histVars, budget>>

\* Seed the job record, skip what this server knows to be finished.
Check(a) ==
    /\ pc[a] = "check"
    /\ LET s == At(a)
           j == JobOf(a) IN
         /\ Goto(a, IF status[s][j] = "ready" \/ artifact[s][j] THEN "ack" ELSE "run")
         /\ IF status[s][j] = "none" THEN SetStatus(s, j, "queued") ELSE UNCHANGED status
    /\ UNCHANGED <<redisVars, artifact, local, cur, todo, age, drainVars, cancelled, adm,
                   histVars, budget>>

Begin(a) ==
    /\ pc[a] = "run"
    /\ Goto(a, "running")
    /\ SetStatus(At(a), JobOf(a), "running")
    /\ UNCHANGED <<redisVars, artifact, local, cur, todo, age, drainVars, cancelled, adm,
                   histVars, budget>>

Finish(a) ==
    /\ pc[a] = "running"
    /\ Goto(a, "ran")
    /\ CodegenOutcome(At(a), JobOf(a))
    /\ UNCHANGED <<redisVars, local, cur, todo, age, drainVars, cancelled, adm,
                   submitted, deleted, dropped, stranded, budget>>

\* Variant: acknowledge whatever the run came to.
VerdictAlwaysAcks(a) ==
    /\ pc[a] = "ran" /\ Goto(a, "ack")
    /\ UNCHANGED <<redisVars, memVars, cur, todo, age, drainVars, cancelled, adm, histVars, budget>>

\* The verdict reads the shared record again: a concurrent run of the same
\* job may have overwritten what this run stored.
Verdict(a) ==
    /\ pc[a] = "ran"
    /\ IF status[At(a)][JobOf(a)] = "ready"
         THEN Goto(a, "ack") /\ UNCHANGED <<cur, todo, age>>
         ELSE Resume(a)
    /\ UNCHANGED <<redisVars, memVars, drainVars, cancelled, adm, histVars, budget>>

\* XACK; a cancelled context makes go-redis refuse to send it.
Ack(a) ==
    /\ pc[a] = "ack"
    /\ IF cancelled[At(a)]
         THEN UNCHANGED <<pending, stale>>
         ELSE pending' = pending \ {cur[a].id} /\ stale' = stale \ {cur[a].id}
    /\ Resume(a)
    /\ UNCHANGED <<stream, group, start, last, deliveries, dlq, dlqTop, memVars, drainVars,
                   cancelled, adm, histVars, budget>>

AckLost(a) ==
    /\ pc[a] = "ack" /\ Fault("ack")
    /\ Resume(a)
    /\ UNCHANGED <<redisVars, memVars, drainVars, cancelled, adm, histVars>>
-----------------------------------------------------------------------------
(* The reclaimer loop *)

\* One tick: the pending summary moves the drain state machine.
Tick(s) ==
    /\ pc[s] = "idle" /\ ~cancelled[s]
    /\ \A w \in Staff(s) : pc[w] = "reading" => age[w] < BlockTicks
    /\ Goto(s, "scan")
    /\ age' = [w \in Workers |->
                 IF Home[w] = s /\ pc[w] = "reading" THEN age[w] + 1 ELSE age[w]]
    /\ \/ ~group /\ UNCHANGED <<ticks, drained, toggled>>
       \/ /\ group /\ drain[s] /\ pending = {}
          /\ ticks' = [ticks EXCEPT ![s] = Min2(@ + 1, EmptyThresh)]
          /\ drained' = IF DrainDone(ticks[s] + 1) THEN [drained EXCEPT ![s] = TRUE] ELSE drained
          /\ UNCHANGED toggled
       \/ /\ group /\ ~(drain[s] /\ pending = {})
          /\ ticks' = [ticks EXCEPT ![s] = 0]
          /\ drained' = [drained EXCEPT ![s] = FALSE]
          /\ toggled' = [toggled EXCEPT ![s] = FALSE]
    /\ UNCHANGED <<redisVars, memVars, cur, todo, drain, cancelled, adm, histVars, budget>>

\* Variant: drain mode stops the reclaimer as well.
ScanUnlessDraining(s) ==
    /\ pc[s] = "scan"
    /\ LET found == IF cancelled[s] \/ drain[s] THEN {}
                    ELSE {[id |-> i, n |-> deliveries[i]] : i \in FirstBatch(pending) \cap stale} IN
         /\ todo' = [todo EXCEPT ![s] = found]
         /\ Goto(s, IF found = {} THEN "idle" ELSE "next")
    /\ UNCHANGED <<redisVars, memVars, cur, age, drainVars, cancelled, adm, histVars, budget>>

\* XPENDING with details: a snapshot of the first Batch entries; those not
\* idle for minIdle are skipped.
Scan(s) ==
    /\ pc[s] = "scan"
    /\ LET found == IF cancelled[s] THEN {}
                    ELSE {[id |-> i, n |-> deliveries[i]] : i \in FirstBatch(pending) \cap stale} IN
         /\ todo' = [todo EXCEPT ![s] = found]
         /\ Goto(s, IF found = {} THEN "idle" ELSE "next")
    /\ UNCHANGED <<redisVars, memVars, cur, age, drainVars, cancelled, adm, histVars, budget>>

\* The delivery count of the snapshot decides: XADD to the dead letters, then XACK.
Exhaust(s) ==
    /\ pc[s] = "next" /\ ~cancelled[s]
    /\ \E d \in Lowest(todo[s]) :
         /\ Exhausted(d)
         /\ cur' = [cur EXCEPT ![s] = d]
         /\ todo' = [todo EXCEPT ![s] = @ \ {d}]
         /\ dlqTop' = dlqTop + 1
         /\ dlq' = dlq \cup {[seq |-> dlqTop + 1, msg |-> d.id]}
    /\ Goto(s, "ack")
    /\ UNCHANGED <<stream, group, start, last, pending, stale, deliveries, memVars, age,
                   drainVars, cancelled, adm, histVars, budget>>

\* XRANGE or XADD failed; both errors are discarded and the entry is
\* acknowledged all the same.
ExhaustUnwritten(s) ==
    /\ pc[s] = "next" /\ ~cancelled[s] /\ Fault("dlq")
    /\ \E d \in Lowest(todo[s]) :
         /\ Exhausted(d)
         /\ cur' = [cur EXCEPT ![s] = d]
         /\ todo' = [todo EXCEPT ![s] = @ \ {d}]
         /\ dropped' = dropped \cup {stream[d.id]}
    /\ Goto(s, "ack")
    /\ UNCHANGED <<redisVars, memVars, age, drainVars, cancelled, adm, submitted, done, deleted, stranded>>

\* XCLAIM with MinIdle: only an entry still pending and idle changes hands.
XClaim(i) ==
    /\ i \in stale
    /\ deliveries' = [deliveries EXCEPT ![i] = @ + 1]
    /\ stale' = stale \ {i}
    /\ UNCHANGED <<stream, group, start, last, pending, dlq, dlqTop>>

Claim(s) ==
    /\ pc[s] = "next" /\ ~cancelled[s]
    /\ \E d \in Lowest(todo[s]) :
         /\ ~Exhausted(d)
         /\ XClaim(d.id)
         /\ cur' = [cur EXCEPT ![s] = d]
         /\ todo' = [todo EXCEPT ![s] = @ \ {d}]
    /\ Goto(s, "check")
    /\ UNCHANGED <<memVars, age, drainVars, cancelled, adm, histVars, budget>>

\* Nothing claimed: acknowledged or reclaimed since the snapshot, the reply
\* was lost, or the context is cancelled and no call of the loop goes out.
Skip(s) ==
    /\ pc[s] = "next"
    /\ \E d \in Lowest(todo[s]) :
         /\ \/ cancelled[s] /\ UNCHANGED <<redisVars, budget>>
            \/ /\ ~cancelled[s] /\ ~Exhausted(d) /\ d.id \notin stale
               /\ UNCHANGED <<redisVars, budget>>
            \/ ~cancelled[s] /\ ~Exhausted(d) /\ Fault("claim") /\ XClaim(d.id)
         /\ todo' = [todo EXCEPT ![s] = @ \ {d}]
         /\ Goto(s, IF todo[s] = {d} THEN "idle" ELSE "next")
    /\ UNCHANGED <<memVars, cur, age, drainVars, cancelled, adm, histVars>>

\* Time passes: a pending entry has been idle for minIdle.
GrowStale(i) ==
    /\ i \in pending \ stale
    /\ stale' = stale \cup {i}
    /\ UNCHANGED <<stream, group, start, last, pending, deliveries, dlq, dlqTop, memVars,
                   actorVars, drainVars, cancelled, adm, histVars, budget>>
-----------------------------------------------------------------------------
(* Administration *)

QueueDrain(s, enable) ==
    /\ drain[s] # enable
    /\ Spend("drain")
    /\ drain' = [drain EXCEPT ![s] = enable]
    /\ toggled' = IF ~enable /\ ticks[s] > 0 THEN [toggled EXCEPT ![s] = TRUE] ELSE toggled
    /\ UNCHANGED <<redisVars, memVars, actorVars, ticks, drained, cancelled, adm, histVars>>

\* RequeueDLQ, per id: XRANGE the entry, XADD its payload, XDEL it.
RequeueRead(s, e) ==
    /\ adm[s] = NoEntry /\ pc[s] # "init" /\ e \in dlq
    /\ adm' = [adm EXCEPT ![s] = [stage |-> "read", seq |-> e.seq, msg |-> e.msg]]
    /\ UNCHANGED <<redisVars, memVars, actorVars, drainVars, cancelled, histVars, budget>>

RequeueAdd(s) ==
    /\ adm[s].stage = "read"
    /\ XAdd(stream[adm[s].msg])
    /\ adm' = [adm EXCEPT ![s].stage = "added"]
    /\ UNCHANGED <<group, start, last, pending, stale, deliveries, dlq, dlqTop, memVars,
                   actorVars, drainVars, cancelled, histVars, budget>>

\* Variant: the loop goes on to the XDEL although the XADD failed.
RequeueAddFailsAndGoesOn(s) ==
    /\ adm[s].stage = "read" /\ Fault("enqueue")
    /\ adm' = [adm EXCEPT ![s].stage = "added"]
    /\ UNCHANGED <<redisVars, memVars, actorVars, drainVars, cancelled, histVars>>

RequeueAddFails(s) ==
    /\ adm[s].stage = "read" /\ Fault("enqueue")
    /\ adm' = [adm EXCEPT ![s] = NoEntry]
    /\ UNCHANGED <<redisVars, memVars, actorVars, drainVars, cancelled, histVars>>

RequeueDel(s) ==
    /\ adm[s].stage = "added"
    /\ \/ dlq' = dlq \ {[seq |-> adm[s].seq, msg |-> adm[s].msg]} /\ UNCHANGED budget
       \/ Fault("xdel") /\ UNCHANGED dlq
    /\ adm' = [adm EXCEPT ![s] = NoEntry]
    /\ UNCHANGED <<stream, group, start, last, pending, stale, deliveries, dlqTop, memVars,
                   actorVars, drainVars, cancelled, histVars>>

DeleteDLQ(e) ==
    /\ e \in dlq
    /\ dlq' = dlq \ {e}
    /\ deleted' = deleted \cup {stream[e.msg]}
    /\ UNCHANGED <<stream, group, start, last, pending, stale, deliveries, dlqTop, memVars,
                   actorVars, drainVars, cancelled, adm, submitted, done, dropped, stranded, budget>>
-----------------------------------------------------------------------------
(* Process lifecycle *)

\* SIGTERM cancels the worker context; the process itself keeps serving.
Signal(s) ==
    /\ ~cancelled[s]
    /\ Spend("stop")
    /\ cancelled' = [cancelled EXCEPT ![s] = TRUE]
    /\ UNCHANGED <<redisVars, memVars, actorVars, drainVars, adm, histVars>>

\* A crash, or the SIGKILL that follows SIGTERM, and a restart with empty memory.
Crash(s) ==
    /\ IF cancelled[s] THEN UNCHANGED budget ELSE Spend("stop")
    /\ status' = [status EXCEPT ![s] = [j \in Jobs |-> "none"]]
    /\ artifact' = [artifact EXCEPT ![s] = [j \in Jobs |-> FALSE]]
    /\ local' = [local EXCEPT ![s] = [j \in Jobs |-> "none"]]
    /\ pc' = [a \in Actors |-> IF a = s THEN "init" ELSE IF At(a) = s THEN "idle" ELSE pc[a]]
    /\ cur' = [a \in Actors |-> IF At(a) = s THEN NoMsg ELSE cur[a]]
    /\ todo' = [a \in Actors |-> IF At(a) = s THEN {} ELSE todo[a]]
    /\ age' = [w \in Workers |-> IF Home[w] = s THEN 0 ELSE age[w]]
    /\ drain' = [drain EXCEPT ![s] = FALSE] /\ ticks' = [ticks EXCEPT ![s] = 0]
    /\ drained' = [drained EXCEPT ![s] = FALSE] /\ toggled' = [toggled EXCEPT ![s] = FALSE]
    /\ cancelled' = [cancelled EXCEPT ![s] = FALSE]
    /\ adm' = [adm EXCEPT ![s] = NoEntry]
    /\ stranded' = stranded \cup {j \in Jobs : OnFallback(s, j)}
    /\ UNCHANGED <<redisVars, submitted, done, deleted, dropped>>
-----------------------------------------------------------------------------
Work(a)      == Check(a) \/ Begin(a) \/ Finish(a) \/ Verdict(a) \/ Ack(a)
WorkerLoop(w) == StartRead(w) \/ Deliver(w) \/ ReadTimeout(w) \/ Take(w)
Reclaim(s)   == Tick(s) \/ Scan(s) \/ Exhaust(s) \/ Claim(s) \/ Skip(s)

Next ==
    \/ \E s \in Servers :
         \/ InitRedis(s) \/ CreateGroup(s) \/ CreateGroupFails(s)
         \/ \E j \in Jobs : \/ GenerateSDK(s, j) \/ GenerateSDKLocally(s, j)
                            \/ LocalBegin(s, j) \/ LocalFinish(s, j)
         \/ Reclaim(s) \/ ExhaustUnwritten(s)
         \/ \E enable \in BOOLEAN : QueueDrain(s, enable)
         \/ \E e \in dlq : RequeueRead(s, e)
         \/ RequeueAdd(s) \/ RequeueAddFails(s) \/ RequeueDel(s)
         \/ Signal(s) \/ Crash(s)
    \/ \E w \in Workers : WorkerLoop(w) \/ Quit(w) \/ DeliverLost(w)
    \/ \E a \in Actors : Work(a) \/ AckLost(a)
    \/ \E i \in Ids : GrowStale(i)
    \/ \E e \in dlq : DeleteDLQ(e)

Spec == Init /\ [][Next]_vars

\* The scheduler runs every goroutine, codegen and Redis calls return, time
\* passes, and SIGKILL follows SIGTERM.  Requests, faults, crashes and the
\* administrators owe nothing.
Fairness ==
    /\ \A s \in Servers : /\ WF_vars(InitRedis(s))
                          /\ \A j \in Jobs : WF_vars(LocalBegin(s, j) \/ LocalFinish(s, j))
                          /\ WF_vars(CreateGroup(s) \/ CreateGroupFails(s))
                          /\ WF_vars(Reclaim(s))
                          /\ WF_vars(cancelled[s] /\ Crash(s))
    /\ \A w \in Workers : WF_vars(WorkerLoop(w))
    /\ \A a \in Actors : WF_vars(Work(a))
    /\ \A i \in Ids : WF_vars(GrowStale(i))

FairSpec == Spec /\ Fairness
-----------------------------------------------------------------------------
(* Properties *)

\* A worker or the reclaimer will still come across stream entry m.
Live(m) == m > last \/ m \in pending

\* The job of an entry the stream held when the group was created: XGROUP
\* CREATE "$" puts it behind the group for good, and no worker is given it.
Missed == {stream[m] : m \in 1..start}

Waiting(j) == \E m \in 1..Len(stream) : stream[m] = j /\ Live(m)
Parked(j)  == \E e \in dlq : stream[e.msg] = j
Over(j)    == j \in done \cup deleted \cup dropped \cup Missed

\* A job answered 202 leaves no other way than these: it waits in the stream or
\* in a fallback goroutine, was finished, is a dead letter, was deleted by an
\* administrator, or is lost at one of three places where the code loses it:
\* its dead letter was not written, which the reclaimer does not notice
\* (dropped); its entry is older than the group (Missed); or no entry was
\* appended and the goroutine that runs it instead failed or died (stranded).
\* So whatever crashes, lost replies, duplicate deliveries, cancelled workers
\* and requeues interleave, XACK and XDEL never drop the last trace of a job.
NoJobLost ==
    \A j \in submitted :
        \/ Over(j) \/ Waiting(j) \/ Parked(j)
        \/ \E s \in Servers : OnFallback(s, j)
        \/ j \in stranded /\ \A m \in 1..Len(stream) : stream[m] # j

\* MinIdle of XCLAIM keeps stale snapshots from redelivering without end: past
\* the limit, each server can spend at most the one snapshot it already held.
DeliveryBound ==
    \A i \in Ids : deliveries[i] <= MaxDeliveries + Cardinality(Servers) - 1

Held(w) == {cur[w].id} \cup {d.id : d \in todo[w]}

\* GET /admin/queue/drain/complete: if drain stayed on since the empty ticks
\* began, "drained" means that no worker of the server has a read outstanding
\* and none holds an entry the group still counts as pending.
DrainedIsQuiet ==
    \A s \in Servers : drained[s] /\ ~toggled[s] =>
        \A w \in Staff(s) : pc[w] # "reading" /\ Held(w) \cap pending = {}

\* The same without the proviso, which is how the runbook puts it: in drain
\* mode, "drained" says that it is safe to terminate the workers.
DrainedIsSafe ==
    \A s \in Servers : drain[s] /\ drained[s] =>
        \A w \in Staff(s) : pc[w] # "reading" /\ Held(w) \cap pending = {}

\* The reclaimer finishes pending entries, in drain mode too: every delivered
\* entry is acknowledged in the end, by success or by way of the dead letters,
\* and one that keeps failing does not starve those behind it.
PendingResolves == \A i \in Ids : (i \in pending) ~> (i \notin pending)

\* Unless drain stays on somewhere, every accepted job comes to an end once the
\* group exists, by one of the ends NoJobLost names; and a fallback run ends
\* without any group.  A job in the stream waits for ever if no process ever
\* gets the group created: that call is made once per start, its error ignored.
JobsSettle ==
    <>[](\A s \in Servers : ~drain[s]) =>
        \A j \in Jobs :
            /\ (j \in submitted /\ group) ~>
                 (Over(j) \/ Parked(j) \/ (j \in stranded /\ ~Waiting(j)))
            /\ (\E s \in Servers : OnFallback(s, j)) ~> (j \in done \cup stranded)
=============================================================================
