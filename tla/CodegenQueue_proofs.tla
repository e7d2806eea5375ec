------------------------ MODULE CodegenQueue_proofs ------------------------
(***************************************************************************)
(* Proofs about CodegenQueue, for any number of servers, workers and jobs: *)
(* type correctness, that no accepted job is lost, that a completed drain  *)
(* has left the workers quiet, and how often an entry can be delivered.    *)
(***************************************************************************)
EXTENDS CodegenQueue, FiniteSetTheorems, TLAPS

\* An actor that handles a delivery has one, and so has a requeue in progress.
Busy == {"check", "run", "running", "ran", "ack"}
HandlesOne ==
    /\ \A a \in Actors : pc[a] \in Busy => cur[a].id # 0
    /\ \A s \in Servers : adm[s].stage # "none" => adm[s].msg # 0

\* Nobody holds an entry that the group has not delivered.
OnlyDelivered ==
    /\ \A i \in pending : i <= last
    /\ \A a \in Actors : cur[a].id <= last
    /\ \A a \in Actors : \A d \in todo[a] : d.id <= last
    /\ \A e \in dlq : e.msg <= last
    /\ \A s \in Servers : adm[s].msg <= last

TypeInv == TypeOK /\ HandlesOne /\ OnlyDelivered

LEMMA ActorFacts ==
    /\ \A s \in Servers : s \in Actors /\ s \notin Workers /\ At(s) = s
    /\ \A w \in Workers : w \in Actors /\ w \notin Servers /\ At(w) = Home[w] /\ Home[w] \in Servers
    /\ \A a \in Actors : At(a) \in Servers
BY QueueAssumption DEF Actors, At

LEMMA ConstantFacts ==
    /\ EmptyThresh \in Nat /\ EmptyThresh > 0
    /\ ReadCount \in Nat /\ ReadCount > 0
    /\ BlockTicks \in Nat /\ MaxMsgs \in Nat
<1> USE QueueAssumption
<1>1. EmptyThresh \in Nat \ {0} OBVIOUS
<1>2. ReadCount \in Nat \ {0} OBVIOUS
<1>3. BlockTicks \in Nat /\ MaxMsgs \in Nat OBVIOUS
<1> QED BY <1>1, <1>2, <1>3

LEMMA IdFacts == \A i \in Ids : i \in Nat /\ i # 0 /\ i <= MaxMsgs
BY ConstantFacts DEF Ids

-----------------------------------------------------------------------------
(* What each step leaves alone.  A proof about one part of the state only   *)
(* has to look at the actions that touch it.                                *)

LEMMA FrameRedis ==
    ASSUME [Next]_vars
    PROVE  \/ UNCHANGED redisVars
           \/ \E s \in Servers : \/ CreateGroup(s) \/ Exhaust(s) \/ Claim(s) \/ Skip(s)
                                 \/ RequeueAdd(s) \/ RequeueDel(s)
           \/ \E s \in Servers, j \in Jobs : GenerateSDK(s, j) \/ GenerateSDKLocally(s, j)
           \/ \E w \in Workers : Deliver(w) \/ DeliverLost(w)
           \/ \E a \in Actors : Ack(a)
           \/ \E i \in Ids : GrowStale(i)
           \/ \E e \in dlq : DeleteDLQ(e)
BY DEF Next, Reclaim, WorkerLoop, Work, vars, InitRedis, CreateGroupFails, LocalBegin, LocalFinish,
   Tick, Scan, ExhaustUnwritten, QueueDrain, RequeueRead, RequeueAddFails, Signal, Crash, StartRead,
   ReadTimeout, Take, Quit, Check, Begin, Finish, Verdict, AckLost

LEMMA FrameMemory ==
    ASSUME [Next]_vars
    PROVE  \/ UNCHANGED memVars
           \/ \E s \in Servers : Crash(s)
           \/ \E s \in Servers, j \in Jobs : \/ GenerateSDK(s, j) \/ GenerateSDKLocally(s, j)
                                             \/ LocalBegin(s, j) \/ LocalFinish(s, j)
           \/ \E a \in Actors : Check(a) \/ Begin(a) \/ Finish(a)
BY DEF Next, Reclaim, WorkerLoop, Work, vars, InitRedis, CreateGroup, CreateGroupFails, Tick, Scan,
   Exhaust, ExhaustUnwritten, Claim, Skip, QueueDrain, RequeueRead, RequeueAdd, RequeueAddFails,
   RequeueDel, Signal, StartRead, Deliver, DeliverLost, ReadTimeout, Take, Quit, Verdict, Ack, AckLost,
   GrowStale, DeleteDLQ

LEMMA FrameActors ==
    ASSUME [Next]_vars
    PROVE  \/ UNCHANGED actorVars
           \/ \E s \in Servers : \/ InitRedis(s) \/ CreateGroup(s) \/ CreateGroupFails(s) \/ Tick(s)
                                 \/ Scan(s) \/ Exhaust(s) \/ ExhaustUnwritten(s) \/ Claim(s) \/ Skip(s)
                                 \/ Crash(s)
           \/ \E w \in Workers : \/ StartRead(w) \/ Deliver(w) \/ DeliverLost(w) \/ ReadTimeout(w)
                                 \/ Take(w) \/ Quit(w)
           \/ \E a \in Actors : \/ Check(a) \/ Begin(a) \/ Finish(a) \/ Verdict(a)
                                \/ Ack(a) \/ AckLost(a)
BY DEF Next, Reclaim, WorkerLoop, Work, vars, GenerateSDK, GenerateSDKLocally, LocalBegin, LocalFinish,
   QueueDrain, RequeueRead, RequeueAdd, RequeueAddFails, RequeueDel, Signal, GrowStale, DeleteDLQ

LEMMA FrameDrain ==
    ASSUME [Next]_vars
    PROVE  \/ UNCHANGED drainVars
           \/ \E s \in Servers : Tick(s) \/ Crash(s) \/ \E b \in BOOLEAN : QueueDrain(s, b)
BY DEF Next, Reclaim, WorkerLoop, Work, vars, InitRedis, CreateGroup, CreateGroupFails, GenerateSDK,
   GenerateSDKLocally, LocalBegin, LocalFinish, Scan, Exhaust, ExhaustUnwritten, Claim, Skip,
   RequeueRead, RequeueAdd, RequeueAddFails, RequeueDel, Signal, StartRead, Deliver, DeliverLost,
   ReadTimeout, Take, Quit, Check, Begin, Finish, Verdict, Ack, AckLost, GrowStale, DeleteDLQ

LEMMA FrameAdm ==
    ASSUME [Next]_vars
    PROVE  \/ UNCHANGED adm
           \/ \E s \in Servers : \/ RequeueAdd(s) \/ RequeueAddFails(s) \/ RequeueDel(s) \/ Crash(s)
                                 \/ \E e \in dlq : RequeueRead(s, e)
BY DEF Next, Reclaim, WorkerLoop, Work, vars, InitRedis, CreateGroup, CreateGroupFails, GenerateSDK,
   GenerateSDKLocally, LocalBegin, LocalFinish, Tick, Scan, Exhaust, ExhaustUnwritten, Claim, Skip,
   QueueDrain, Signal, StartRead, Deliver, DeliverLost, ReadTimeout, Take, Quit, Check, Begin, Finish,
   Verdict, Ack, AckLost, GrowStale, DeleteDLQ

LEMMA FrameHistory ==
    ASSUME [Next]_vars
    PROVE  \/ UNCHANGED histVars
           \/ \E s \in Servers, j \in Jobs : \/ GenerateSDK(s, j) \/ GenerateSDKLocally(s, j)
                                             \/ LocalFinish(s, j)
           \/ \E s \in Servers : ExhaustUnwritten(s) \/ Crash(s)
           \/ \E a \in Actors : Finish(a)
           \/ \E e \in dlq : DeleteDLQ(e)
BY DEF Next, Reclaim, WorkerLoop, Work, vars, InitRedis, CreateGroup, CreateGroupFails, LocalBegin,
   Tick, Scan, Exhaust, Claim, Skip, QueueDrain, RequeueRead, RequeueAdd,
   RequeueAddFails, RequeueDel, Signal, StartRead, Deliver, DeliverLost, ReadTimeout, Take,
   Quit, Check, Begin, Verdict, Ack, AckLost, GrowStale

LEMMA FrameBudget ==
    ASSUME [Next]_vars
    PROVE  UNCHANGED budget \/ Spend("stop") \/ Spend("fault") \/ Spend("drain")
BY DEF Next, Reclaim, WorkerLoop, Work, vars, InitRedis, CreateGroup, CreateGroupFails, GenerateSDK,
   GenerateSDKLocally, LocalBegin, LocalFinish, Tick, Scan, Exhaust, ExhaustUnwritten, Claim, Skip,
   QueueDrain, RequeueRead, RequeueAdd, RequeueAddFails, RequeueDel, Signal, Crash, StartRead, Deliver,
   DeliverLost, ReadTimeout, Take, Quit, Check, Begin, Finish, Verdict, Ack, AckLost, GrowStale,
   DeleteDLQ, Fault

LEMMA FrameCancelled ==
    ASSUME [Next]_vars
    PROVE  UNCHANGED cancelled \/ \E s \in Servers : Signal(s) \/ Crash(s)
BY DEF Next, Reclaim, WorkerLoop, Work, vars, InitRedis, CreateGroup, CreateGroupFails, GenerateSDK,
   GenerateSDKLocally, LocalBegin, LocalFinish, Tick, Scan, Exhaust, ExhaustUnwritten, Claim, Skip,
   QueueDrain, RequeueRead, RequeueAdd, RequeueAddFails, RequeueDel, StartRead, Deliver, DeliverLost,
   ReadTimeout, Take, Quit, Check, Begin, Finish, Verdict, Ack, AckLost, GrowStale, DeleteDLQ
-----------------------------------------------------------------------------
(* Type correctness, one group of variables at a time.                     *)

LEMMA InitTypeInv == Init => TypeInv
<1> SUFFICES ASSUME Init PROVE TypeInv OBVIOUS
<1>1. TypeRedis
  <2>1. stream \in Seq(Jobs) /\ Len(stream) = 0 BY DEF Init
  <2>2. deliveries \in [Ids -> Nat] BY DEF Init
  <2>3. last = 0 /\ start = 0 /\ dlqTop = 0 /\ pending = {} /\ stale = {} /\ dlq = {} BY DEF Init
  <2>5. group \in BOOLEAN BY DEF Init
  <2>4. 0 \in Nat /\ 0 <= MaxMsgs BY ConstantFacts
  <2> QED BY <2>1, <2>2, <2>3, <2>4, <2>5 DEF TypeRedis
<1>2. TypeMemory BY DEF Init, TypeMemory, Statuses
<1>3. TypeActors
  <2>1. pc \in [Actors -> Places] BY DEF Init, Places
  <2>2. cur \in [Actors -> [id : 0..MaxMsgs, n : Nat]] BY ConstantFacts DEF Init, NoMsg
  <2>3. todo \in [Actors -> SUBSET Delivery] BY DEF Init
  <2>4. age \in [Workers -> 0..BlockTicks] BY ConstantFacts DEF Init
  <2> QED BY <2>1, <2>2, <2>3, <2>4 DEF TypeActors
<1>4. TypeDrain BY ConstantFacts DEF Init, TypeDrain
<1>5. TypeRest
  <2>1. adm \in [Servers -> [stage : {"none", "read", "added"}, seq : Nat, msg : 0..MaxMsgs]]
    BY ConstantFacts DEF Init, NoEntry
  <2>2. budget \in [{"stop", "fault", "drain"} -> Nat] BY QueueAssumption DEF Init
  <2> QED BY <2>1, <2>2 DEF Init, TypeRest
<1>6. HandlesOne BY ActorFacts DEF Init, HandlesOne, Busy, NoEntry
<1>7. OnlyDelivered BY DEF Init, OnlyDelivered, NoMsg, NoEntry
<1> QED BY <1>1, <1>2, <1>3, <1>4, <1>5, <1>6, <1>7 DEF TypeInv, TypeOK

\* The stream only ever grows at its end.
LEMMA XAddFacts ==
    ASSUME TypeRedis, NEW j \in Jobs, XAdd(j)
    PROVE  /\ stream' \in Seq(Jobs)
           /\ Len(stream') = Len(stream) + 1 /\ Len(stream') <= MaxMsgs
           /\ \A m \in 1..Len(stream) : stream'[m] = stream[m]
           /\ stream'[Len(stream')] = j
BY ConstantFacts DEF TypeRedis, XAdd

LEMMA ReadNewFacts ==
    ASSUME TypeRedis, NEW upto \in Ids, ReadNew(upto)
    PROVE  /\ upto \in Nat /\ last' = upto /\ upto > last /\ upto <= Len(stream)
           /\ (last + 1)..upto \subseteq Ids
           /\ pending' \subseteq Ids /\ pending \subseteq pending'
           /\ deliveries' \in [Ids -> Nat]
<1> USE ConstantFacts DEF TypeRedis, ReadNew, Ids
<1>1. upto \in Nat /\ last' = upto OBVIOUS
<1>2. upto > last /\ upto <= Len(stream) BY DEF Min2
<1>3. (last + 1)..upto \subseteq Ids BY <1>1, <1>2
<1>4. pending' \subseteq Ids /\ pending \subseteq pending' BY <1>3
<1>5. deliveries' \in [Ids -> Nat] OBVIOUS
<1> QED BY <1>1, <1>2, <1>3, <1>4, <1>5

LEMMA RedisType == ASSUME TypeInv, [Next]_vars PROVE TypeRedis'
<1> USE DEF TypeInv, TypeOK
<1>1. CASE UNCHANGED redisVars BY <1>1 DEF redisVars, TypeRedis
<1>2. ASSUME NEW s \in Servers, CreateGroup(s) PROVE TypeRedis'
  BY <1>2 DEF CreateGroup, TypeRedis
<1>3. ASSUME NEW s \in Servers, Exhaust(s) PROVE TypeRedis'
  <2>1. PICK d \in Lowest(todo[s]) : dlq' = dlq \cup {[seq |-> dlqTop + 1, msg |-> d.id]}
    BY <1>3 DEF Exhaust
  <2>2. todo[s] \subseteq Delivery BY ActorFacts DEF TypeActors
  <2>3. d.id \in Ids BY <2>1, <2>2 DEF Lowest, Delivery
  <2>4. dlq' \subseteq [seq : Nat, msg : Ids] BY <2>1, <2>3 DEF TypeRedis
  <2>5. dlqTop' \in Nat BY <1>3 DEF Exhaust, TypeRedis
  <2>6. UNCHANGED <<stream, group, start, last, pending, stale, deliveries>> BY <1>3 DEF Exhaust
  <2> QED BY <2>4, <2>5, <2>6 DEF TypeRedis
<1>4. ASSUME NEW i, XClaim(i) PROVE TypeRedis' BY <1>4 DEF XClaim, TypeRedis
<1>5. ASSUME NEW s \in Servers, Claim(s) PROVE TypeRedis' BY <1>4, <1>5 DEF Claim
<1>6. ASSUME NEW s \in Servers, Skip(s) PROVE TypeRedis' BY <1>1, <1>4, <1>6 DEF Skip
<1>7. ASSUME NEW j \in Jobs, XAdd(j),
             UNCHANGED <<group, start, last, pending, stale, deliveries, dlq, dlqTop>>
      PROVE  TypeRedis'
  BY <1>7, XAddFacts DEF TypeRedis
<1>8. ASSUME NEW s \in Servers, RequeueAdd(s) PROVE TypeRedis'
  <2>1. adm[s].msg \in Ids /\ adm[s].msg <= last
    BY <1>8 DEF RequeueAdd, TypeRest, HandlesOne, OnlyDelivered, Ids
  <2>2. stream[adm[s].msg] \in Jobs BY <2>1 DEF TypeRedis, Ids
  <2> QED BY <1>7, <1>8, <2>2 DEF RequeueAdd
<1>9. ASSUME NEW s \in Servers, RequeueDel(s) PROVE TypeRedis' BY <1>9 DEF RequeueDel, TypeRedis
<1>10. ASSUME NEW s \in Servers, NEW j \in Jobs, GenerateSDK(s, j) PROVE TypeRedis'
  BY <1>7, <1>10 DEF GenerateSDK
<1>11. ASSUME NEW s \in Servers, NEW j \in Jobs, GenerateSDKLocally(s, j) PROVE TypeRedis'
  BY <1>1, <1>7, <1>11 DEF GenerateSDKLocally, redisVars
<1>12. ASSUME NEW upto \in Ids, ReadNew(upto) PROVE TypeRedis'
  BY <1>12, ReadNewFacts DEF ReadNew, TypeRedis
<1>13. ASSUME NEW w \in Workers, Deliver(w) \/ DeliverLost(w) PROVE TypeRedis'
  BY <1>12, <1>13 DEF Deliver, DeliverLost
<1>14. ASSUME NEW a \in Actors, Ack(a) PROVE TypeRedis' BY <1>14 DEF Ack, TypeRedis
<1>15. ASSUME NEW i \in Ids, GrowStale(i) PROVE TypeRedis' BY <1>15 DEF GrowStale, TypeRedis
<1>16. ASSUME NEW e \in dlq, DeleteDLQ(e) PROVE TypeRedis' BY <1>16 DEF DeleteDLQ, TypeRedis
<1> QED BY <1>1, <1>2, <1>3, <1>5, <1>6, <1>8, <1>9, <1>10, <1>11, <1>13, <1>14, <1>15, <1>16,
           FrameRedis

\* An actor at work has an entry of the stream in hand.
LEMMA InHand ==
    ASSUME TypeInv, NEW a \in Actors, pc[a] \in Busy
    PROVE  /\ cur[a].id \in 1..Len(stream) /\ cur[a].id \in Ids /\ cur[a].id <= last
           /\ JobOf(a) \in Jobs
<1> USE DEF TypeInv, TypeOK
<1>1. cur[a].id \in Nat /\ cur[a].id # 0 /\ cur[a].id <= MaxMsgs
  BY ConstantFacts DEF HandlesOne, TypeActors
<1>2. cur[a].id <= last /\ last <= Len(stream) /\ last \in Nat BY DEF OnlyDelivered, TypeRedis
<1>3. cur[a].id \in 1..Len(stream) BY <1>1, <1>2 DEF TypeRedis
<1>4. JobOf(a) \in Jobs BY <1>3 DEF JobOf, TypeRedis
<1> QED BY <1>1, <1>2, <1>3, <1>4, ConstantFacts DEF Ids

LEMMA MemoryType == ASSUME TypeInv, [Next]_vars PROVE TypeMemory'
<1> USE DEF TypeInv, TypeOK
<1>1. ASSUME NEW s \in Servers, NEW j \in Jobs, NEW st \in Statuses, SetStatus(s, j, st)
      PROVE  status' \in [Servers -> [Jobs -> Statuses]]
  BY <1>1 DEF SetStatus, TypeMemory
<1>0. ASSUME NEW s \in Servers, NEW j \in Jobs, CodegenOutcome(s, j)
      PROVE  artifact' \in [Servers -> [Jobs -> BOOLEAN]]
  <2>1. CASE UNCHANGED artifact BY <2>1 DEF TypeMemory
  <2>2. CASE artifact' = [artifact EXCEPT ![s][j] = TRUE]
    <3>1. [artifact[s] EXCEPT ![j] = TRUE] \in [Jobs -> BOOLEAN] BY DEF TypeMemory
    <3> QED BY <2>2, <3>1 DEF TypeMemory
  <2> QED BY <1>0, <2>1, <2>2 DEF CodegenOutcome
<1>2. ASSUME NEW s \in Servers, NEW j \in Jobs, CodegenOutcome(s, j), UNCHANGED local
      PROVE  TypeMemory'
  <2>1. status' \in [Servers -> [Jobs -> Statuses]] BY <1>1, <1>2 DEF CodegenOutcome, Statuses
  <2>2. artifact' \in [Servers -> [Jobs -> BOOLEAN]] BY <1>0, <1>2
  <2> QED BY <1>2, <2>1, <2>2 DEF TypeMemory
<1>3. CASE UNCHANGED memVars BY <1>3 DEF memVars, TypeMemory
<1>4. ASSUME NEW s \in Servers, Crash(s) PROVE TypeMemory'
  <2>1. status' \in [Servers -> [Jobs -> Statuses]] BY <1>4 DEF Crash, TypeMemory, Statuses
  <2>2. artifact' \in [Servers -> [Jobs -> BOOLEAN]] BY <1>4 DEF Crash, TypeMemory
  <2>3. local' \in [Servers -> [Jobs -> {"none", "run", "running", "over"}]]
    BY <1>4 DEF Crash, TypeMemory
  <2> QED BY <2>1, <2>2, <2>3 DEF TypeMemory
<1>5. ASSUME NEW s \in Servers, NEW j \in Jobs, GenerateSDK(s, j) PROVE TypeMemory'
  BY <1>1, <1>5 DEF GenerateSDK, Submit, TypeMemory, Statuses
<1>6. ASSUME NEW s \in Servers, NEW j \in Jobs,
             GenerateSDKLocally(s, j) \/ LocalBegin(s, j) \/ LocalFinish(s, j)
      PROVE  TypeMemory'
  <2>1. local' \in [Servers -> [Jobs -> {"none", "run", "running", "over"}]]
    <3>1. ASSUME NEW l \in {"none", "run", "running", "over"}, local' = [local EXCEPT ![s][j] = l]
          PROVE  local' \in [Servers -> [Jobs -> {"none", "run", "running", "over"}]]
      BY <3>1 DEF TypeMemory
    <3> QED BY <1>6, <3>1 DEF GenerateSDKLocally, LocalBegin, LocalFinish
  <2>2. status' \in [Servers -> [Jobs -> Statuses]]
    BY <1>1, <1>6 DEF GenerateSDKLocally, Submit, LocalBegin, LocalFinish, CodegenOutcome, Statuses
  <2>3. artifact' \in [Servers -> [Jobs -> BOOLEAN]]
    BY <1>0, <1>6 DEF GenerateSDKLocally, LocalBegin, LocalFinish, TypeMemory
  <2> QED BY <2>1, <2>2, <2>3 DEF TypeMemory
<1>7. ASSUME NEW a \in Actors, Check(a) PROVE TypeMemory'
  <2>1. JobOf(a) \in Jobs /\ At(a) \in Servers BY <1>7, InHand, ActorFacts DEF Check, Busy
  <2> QED BY <1>1, <1>7, <2>1 DEF Check, TypeMemory, Statuses
<1>8. ASSUME NEW a \in Actors, Begin(a) PROVE TypeMemory'
  <2>1. JobOf(a) \in Jobs /\ At(a) \in Servers BY <1>8, InHand, ActorFacts DEF Begin, Busy
  <2> QED BY <1>1, <1>8, <2>1 DEF Begin, TypeMemory, Statuses
<1>9. ASSUME NEW a \in Actors, Finish(a) PROVE TypeMemory'
  <2>1. JobOf(a) \in Jobs /\ At(a) \in Servers BY <1>9, InHand, ActorFacts DEF Finish, Busy
  <2> QED BY <1>2, <1>9, <2>1 DEF Finish
<1> QED BY <1>3, <1>4, <1>5, <1>6, <1>7, <1>8, <1>9, FrameMemory

\* What is left in hand when a delivery is done with.
LEMMA ResumeType ==
    ASSUME TypeActors, NEW a \in Actors, Resume(a) PROVE TypeActors'
<1>1. pc' \in [Actors -> Places] BY DEF Resume, TypeActors, Places
<1>2. cur' \in [Actors -> [id : 0..MaxMsgs, n : Nat]] BY ConstantFacts DEF Resume, TypeActors, NoMsg
<1> QED BY <1>1, <1>2 DEF Resume, TypeActors

\* Taking up one delivery.
LEMMA TakeType ==
    ASSUME TypeActors, NEW a \in Actors, NEW d \in Lowest(todo[a]),
           todo' = [todo EXCEPT ![a] = @ \ {d}]
    PROVE  /\ d \in Delivery /\ d \in todo[a]
           /\ d \in [id : 0..MaxMsgs, n : Nat] /\ d.id \in Ids
           /\ todo' \in [Actors -> SUBSET Delivery]
<1>1. todo[a] \subseteq Delivery BY DEF TypeActors
<1>2. d \in Delivery /\ d \in todo[a] BY <1>1 DEF Lowest
<1>3. d \in [id : 0..MaxMsgs, n : Nat] /\ d.id \in Ids BY <1>2, ConstantFacts DEF Delivery, Ids
<1>4. todo' \in [Actors -> SUBSET Delivery] BY <1>1 DEF TypeActors
<1> QED BY <1>2, <1>3, <1>4

LEMMA ActorsType == ASSUME TypeInv, [Next]_vars PROVE TypeActors'
<1> USE DEF TypeInv, TypeOK
<1>1. CASE UNCHANGED actorVars BY <1>1 DEF actorVars, TypeActors
<1>2. ASSUME NEW a \in Actors, NEW l \in Places, Goto(a, l) PROVE pc' \in [Actors -> Places]
  BY <1>2 DEF Goto, TypeActors
<1>3. ASSUME NEW a \in Actors, NEW l \in Places, Goto(a, l), UNCHANGED <<cur, todo, age>>
      PROVE  TypeActors'
  BY <1>2, <1>3 DEF TypeActors
<1>4. ASSUME NEW s \in Servers, InitRedis(s) \/ CreateGroup(s) \/ CreateGroupFails(s)
      PROVE  TypeActors'
  BY <1>3, <1>4, ActorFacts DEF InitRedis, CreateGroup, CreateGroupFails, Places
<1>5. ASSUME NEW s \in Servers, Tick(s) PROVE TypeActors'
  <2>1. pc' \in [Actors -> Places] BY <1>2, <1>5, ActorFacts DEF Tick, Places
  <2>2. ASSUME NEW w \in Workers
        PROVE  (IF Home[w] = s /\ pc[w] = "reading" THEN age[w] + 1 ELSE age[w]) \in 0..BlockTicks
    <3>1. age[w] \in 0..BlockTicks BY DEF TypeActors
    <3>2. CASE Home[w] = s /\ pc[w] = "reading"
      <4>1. age[w] < BlockTicks BY <1>5, <3>2 DEF Tick, Staff
      <4> QED BY <3>1, <3>2, <4>1, ConstantFacts
    <3> QED BY <3>1, <3>2
  <2>3. age' \in [Workers -> 0..BlockTicks] BY <1>5, <2>2 DEF Tick
  <2> QED BY <1>5, <2>1, <2>3 DEF Tick, TypeActors
<1>6. ASSUME NEW s \in Servers, Scan(s) PROVE TypeActors'
  <2> DEFINE found == IF cancelled[s] THEN {}
                      ELSE {[id |-> i, n |-> deliveries[i]] : i \in FirstBatch(pending) \cap stale}
  <2>1. todo' = [todo EXCEPT ![s] = found] /\ UNCHANGED <<cur, age>>
        /\ (Goto(s, "idle") \/ Goto(s, "next"))
    BY <1>6 DEF Scan
  <2>2. found \subseteq Delivery
    <3>1. \A i \in pending : [id |-> i, n |-> deliveries[i]] \in Delivery BY DEF Delivery, TypeRedis
    <3>2. FirstBatch(pending) \cap stale \subseteq pending BY DEF TypeRedis
    <3> QED BY <3>1, <3>2
  <2>3. todo' \in [Actors -> SUBSET Delivery] BY <2>1, <2>2, ActorFacts DEF TypeActors
  <2>4. pc' \in [Actors -> Places] BY <1>2, <2>1, ActorFacts DEF Places
  <2> QED BY <2>1, <2>3, <2>4 DEF TypeActors
<1>7. ASSUME NEW a \in Actors, NEW d \in Lowest(todo[a]),
             todo' = [todo EXCEPT ![a] = @ \ {d}],
             cur' = [cur EXCEPT ![a] = d] \/ UNCHANGED cur,
             NEW l \in Places, Goto(a, l), UNCHANGED age
      PROVE  TypeActors'
  <2>1. d \in [id : 0..MaxMsgs, n : Nat] /\ todo' \in [Actors -> SUBSET Delivery]
    BY <1>7, TakeType
  <2>2. cur' \in [Actors -> [id : 0..MaxMsgs, n : Nat]] BY <1>7, <2>1 DEF TypeActors
  <2>3. pc' \in [Actors -> Places] BY <1>2, <1>7
  <2> QED BY <1>7, <2>1, <2>2, <2>3 DEF TypeActors
<1>8. ASSUME NEW s \in Servers, Exhaust(s) \/ ExhaustUnwritten(s) \/ Claim(s) PROVE TypeActors'
  <2>1. PICK d \in Lowest(todo[s]) : /\ cur' = [cur EXCEPT ![s] = d]
                                     /\ todo' = [todo EXCEPT ![s] = @ \ {d}]
    BY <1>8 DEF Exhaust, ExhaustUnwritten, Claim
  <2>2. (Goto(s, "ack") \/ Goto(s, "check")) /\ UNCHANGED age
    BY <1>8 DEF Exhaust, ExhaustUnwritten, Claim
  <2> QED BY <1>7, <2>1, <2>2, ActorFacts DEF Places
<1>9. ASSUME NEW s \in Servers, Skip(s) PROVE TypeActors'
  <2>1. PICK d \in Lowest(todo[s]) : /\ todo' = [todo EXCEPT ![s] = @ \ {d}]
                                     /\ Goto(s, IF todo[s] = {d} THEN "idle" ELSE "next")
    BY <1>9 DEF Skip
  <2>2. UNCHANGED <<cur, age>> BY <1>9 DEF Skip
  <2>3. PICK l \in {"idle", "next"} : Goto(s, l) BY <2>1
  <2> QED BY <1>7, <2>1, <2>2, <2>3, ActorFacts DEF Places
<1>10. ASSUME NEW w \in Workers, Take(w) PROVE TypeActors'
  <2>1. PICK d \in Lowest(todo[w]) : /\ cur' = [cur EXCEPT ![w] = d]
                                     /\ todo' = [todo EXCEPT ![w] = @ \ {d}]
    BY <1>10 DEF Take
  <2>2. Goto(w, "check") /\ UNCHANGED age BY <1>10 DEF Take
  <2> QED BY <1>7, <2>1, <2>2, ActorFacts DEF Places
<1>11. ASSUME NEW s \in Servers, Crash(s) PROVE TypeActors'
  <2>1. pc' \in [Actors -> Places] BY <1>11 DEF Crash, TypeActors, Places
  <2>2. cur' \in [Actors -> [id : 0..MaxMsgs, n : Nat]]
    <3>1. NoMsg \in [id : 0..MaxMsgs, n : Nat] BY ConstantFacts DEF NoMsg
    <3> QED BY <1>11, <3>1 DEF Crash, TypeActors
  <2>3. todo' \in [Actors -> SUBSET Delivery] BY <1>11 DEF Crash, TypeActors
  <2>4. age' \in [Workers -> 0..BlockTicks] BY <1>11, ConstantFacts DEF Crash, TypeActors
  <2> QED BY <2>1, <2>2, <2>3, <2>4 DEF TypeActors
<1>12. ASSUME NEW w \in Workers, StartRead(w) PROVE TypeActors'
  BY <1>3, <1>12, ActorFacts DEF StartRead, Places
<1>13. ASSUME NEW w \in Workers, age' = [age EXCEPT ![w] = 0]
       PROVE  age' \in [Workers -> 0..BlockTicks]
  BY <1>13, ConstantFacts DEF TypeActors
<1>14. ASSUME NEW w \in Workers, Deliver(w) PROVE TypeActors'
  <2>1. PICK upto \in Ids :
          /\ ReadNew(upto)
          /\ todo' = [todo EXCEPT ![w] = {[id |-> i, n |-> 1] : i \in (last + 1)..upto}]
    BY <1>14 DEF Deliver
  <2>2. {[id |-> i, n |-> 1] : i \in (last + 1)..upto} \subseteq Delivery
    <3>1. (last + 1)..upto \subseteq Ids BY <2>1, ReadNewFacts
    <3> QED BY <3>1 DEF Delivery
  <2>3. todo' \in [Actors -> SUBSET Delivery] BY <2>1, <2>2, ActorFacts DEF TypeActors
  <2>4. pc' \in [Actors -> Places] BY <1>2, <1>14, ActorFacts DEF Deliver, Places
  <2> QED BY <1>13, <1>14, <2>3, <2>4 DEF Deliver, TypeActors
<1>15. ASSUME NEW w \in Workers, DeliverLost(w) \/ ReadTimeout(w) PROVE TypeActors'
  <2>1. Goto(w, "idle") /\ age' = [age EXCEPT ![w] = 0] /\ UNCHANGED <<cur, todo>>
    BY <1>15 DEF DeliverLost, ReadTimeout
  <2>2. pc' \in [Actors -> Places] BY <1>2, <2>1, ActorFacts DEF Places
  <2> QED BY <1>13, <2>1, <2>2 DEF TypeActors
<1>16. ASSUME NEW w \in Workers, Quit(w) PROVE TypeActors'
  <2>1. pc' \in [Actors -> Places] BY <1>2, <1>16, ActorFacts DEF Quit, Places
  <2> QED BY <1>16, <2>1 DEF Quit, TypeActors
<1>17. ASSUME NEW a \in Actors, Check(a) \/ Begin(a) \/ Finish(a) PROVE TypeActors'
  <2>1. PICK l \in {"ack", "run", "running", "ran"} : Goto(a, l)
    BY <1>17 DEF Check, Begin, Finish
  <2> QED BY <1>3, <1>17, <2>1 DEF Check, Begin, Finish, Places
<1>18. ASSUME NEW a \in Actors, Verdict(a) PROVE TypeActors'
  BY <1>3, <1>18, ResumeType DEF Verdict, Places
<1>19. ASSUME NEW a \in Actors, Ack(a) \/ AckLost(a) PROVE TypeActors'
  BY <1>19, ResumeType DEF Ack, AckLost
<1> QED BY <1>1, <1>4, <1>5, <1>6, <1>8, <1>9, <1>10, <1>11, <1>12, <1>14, <1>15, <1>16, <1>17,
           <1>18, <1>19, FrameActors

LEMMA DrainType == ASSUME TypeInv, [Next]_vars PROVE TypeDrain'
<1> USE DEF TypeInv, TypeOK
<1>1. CASE UNCHANGED drainVars BY <1>1 DEF drainVars, TypeDrain
<1>2. ASSUME NEW s \in Servers, Tick(s) PROVE TypeDrain'
  <2>1. drain' \in [Servers -> BOOLEAN] BY <1>2 DEF Tick, TypeDrain
  <2>2. drained' \in [Servers -> BOOLEAN] BY <1>2 DEF Tick, TypeDrain
  <2>3. toggled' \in [Servers -> BOOLEAN] BY <1>2 DEF Tick, TypeDrain
  <2>4. Min2(ticks[s] + 1, EmptyThresh) \in 0..EmptyThresh BY ConstantFacts DEF Min2, TypeDrain
  <2>5. ticks' \in [Servers -> 0..EmptyThresh] BY <1>2, <2>4, ConstantFacts DEF Tick, TypeDrain
  <2> QED BY <2>1, <2>2, <2>3, <2>5 DEF TypeDrain
<1>3. ASSUME NEW s \in Servers, Crash(s) PROVE TypeDrain'
  BY <1>3, ConstantFacts DEF Crash, TypeDrain
<1>4. ASSUME NEW s \in Servers, NEW b \in BOOLEAN, QueueDrain(s, b) PROVE TypeDrain'
  BY <1>4 DEF QueueDrain, TypeDrain
<1> QED BY <1>1, <1>2, <1>3, <1>4, FrameDrain

LEMMA RestType == ASSUME TypeInv, [Next]_vars PROVE TypeRest'
<1> USE DEF TypeInv, TypeOK
<1>1. cancelled' \in [Servers -> BOOLEAN]
  <2>1. CASE UNCHANGED cancelled BY <2>1 DEF TypeRest
  <2>2. ASSUME NEW s \in Servers, Signal(s) PROVE cancelled' \in [Servers -> BOOLEAN]
    BY <2>2 DEF Signal, TypeRest
  <2>3. ASSUME NEW s \in Servers, Crash(s) PROVE cancelled' \in [Servers -> BOOLEAN]
    BY <2>3 DEF Crash, TypeRest
  <2> QED BY <2>1, <2>2, <2>3, FrameCancelled
<1>2. adm' \in [Servers -> [stage : {"none", "read", "added"}, seq : Nat, msg : 0..MaxMsgs]]
  <2> DEFINE Progress == [stage : {"none", "read", "added"}, seq : Nat, msg : 0..MaxMsgs]
  <2>1. CASE UNCHANGED adm BY <2>1 DEF TypeRest
  <2>2. NoEntry \in Progress BY ConstantFacts DEF NoEntry
  <2>3. ASSUME NEW s \in Servers, adm' = [adm EXCEPT ![s] = NoEntry] PROVE adm' \in [Servers -> Progress]
    BY <2>2, <2>3 DEF TypeRest
  <2>4. ASSUME NEW s \in Servers, RequeueAdd(s) PROVE adm' \in [Servers -> Progress]
    BY <2>4 DEF RequeueAdd, TypeRest
  <2>5. ASSUME NEW s \in Servers, NEW e \in dlq, RequeueRead(s, e) PROVE adm' \in [Servers -> Progress]
    <3>1. e \in [seq : Nat, msg : Ids] BY DEF TypeRedis
    <3>2. [stage |-> "read", seq |-> e.seq, msg |-> e.msg] \in Progress
      BY <3>1, ConstantFacts DEF Ids
    <3> QED BY <2>5, <3>2 DEF RequeueRead, TypeRest
  <2> QED BY <2>1, <2>3, <2>4, <2>5, FrameAdm DEF RequeueAddFails, RequeueDel, Crash
<1>3. /\ submitted' \subseteq Jobs /\ done' \subseteq Jobs
      /\ deleted' \subseteq Jobs /\ dropped' \subseteq Jobs /\ stranded' \subseteq Jobs
  <2> DEFINE Goal == /\ submitted' \subseteq Jobs /\ done' \subseteq Jobs
                     /\ deleted' \subseteq Jobs /\ dropped' \subseteq Jobs
                     /\ stranded' \subseteq Jobs
  <2>1. CASE UNCHANGED histVars BY <2>1 DEF histVars, TypeRest
  <2>2. ASSUME NEW s \in Servers, NEW j \in Jobs,
               GenerateSDK(s, j) \/ GenerateSDKLocally(s, j) \/ LocalFinish(s, j)
        PROVE  Goal
    BY <2>2 DEF GenerateSDK, GenerateSDKLocally, LocalFinish, Submit, CodegenOutcome, TypeRest
  <2>3. ASSUME NEW s \in Servers, ExhaustUnwritten(s) PROVE Goal
    <3>1. PICK d \in Lowest(todo[s]) : /\ todo' = [todo EXCEPT ![s] = @ \ {d}]
                                       /\ dropped' = dropped \cup {stream[d.id]}
      BY <2>3 DEF ExhaustUnwritten
    <3>2. d \in todo[s] BY DEF Lowest
    <3>3. d.id \in Ids BY <3>1, TakeType, ActorFacts
    <3>4. d.id <= last BY <3>2, ActorFacts DEF OnlyDelivered
    <3>5. stream[d.id] \in Jobs BY <3>3, <3>4, ConstantFacts DEF TypeRedis, Ids
    <3> QED BY <2>3, <3>1, <3>5 DEF ExhaustUnwritten, TypeRest
  <2>4. ASSUME NEW a \in Actors, Finish(a) PROVE Goal
    BY <2>4, InHand DEF Finish, Busy, CodegenOutcome, TypeRest
  <2>5. ASSUME NEW e \in dlq, DeleteDLQ(e) PROVE Goal
    <3>1. e.msg \in Ids /\ e.msg <= last BY DEF TypeRedis, OnlyDelivered
    <3>2. stream[e.msg] \in Jobs BY <3>1, ConstantFacts DEF TypeRedis, Ids
    <3> QED BY <2>5, <3>2 DEF DeleteDLQ, TypeRest
  <2>6. ASSUME NEW s \in Servers, Crash(s) PROVE Goal BY <2>6 DEF Crash, TypeRest
  <2> QED BY <2>1, <2>2, <2>3, <2>4, <2>5, <2>6, FrameHistory
<1>4. budget' \in [{"stop", "fault", "drain"} -> Nat]
  <2>1. CASE UNCHANGED budget BY <2>1 DEF TypeRest
  <2>2. ASSUME NEW k \in {"stop", "fault", "drain"}, Spend(k)
        PROVE  budget' \in [{"stop", "fault", "drain"} -> Nat]
    BY <2>2 DEF Spend, TypeRest
  <2> QED BY <2>1, <2>2, FrameBudget
<1> QED BY <1>1, <1>2, <1>3, <1>4 DEF TypeRest
-----------------------------------------------------------------------------
(* The two invariants that the types rest on *)

LEMMA HandlesOneStep == ASSUME TypeInv, [Next]_vars PROVE HandlesOne'
<1> USE DEF TypeInv, TypeOK
<1>1. \A a \in Actors : pc'[a] \in Busy => cur'[a].id # 0
  <2> DEFINE Goal == \A a \in Actors : pc'[a] \in Busy => cur'[a].id # 0
  <2>1. CASE UNCHANGED actorVars BY <2>1 DEF actorVars, HandlesOne
  <2>2. ASSUME NEW a \in Actors, NEW l \in Places \ Busy, Goto(a, l), UNCHANGED cur PROVE Goal
    BY <2>2 DEF Goto, HandlesOne, TypeActors
  <2>3. ASSUME NEW a \in Actors, NEW l \in Busy, Goto(a, l), UNCHANGED cur, pc[a] \in Busy PROVE Goal
    BY <2>3 DEF Goto, HandlesOne, TypeActors
  <2>4. ASSUME NEW a \in Actors, Resume(a) PROVE Goal
    BY <2>4 DEF Resume, HandlesOne, TypeActors, Busy
  <2>5. ASSUME NEW a \in Actors, NEW d \in Lowest(todo[a]), cur' = [cur EXCEPT ![a] = d],
               todo' = [todo EXCEPT ![a] = @ \ {d}], NEW l \in Places, Goto(a, l)
        PROVE  Goal
    <3>1. d.id \in Ids BY <2>5, TakeType
    <3>2. d.id # 0 BY <3>1, ConstantFacts DEF Ids
    <3> QED BY <2>5, <3>2 DEF Goto, HandlesOne, TypeActors
  <2>6. ASSUME NEW s \in Servers, Crash(s) PROVE Goal
    BY <2>6 DEF Crash, HandlesOne, TypeActors, Busy
  <2>7. ASSUME NEW s \in Servers,
               InitRedis(s) \/ CreateGroup(s) \/ CreateGroupFails(s) \/ Tick(s) \/ Scan(s) \/ Skip(s)
        PROVE  Goal
    <3>1. PICK l \in {"group", "idle", "scan", "next"} : Goto(s, l)
      BY <2>7 DEF InitRedis, CreateGroup, CreateGroupFails, Tick, Scan, Skip
    <3>2. UNCHANGED cur BY <2>7 DEF InitRedis, CreateGroup, CreateGroupFails, Tick, Scan, Skip
    <3>3. l \in Places \ Busy BY DEF Places, Busy
    <3> QED BY <2>2, <3>1, <3>2, <3>3, ActorFacts
  <2>8. ASSUME NEW s \in Servers, Exhaust(s) \/ ExhaustUnwritten(s) \/ Claim(s) PROVE Goal
    <3>1. PICK d \in Lowest(todo[s]) : /\ cur' = [cur EXCEPT ![s] = d]
                                       /\ todo' = [todo EXCEPT ![s] = @ \ {d}]
      BY <2>8 DEF Exhaust, ExhaustUnwritten, Claim
    <3>2. Goto(s, "ack") \/ Goto(s, "check") BY <2>8 DEF Exhaust, ExhaustUnwritten, Claim
    <3> QED BY <2>5, <3>1, <3>2, ActorFacts DEF Places
  <2>9. ASSUME NEW w \in Workers,
               StartRead(w) \/ Deliver(w) \/ DeliverLost(w) \/ ReadTimeout(w) \/ Quit(w)
        PROVE  Goal
    <3>1. PICK l \in {"reading", "idle", "next"} : Goto(w, l)
      BY <2>9 DEF StartRead, Deliver, DeliverLost, ReadTimeout, Quit
    <3>2. UNCHANGED cur BY <2>9 DEF StartRead, Deliver, DeliverLost, ReadTimeout, Quit
    <3>3. l \in Places \ Busy BY DEF Places, Busy
    <3> QED BY <2>2, <3>1, <3>2, <3>3, ActorFacts
  <2>10. ASSUME NEW w \in Workers, Take(w) PROVE Goal
    <3>1. PICK d \in Lowest(todo[w]) : /\ cur' = [cur EXCEPT ![w] = d]
                                       /\ todo' = [todo EXCEPT ![w] = @ \ {d}]
      BY <2>10 DEF Take
    <3>2. Goto(w, "check") BY <2>10 DEF Take
    <3> QED BY <2>5, <3>1, <3>2, ActorFacts DEF Places
  <2>11. ASSUME NEW a \in Actors, Check(a) \/ Begin(a) \/ Finish(a) PROVE Goal
    <3>1. PICK l \in {"ack", "run", "running", "ran"} : Goto(a, l)
      BY <2>11 DEF Check, Begin, Finish
    <3>2. UNCHANGED cur /\ pc[a] \in Busy BY <2>11 DEF Check, Begin, Finish, Busy
    <3> QED BY <2>3, <3>1, <3>2 DEF Busy
  <2>12. ASSUME NEW a \in Actors, Verdict(a) \/ Ack(a) \/ AckLost(a) PROVE Goal
    BY <2>3, <2>4, <2>12 DEF Verdict, Ack, AckLost, Busy
  <2> QED BY <2>1, <2>6, <2>7, <2>8, <2>9, <2>10, <2>11, <2>12, FrameActors
<1>2. \A s \in Servers : adm'[s].stage # "none" => adm'[s].msg # 0
  <2> DEFINE Goal == \A s \in Servers : adm'[s].stage # "none" => adm'[s].msg # 0
  <2>1. CASE UNCHANGED adm BY <2>1 DEF HandlesOne
  <2>2. ASSUME NEW s \in Servers, adm' = [adm EXCEPT ![s] = NoEntry] PROVE Goal
    BY <2>2 DEF HandlesOne, TypeRest, NoEntry
  <2>3. ASSUME NEW s \in Servers, RequeueAdd(s) PROVE Goal
    BY <2>3 DEF RequeueAdd, HandlesOne, TypeRest
  <2>4. ASSUME NEW s \in Servers, NEW e \in dlq, RequeueRead(s, e) PROVE Goal
    <3>1. e.msg \in Ids BY DEF TypeRedis
    <3>2. e.msg # 0 BY <3>1, ConstantFacts DEF Ids
    <3> QED BY <2>4, <3>2 DEF RequeueRead, HandlesOne, TypeRest
  <2> QED BY <2>1, <2>2, <2>3, <2>4, FrameAdm DEF RequeueAddFails, RequeueDel, Crash
<1> QED BY <1>1, <1>2 DEF HandlesOne

\* The stream only grows at its end, and the group's position never moves back:
\* a group is created behind whatever the stream holds.
Appended == Len(stream) <= Len(stream') /\ \A m \in 1..Len(stream) : stream'[m] = stream[m]

LEMMA LastGrows == ASSUME TypeInv, [Next]_vars PROVE last <= last' /\ Appended
<1> USE DEF TypeInv, TypeOK
<1>1. ASSUME UNCHANGED <<last, stream>> PROVE last <= last' /\ Appended
  BY <1>1 DEF TypeRedis, Appended
<1>2. ASSUME NEW j \in Jobs, XAdd(j), UNCHANGED last PROVE last <= last' /\ Appended
  BY <1>2, XAddFacts DEF TypeRedis, Appended
<1>3. ASSUME NEW upto \in Ids, ReadNew(upto) PROVE last <= last' /\ Appended
  BY <1>3, ReadNewFacts DEF ReadNew, TypeRedis, Appended
<1>4. CASE UNCHANGED redisVars BY <1>1, <1>4 DEF redisVars
<1>5. ASSUME NEW s \in Servers, CreateGroup(s) PROVE last <= last' /\ Appended
  BY <1>5 DEF CreateGroup, TypeRedis, Appended
<1>6. ASSUME NEW s \in Servers, Exhaust(s) \/ Claim(s) \/ Skip(s) \/ RequeueDel(s)
      PROVE  UNCHANGED <<last, stream>>
  BY <1>6 DEF Exhaust, Claim, Skip, RequeueDel, XClaim, redisVars
<1>7. ASSUME NEW s \in Servers, RequeueAdd(s) PROVE last <= last' /\ Appended
  <2>1. adm[s].msg \in 1..Len(stream)
    BY <1>7 DEF RequeueAdd, TypeRest, HandlesOne, OnlyDelivered, TypeRedis
  <2>2. stream[adm[s].msg] \in Jobs BY <2>1 DEF TypeRedis
  <2> QED BY <1>2, <1>7, <2>2 DEF RequeueAdd
<1>8. ASSUME NEW s \in Servers, NEW j \in Jobs, GenerateSDK(s, j) \/ GenerateSDKLocally(s, j)
      PROVE  last <= last' /\ Appended
  BY <1>1, <1>2, <1>8 DEF GenerateSDK, GenerateSDKLocally
<1>9. ASSUME NEW w \in Workers, Deliver(w) \/ DeliverLost(w)
      PROVE  last <= last' /\ Appended
  BY <1>3, <1>9 DEF Deliver, DeliverLost
<1>10. ASSUME NEW a \in Actors, Ack(a) PROVE UNCHANGED <<last, stream>> BY <1>10 DEF Ack
<1>11. ASSUME NEW i \in Ids, GrowStale(i) PROVE UNCHANGED <<last, stream>> BY <1>11 DEF GrowStale
<1>12. ASSUME NEW e \in dlq, DeleteDLQ(e) PROVE UNCHANGED <<last, stream>> BY <1>12 DEF DeleteDLQ
<1> QED BY <1>1, <1>4, <1>5, <1>6, <1>7, <1>8, <1>9, <1>10, <1>11, <1>12, FrameRedis

LEMMA OnlyDeliveredStep == ASSUME TypeInv, [Next]_vars PROVE OnlyDelivered'
<1> USE DEF TypeInv, TypeOK
<1>0. last \in Nat /\ last' \in Nat /\ last <= last' BY LastGrows, RedisType DEF TypeRedis
<1>1. \A i \in pending' : i <= last'
  <2>1. CASE pending' \subseteq pending
    <3>1. \A i \in pending : i \in Nat /\ i <= last BY IdFacts DEF OnlyDelivered, TypeRedis
    <3> QED BY <1>0, <2>1, <3>1
  <2>2. ASSUME NEW upto \in Ids, ReadNew(upto) PROVE \A i \in pending' : i <= last'
    <3>1. pending' = pending \cup (last + 1)..upto /\ last' = upto BY <2>2 DEF ReadNew
    <3>2. \A i \in pending : i \in Nat /\ i <= last BY IdFacts DEF OnlyDelivered, TypeRedis
    <3> QED BY <1>0, <3>1, <3>2
  <2>3. CASE UNCHANGED redisVars BY <2>1, <2>3 DEF redisVars
  <2>4. ASSUME NEW s \in Servers, \/ CreateGroup(s) \/ Exhaust(s) \/ Claim(s) \/ Skip(s)
                                  \/ RequeueAdd(s) \/ RequeueDel(s)
        PROVE  pending' = pending
    BY <2>4 DEF CreateGroup, Exhaust, Claim, Skip, RequeueAdd, RequeueDel, XClaim, redisVars
  <2>5. ASSUME NEW s \in Servers, NEW j \in Jobs, GenerateSDK(s, j) \/ GenerateSDKLocally(s, j)
        PROVE  pending' = pending
    BY <2>5 DEF GenerateSDK, GenerateSDKLocally
  <2>6. ASSUME NEW w \in Workers, Deliver(w) \/ DeliverLost(w) PROVE \A i \in pending' : i <= last'
    BY <2>2, <2>6 DEF Deliver, DeliverLost
  <2>7. ASSUME NEW a \in Actors, Ack(a) PROVE pending' \subseteq pending BY <2>7 DEF Ack
  <2>8. ASSUME NEW i \in Ids, GrowStale(i) PROVE pending' = pending BY <2>8 DEF GrowStale
  <2>9. ASSUME NEW e \in dlq, DeleteDLQ(e) PROVE pending' = pending BY <2>9 DEF DeleteDLQ
  <2> QED BY <2>1, <2>3, <2>4, <2>5, <2>6, <2>7, <2>8, <2>9, FrameRedis
<1>2. \A a \in Actors : cur'[a].id <= last'
  <2> DEFINE Goal == \A a \in Actors : cur'[a].id <= last'
  <2>0. \A a \in Actors : cur[a].id \in Nat /\ cur[a].id <= last
    BY ConstantFacts DEF OnlyDelivered, TypeActors
  <2>1. ASSUME UNCHANGED cur PROVE Goal BY <1>0, <2>0, <2>1
  <2>2. ASSUME NEW a \in Actors, NEW d \in Lowest(todo[a]), cur' = [cur EXCEPT ![a] = d],
               todo' = [todo EXCEPT ![a] = @ \ {d}]
        PROVE  Goal
    <3>1. d.id \in Ids /\ d \in todo[a] BY <2>2, TakeType
    <3>2. d.id \in Nat /\ d.id <= last BY <3>1, ConstantFacts DEF OnlyDelivered, Ids
    <3> QED BY <1>0, <2>0, <2>2, <3>2 DEF TypeActors
  <2>3. ASSUME NEW a \in Actors, Resume(a) PROVE Goal
    BY <1>0, <2>0, <2>3 DEF Resume, TypeActors, NoMsg
  <2>4. CASE UNCHANGED actorVars BY <2>1, <2>4 DEF actorVars
  <2>5. ASSUME NEW s \in Servers, \/ InitRedis(s) \/ CreateGroup(s) \/ CreateGroupFails(s)
                                  \/ Tick(s) \/ Scan(s) \/ Skip(s)
        PROVE  UNCHANGED cur
    BY <2>5 DEF InitRedis, CreateGroup, CreateGroupFails, Tick, Scan, Skip
  <2>6. ASSUME NEW s \in Servers, Exhaust(s) \/ ExhaustUnwritten(s) \/ Claim(s) PROVE Goal
    BY <2>2, <2>6, ActorFacts DEF Exhaust, ExhaustUnwritten, Claim
  <2>7. ASSUME NEW s \in Servers, Crash(s) PROVE Goal
    BY <1>0, <2>0, <2>7 DEF Crash, TypeActors, NoMsg
  <2>8. ASSUME NEW w \in Workers,
               StartRead(w) \/ Deliver(w) \/ DeliverLost(w) \/ ReadTimeout(w) \/ Quit(w)
        PROVE  UNCHANGED cur
    BY <2>8 DEF StartRead, Deliver, DeliverLost, ReadTimeout, Quit
  <2>9. ASSUME NEW w \in Workers, Take(w) PROVE Goal BY <2>2, <2>9, ActorFacts DEF Take
  <2>10. ASSUME NEW a \in Actors, Check(a) \/ Begin(a) \/ Finish(a) PROVE UNCHANGED cur
    BY <2>10 DEF Check, Begin, Finish
  <2>11. ASSUME NEW a \in Actors, Verdict(a) \/ Ack(a) \/ AckLost(a) PROVE Goal
    BY <2>1, <2>3, <2>11 DEF Verdict, Ack, AckLost
  <2> QED BY <2>1, <2>4, <2>5, <2>6, <2>7, <2>8, <2>9, <2>10, <2>11, FrameActors
<1>3. \A a \in Actors : \A d \in todo'[a] : d.id <= last'
  <2> DEFINE Goal == \A a \in Actors : \A d \in todo'[a] : d.id <= last'
  <2>0. \A a \in Actors : \A d \in todo[a] : d.id \in Nat /\ d.id <= last
    <3>1. \A d \in Delivery : d.id \in Nat BY ConstantFacts DEF Delivery, Ids
    <3>2. \A a \in Actors : todo[a] \subseteq Delivery BY DEF TypeActors
    <3> QED BY <3>1, <3>2 DEF OnlyDelivered
  <2>1. ASSUME \A a \in Actors : todo'[a] \subseteq todo[a] PROVE Goal BY <1>0, <2>0, <2>1
  <2>2. ASSUME NEW a \in Actors, NEW T, todo' = [todo EXCEPT ![a] = T],
               \A d \in T : d.id \in Nat /\ d.id <= last'
        PROVE  Goal
    BY <1>0, <2>0, <2>2 DEF TypeActors
  <2>3. ASSUME NEW a \in Actors, NEW d, todo' = [todo EXCEPT ![a] = @ \ {d}] PROVE Goal
    BY <2>1, <2>3 DEF TypeActors
  <2>4. ASSUME UNCHANGED todo PROVE Goal BY <2>1, <2>4
  <2>5. CASE UNCHANGED actorVars BY <2>4, <2>5 DEF actorVars
  <2>6. ASSUME NEW s \in Servers,
               InitRedis(s) \/ CreateGroup(s) \/ CreateGroupFails(s) \/ Tick(s)
        PROVE  UNCHANGED todo
    BY <2>6 DEF InitRedis, CreateGroup, CreateGroupFails, Tick
  <2>7. ASSUME NEW s \in Servers, Scan(s) PROVE Goal
    <3> DEFINE found == IF cancelled[s] THEN {}
                        ELSE {[id |-> i, n |-> deliveries[i]] : i \in FirstBatch(pending) \cap stale}
    <3>1. todo' = [todo EXCEPT ![s] = found] BY <2>7 DEF Scan
    <3>2. \A i \in pending : i \in Nat /\ i <= last'
      BY <1>0, IdFacts DEF OnlyDelivered, TypeRedis
    <3>4. FirstBatch(pending) \cap stale \subseteq pending BY DEF TypeRedis
    <3>3. \A d \in found : d.id \in Nat /\ d.id <= last' BY <3>2, <3>4
    <3> HIDE DEF found
    <3> QED BY <2>2, <3>1, <3>3, ActorFacts
  <2>8. ASSUME NEW s \in Servers, Exhaust(s) \/ ExhaustUnwritten(s) \/ Claim(s) \/ Skip(s) PROVE Goal
    BY <2>3, <2>8, ActorFacts DEF Exhaust, ExhaustUnwritten, Claim, Skip
  <2>9. ASSUME NEW s \in Servers, Crash(s) PROVE Goal
    BY <2>1, <2>9 DEF Crash
  <2>10. ASSUME NEW w \in Workers, StartRead(w) \/ DeliverLost(w) \/ ReadTimeout(w)
         PROVE  UNCHANGED todo
    BY <2>10 DEF StartRead, DeliverLost, ReadTimeout
  <2>11. ASSUME NEW w \in Workers, Deliver(w) PROVE Goal
    <3>1. PICK upto \in Ids :
            /\ ReadNew(upto)
            /\ todo' = [todo EXCEPT ![w] = {[id |-> i, n |-> 1] : i \in (last + 1)..upto}]
      BY <2>11 DEF Deliver
    <3>2. last' = upto /\ upto \in Nat BY <3>1, ReadNewFacts
    <3>3. \A d \in {[id |-> i, n |-> 1] : i \in (last + 1)..upto} : d.id \in Nat /\ d.id <= last'
      BY <1>0, <3>2
    <3> QED BY <2>2, <3>1, <3>3, ActorFacts
  <2>12. ASSUME NEW w \in Workers, Take(w) PROVE Goal BY <2>3, <2>12, ActorFacts DEF Take
  <2>13. ASSUME NEW w \in Workers, Quit(w) PROVE Goal BY <2>2, <2>13, ActorFacts DEF Quit
  <2>14. ASSUME NEW a \in Actors,
                Check(a) \/ Begin(a) \/ Finish(a) \/ Verdict(a) \/ Ack(a) \/ AckLost(a)
         PROVE  UNCHANGED todo
    BY <2>14 DEF Check, Begin, Finish, Verdict, Ack, AckLost, Resume
  <2> QED BY <2>4, <2>5, <2>6, <2>7, <2>8, <2>9, <2>10, <2>11, <2>12, <2>13, <2>14, FrameActors
<1>4. \A e \in dlq' : e.msg <= last'
  <2>0. \A e \in dlq : e.msg \in Nat /\ e.msg <= last
    <3>1. \A e \in dlq : e.msg \in Ids BY DEF TypeRedis
    <3> QED BY <3>1, ConstantFacts DEF OnlyDelivered, Ids
  <2>1. ASSUME dlq' \subseteq dlq PROVE \A e \in dlq' : e.msg <= last' BY <1>0, <2>0, <2>1
  <2>2. ASSUME NEW s \in Servers, Exhaust(s) PROVE \A e \in dlq' : e.msg <= last'
    <3>1. PICK d \in Lowest(todo[s]) : dlq' = dlq \cup {[seq |-> dlqTop + 1, msg |-> d.id]}
      BY <2>2 DEF Exhaust
    <3>2. d \in todo[s] BY DEF Lowest
    <3>4. d.id \in Ids BY <3>1, <3>2, ActorFacts DEF TypeActors, Delivery
    <3>3. d.id \in Nat /\ d.id <= last BY <3>2, <3>4, ActorFacts, ConstantFacts DEF OnlyDelivered, Ids
    <3> QED BY <1>0, <2>0, <3>1, <3>3, ConstantFacts DEF Ids
  <2>3. CASE UNCHANGED redisVars BY <2>1, <2>3 DEF redisVars
  <2>4. ASSUME NEW s \in Servers,
               CreateGroup(s) \/ Claim(s) \/ Skip(s) \/ RequeueAdd(s) \/ RequeueDel(s)
        PROVE  dlq' \subseteq dlq
    BY <2>4 DEF CreateGroup, Claim, Skip, RequeueAdd, RequeueDel, XClaim, redisVars
  <2>5. ASSUME NEW s \in Servers, NEW j \in Jobs, GenerateSDK(s, j) \/ GenerateSDKLocally(s, j)
        PROVE  dlq' \subseteq dlq
    BY <2>5 DEF GenerateSDK, GenerateSDKLocally
  <2>6. ASSUME NEW w \in Workers, Deliver(w) \/ DeliverLost(w) PROVE dlq' \subseteq dlq
    BY <2>6 DEF Deliver, DeliverLost, ReadNew
  <2>7. ASSUME NEW a \in Actors, Ack(a) PROVE dlq' \subseteq dlq BY <2>7 DEF Ack
  <2>8. ASSUME NEW i \in Ids, GrowStale(i) PROVE dlq' \subseteq dlq BY <2>8 DEF GrowStale
  <2>9. ASSUME NEW e \in dlq, DeleteDLQ(e) PROVE dlq' \subseteq dlq BY <2>9 DEF DeleteDLQ
  <2> QED BY <2>1, <2>2, <2>3, <2>4, <2>5, <2>6, <2>7, <2>8, <2>9, FrameRedis
<1>5. \A s \in Servers : adm'[s].msg <= last'
  <2> DEFINE Goal == \A s \in Servers : adm'[s].msg <= last'
  <2>0. \A s \in Servers : adm[s].msg \in Nat /\ adm[s].msg <= last
    BY ConstantFacts DEF OnlyDelivered, TypeRest
  <2>1. CASE UNCHANGED adm BY <1>0, <2>0, <2>1
  <2>2. ASSUME NEW s \in Servers, adm' = [adm EXCEPT ![s] = NoEntry] PROVE Goal
    BY <1>0, <2>0, <2>2 DEF TypeRest, NoEntry
  <2>3. ASSUME NEW s \in Servers, RequeueAdd(s) PROVE Goal
    BY <1>0, <2>0, <2>3 DEF RequeueAdd, TypeRest
  <2>4. ASSUME NEW s \in Servers, NEW e \in dlq, RequeueRead(s, e) PROVE Goal
    <3>1. e.msg \in Ids /\ e.msg <= last BY DEF OnlyDelivered, TypeRedis
    <3>2. e.msg \in Nat BY <3>1, ConstantFacts DEF Ids
    <3> QED BY <1>0, <2>0, <2>4, <3>1, <3>2 DEF RequeueRead, TypeRest
  <2> QED BY <2>1, <2>2, <2>3, <2>4, FrameAdm DEF RequeueAddFails, RequeueDel, Crash
<1> QED BY <1>1, <1>2, <1>3, <1>4, <1>5 DEF OnlyDelivered

LEMMA TypeInvStep == TypeInv /\ [Next]_vars => TypeInv'
BY RedisType, MemoryType, ActorsType, DrainType, RestType, HandlesOneStep, OnlyDeliveredStep
   DEF TypeInv, TypeOK

LEMMA TypeInvariant == Spec => []TypeInv
BY InitTypeInv, TypeInvStep, PTL DEF Spec

\* Type correctness: every variable keeps to its type, and in particular the
\* group's position never overtakes the stream and only pending entries are idle.
THEOREM TypeCorrect == Spec => []TypeOK
<1>1. TypeInv => TypeOK BY DEF TypeInv
<1> QED BY <1>1, TypeInvariant, PTL
-----------------------------------------------------------------------------
(***************************************************************************)
(* No job is lost.  An accepted job was given an entry or a fallback run   *)
(* (Traced), and what the entries promise is EntriesKept, which is not     *)
(* inductive: an actor about to                                            *)
(* acknowledge an entry needs a reason why that entry is not the last      *)
(* trace of its job, and two actors must not count on each other's.  The   *)
(* reason is therefore looked for further on: entry m0 of the stream or    *)
(* later, or a dead letter that came from entry e0 or later.               *)
(***************************************************************************)
Kept(j) ==
    \/ j \in done \cup deleted \cup dropped
    \/ \E m \in 1..Len(stream) : stream[m] = j /\ Live(m)
    \/ \E e \in dlq : stream[e.msg] = j
EntriesKept == \A m \in (start + 1)..Len(stream) : Kept(stream[m])

HasEntry(j) == \E m \in 1..Len(stream) : stream[m] = j
Traced == \A j \in submitted :
              HasEntry(j) \/ (\E s \in Servers : OnFallback(s, j)) \/ j \in stranded \cup done

Safe(j, m0, e0) ==
    \/ j \in done \cup deleted \cup dropped
    \/ \E m \in 1..Len(stream) : m >= m0 /\ stream[m] = j /\ Live(m)
    \/ \E e \in dlq : e.msg >= e0 /\ stream[e.msg] = j

GroupFirst   == ~group => last = 0
AckIsSafe    == \A a \in Actors : pc[a] = "ack" => Safe(JobOf(a), cur[a].id + 1, cur[a].id)
DelIsSafe    == \A s \in Servers : adm[s].stage = "added" =>
                    Safe(stream[adm[s].msg], adm[s].msg + 1, adm[s].msg + 1)
ReadyIsDone  == \A s \in Servers, j \in Jobs : status[s][j] = "ready" \/ artifact[s][j] => j \in done

KeptInv == GroupFirst /\ AckIsSafe /\ DelIsSafe /\ ReadyIsDone /\ EntriesKept /\ Traced

LEMMA KeptIsSafe ==
    ASSUME TypeInv, NEW j
    PROVE  Kept(j) <=> Safe(j, 0, 0)
<1>1. \A e \in dlq : e.msg >= 0 BY IdFacts DEF TypeInv, TypeOK, TypeRedis
<1> QED BY <1>1 DEF Kept, Safe, TypeInv, TypeOK, TypeRedis

LEMMA InitKept == Init => KeptInv
BY ActorFacts DEF Init, KeptInv, GroupFirst, AckIsSafe, DelIsSafe, ReadyIsDone, EntriesKept,
   Traced, NoEntry

\* What was finished, deleted, dropped or stranded stays so.
HistoryKept == /\ done \subseteq done' /\ deleted \subseteq deleted'
               /\ dropped \subseteq dropped' /\ stranded \subseteq stranded'

LEMMA HistoryGrows ==
    ASSUME [Next]_vars
    PROVE  HistoryKept
<1> USE DEF HistoryKept
<1>1. CASE UNCHANGED histVars BY <1>1 DEF histVars
<1>2. ASSUME NEW s \in Servers, NEW j \in Jobs,
             GenerateSDK(s, j) \/ GenerateSDKLocally(s, j) \/ LocalFinish(s, j)
      PROVE  HistoryKept
  BY <1>2 DEF GenerateSDK, GenerateSDKLocally, LocalFinish, CodegenOutcome
<1>3. ASSUME NEW s \in Servers, ExhaustUnwritten(s)
      PROVE  HistoryKept
  BY <1>3 DEF ExhaustUnwritten
<1>4. ASSUME NEW a \in Actors, Finish(a)
      PROVE  HistoryKept
  BY <1>4 DEF Finish, CodegenOutcome
<1>5. ASSUME NEW e \in dlq, DeleteDLQ(e)
      PROVE  HistoryKept
  BY <1>5 DEF DeleteDLQ
<1>6. ASSUME NEW s \in Servers, Crash(s) PROVE HistoryKept BY <1>6 DEF Crash
<1> QED BY <1>1, <1>2, <1>3, <1>4, <1>5, <1>6, FrameHistory

\* Only four actions may take away the trace of a job.
LiveGrows == /\ \A m \in 1..Len(stream) : Live(m) => Live(m)'
             /\ dlq \subseteq dlq'

LEMMA OthersKeep ==
    ASSUME TypeInv, [Next]_vars
    PROVE  \/ LiveGrows
           \/ \E s \in Servers : (CreateGroup(s) /\ ~group) \/ RequeueDel(s)
           \/ \E a \in Actors : Ack(a)
           \/ \E e \in dlq : DeleteDLQ(e)
<1> USE DEF TypeInv, TypeOK
<1>1. ASSUME UNCHANGED <<last, pending>>, dlq \subseteq dlq' PROVE LiveGrows
  BY <1>1 DEF LiveGrows, Live
<1>2. CASE UNCHANGED redisVars BY <1>1, <1>2 DEF redisVars
<1>3. ASSUME NEW s \in Servers, CreateGroup(s), group PROVE LiveGrows
  BY <1>1, <1>3 DEF CreateGroup
<1>4. ASSUME NEW s \in Servers, Exhaust(s) \/ Claim(s) \/ Skip(s) \/ RequeueAdd(s) PROVE LiveGrows
  BY <1>1, <1>4 DEF Exhaust, Claim, Skip, RequeueAdd, XClaim, redisVars
<1>5. ASSUME NEW s \in Servers, NEW j \in Jobs, GenerateSDK(s, j) \/ GenerateSDKLocally(s, j)
      PROVE  LiveGrows
  BY <1>1, <1>5 DEF GenerateSDK, GenerateSDKLocally
<1>6. ASSUME NEW upto \in Ids, ReadNew(upto) PROVE LiveGrows
  <2>1. pending' = pending \cup (last + 1)..upto /\ last' = upto /\ UNCHANGED dlq BY <1>6 DEF ReadNew
  <2>2. last \in Nat /\ upto \in Nat BY IdFacts DEF TypeRedis
  <2>3. \A m \in 1..Len(stream) : m > last => m > upto \/ m \in (last + 1)..upto
    BY <2>2 DEF TypeRedis
  <2> QED BY <2>1, <2>3 DEF LiveGrows, Live
<1>7. ASSUME NEW w \in Workers, Deliver(w) \/ DeliverLost(w) PROVE LiveGrows
  BY <1>6, <1>7 DEF Deliver, DeliverLost
<1>8. ASSUME NEW i \in Ids, GrowStale(i) PROVE LiveGrows BY <1>1, <1>8 DEF GrowStale
<1> QED BY <1>2, <1>3, <1>4, <1>5, <1>7, <1>8, FrameRedis

LEMMA SafeGrows ==
    ASSUME TypeInv, [Next]_vars, LiveGrows,
           NEW j, NEW m0 \in Nat, NEW e0 \in Nat, Safe(j, m0, e0)
    PROVE  Safe(j, m0, e0)'
<1> USE DEF TypeInv, TypeOK
<1>1. Appended BY LastGrows
<1>2. Len(stream) \in Nat /\ Len(stream') \in Nat BY RedisType DEF TypeRedis
<1>3. CASE j \in done \cup deleted \cup dropped BY <1>3, HistoryGrows DEF Safe, HistoryKept
<1>4. ASSUME NEW m \in 1..Len(stream), m >= m0, stream[m] = j, Live(m) PROVE Safe(j, m0, e0)'
  BY <1>1, <1>2, <1>4 DEF Appended, LiveGrows, Safe
<1>5. ASSUME NEW e \in dlq, e.msg >= e0, stream[e.msg] = j PROVE Safe(j, m0, e0)'
  <2>1. e.msg \in 1..Len(stream)
    <3>1. e.msg \in Ids /\ e.msg <= last BY DEF TypeRedis, OnlyDelivered
    <3> QED BY <3>1, IdFacts DEF TypeRedis, Ids
  <2>2. stream'[e.msg] = j /\ e \in dlq' BY <1>1, <1>5, <2>1 DEF Appended, LiveGrows
  <2> QED BY <1>5, <2>2 DEF Safe
<1> QED BY <1>3, <1>4, <1>5 DEF Safe

\* An acknowledged entry hands over to the reason for acknowledging it.
LEMMA SafeAck ==
    ASSUME TypeInv, KeptInv, [Next]_vars, NEW a \in Actors, Ack(a),
           NEW j, NEW m0 \in Nat, NEW e0 \in Nat, e0 <= m0, Safe(j, m0, e0)
    PROVE  Safe(j, m0, e0)'
<1>0. PICK k, jk : k = cur[a].id /\ jk = stream[k] OBVIOUS
<1> USE DEF TypeInv, TypeOK
<1>1. UNCHANGED <<stream, last, dlq, done, deleted, dropped>> BY DEF Ack, histVars
<1>2. pc[a] = "ack" /\ k \in 1..Len(stream) /\ k \in Nat BY <1>0, InHand, IdFacts DEF Ack, Busy
<1>3. \A m \in pending : m # k => m \in pending' BY <1>0 DEF Ack
<1>4. \A m \in 1..Len(stream) : Live(m) /\ m # k => Live(m)' BY <1>1, <1>3 DEF Live
<1>5. ASSUME NEW i, NEW n0 \in Nat, NEW f0 \in Nat, n0 > k, Safe(i, n0, f0)
      PROVE  Safe(i, n0, f0)'
  <2>1. CASE i \in done \cup deleted \cup dropped BY <1>1, <2>1 DEF Safe
  <2>2. ASSUME NEW m \in 1..Len(stream), m >= n0, stream[m] = i, Live(m) PROVE Safe(i, n0, f0)'
    <3>1. m # k BY <1>2, <1>5, <2>2 DEF TypeRedis
    <3> QED BY <1>1, <1>4, <2>2, <3>1 DEF Safe
  <2>3. CASE \E e \in dlq : e.msg >= f0 /\ stream[e.msg] = i BY <1>1, <2>3 DEF Safe
  <2> QED BY <1>5, <2>1, <2>2, <2>3 DEF Safe
<1>6. Safe(jk, k + 1, k)' BY <1>0, <1>2, <1>5 DEF KeptInv, AckIsSafe, JobOf
<1>7. CASE j \in done \cup deleted \cup dropped BY <1>1, <1>7 DEF Safe
<1>8. CASE \E e \in dlq : e.msg >= e0 /\ stream[e.msg] = j BY <1>1, <1>8 DEF Safe
<1>9. ASSUME NEW m \in 1..Len(stream), m >= m0, stream[m] = j, Live(m) PROVE Safe(j, m0, e0)'
  <2>1. CASE m # k BY <1>1, <1>4, <1>9, <2>1 DEF Safe
  <2>2. CASE m = k
    <3>1. \A n \in 1..Len(stream) : n >= k + 1 => n >= m0 BY <1>2, <1>9, <2>2
    <3>2. \A e \in dlq : e.msg >= k => e.msg >= e0
      <4>1. \A e \in dlq : e.msg \in Nat BY IdFacts DEF TypeRedis
      <4> QED BY <1>2, <1>9, <2>2, <4>1
    <3>3. jk = j BY <1>0, <1>9, <2>2
    <3> QED BY <1>1, <1>6, <3>1, <3>2, <3>3 DEF Safe
  <2> QED BY <2>1, <2>2
<1> QED BY <1>7, <1>8, <1>9 DEF Safe

\* A requeued dead letter hands over to the entry that was appended for it.
LEMMA SafeDel ==
    ASSUME TypeInv, KeptInv, [Next]_vars, NEW s \in Servers, RequeueDel(s),
           NEW j, NEW m0 \in Nat, NEW e0 \in Nat, m0 <= e0 + 1, Safe(j, m0, e0)
    PROVE  Safe(j, m0, e0)'
<1>0. PICK k, jk : k = adm[s].msg /\ jk = stream[k] OBVIOUS
<1> USE DEF TypeInv, TypeOK
<1>1. UNCHANGED <<stream, last, pending, done, deleted, dropped>> BY DEF RequeueDel, histVars
<1>2. adm[s].stage = "added" /\ k \in Nat BY <1>0, ConstantFacts DEF RequeueDel, TypeRest
<1>3. \A e \in dlq : e.msg # k => e \in dlq' BY <1>0 DEF RequeueDel
<1>4. \A m \in 1..Len(stream) : Live(m) => Live(m)' BY <1>1 DEF Live
<1>5. \A e \in dlq : e.msg \in Nat BY IdFacts DEF TypeRedis
<1>6. Safe(jk, k + 1, k + 1)'
  <2>1. Safe(jk, k + 1, k + 1) BY <1>0, <1>2 DEF KeptInv, DelIsSafe
  <2>2. \A e \in dlq : e.msg >= k + 1 => e \in dlq' BY <1>2, <1>3, <1>5
  <2> QED BY <1>1, <1>4, <2>1, <2>2 DEF Safe
<1>7. CASE j \in done \cup deleted \cup dropped BY <1>1, <1>7 DEF Safe
<1>8. CASE \E m \in 1..Len(stream) : m >= m0 /\ stream[m] = j /\ Live(m) BY <1>1, <1>4, <1>8 DEF Safe
<1>9. ASSUME NEW e \in dlq, e.msg >= e0, stream[e.msg] = j PROVE Safe(j, m0, e0)'
  <2>1. CASE e.msg # k BY <1>1, <1>3, <1>9, <2>1 DEF Safe
  <2>2. CASE e.msg = k
    <3>1. \A n \in 1..Len(stream) : n >= k + 1 => n >= m0 BY <1>2, <1>9, <2>2
    <3>2. \A n \in Nat : n >= k + 1 => n >= e0 BY <1>2, <1>9, <2>2
    <3>3. \A f \in dlq' : f.msg \in Nat BY <1>5 DEF RequeueDel
    <3>4. jk = j BY <1>0, <1>9, <2>2
    <3> QED BY <1>1, <1>6, <3>1, <3>2, <3>3, <3>4 DEF Safe
  <2> QED BY <2>1, <2>2
<1> QED BY <1>7, <1>8, <1>9 DEF Safe

\* Deleting a dead letter is on purpose.
LEMMA SafeDelete ==
    ASSUME TypeInv, NEW x \in dlq, DeleteDLQ(x),
           NEW j, NEW m0 \in Nat, NEW e0 \in Nat, Safe(j, m0, e0)
    PROVE  Safe(j, m0, e0)'
<1>1. UNCHANGED <<stream, last, pending, done, dropped>> BY DEF DeleteDLQ
<1>2. dlq' = dlq \ {x} /\ deleted' = deleted \cup {stream[x.msg]} BY DEF DeleteDLQ
<1>3. \A m : Live(m) => Live(m)' BY <1>1 DEF Live
<1> QED BY <1>1, <1>2, <1>3 DEF Safe

\* Before the group exists nobody handles anything.
LEMMA NoGroupNoWork ==
    ASSUME TypeInv, GroupFirst, ~group
    PROVE  /\ \A a \in Actors : pc[a] \notin Busy
           /\ \A s \in Servers : adm[s].stage = "none"
<1> USE DEF TypeInv, TypeOK
<1>1. last = 0 BY DEF GroupFirst
<1>2. ASSUME NEW a \in Actors, pc[a] \in Busy PROVE FALSE
  <2>1. cur[a].id \in Nat BY ConstantFacts DEF TypeActors
  <2> QED BY <1>1, <1>2, <2>1 DEF HandlesOne, OnlyDelivered
<1>3. ASSUME NEW s \in Servers, adm[s].stage # "none" PROVE FALSE
  <2>1. adm[s].msg \in Nat BY ConstantFacts DEF TypeRest
  <2> QED BY <1>1, <1>3, <2>1 DEF HandlesOne, OnlyDelivered
<1> QED BY <1>2, <1>3

\* All steps but the creation of the group keep a safe job safe.
LEMMA SafeStep ==
    ASSUME TypeInv, KeptInv, [Next]_vars, group \/ ~group',
           NEW j, NEW m0 \in Nat, NEW e0 \in Nat, e0 <= m0, m0 <= e0 + 1, Safe(j, m0, e0)
    PROVE  Safe(j, m0, e0)'
<1>1. ~ \E s \in Servers : CreateGroup(s) /\ ~group BY DEF CreateGroup
<1> QED BY <1>1, OthersKeep, SafeGrows, SafeAck, SafeDel, SafeDelete

LEMMA GroupFirstStep == ASSUME TypeInv, KeptInv, [Next]_vars PROVE GroupFirst'
<1> USE DEF KeptInv
<1>1. ASSUME UNCHANGED <<group, last>> PROVE GroupFirst' BY <1>1 DEF GroupFirst
<1>2. CASE UNCHANGED redisVars BY <1>1, <1>2 DEF redisVars
<1>3. ASSUME NEW s \in Servers, CreateGroup(s) PROVE GroupFirst' BY <1>3 DEF CreateGroup, GroupFirst
<1>4. ASSUME NEW s \in Servers, Exhaust(s) \/ Claim(s) \/ Skip(s) \/ RequeueAdd(s) \/ RequeueDel(s)
      PROVE  UNCHANGED <<group, last>>
  BY <1>4 DEF Exhaust, Claim, Skip, RequeueAdd, RequeueDel, XClaim, redisVars
<1>5. ASSUME NEW s \in Servers, NEW j \in Jobs, GenerateSDK(s, j) \/ GenerateSDKLocally(s, j)
      PROVE  UNCHANGED <<group, last>>
  BY <1>5 DEF GenerateSDK, GenerateSDKLocally
<1>6. ASSUME NEW w \in Workers, Deliver(w) \/ DeliverLost(w) PROVE GroupFirst'
  BY <1>6 DEF Deliver, DeliverLost, ReadNew, GroupFirst
<1>7. ASSUME NEW a \in Actors, Ack(a) PROVE UNCHANGED <<group, last>> BY <1>7 DEF Ack
<1>8. ASSUME NEW i \in Ids, GrowStale(i) PROVE UNCHANGED <<group, last>> BY <1>8 DEF GrowStale
<1>9. ASSUME NEW e \in dlq, DeleteDLQ(e) PROVE UNCHANGED <<group, last>> BY <1>9 DEF DeleteDLQ
<1> QED BY <1>1, <1>2, <1>3, <1>4, <1>5, <1>6, <1>7, <1>8, <1>9, FrameRedis

LEMMA ReadyIsDoneStep == ASSUME TypeInv, KeptInv, [Next]_vars PROVE ReadyIsDone'
<1> USE DEF KeptInv, TypeInv, TypeOK
<1>1. done \subseteq done' BY HistoryGrows DEF HistoryKept
<1>2. ASSUME UNCHANGED <<status, artifact>> PROVE ReadyIsDone' BY <1>1, <1>2 DEF ReadyIsDone
<1>3. ASSUME NEW s \in Servers, NEW j \in Jobs, NEW st \in Statuses \ {"ready"},
             SetStatus(s, j, st), UNCHANGED artifact
      PROVE  ReadyIsDone'
  BY <1>1, <1>3 DEF SetStatus, ReadyIsDone, TypeMemory
<1>4. ASSUME NEW s \in Servers, NEW j \in Jobs, CodegenOutcome(s, j) PROVE ReadyIsDone'
  <2>1. CASE SetStatus(s, j, "error") /\ UNCHANGED artifact BY <1>3, <2>1 DEF Statuses
  <2>2. CASE /\ SetStatus(s, j, "ready")
             /\ artifact' = [artifact EXCEPT ![s][j] = TRUE]
             /\ done' = done \cup {j}
    <3>1. SUFFICES ASSUME NEW r \in Servers, NEW i \in Jobs, status'[r][i] = "ready" \/ artifact'[r][i]
                   PROVE  i \in done'
      BY DEF ReadyIsDone
    <3>2. CASE r = s /\ i = j BY <2>2, <3>2
    <3>3. CASE ~(r = s /\ i = j)
      <4>1. status'[r][i] = status[r][i] BY <2>2, <3>3 DEF SetStatus, TypeMemory
      <4>2. artifact'[r][i] = artifact[r][i] BY <2>2, <3>3 DEF TypeMemory
      <4> QED BY <1>1, <3>1, <4>1, <4>2 DEF ReadyIsDone
    <3> QED BY <3>2, <3>3
  <2> QED BY <1>4, <2>1, <2>2 DEF CodegenOutcome
<1>5. CASE UNCHANGED memVars BY <1>2, <1>5 DEF memVars
<1>6. ASSUME NEW s \in Servers, Crash(s) PROVE ReadyIsDone'
  BY <1>1, <1>6 DEF Crash, ReadyIsDone, TypeMemory
<1>7. ASSUME NEW s \in Servers, NEW j \in Jobs,
             GenerateSDK(s, j) \/ GenerateSDKLocally(s, j) \/ LocalBegin(s, j) \/ LocalFinish(s, j)
      PROVE  ReadyIsDone'
  BY <1>3, <1>4, <1>7 DEF GenerateSDK, GenerateSDKLocally, LocalBegin, LocalFinish, Submit, Statuses
<1>8. ASSUME NEW a \in Actors, Check(a) \/ Begin(a) \/ Finish(a) PROVE ReadyIsDone'
  <2>1. JobOf(a) \in Jobs /\ At(a) \in Servers
    BY <1>8, InHand, ActorFacts DEF Check, Begin, Finish, Busy
  <2> QED BY <1>2, <1>3, <1>4, <1>8, <2>1 DEF Check, Begin, Finish, Statuses
<1> QED BY <1>5, <1>6, <1>7, <1>8, FrameMemory

\* How an actor comes to acknowledge.
LEMMA ToAck ==
    ASSUME TypeInv, [Next]_vars, NEW a \in Actors, pc'[a] = "ack"
    PROVE  \/ pc[a] = "ack" /\ cur'[a] = cur[a]
           \/ Check(a) \/ Verdict(a)
           \/ \E s \in Servers : s = a /\ (Exhaust(s) \/ ExhaustUnwritten(s))
<1> DEFINE Still == pc[a] = "ack" /\ cur'[a] = cur[a]
<1> USE DEF TypeInv, TypeOK
<1>1. ASSUME NEW b, NEW l \in Places \ {"ack"}, Goto(b, l), UNCHANGED cur PROVE Still
  BY <1>1 DEF Goto, TypeActors
<1>2. ASSUME NEW b \in Actors, NEW x, NEW l, Goto(b, l), cur' = [cur EXCEPT ![b] = x], l = "ack" => a # b
      PROVE  Still
  BY <1>2 DEF Goto, TypeActors
<1>3. ASSUME NEW b \in Actors, Resume(b) PROVE Still
  BY <1>3 DEF Resume, TypeActors
<1>4. CASE UNCHANGED actorVars BY <1>4 DEF actorVars
<1>5. ASSUME NEW s \in Servers, \/ InitRedis(s) \/ CreateGroup(s) \/ CreateGroupFails(s)
                                \/ Tick(s) \/ Scan(s) \/ Skip(s)
      PROVE  Still
  <2>1. PICK l \in Places \ {"ack"} : Goto(s, l)
    BY <1>5 DEF InitRedis, CreateGroup, CreateGroupFails, Tick, Scan, Skip, Places
  <2> QED BY <1>1, <1>5, <2>1 DEF InitRedis, CreateGroup, CreateGroupFails, Tick, Scan, Skip
<1>6. ASSUME NEW s \in Servers, Exhaust(s) \/ ExhaustUnwritten(s), a # s PROVE Still
  BY <1>2, <1>6, ActorFacts DEF Exhaust, ExhaustUnwritten
<1>7. ASSUME NEW s \in Servers, Claim(s) PROVE Still BY <1>2, <1>7, ActorFacts DEF Claim
<1>8. ASSUME NEW s \in Servers, Crash(s) PROVE Still BY <1>8 DEF Crash
<1>9. ASSUME NEW w \in Workers, \/ StartRead(w) \/ Deliver(w) \/ DeliverLost(w) \/ ReadTimeout(w)
                                \/ Quit(w)
      PROVE  Still
  <2>1. PICK l \in Places \ {"ack"} : Goto(w, l)
    BY <1>9 DEF StartRead, Deliver, DeliverLost, ReadTimeout, Quit, Places
  <2> QED BY <1>1, <1>9, <2>1 DEF StartRead, Deliver, DeliverLost, ReadTimeout, Quit
<1>10. ASSUME NEW w \in Workers, Take(w) PROVE Still BY <1>2, <1>10, ActorFacts DEF Take
<1>11. ASSUME NEW b \in Actors, Begin(b) \/ Finish(b) PROVE Still
  BY <1>1, <1>11 DEF Begin, Finish, Places
<1>12. ASSUME NEW b \in Actors, b # a, Check(b) \/ Verdict(b) PROVE Still
  <2>1. (UNCHANGED cur /\ pc'[a] = pc[a]) \/ Resume(b) BY <1>12 DEF Check, Verdict, Goto, TypeActors
  <2> QED BY <1>3, <2>1
<1>13. ASSUME NEW b \in Actors, Ack(b) \/ AckLost(b) PROVE Still BY <1>3, <1>13 DEF Ack, AckLost
<1> QED BY <1>4, <1>5, <1>6, <1>7, <1>8, <1>9, <1>10, <1>11, <1>12, <1>13, FrameActors

LEMMA AckIsSafeStep == ASSUME TypeInv, KeptInv, [Next]_vars PROVE AckIsSafe'
<1> USE DEF KeptInv, TypeInv, TypeOK
<1>1. SUFFICES ASSUME NEW a \in Actors, pc'[a] = "ack"
               PROVE  Safe(stream[cur[a].id], cur[a].id + 1, cur[a].id)'
  BY DEF AckIsSafe, JobOf
<1>2. Appended BY LastGrows
<1>3. CASE pc[a] = "ack" /\ cur'[a] = cur[a]
  <2>1. PICK k, j : k = cur[a].id /\ j = stream[k] OBVIOUS
  <2>2. k \in Nat /\ k \in 1..Len(stream) BY <1>3, <2>1, InHand, IdFacts DEF Busy
  <2>3. group BY <1>3, NoGroupNoWork DEF Busy
  <2>4. Safe(j, k + 1, k) BY <1>3, <2>1 DEF AckIsSafe, JobOf
  <2>5. Safe(j, k + 1, k)' BY <2>2, <2>3, <2>4, SafeStep
  <2>6. cur'[a].id = k /\ stream'[k] = j BY <1>2, <1>3, <2>1, <2>2 DEF Appended
  <2> QED BY <2>5, <2>6
<1>4. CASE Check(a) \/ Verdict(a)
  <2>1. JobOf(a) \in Jobs /\ At(a) \in Servers BY <1>4, InHand, ActorFacts DEF Check, Verdict, Busy
  <2>2. pc' = [pc EXCEPT ![a] = "ack"] => JobOf(a) \in done
    <3>1. CASE Check(a)
      <4>1. status[At(a)][JobOf(a)] = "ready" \/ artifact[At(a)][JobOf(a)]
        BY <1>1, <3>1 DEF Check, Goto, TypeActors
      <4> QED BY <2>1, <4>1 DEF ReadyIsDone
    <3>2. CASE Verdict(a)
      <4>1. status[At(a)][JobOf(a)] = "ready"
        BY <1>1, <3>2 DEF Verdict, Goto, Resume, TypeActors
      <4> QED BY <2>1, <4>1 DEF ReadyIsDone
    <3> QED BY <1>4, <3>1, <3>2
  <2>3. pc' = [pc EXCEPT ![a] = "ack"] /\ UNCHANGED <<cur, stream>>
    BY <1>1, <1>4 DEF Check, Verdict, Goto, Resume, TypeActors, redisVars
  <2>4. JobOf(a) \in done' BY <2>2, <2>3, HistoryGrows DEF HistoryKept
  <2> QED BY <2>3, <2>4 DEF Safe, JobOf
<1>5. ASSUME NEW s \in Servers, s = a, Exhaust(s) PROVE Safe(stream[cur[a].id], cur[a].id + 1, cur[a].id)'
  <2>1. PICK d \in Lowest(todo[a]) : /\ cur' = [cur EXCEPT ![a] = d]
                                     /\ dlq' = dlq \cup {[seq |-> dlqTop + 1, msg |-> d.id]}
    BY <1>5 DEF Exhaust
  <2>2. cur'[a] = d BY <2>1 DEF TypeActors
  <2>3. d \in todo[a] BY DEF Lowest
  <2>6. d \in Delivery BY <2>3 DEF TypeActors
  <2>4. d.id \in Nat BY <2>6, IdFacts DEF Delivery
  <2>7. PICK x : x = [seq |-> dlqTop + 1, msg |-> d.id] OBVIOUS
  <2>5. PICK e \in dlq' : e.msg = d.id
    <3>1. x \in dlq' /\ x.msg = d.id BY <2>1, <2>7
    <3> QED BY <3>1
  <2> QED BY <2>2, <2>4, <2>5 DEF Safe
<1>6. ASSUME NEW s \in Servers, s = a, ExhaustUnwritten(s)
      PROVE  Safe(stream[cur[a].id], cur[a].id + 1, cur[a].id)'
  <2>1. PICK d \in Lowest(todo[a]) : /\ cur' = [cur EXCEPT ![a] = d]
                                     /\ dropped' = dropped \cup {stream[d.id]}
    BY <1>6 DEF ExhaustUnwritten
  <2>2. cur'[a] = d BY <2>1 DEF TypeActors
  <2>3. UNCHANGED stream BY <1>6 DEF ExhaustUnwritten, redisVars
  <2> QED BY <2>1, <2>2, <2>3 DEF Safe
<1> QED BY <1>1, <1>3, <1>4, <1>5, <1>6, ToAck

LEMMA DelIsSafeStep == ASSUME TypeInv, KeptInv, [Next]_vars PROVE DelIsSafe'
<1> USE DEF KeptInv, TypeInv, TypeOK
<1>1. SUFFICES ASSUME NEW s \in Servers, adm'[s].stage = "added"
               PROVE  Safe(stream[adm[s].msg], adm[s].msg + 1, adm[s].msg + 1)'
  BY DEF DelIsSafe
<1>2. Appended BY LastGrows
<1>3. CASE adm[s].stage = "added" /\ adm'[s] = adm[s]
  <2>1. PICK k, j : k = adm[s].msg /\ j = stream[k] OBVIOUS
  <2>2. k \in Nat /\ k <= last /\ k # 0 BY <1>3, <2>1, ConstantFacts DEF TypeRest, OnlyDelivered, HandlesOne
  <2>3. k \in 1..Len(stream) BY <2>2 DEF TypeRedis
  <2>4. group BY <1>3, NoGroupNoWork
  <2>5. Safe(j, k + 1, k + 1) BY <1>3, <2>1 DEF DelIsSafe
  <2>6. Safe(j, k + 1, k + 1)' BY <2>2, <2>4, <2>5, SafeStep
  <2>7. adm'[s].msg = k /\ stream'[k] = j BY <1>2, <1>3, <2>1, <2>3 DEF Appended
  <2> QED BY <2>6, <2>7
<1>4. CASE RequeueAdd(s)
  <2>1. PICK k, j : k = adm[s].msg /\ j = stream[k] OBVIOUS
  <2>2. k \in Nat /\ k <= last /\ k # 0
    BY <1>4, <2>1, ConstantFacts DEF RequeueAdd, TypeRest, OnlyDelivered, HandlesOne
  <2>3. k \in 1..Len(stream) BY <2>2 DEF TypeRedis
  <2>4. j \in Jobs BY <2>1, <2>3 DEF TypeRedis
  <2>5. XAdd(j) /\ UNCHANGED <<last, pending>> /\ adm'[s].msg = k
    BY <1>4, <2>1 DEF RequeueAdd, TypeRest
  <2>6. PICK m : m = Len(stream') /\ m = Len(stream) + 1 BY <2>4, <2>5, XAddFacts
  <2>7. stream'[m] = j /\ m \in 1..Len(stream') BY <2>4, <2>5, <2>6, XAddFacts DEF TypeRedis
  <2>8. m >= k + 1 /\ m > last BY <2>2, <2>6 DEF TypeRedis
  <2>9. stream'[k] = j BY <1>2, <2>1, <2>3 DEF Appended
  <2>10. Live(m)' BY <2>5, <2>8 DEF Live
  <2> QED BY <2>5, <2>7, <2>8, <2>9, <2>10 DEF Safe
<1>5. CASE UNCHANGED adm BY <1>1, <1>3, <1>5
<1>6. ASSUME NEW r \in Servers, adm' = [adm EXCEPT ![r] = NoEntry] PROVE adm'[s] = adm[s]
  BY <1>1, <1>6 DEF TypeRest, NoEntry
<1>7. ASSUME NEW r \in Servers, NEW e \in dlq, RequeueRead(r, e) PROVE adm'[s] = adm[s]
  BY <1>1, <1>7 DEF RequeueRead, TypeRest
<1>8. ASSUME NEW r \in Servers, RequeueAdd(r), r # s PROVE adm'[s] = adm[s]
  BY <1>8 DEF RequeueAdd, TypeRest
<1> QED BY <1>1, <1>3, <1>4, <1>5, <1>6, <1>7, <1>8, FrameAdm DEF RequeueAddFails, RequeueDel, Crash

\* The two bounds of what the group covers: start moves only when the group is
\* created, and entries appended by a step are ahead of the group's position.
LEMMA StartFixed ==
    ASSUME TypeInv, [Next]_vars, group \/ ~group'
    PROVE  start' = start
<1>1. CASE UNCHANGED redisVars BY <1>1 DEF redisVars
<1>2. ASSUME NEW s \in Servers, CreateGroup(s) PROVE start' = start BY <1>2 DEF CreateGroup
<1>3. ASSUME NEW s \in Servers, Exhaust(s) \/ Claim(s) \/ Skip(s) \/ RequeueAdd(s) \/ RequeueDel(s)
      PROVE  start' = start
  BY <1>3 DEF Exhaust, Claim, Skip, RequeueAdd, RequeueDel, XClaim, redisVars
<1>4. ASSUME NEW s \in Servers, NEW j \in Jobs, GenerateSDK(s, j) \/ GenerateSDKLocally(s, j)
      PROVE  start' = start
  BY <1>4 DEF GenerateSDK, GenerateSDKLocally
<1>5. ASSUME NEW w \in Workers, Deliver(w) \/ DeliverLost(w) PROVE start' = start
  BY <1>5 DEF Deliver, DeliverLost, ReadNew
<1>6. ASSUME NEW a \in Actors, Ack(a) PROVE start' = start BY <1>6 DEF Ack
<1>7. ASSUME NEW i \in Ids, GrowStale(i) PROVE start' = start BY <1>7 DEF GrowStale
<1>8. ASSUME NEW e \in dlq, DeleteDLQ(e) PROVE start' = start BY <1>8 DEF DeleteDLQ
<1> QED BY <1>1, <1>2, <1>3, <1>4, <1>5, <1>6, <1>7, <1>8, FrameRedis

LEMMA NewIsLive ==
    ASSUME TypeInv, [Next]_vars, group \/ ~group'
    PROVE  last' <= Len(stream)
<1> USE DEF TypeInv, TypeOK, TypeRedis
<1>1. CASE UNCHANGED redisVars BY <1>1 DEF redisVars
<1>2. ASSUME NEW s \in Servers, CreateGroup(s) PROVE last' <= Len(stream) BY <1>2 DEF CreateGroup
<1>3. ASSUME NEW s \in Servers, Exhaust(s) \/ Claim(s) \/ Skip(s) \/ RequeueAdd(s) \/ RequeueDel(s)
      PROVE  last' <= Len(stream)
  BY <1>3 DEF Exhaust, Claim, Skip, RequeueAdd, RequeueDel, XClaim, redisVars
<1>4. ASSUME NEW s \in Servers, NEW j \in Jobs, GenerateSDK(s, j) \/ GenerateSDKLocally(s, j)
      PROVE  last' <= Len(stream)
  BY <1>4 DEF GenerateSDK, GenerateSDKLocally
<1>5. ASSUME NEW w \in Workers, Deliver(w) \/ DeliverLost(w) PROVE last' <= Len(stream)
  BY <1>5, ReadNewFacts DEF Deliver, DeliverLost
<1>6. ASSUME NEW a \in Actors, Ack(a) PROVE last' <= Len(stream) BY <1>6 DEF Ack
<1>7. ASSUME NEW i \in Ids, GrowStale(i) PROVE last' <= Len(stream) BY <1>7 DEF GrowStale
<1>8. ASSUME NEW e \in dlq, DeleteDLQ(e) PROVE last' <= Len(stream) BY <1>8 DEF DeleteDLQ
<1> QED BY <1>1, <1>2, <1>3, <1>4, <1>5, <1>6, <1>7, <1>8, FrameRedis

LEMMA EntriesKeptStep == ASSUME TypeInv, KeptInv, [Next]_vars PROVE EntriesKept'
<1> USE DEF KeptInv, TypeInv, TypeOK
<1>1. SUFFICES ASSUME NEW m \in 1..Len(stream'), m > start' PROVE Safe(stream[m], 0, 0)'
  <2>1. TypeInv' BY TypeInvStep
  <2>2. \A e \in dlq' : e.msg >= 0 BY <2>1, IdFacts DEF TypeRedis
  <2>3. \A j : Safe(j, 0, 0)' => Kept(j)' BY <2>2 DEF Kept, Safe
  <2>4. Len(stream') \in Nat /\ start' \in Nat BY <2>1 DEF TypeRedis
  <2>6. \A lo \in Nat, hi \in Nat : \A m \in (lo + 1)..hi : m \in 1..hi /\ m > lo OBVIOUS
  <2>5. ASSUME NEW m \in (start' + 1)..Len(stream') PROVE m \in 1..Len(stream') /\ m > start'
    BY <2>4, <2>6
  <2> QED BY <1>1, <2>3, <2>5 DEF EntriesKept
<1>2. Appended BY LastGrows
<1>3. CASE ~group /\ group'
  <2>1. start' = Len(stream') \/ UNCHANGED redisVars
    <3>1. ASSUME NEW w \in Workers, Deliver(w) \/ DeliverLost(w) PROVE FALSE
      BY <1>3, <3>1 DEF Deliver, DeliverLost, ReadNew
    <3>2. ASSUME NEW s \in Servers, CreateGroup(s) PROVE start' = Len(stream')
      BY <1>3, <3>2 DEF CreateGroup
    <3>3. ASSUME NEW s \in Servers, Exhaust(s) \/ Claim(s) \/ Skip(s) \/ RequeueAdd(s) \/ RequeueDel(s)
          PROVE  FALSE
      BY <1>3, <3>3 DEF Exhaust, Claim, Skip, RequeueAdd, RequeueDel, XClaim, redisVars
    <3>4. ASSUME NEW s \in Servers, NEW j \in Jobs, GenerateSDK(s, j) \/ GenerateSDKLocally(s, j)
          PROVE  FALSE
      BY <1>3, <3>4 DEF GenerateSDK, GenerateSDKLocally
    <3>5. ASSUME NEW a \in Actors, Ack(a) PROVE FALSE BY <1>3, <3>5 DEF Ack
    <3>6. ASSUME NEW i \in Ids, GrowStale(i) PROVE FALSE BY <1>3, <3>6 DEF GrowStale
    <3>7. ASSUME NEW e \in dlq, DeleteDLQ(e) PROVE FALSE BY <1>3, <3>7 DEF DeleteDLQ
    <3> QED BY <3>1, <3>2, <3>3, <3>4, <3>5, <3>6, <3>7, FrameRedis
  <2>2. start' = Len(stream') BY <1>3, <2>1 DEF redisVars
  <2> QED BY <1>1, <2>2, RedisType DEF TypeRedis
<1>4. CASE group \/ ~group'
  <2>1. start' = start BY <1>4, StartFixed
  <2>2. CASE m \in 1..Len(stream)
    <3>1. PICK j : j = stream[m] OBVIOUS
    <3>2. Kept(j)
      <4>1. m \in (start + 1)..Len(stream) BY <1>1, <2>1, <2>2 DEF TypeRedis
      <4> QED BY <3>1, <4>1 DEF EntriesKept
    <3>3. Safe(j, 0, 0)' BY <1>4, <3>2, KeptIsSafe, SafeStep
    <3>4. stream'[m] = j BY <1>2, <2>2, <3>1 DEF Appended
    <3> QED BY <3>3, <3>4
  <2>3. CASE m > Len(stream)
    <3>1. m > last' BY <1>1, <1>4, <2>3, NewIsLive, RedisType DEF TypeRedis
    <3> QED BY <1>1, <3>1 DEF Safe, Live
  <2> QED BY <1>1, <2>2, <2>3, RedisType DEF TypeRedis
<1> QED BY <1>3, <1>4

LEMMA TracedStep == ASSUME TypeInv, KeptInv, [Next]_vars PROVE Traced'
<1> USE DEF KeptInv, TypeInv, TypeOK
<1>1. HistoryKept BY HistoryGrows
<1>2. \A j : HasEntry(j) => HasEntry(j)'
  BY LastGrows, RedisType DEF HasEntry, Appended, TypeRedis
<1>3. ASSUME UNCHANGED <<submitted, local>> PROVE Traced'
  BY <1>1, <1>2, <1>3 DEF Traced, HistoryKept, OnFallback
<1>4. ASSUME NEW s \in Servers, NEW i \in Jobs, Submit(s, i), HasEntry(i)', UNCHANGED local
      PROVE  Traced'
  BY <1>1, <1>2, <1>4 DEF Submit, Traced, HistoryKept, OnFallback
<1>5. ASSUME NEW s \in Servers, NEW i \in Jobs, GenerateSDK(s, i) PROVE Traced'
  <2>1. stream' = Append(stream, i) /\ Submit(s, i) /\ UNCHANGED local
    BY <1>5 DEF GenerateSDK, XAdd
  <2>2. HasEntry(i)'
    <3>1. Len(stream') = Len(stream) + 1 /\ stream'[Len(stream) + 1] = i BY <2>1 DEF TypeRedis
    <3>2. Len(stream) + 1 \in 1..Len(stream') BY <3>1 DEF TypeRedis
    <3> QED BY <3>1, <3>2 DEF HasEntry
  <2> QED BY <1>4, <2>1, <2>2
<1>6. ASSUME NEW s \in Servers, NEW i \in Jobs, GenerateSDKLocally(s, i) PROVE Traced'
  <2>1. submitted' = submitted \cup {i} /\ local' = [local EXCEPT ![s][i] = "run"]
    BY <1>6 DEF GenerateSDKLocally, Submit
  <2>2. \A r \in Servers, j \in Jobs : OnFallback(r, j) => OnFallback(r, j)'
    BY <2>1 DEF OnFallback, TypeMemory
  <2>3. OnFallback(s, i)' BY <2>1 DEF OnFallback, TypeMemory
  <2> QED BY <1>1, <1>2, <2>1, <2>2, <2>3 DEF Traced, HistoryKept, TypeRest
<1>7. ASSUME NEW s \in Servers, NEW i \in Jobs, LocalBegin(s, i) PROVE Traced'
  <2>1. submitted' = submitted /\ local' = [local EXCEPT ![s][i] = "running"]
    BY <1>7 DEF LocalBegin, histVars
  <2>2. \A r \in Servers, j \in Jobs : OnFallback(r, j) => OnFallback(r, j)'
    BY <2>1 DEF OnFallback, TypeMemory
  <2> QED BY <1>1, <1>2, <2>1, <2>2 DEF Traced, HistoryKept, TypeRest
<1>8. ASSUME NEW s \in Servers, NEW i \in Jobs, LocalFinish(s, i) PROVE Traced'
  <2>1. submitted' = submitted /\ local' = [local EXCEPT ![s][i] = "over"]
    BY <1>8 DEF LocalFinish
  <2>2. \A r \in Servers, j \in Jobs : j # i /\ OnFallback(r, j) => OnFallback(r, j)'
    BY <2>1 DEF OnFallback, TypeMemory
  <2>3. i \in stranded' \cup done'
    <3>1. CASE status'[s][i] = "ready"
      <4>1. status'[s][i] = "error" => "error" = "ready" BY <3>1
      <4>2. SetStatus(s, i, "error") => status'[s][i] = "error" BY DEF SetStatus, TypeMemory
      <4>3. i \in done' BY <1>8, <3>1, <4>1, <4>2 DEF LocalFinish, CodegenOutcome
      <4> QED BY <4>3
    <3>2. CASE status'[s][i] # "ready" BY <1>8, <3>2 DEF LocalFinish
    <3> QED BY <3>1, <3>2
  <2> QED BY <1>1, <1>2, <2>1, <2>2, <2>3 DEF Traced, HistoryKept, TypeRest
<1>9. ASSUME NEW s \in Servers, Crash(s) PROVE Traced'
  <2>1. /\ submitted' = submitted
        /\ local' = [local EXCEPT ![s] = [j \in Jobs |-> "none"]]
        /\ stranded' = stranded \cup {j \in Jobs : OnFallback(s, j)}
    BY <1>9 DEF Crash
  <2>2. \A r \in Servers, j \in Jobs : r # s /\ OnFallback(r, j) => OnFallback(r, j)'
    BY <2>1 DEF OnFallback, TypeMemory
  <2> QED BY <1>1, <1>2, <2>1, <2>2 DEF Traced, HistoryKept, TypeRest
<1>10. ASSUME NEW a \in Actors, Check(a) \/ Begin(a) \/ Finish(a) PROVE UNCHANGED <<submitted, local>>
  BY <1>10 DEF Check, Begin, Finish, histVars
<1>11. UNCHANGED memVars => UNCHANGED local BY DEF memVars
<1>12. ASSUME UNCHANGED local PROVE Traced'
  <2>1. CASE UNCHANGED histVars BY <1>3, <1>12, <2>1 DEF histVars
  <2>2. ASSUME NEW s \in Servers, ExhaustUnwritten(s) PROVE UNCHANGED submitted
    BY <2>2 DEF ExhaustUnwritten
  <2>3. ASSUME NEW e \in dlq, DeleteDLQ(e) PROVE UNCHANGED submitted BY <2>3 DEF DeleteDLQ
  <2> QED BY <1>3, <1>5, <1>6, <1>8, <1>9, <1>10, <1>12, <2>1, <2>2, <2>3, FrameHistory
<1> QED BY <1>3, <1>5, <1>6, <1>7, <1>8, <1>9, <1>10, <1>11, <1>12, FrameMemory

LEMMA KeptStep == TypeInv /\ KeptInv /\ [Next]_vars => KeptInv'
BY GroupFirstStep, ReadyIsDoneStep, AckIsSafeStep, DelIsSafeStep, EntriesKeptStep, TracedStep DEF KeptInv

\* Whatever the servers, workers, crashes, lost replies and administrators do, an
\* accepted job is waiting, finished, a dead letter or deleted, or was lost at one
\* of three places: the dead-letter write whose error is discarded, the creation
\* of the group behind its entry, or the fallback run that replaced its entry.
THEOREM JobsKept == Spec => []NoJobLost
<1>1. TypeInv /\ KeptInv => NoJobLost
  <2> SUFFICES ASSUME TypeInv, KeptInv, NEW j \in submitted
               PROVE  \/ Over(j) \/ Waiting(j) \/ Parked(j)
                      \/ \E s \in Servers : OnFallback(s, j)
                      \/ j \in stranded /\ ~HasEntry(j)
    BY DEF NoJobLost, HasEntry
  <2>1. ASSUME NEW m \in 1..Len(stream), stream[m] = j PROVE Over(j) \/ Waiting(j) \/ Parked(j)
    <3>1. Len(stream) \in Nat /\ start \in Nat BY DEF TypeInv, TypeOK, TypeRedis
    <3>2. CASE m \in 1..start BY <2>1, <3>2 DEF Over, Missed
    <3>3. CASE m \in (start + 1)..Len(stream)
      BY <2>1, <3>3 DEF KeptInv, EntriesKept, Kept, Over, Waiting, Parked
    <3> QED BY <3>1, <3>2, <3>3
  <2> QED BY <2>1 DEF KeptInv, Traced, HasEntry, Over
<1> QED BY <1>1, InitKept, KeptStep, TypeInvariant, PTL DEF Spec
-----------------------------------------------------------------------------
(***************************************************************************)
(* A completed drain is quiet.  Every empty tick outlives one tick of each *)
(* read that was under way when drain mode came on; after more of them     *)
(* than a blocked read can last, no read is left, and whatever the reads   *)
(* brought was seen acknowledged by the tick after.                        *)
(***************************************************************************)
ReadsAge(s)  == ticks[s] > 0 /\ ~toggled[s] =>
                    drain[s] /\ \A w \in Staff(s) : pc[w] = "reading" => age[w] >= ticks[s]
HandsFree(s) == ticks[s] > BlockTicks /\ ~toggled[s] =>
                    \A w \in Staff(s) : Held(w) \cap pending = {}
DrainInv == \A s \in Servers : /\ drained[s] => ticks[s] = EmptyThresh
                               /\ ReadsAge(s)
                               /\ HandsFree(s)

LEMMA InitDrain == Init => DrainInv
BY ConstantFacts DEF Init, DrainInv, ReadsAge, HandsFree

LEMMA StillReading ==
    ASSUME TypeInv, [Next]_vars, NEW w \in Workers, pc'[w] = "reading", ~StartRead(w)
    PROVE  pc[w] = "reading" /\ age'[w] >= age[w]
<1> DEFINE Goal == pc[w] = "reading" /\ age'[w] >= age[w]
<1> USE ActorFacts DEF TypeInv, TypeOK, TypeActors
<1>0. age[w] \in Nat BY ConstantFacts
<1>1. ASSUME NEW b \in Actors, NEW l, l # "reading", Goto(b, l), age'[w] = age[w] PROVE Goal
  BY <1>0, <1>1 DEF Goto
<1>2. ASSUME NEW b \in Actors, Resume(b) PROVE Goal BY <1>0, <1>2 DEF Resume
<1>3. CASE UNCHANGED actorVars BY <1>0, <1>3 DEF actorVars
<1>4. ASSUME NEW s \in Servers, \/ InitRedis(s) \/ CreateGroup(s) \/ CreateGroupFails(s) \/ Scan(s)
                                \/ Exhaust(s) \/ ExhaustUnwritten(s) \/ Claim(s) \/ Skip(s)
      PROVE  Goal
  <2>1. PICK l \in {"group", "idle", "next", "ack", "check"} : Goto(s, l)
    BY <1>4 DEF InitRedis, CreateGroup, CreateGroupFails, Scan, Exhaust, ExhaustUnwritten, Claim, Skip
  <2>2. UNCHANGED age
    BY <1>4 DEF InitRedis, CreateGroup, CreateGroupFails, Scan, Exhaust, ExhaustUnwritten, Claim, Skip
  <2> QED BY <1>1, <2>1, <2>2
<1>5. ASSUME NEW s \in Servers, Tick(s) PROVE Goal
  <2>1. pc'[w] = pc[w] BY <1>5 DEF Tick, Goto
  <2>2. age'[w] = age[w] + 1 \/ age'[w] = age[w] BY <1>5 DEF Tick
  <2> QED BY <1>0, <2>1, <2>2
<1>6. ASSUME NEW s \in Servers, Crash(s) PROVE Goal BY <1>0, <1>6 DEF Crash
<1>7. ASSUME NEW v \in Workers, \/ Deliver(v) \/ DeliverLost(v) \/ ReadTimeout(v) \/ Take(v) \/ Quit(v)
      PROVE  Goal
  <2>1. PICK l \in {"next", "idle", "check"} : Goto(v, l)
    BY <1>7 DEF Deliver, DeliverLost, ReadTimeout, Take, Quit
  <2>2. v # w BY <2>1 DEF Goto
  <2>3. age'[w] = age[w] BY <1>7, <2>2 DEF Deliver, DeliverLost, ReadTimeout, Take, Quit
  <2> QED BY <1>1, <2>1, <2>3
<1>8. ASSUME NEW v \in Workers, StartRead(v) PROVE Goal
  <2>1. v # w BY <1>8
  <2>2. pc'[w] = pc[w] /\ age'[w] = age[w] BY <1>8, <2>1 DEF StartRead, Goto
  <2> QED BY <1>0, <2>2
<1>9. ASSUME NEW b \in Actors, Check(b) \/ Begin(b) \/ Finish(b) PROVE Goal
  <2>1. PICK l \in {"ack", "run", "running", "ran"} : Goto(b, l)
    BY <1>9 DEF Check, Begin, Finish
  <2> QED BY <1>1, <1>9, <2>1 DEF Check, Begin, Finish
<1>10. ASSUME NEW b \in Actors, Verdict(b) \/ Ack(b) \/ AckLost(b) PROVE Goal
  <2>1. CASE Resume(b) BY <1>2, <2>1
  <2>2. CASE Goto(b, "ack") /\ UNCHANGED age BY <1>1, <2>2
  <2> QED BY <1>10, <2>1, <2>2 DEF Verdict, Ack, AckLost
<1> QED BY <1>3, <1>4, <1>5, <1>6, <1>7, <1>8, <1>9, <1>10, FrameActors

\* Only a read puts something new into a worker's hands.
LEMMA HeldShrinks ==
    ASSUME TypeInv, [Next]_vars, NEW w \in Workers, ~Deliver(w)
    PROVE  Held(w)' \subseteq Held(w) \cup {0}
<1> DEFINE Goal == Held(w)' \subseteq Held(w) \cup {0}
<1> USE ActorFacts DEF TypeInv, TypeOK, TypeActors
<1>1. ASSUME cur'[w] = cur[w], todo'[w] \subseteq todo[w] PROVE Goal BY <1>1 DEF Held
<1>2. ASSUME NEW b \in Actors, Resume(b) PROVE Goal BY <1>2 DEF Resume, Held, NoMsg
<1>3. CASE UNCHANGED actorVars BY <1>1, <1>3 DEF actorVars
<1>4. ASSUME NEW s \in Servers, \/ InitRedis(s) \/ CreateGroup(s) \/ CreateGroupFails(s) \/ Tick(s)
      PROVE  Goal
  BY <1>1, <1>4 DEF InitRedis, CreateGroup, CreateGroupFails, Tick
<1>5. ASSUME NEW s \in Servers, \/ Scan(s) \/ Exhaust(s) \/ ExhaustUnwritten(s) \/ Claim(s) \/ Skip(s)
      PROVE  Goal
  <2>1. cur'[w] = cur[w] BY <1>5 DEF Scan, Exhaust, ExhaustUnwritten, Claim, Skip
  <2>2. todo'[w] = todo[w] BY <1>5 DEF Scan, Exhaust, ExhaustUnwritten, Claim, Skip
  <2> QED BY <1>1, <2>1, <2>2
<1>6. ASSUME NEW s \in Servers, Crash(s) PROVE Goal BY <1>6 DEF Crash, Held, NoMsg
<1>7. ASSUME NEW v \in Workers, StartRead(v) \/ DeliverLost(v) \/ ReadTimeout(v) PROVE Goal
  BY <1>1, <1>7 DEF StartRead, DeliverLost, ReadTimeout
<1>8. ASSUME NEW v \in Workers, v # w, Deliver(v) PROVE Goal BY <1>1, <1>8 DEF Deliver
<1>9. ASSUME NEW v \in Workers, Take(v) PROVE Goal
  <2>1. PICK d \in Lowest(todo[v]) : /\ cur' = [cur EXCEPT ![v] = d]
                                     /\ todo' = [todo EXCEPT ![v] = @ \ {d}]
    BY <1>9 DEF Take
  <2>2. d \in todo[v] BY DEF Lowest
  <2> QED BY <2>1, <2>2 DEF Held
<1>10. ASSUME NEW v \in Workers, Quit(v) PROVE Goal BY <1>1, <1>10 DEF Quit
<1>11. ASSUME NEW b \in Actors, Check(b) \/ Begin(b) \/ Finish(b) PROVE Goal
  BY <1>1, <1>11 DEF Check, Begin, Finish
<1>12. ASSUME NEW b \in Actors, Verdict(b) \/ Ack(b) \/ AckLost(b) PROVE Goal
  BY <1>1, <1>2, <1>12 DEF Verdict, Ack, AckLost
<1> QED BY <1>3, <1>4, <1>5, <1>6, <1>7, <1>8, <1>9, <1>10, <1>11, <1>12, FrameActors

\* What becomes pending has not been in anybody's hands.
LEMMA PendingIsNew ==
    ASSUME TypeInv, [Next]_vars, NEW i \in pending', i \notin pending
    PROVE  i > last
<1> USE DEF TypeInv, TypeOK
<1>1. ASSUME NEW upto \in Ids, ReadNew(upto) PROVE i > last
  BY <1>1, IdFacts DEF ReadNew, TypeRedis
<1>2. CASE UNCHANGED redisVars BY <1>2 DEF redisVars
<1>3. ASSUME NEW s \in Servers, \/ CreateGroup(s) \/ Exhaust(s) \/ Claim(s) \/ Skip(s)
                                \/ RequeueAdd(s) \/ RequeueDel(s)
      PROVE  pending' = pending
  BY <1>3 DEF CreateGroup, Exhaust, Claim, Skip, RequeueAdd, RequeueDel, XClaim, redisVars
<1>4. ASSUME NEW s \in Servers, NEW j \in Jobs, GenerateSDK(s, j) \/ GenerateSDKLocally(s, j)
      PROVE  pending' = pending
  BY <1>4 DEF GenerateSDK, GenerateSDKLocally
<1>5. ASSUME NEW w \in Workers, Deliver(w) \/ DeliverLost(w) PROVE i > last
  BY <1>1, <1>5 DEF Deliver, DeliverLost
<1>6. ASSUME NEW a \in Actors, Ack(a) PROVE pending' \subseteq pending BY <1>6 DEF Ack
<1>7. ASSUME NEW k \in Ids, GrowStale(k) PROVE pending' = pending BY <1>7 DEF GrowStale
<1>8. ASSUME NEW e \in dlq, DeleteDLQ(e) PROVE pending' = pending BY <1>8 DEF DeleteDLQ
<1> QED BY <1>2, <1>3, <1>4, <1>5, <1>6, <1>7, <1>8, FrameRedis

\* Once the empty ticks outlast a blocked read, no read is left.
LEMMA NoReads ==
    ASSUME TypeInv, DrainInv, NEW s \in Servers, ticks[s] > BlockTicks, ~toggled[s],
           NEW w \in Staff(s)
    PROVE  pc[w] # "reading"
<1>1. ticks[s] \in Nat /\ ticks[s] > 0 BY ConstantFacts DEF TypeInv, TypeOK, TypeDrain
<1>2. age[w] \in 0..BlockTicks BY DEF TypeInv, TypeOK, TypeActors, Staff
<1>3. pc[w] = "reading" => age[w] >= ticks[s] BY <1>1 DEF DrainInv, ReadsAge
<1> QED BY <1>1, <1>2, <1>3, ConstantFacts

LEMMA ReadsAgeStep ==
    ASSUME TypeInv, DrainInv, [Next]_vars, NEW s \in Servers PROVE ReadsAge(s)'
<1> USE DEF TypeInv, TypeOK
<1>0. ticks[s] \in Nat BY ConstantFacts DEF TypeDrain
<1>1. ASSUME drain[s] => drain'[s], ticks'[s] = ticks[s], toggled'[s] = toggled[s] PROVE ReadsAge(s)'
  <2>1. SUFFICES ASSUME ticks[s] > 0, ~toggled[s]
                 PROVE  drain'[s] /\ \A w \in Staff(s) : pc'[w] = "reading" => age'[w] >= ticks[s]
    BY <1>1 DEF ReadsAge, Staff
  <2>2. drain[s] BY <2>1 DEF DrainInv, ReadsAge
  <2>3. ASSUME NEW w \in Staff(s), pc'[w] = "reading" PROVE age'[w] >= ticks[s]
    <3>1. w \in Workers /\ ~StartRead(w) BY <2>2 DEF Staff, StartRead
    <3>2. pc[w] = "reading" /\ age'[w] >= age[w] BY <2>3, <3>1, StillReading
    <3>3. age[w] >= ticks[s] BY <2>1, <3>2 DEF DrainInv, ReadsAge
    <3>4. age[w] \in Nat /\ age'[w] \in Nat
      BY <3>1, ActorsType, ConstantFacts DEF TypeActors
    <3> QED BY <1>0, <3>2, <3>3, <3>4
  <2> QED BY <1>1, <2>2, <2>3
<1>2. CASE UNCHANGED drainVars BY <1>1, <1>2 DEF drainVars
<1>3. ASSUME NEW r \in Servers, r # s, Tick(r) \/ Crash(r) \/ \E b \in BOOLEAN : QueueDrain(r, b)
      PROVE  ReadsAge(s)'
  <2>1. drain'[s] = drain[s] /\ ticks'[s] = ticks[s] /\ toggled'[s] = toggled[s]
    BY <1>3 DEF Tick, Crash, QueueDrain, TypeDrain
  <2> QED BY <1>1, <2>1
<1>4. CASE Crash(s) BY <1>4 DEF Crash, ReadsAge, TypeDrain
<1>5. ASSUME NEW b \in BOOLEAN, QueueDrain(s, b) PROVE ReadsAge(s)'
  <2>1. CASE b
    <3>1. drain'[s] /\ ticks'[s] = ticks[s] /\ toggled'[s] = toggled[s]
      BY <1>5, <2>1 DEF QueueDrain, TypeDrain
    <3> QED BY <1>1, <3>1
  <2>2. CASE ~b BY <1>0, <1>5, <2>2 DEF QueueDrain, ReadsAge, TypeDrain
  <2> QED BY <2>1, <2>2
<1>6. CASE Tick(s)
  <2>1. CASE UNCHANGED <<ticks, drained, toggled>>
    BY <1>1, <1>6, <2>1 DEF Tick
  <2>2. CASE ticks' = [ticks EXCEPT ![s] = 0] BY <2>2 DEF ReadsAge, TypeDrain
  <2>3. CASE /\ drain[s] /\ ticks' = [ticks EXCEPT ![s] = Min2(@ + 1, EmptyThresh)]
             /\ UNCHANGED toggled
    <3>1. ticks'[s] \in Nat /\ ticks'[s] <= ticks[s] + 1
      BY <1>0, <2>3, ConstantFacts DEF Min2, TypeDrain
    <3>2. SUFFICES ASSUME ~toggled[s], NEW w \in Staff(s), pc'[w] = "reading"
                   PROVE  age'[w] >= ticks[s] + 1
      <4>1. drain'[s] BY <1>6, <2>3 DEF Tick
      <4>2. toggled' = toggled BY <2>3
      <4>3. \A w \in Staff(s) : age'[w] \in Nat BY ActorsType, ConstantFacts DEF TypeActors, Staff
      <4> QED BY <1>0, <3>1, <3>2, <4>1, <4>2, <4>3 DEF ReadsAge, Staff
    <3>3. w \in Workers /\ w # s /\ Home[w] = s BY ActorFacts DEF Staff
    <3>4. pc[w] = "reading" BY <1>6, <3>2, <3>3, ActorFacts DEF Tick, Goto, TypeActors
    <3>5. age'[w] = age[w] + 1 BY <1>6, <3>3, <3>4 DEF Tick
    <3>6. age[w] \in Nat BY <3>3, ConstantFacts DEF TypeActors
    <3>7. age[w] >= ticks[s]
      <4>1. CASE ticks[s] = 0 BY <3>6, <4>1
      <4>2. CASE ticks[s] > 0 BY <3>2, <3>4, <4>2 DEF DrainInv, ReadsAge
      <4> QED BY <1>0, <4>1, <4>2
    <3> QED BY <1>0, <3>5, <3>6, <3>7
  <2> QED BY <1>6, <2>1, <2>2, <2>3 DEF Tick
<1> QED BY <1>2, <1>3, <1>4, <1>5, <1>6, FrameDrain

LEMMA HandsFreeStep ==
    ASSUME TypeInv, DrainInv, [Next]_vars, NEW s \in Servers PROVE HandsFree(s)'
<1> USE DEF TypeInv, TypeOK
<1>0. ticks[s] \in Nat /\ BlockTicks \in Nat BY ConstantFacts DEF TypeDrain
<1>1. ASSUME NEW w \in Staff(s), Held(w) \cap pending = {}, pc[w] # "reading"
      PROVE  Held(w)' \cap pending' = {}
  <2>1. w \in Workers /\ w \in Actors /\ ~Deliver(w) BY <1>1, ActorFacts DEF Staff, Deliver
  <2>2. Held(w)' \subseteq Held(w) \cup {0} BY <2>1, HeldShrinks
  <2>3. \A i \in pending' : i \in Nat /\ i # 0 BY RedisType, IdFacts DEF TypeRedis
  <2>4. ASSUME NEW i \in Held(w), i \in pending' PROVE FALSE
    <3>1. i \notin pending BY <1>1, <2>4
    <3>2. i > last BY <2>4, <3>1, PendingIsNew
    <3>3. i <= last BY <2>1, <2>4 DEF Held, OnlyDelivered
    <3>4. i \in Nat /\ last \in Nat BY <2>3, <2>4 DEF TypeRedis
    <3> QED BY <3>2, <3>3, <3>4
  <2> QED BY <2>2, <2>3, <2>4
<1>2. ASSUME ticks'[s] = ticks[s], toggled'[s] = toggled[s] PROVE HandsFree(s)'
  <2>1. SUFFICES ASSUME ticks[s] > BlockTicks, ~toggled[s], NEW w \in Staff(s)
                 PROVE  Held(w)' \cap pending' = {}
    BY <1>2 DEF HandsFree, Staff
  <2>2. pc[w] # "reading" BY <2>1, NoReads
  <2>3. Held(w) \cap pending = {} BY <2>1 DEF DrainInv, HandsFree
  <2> QED BY <1>1, <2>2, <2>3
<1>3. CASE UNCHANGED drainVars BY <1>2, <1>3 DEF drainVars
<1>4. ASSUME NEW r \in Servers, r # s, Tick(r) \/ Crash(r) \/ \E b \in BOOLEAN : QueueDrain(r, b)
      PROVE  HandsFree(s)'
  <2>1. ticks'[s] = ticks[s] /\ toggled'[s] = toggled[s]
    BY <1>4 DEF Tick, Crash, QueueDrain, TypeDrain
  <2> QED BY <1>2, <2>1
<1>5. CASE Crash(s) BY <1>0, <1>5 DEF Crash, HandsFree, TypeDrain
<1>6. ASSUME NEW b \in BOOLEAN, QueueDrain(s, b) PROVE HandsFree(s)'
  <2>1. CASE toggled'[s] = toggled[s] BY <1>2, <1>6, <2>1 DEF QueueDrain
  <2>2. CASE toggled'[s] # toggled[s]
    <3>1. toggled'[s] BY <1>6, <2>2 DEF QueueDrain, TypeDrain
    <3> QED BY <3>1 DEF HandsFree
  <2> QED BY <2>1, <2>2
<1>7. CASE Tick(s)
  <2>1. CASE UNCHANGED <<ticks, drained, toggled>> BY <1>2, <2>1
  <2>2. CASE ticks' = [ticks EXCEPT ![s] = 0] BY <1>0, <2>2 DEF HandsFree, TypeDrain
  <2>3. CASE pending = {}
    BY <1>7, <2>3 DEF Tick, HandsFree, redisVars
  <2> QED BY <1>7, <2>1, <2>2, <2>3 DEF Tick
<1> QED BY <1>3, <1>4, <1>5, <1>6, <1>7, FrameDrain

LEMMA DrainedStep ==
    ASSUME TypeInv, DrainInv, [Next]_vars, NEW s \in Servers, drained'[s]
    PROVE  ticks'[s] = EmptyThresh
<1> USE DEF TypeInv, TypeOK
<1>0. ticks[s] \in Nat /\ EmptyThresh \in Nat /\ EmptyThresh > 0 BY ConstantFacts DEF TypeDrain
<1>1. ASSUME drained'[s] = drained[s], ticks'[s] = ticks[s] PROVE ticks'[s] = EmptyThresh
  BY <1>1 DEF DrainInv
<1>2. CASE UNCHANGED drainVars BY <1>1, <1>2 DEF drainVars
<1>3. ASSUME NEW r \in Servers, r # s, Tick(r) \/ Crash(r) PROVE ticks'[s] = EmptyThresh
  <2>1. drained'[s] = drained[s] /\ ticks'[s] = ticks[s] BY <1>3 DEF Tick, Crash, TypeDrain
  <2> QED BY <1>1, <2>1
<1>4. ASSUME NEW r \in Servers, NEW b \in BOOLEAN, QueueDrain(r, b) PROVE ticks'[s] = EmptyThresh
  BY <1>1, <1>4 DEF QueueDrain
<1>5. CASE Crash(s) BY <1>5 DEF Crash, TypeDrain
<1>6. CASE Tick(s)
  <2>1. CASE UNCHANGED <<ticks, drained, toggled>> BY <1>1, <2>1
  <2>2. CASE drained' = [drained EXCEPT ![s] = FALSE] BY <2>2 DEF TypeDrain
  <2>3. CASE /\ ticks' = [ticks EXCEPT ![s] = Min2(@ + 1, EmptyThresh)]
             /\ drained' = IF DrainDone(ticks[s] + 1) THEN [drained EXCEPT ![s] = TRUE] ELSE drained
    <3>1. ticks'[s] = Min2(ticks[s] + 1, EmptyThresh) BY <2>3 DEF TypeDrain
    <3>2. CASE DrainDone(ticks[s] + 1) BY <1>0, <3>1, <3>2 DEF DrainDone, Min2
    <3>3. CASE ~DrainDone(ticks[s] + 1)
      <4>1. drained[s] BY <2>3, <3>3
      <4>2. ticks[s] = EmptyThresh BY <4>1 DEF DrainInv
      <4> QED BY <1>0, <3>3, <4>2 DEF DrainDone
    <3> QED BY <3>2, <3>3
  <2> QED BY <1>6, <2>1, <2>2, <2>3 DEF Tick
<1> QED BY <1>2, <1>3, <1>4, <1>5, <1>6, FrameDrain

LEMMA DrainStep == TypeInv /\ DrainInv /\ [Next]_vars => DrainInv'
<1> SUFFICES ASSUME TypeInv, DrainInv, [Next]_vars, NEW s \in Servers
             PROVE  (drained'[s] => ticks'[s] = EmptyThresh) /\ ReadsAge(s)' /\ HandsFree(s)'
  BY DEF DrainInv
<1> QED BY ReadsAgeStep, HandsFreeStep, DrainedStep

\* While drain mode stays on, "drained" means that no worker of the server has a
\* read outstanding or holds an entry the group still counts as pending, given
\* that the empty ticks it takes outlast a blocked read.
THEOREM DrainQuiet ==
    ASSUME EmptyThresh > BlockTicks
    PROVE  Spec => []DrainedIsQuiet
<1>1. TypeInv /\ DrainInv => DrainedIsQuiet
  BY NoReads, ConstantFacts DEF DrainInv, HandsFree, DrainedIsQuiet
<1> QED BY <1>1, InitDrain, DrainStep, TypeInvariant, PTL DEF Spec
-----------------------------------------------------------------------------
(***************************************************************************)
(* How often an entry is delivered.  Its count and the servers that could  *)
(* still raise it with a snapshot taken before the limit was reached weigh *)
(* against each other: a claim spends the snapshot it goes by, and a new   *)
(* snapshot that may be claimed shows a count below the limit.             *)
(***************************************************************************)
Claimants(i) == {s \in Servers : \E d \in todo[s] : d.id = i /\ ~Exhausted(d)}

OneSnapshot == \A s \in Servers : \A d, e \in todo[s] : d.id = e.id => d = e
RoomLeft    == \A i \in Ids : deliveries[i] + Cardinality(Claimants(i))
                                 <= MaxDeliveries + Cardinality(Servers) - 1
BoundInv == OneSnapshot /\ RoomLeft

LEMMA CountFacts ==
    /\ MaxDeliveries \in Nat /\ MaxDeliveries > 0
    /\ Cardinality(Servers) \in Nat
    /\ \A s \in Servers : Cardinality(Servers) > 0
    /\ \A w \in Workers : Cardinality(Servers) > 0
<1>1. MaxDeliveries \in Nat \ {0} BY QueueAssumption
<1>2. Cardinality(Servers) \in Nat BY ServersAssumption, FS_CardinalityType
<1>3. \A s \in Servers : Cardinality(Servers) > 0 BY <1>2, ServersAssumption, FS_EmptySet
<1>4. \A w \in Workers : Cardinality(Servers) > 0 BY <1>3, ActorFacts
<1> QED BY <1>1, <1>2, <1>3, <1>4

LEMMA ClaimantsFinite ==
    ASSUME NEW i
    PROVE  /\ IsFiniteSet(Claimants(i)) /\ Cardinality(Claimants(i)) \in Nat
           /\ Cardinality(Claimants(i)) <= Cardinality(Servers)
<1>1. Claimants(i) \in SUBSET Servers BY DEF Claimants
<1>2. IsFiniteSet(Claimants(i)) /\ Cardinality(Claimants(i)) <= Cardinality(Servers)
  BY <1>1, ServersAssumption, FS_Subset
<1> QED BY <1>2, FS_CardinalityType

\* The same in the next state.
LEMMA ClaimantsFiniteNext ==
    ASSUME NEW i
    PROVE  /\ IsFiniteSet(Claimants(i)') /\ Cardinality(Claimants(i)') \in Nat
           /\ Cardinality(Claimants(i)') <= Cardinality(Servers)
<1>1. Claimants(i)' \in SUBSET Servers BY DEF Claimants
<1>2. IsFiniteSet(Claimants(i)') /\ Cardinality(Claimants(i)') <= Cardinality(Servers)
  BY <1>1, ServersAssumption, FS_Subset
<1> QED BY <1>2, FS_CardinalityType

LEMMA InitBound == Init => BoundInv
<1> SUFFICES ASSUME Init PROVE BoundInv OBVIOUS
<1>1. \A s \in Servers : todo[s] = {} BY ActorFacts DEF Init
<1>2. OneSnapshot BY <1>1 DEF OneSnapshot
<1>3. \A i \in Ids : Claimants(i) = {} /\ deliveries[i] = 0 BY <1>1 DEF Claimants, Init
<1>4. Cardinality({}) = 0 BY FS_EmptySet
<1>5. RoomLeft BY <1>3, <1>4, CountFacts DEF RoomLeft
<1> QED BY <1>2, <1>5 DEF BoundInv

\* Only a scan puts a snapshot into a reclaimer's hands.
LEMMA SnapshotsShrink ==
    ASSUME TypeInv, [Next]_vars, \A s \in Servers : ~Scan(s), NEW s \in Servers
    PROVE  todo'[s] \subseteq todo[s]
<1> USE ActorFacts DEF TypeInv, TypeOK, TypeActors
<1>1. CASE UNCHANGED actorVars BY <1>1 DEF actorVars
<1>2. ASSUME NEW r \in Servers, InitRedis(r) \/ CreateGroup(r) \/ CreateGroupFails(r) \/ Tick(r)
      PROVE  todo'[s] \subseteq todo[s]
  BY <1>2 DEF InitRedis, CreateGroup, CreateGroupFails, Tick
<1>3. ASSUME NEW r \in Servers, Exhaust(r) \/ ExhaustUnwritten(r) \/ Claim(r) \/ Skip(r)
      PROVE  todo'[s] \subseteq todo[s]
  <2>1. PICK d : todo' = [todo EXCEPT ![r] = @ \ {d}]
    BY <1>3 DEF Exhaust, ExhaustUnwritten, Claim, Skip
  <2> QED BY <2>1
<1>4. ASSUME NEW r \in Servers, Crash(r) PROVE todo'[s] \subseteq todo[s] BY <1>4 DEF Crash
<1>5. ASSUME NEW w \in Workers, StartRead(w) \/ Deliver(w) \/ DeliverLost(w) \/ ReadTimeout(w)
                                   \/ Take(w) \/ Quit(w)
      PROVE  todo'[s] \subseteq todo[s]
  <2>1. s # w OBVIOUS
  <2>2. UNCHANGED todo \/ \E T : todo' = [todo EXCEPT ![w] = T]
    BY <1>5 DEF StartRead, Deliver, DeliverLost, ReadTimeout, Take, Quit
  <2> QED BY <2>1, <2>2
<1>6. ASSUME NEW a \in Actors, Check(a) \/ Begin(a) \/ Finish(a) \/ Verdict(a) \/ Ack(a) \/ AckLost(a)
      PROVE  todo'[s] \subseteq todo[s]
  BY <1>6 DEF Check, Begin, Finish, Verdict, Ack, AckLost, Resume
<1> QED BY <1>1, <1>2, <1>3, <1>4, <1>5, <1>6, FrameActors

\* What raises a delivery count: the first read of an entry, or a claim that goes
\* by a snapshot and gives it up.
LEMMA CountsRise ==
    ASSUME [Next]_vars
    PROVE  \/ UNCHANGED deliveries
           \/ \E upto \in Ids : ReadNew(upto) /\ \E w \in Workers : TRUE
           \/ \E s \in Servers : \E d \in Lowest(todo[s]) :
                /\ ~Exhausted(d) /\ XClaim(d.id) /\ todo' = [todo EXCEPT ![s] = @ \ {d}]
BY FrameRedis DEF redisVars, CreateGroup, Exhaust, Claim, Skip, RequeueAdd, RequeueDel, GenerateSDK,
   GenerateSDKLocally, Deliver, DeliverLost, Ack, GrowStale, DeleteDLQ

\* A snapshot holds an entry once, with the count it has at that moment.
LEMMA ScanFacts ==
    ASSUME TypeInv, NEW s \in Servers, Scan(s)
    PROVE  /\ UNCHANGED deliveries
           /\ \A d \in todo'[s] : d.id \in Ids /\ d = [id |-> d.id, n |-> deliveries[d.id]]
           /\ \A r \in Servers \ {s} : todo'[r] = todo[r]
<1> USE ActorFacts DEF TypeInv, TypeOK, TypeActors, TypeRedis
<1> DEFINE found == IF cancelled[s] THEN {}
                    ELSE {[id |-> i, n |-> deliveries[i]] : i \in FirstBatch(pending) \cap stale}
<1>1. todo' = [todo EXCEPT ![s] = found] BY DEF Scan
<1>2. todo'[s] = found BY <1>1
<1>3. \A d \in found : d.id \in Ids /\ d = [id |-> d.id, n |-> deliveries[d.id]] OBVIOUS
<1>4. UNCHANGED deliveries BY DEF Scan, redisVars
<1> HIDE DEF found
<1>5. \A r \in Servers \ {s} : todo'[r] = todo[r] BY <1>1
<1> QED BY <1>2, <1>3, <1>4, <1>5

LEMMA OneSnapshotStep == ASSUME TypeInv, BoundInv, [Next]_vars PROVE OneSnapshot'
<1>1. ASSUME NEW s \in Servers, Scan(s) PROVE OneSnapshot'
  BY <1>1, ScanFacts DEF BoundInv, OneSnapshot
<1>2. CASE \A s \in Servers : ~Scan(s) BY <1>2, SnapshotsShrink DEF BoundInv, OneSnapshot
<1> QED BY <1>1, <1>2

\* Below the limit there is room for every server; a scan of an entry at the
\* limit finds nothing to claim.
LEMMA RoomAfterScan ==
    ASSUME TypeInv, BoundInv, NEW s \in Servers, Scan(s), NEW i \in Ids
    PROVE  deliveries'[i] + Cardinality(Claimants(i)') <= MaxDeliveries + Cardinality(Servers) - 1
<1>1. deliveries[i] \in Nat /\ deliveries'[i] = deliveries[i]
  BY ScanFacts DEF TypeInv, TypeOK, TypeRedis
<1>2. CASE deliveries[i] < MaxDeliveries BY <1>1, <1>2, ClaimantsFiniteNext, CountFacts
<1>3. CASE deliveries[i] >= MaxDeliveries
  <2>1. \A d \in todo'[s] : d.id = i => Exhausted(d) BY <1>3, ScanFacts DEF Exhausted
  <2>2. Claimants(i)' \subseteq Claimants(i) BY <2>1, ScanFacts DEF Claimants, Exhausted
  <2>3. Cardinality(Claimants(i)') <= Cardinality(Claimants(i)) BY <2>2, ClaimantsFinite, FS_Subset
  <2> QED BY <1>1, <2>3, ClaimantsFinite, ClaimantsFiniteNext, CountFacts DEF BoundInv, RoomLeft
<1> QED BY <1>1, <1>2, <1>3, CountFacts

LEMMA FewerClaimants ==
    ASSUME TypeInv, [Next]_vars, \A s \in Servers : ~Scan(s), NEW i
    PROVE  /\ Claimants(i)' \subseteq Claimants(i)
           /\ Cardinality(Claimants(i)') <= Cardinality(Claimants(i))
<1>1. Claimants(i)' \subseteq Claimants(i) BY SnapshotsShrink DEF Claimants, Exhausted
<1> QED BY <1>1, ClaimantsFinite, FS_Subset

LEMMA RoomKept ==
    ASSUME TypeInv, BoundInv, [Next]_vars, \A s \in Servers : ~Scan(s), NEW i \in Ids,
           deliveries'[i] = deliveries[i]
    PROVE  deliveries'[i] + Cardinality(Claimants(i)') <= MaxDeliveries + Cardinality(Servers) - 1
<1>1. deliveries[i] \in Nat BY DEF TypeInv, TypeOK, TypeRedis
<1>2. Cardinality(Claimants(i)') <= Cardinality(Claimants(i)) BY FewerClaimants
<1>3. Cardinality(Claimants(i)) \in Nat /\ Cardinality(Claimants(i)') \in Nat
  BY ClaimantsFinite, ClaimantsFiniteNext
<1>4. deliveries[i] + Cardinality(Claimants(i)) <= MaxDeliveries + Cardinality(Servers) - 1
  BY DEF BoundInv, RoomLeft
<1> QED BY <1>1, <1>2, <1>3, <1>4, CountFacts

\* An entry not read yet has no claimants.
LEMMA RoomAfterRead ==
    ASSUME TypeInv, BoundInv, [Next]_vars, \A s \in Servers : ~Scan(s), NEW upto \in Ids, ReadNew(upto),
           NEW w \in Workers, NEW i \in Ids
    PROVE  deliveries'[i] + Cardinality(Claimants(i)') <= MaxDeliveries + Cardinality(Servers) - 1
<1> USE DEF TypeInv, TypeOK, TypeRedis
<1>1. deliveries[i] \in Nat /\ last \in Nat /\ i \in Nat BY IdFacts
<1>2. CASE deliveries'[i] = deliveries[i]
  BY <1>2, RoomKept
<1>3. CASE i \in (last + 1)..upto
  <2>1. i > last BY <1>1, <1>3, ReadNewFacts
  <2>2. \A s \in Servers : \A d \in todo[s] : d.id # i
    <3>1. SUFFICES ASSUME NEW s \in Servers, NEW d \in todo[s], d.id = i PROVE FALSE OBVIOUS
    <3>2. i <= last BY <3>1, ActorFacts DEF OnlyDelivered
    <3> QED BY <1>1, <2>1, <3>2
  <2>3. Claimants(i) = {} BY <2>2 DEF Claimants
  <2>4. Cardinality(Claimants(i)') = 0 BY <2>3, FewerClaimants, FS_EmptySet
  <2>5. deliveries'[i] = 1 BY <1>3 DEF ReadNew
  <2> QED BY <2>4, <2>5, CountFacts
<1>4. i \in (last + 1)..upto \/ deliveries'[i] = deliveries[i] BY DEF ReadNew
<1> QED BY <1>2, <1>3, <1>4

LEMMA RoomAfterClaim ==
    ASSUME TypeInv, BoundInv, [Next]_vars, \A r \in Servers : ~Scan(r),
           NEW s \in Servers, NEW d \in Lowest(todo[s]), ~Exhausted(d), XClaim(d.id),
           todo' = [todo EXCEPT ![s] = @ \ {d}], NEW i \in Ids
    PROVE  deliveries'[i] + Cardinality(Claimants(i)') <= MaxDeliveries + Cardinality(Servers) - 1
<1> USE ActorFacts DEF TypeInv, TypeOK, TypeRedis, TypeActors
<1>1. deliveries[i] \in Nat OBVIOUS
<1>2. CASE i # d.id
  <2>1. deliveries'[i] = deliveries[i] BY <1>2 DEF XClaim
  <2> QED BY <2>1, RoomKept
<1>3. CASE i = d.id
  <2>1. deliveries'[i] = deliveries[i] + 1 BY <1>3 DEF XClaim
  <2>2. d \in todo[s] BY DEF Lowest
  <2>3. s \in Claimants(i) BY <1>3, <2>2 DEF Claimants
  <2>4. todo'[s] = todo[s] \ {d} OBVIOUS
  <2>5. \A e \in todo'[s] : e.id # i BY <1>3, <2>2, <2>4 DEF BoundInv, OneSnapshot
  <2>6. s \notin Claimants(i)' BY <2>5 DEF Claimants
  <2>7. Claimants(i)' \subseteq Claimants(i) \ {s} BY <2>6, FewerClaimants
  <2>8. /\ IsFiniteSet(Claimants(i) \ {s})
        /\ Cardinality(Claimants(i) \ {s}) = Cardinality(Claimants(i)) - 1
    BY <2>3, ClaimantsFinite, FS_RemoveElement
  <2>9. Cardinality(Claimants(i)') <= Cardinality(Claimants(i)) - 1 BY <2>7, <2>8, FS_Subset
  <2> QED BY <1>1, <2>1, <2>9, ClaimantsFinite, ClaimantsFiniteNext, CountFacts DEF BoundInv, RoomLeft
<1> QED BY <1>2, <1>3

LEMMA RoomLeftStep == ASSUME TypeInv, BoundInv, [Next]_vars PROVE RoomLeft'
<1> SUFFICES ASSUME NEW i \in Ids
             PROVE  deliveries'[i] + Cardinality(Claimants(i)')
                      <= MaxDeliveries + Cardinality(Servers) - 1
  BY DEF RoomLeft
<1>1. ASSUME NEW s \in Servers, Scan(s)
      PROVE  deliveries'[i] + Cardinality(Claimants(i)') <= MaxDeliveries + Cardinality(Servers) - 1
  BY <1>1, RoomAfterScan
<1>2. CASE \A s \in Servers : ~Scan(s)
  <2>1. CASE UNCHANGED deliveries
    <3>1. deliveries'[i] = deliveries[i] BY <2>1
    <3> QED BY <1>2, <3>1, RoomKept
  <2> QED BY <1>2, <2>1, RoomAfterRead, RoomAfterClaim, CountsRise
<1> QED BY <1>1, <1>2

LEMMA BoundStep == TypeInv /\ BoundInv /\ [Next]_vars => BoundInv'
BY OneSnapshotStep, RoomLeftStep DEF BoundInv

\* However many servers, replies lost and claims that race: an entry is delivered
\* MaxDeliveries times, and once more for each further server at most, because
\* XCLAIM with MinIdle lets every server spend the one snapshot it still held.
THEOREM DeliveriesBounded == Spec => []DeliveryBound
<1>1. TypeInv /\ BoundInv => DeliveryBound
  <2> SUFFICES ASSUME TypeInv, BoundInv, NEW i \in Ids
               PROVE  deliveries[i] <= MaxDeliveries + Cardinality(Servers) - 1
    BY DEF DeliveryBound
  <2>1. deliveries[i] \in Nat BY DEF TypeInv, TypeOK, TypeRedis
  <2> QED BY <2>1, ClaimantsFinite, CountFacts DEF BoundInv, RoomLeft
<1> QED BY <1>1, InitBound, BoundStep, TypeInvariant, PTL DEF Spec
=============================================================================
