----------------------- MODULE PolicyLifecycle_proofs -----------------------
(* Proofs about PolicyLifecycle, for all values of its constants. *)
EXTENDS PolicyLifecycle, FiniteSetTheorems, TLAPS

LEMMA KeyFacts ==
    /\ \A k \in Key : k[1] \in Policies /\ k[2] \in Versions /\ k = <<k[1], k[2]>>
    /\ \A p \in Policies, v \in Versions : <<p, v>> \in Key /\ <<p, v>>[1] = p /\ <<p, v>>[2] = v
    /\ NoKey \notin Key
BY PolicyAssumption DEF Key, Versions

(* Nat facts about the version range are not needed beyond membership.     *)
LEMMA Busy ==
    ASSUME TypeOK, NEW r \in Requests, pc[r] # "idle"
    PROVE  aim[r] \in Key /\ aim[r][1] \in Policies /\ aim[r][2] \in Versions
BY KeyFacts DEF TypeOK, TypeTables, TypeRequests, TypeCaches, TypeHistory

LEMMA TypeInit == Init => TypeOK
BY PolicyAssumption, KeyFacts
DEF Init, TypeOK, TypeTables, TypeRequests, TypeCaches, TypeHistory, Places, Statuses

LEMMA TypeStep == TypeOK /\ [Next]_vars => TypeOK'
<1>. SUFFICES ASSUME TypeOK, [Next]_vars PROVE TypeOK'
  OBVIOUS
<1>. USE PolicyAssumption, KeyFacts
<1>1. CASE UNCHANGED vars
  BY <1>1
  DEF vars, tableVars, requestVars, cacheVars, histVars, TypeOK, TypeTables,
      TypeRequests, TypeCaches, TypeHistory
<1>2. ASSUME NEW p \in Policies, CreatePolicy(p) PROVE TypeOK'
  BY <1>2
  DEF CreatePolicy, requestVars, cacheVars, histVars, TypeOK, TypeTables,
      TypeRequests, TypeCaches, TypeHistory
<1>3. ASSUME NEW r \in Requests, NEW p \in Policies, NEW v \in Versions, ReadMaxVersion(r, p, v)
      PROVE  TypeOK'
  BY <1>3
  DEF ReadMaxVersion, Begin, tableVars, cacheVars, histVars, TypeOK, TypeTables,
      TypeRequests, TypeCaches, TypeHistory, Places
<1>4. ASSUME NEW r \in Requests, NEW p \in Policies, AssignPolicy(r, p) PROVE TypeOK'
  <2>1. <<p, 1>> \in Key
    BY DEF Versions
  <2>. QED
    BY <1>4, <2>1
    DEF AssignPolicy, Begin, cacheVars, histVars, TypeOK, TypeTables, TypeRequests,
                      TypeCaches, TypeHistory, Places
<1>5. ASSUME NEW r \in Requests, NEW k \in Key, NEW u \in Users, RecordApproval(r, k, u)
      PROVE  TypeOK'
  BY <1>5
  DEF RecordApproval, Begin, cacheVars, histVars, TypeOK, TypeTables, TypeRequests,
      TypeCaches, TypeHistory, Places
<1>6. ASSUME NEW r \in Requests, NEW k \in Key, CheckApproved(r, k) PROVE TypeOK'
  BY <1>6
  DEF CheckApproved, Begin, tableVars, cacheVars, histVars, TypeOK, TypeTables,
      TypeRequests, TypeCaches, TypeHistory, Places
<1>7. ASSUME NEW r \in Requests, NEW k \in Key, ListActive(r, k) PROVE TypeOK'
  BY <1>7
  DEF ListActive, Begin, tableVars, cacheVars, histVars, TypeOK, TypeTables,
      TypeRequests, TypeCaches, TypeHistory, Places
<1>8. ASSUME NEW r \in Requests, NEW b \in Bodies, InsertVersion(r, b) PROVE TypeOK'
  <2>. aim[r] \in Key
    BY <1>8, Busy DEF InsertVersion
  <2>1. TypeTables'
    <3>1. CASE body[aim[r]] = NoBody
      BY <1>8, <3>1 DEF InsertVersion, TypeOK, TypeTables, Statuses
    <3>2. CASE body[aim[r]] # NoBody
      BY <1>8, <3>2 DEF InsertVersion, TypeOK, TypeTables
    <3>. QED BY <3>1, <3>2
  <2>2. TypeRequests'
    <3>1. CASE body[aim[r]] = NoBody
      BY <1>8, <3>1 DEF InsertVersion, Go, TypeOK, TypeRequests, Places
    <3>2. CASE body[aim[r]] # NoBody
      BY <1>8, <3>2 DEF InsertVersion, Reply, Begin, TypeOK, TypeRequests, Places
    <3>. QED BY <3>1, <3>2
  <2>3. TypeCaches' /\ TypeHistory'
    BY <1>8 DEF InsertVersion, cacheVars, TypeOK, TypeCaches, TypeHistory
  <2>. QED BY <2>1, <2>2, <2>3 DEF TypeOK
<1>9. ASSUME NEW r \in Requests, CountApprovals(r) PROVE TypeOK'
  BY <1>9
  DEF CountApprovals, Go, tableVars, cacheVars, histVars, TypeOK, TypeTables,
      TypeRequests, TypeCaches, TypeHistory, Places
<1>10. ASSUME NEW r \in Requests, StartDemotion(r) PROVE TypeOK'
  BY <1>10
  DEF StartDemotion, Targets, Exists, Go, tableVars, cacheVars, histVars, TypeOK,
      TypeTables, TypeRequests, TypeCaches, TypeHistory, Places
<1>11. ASSUME NEW r \in Requests, Commit(r) PROVE TypeOK'
  <2>. aim[r] \in Key
    BY <1>11, Busy DEF Commit
  <2>1. TypeTables'
    BY <1>11 DEF Commit, TypeOK, TypeTables, Statuses
  <2>2. TypeRequests'
    BY <1>11 DEF Commit, EndTx, Go, TypeOK, TypeRequests, Places
  <2>3. TypeCaches' /\ TypeHistory'
    BY <1>11 DEF Commit, cacheVars, TypeOK, TypeCaches, TypeHistory
  <2>. QED BY <2>1, <2>2, <2>3 DEF TypeOK
<1>12. ASSUME NEW r \in Requests, DeadlockVictim(r) PROVE TypeOK'
  BY <1>12
  DEF DeadlockVictim, EndTx, Reply, Begin, tableVars, cacheVars, histVars, TypeOK,
      TypeTables, TypeRequests, TypeCaches, TypeHistory, Places
<1>13. ASSUME NEW r \in Requests, Invalidate(r) PROVE TypeOK'
  BY <1>13, Busy
  DEF Invalidate, Forget, Reply, Begin, tableVars, histVars, TypeOK, TypeTables,
      TypeRequests, TypeCaches, TypeHistory, Places
<1>14. ASSUME NEW r \in Requests, Deny(r) PROVE TypeOK'
  BY <1>14
  DEF Deny, Reply, Begin, tableVars, cacheVars, histVars, TypeOK, TypeTables,
      TypeRequests, TypeCaches, TypeHistory, Places
<1>15. ASSUME NEW r \in Requests, SelectRollout(r) PROVE TypeOK'
  <2>1. PICK k \in Key : pc' = [pc EXCEPT ![r] = "compile"] /\ aim' = [aim EXCEPT ![r] = k]
    <3>1. CASE Go(r, "compile")
      <4>1. aim[r] \in Key /\ aim' = [aim EXCEPT ![r] = aim[r]]
        BY <1>15, <3>1, Busy DEF SelectRollout, Go, TypeOK, TypeRequests
      <4>. QED BY <3>1, <4>1 DEF Go
    <3>2. CASE \E k \in Rollouts : Begin(r, "compile", k)
      BY <3>2 DEF Begin, Key, Versions
    <3>. QED BY <1>15, <3>1, <3>2 DEF SelectRollout
  <2>2. TypeRequests'
    BY <1>15, <2>1 DEF SelectRollout, TypeOK, TypeRequests, Places
  <2>. QED
    BY <1>15, <2>2 DEF SelectRollout, tableVars, cacheVars, histVars, TypeOK, TypeTables,
                       TypeCaches, TypeHistory
<1>16. ASSUME NEW r \in Requests, CompileVersion(r) PROVE TypeOK'
  <2>. aim[r] \in Key /\ Home[r] \in Servers
    BY <1>16, Busy DEF CompileVersion
  <2>. DEFINE cached == cache[Home[r]][aim[r]]
  <2>0. cached \in Bodies \cup {NoBody} /\ body[aim[r]] \in Bodies \cup {NoBody}
    BY DEF TypeOK, TypeTables, TypeCaches
  <2>1. TypeRequests'
    <3>1. CASE cached # NoBody
      <4>1. used' = [used EXCEPT ![r] = cached] /\ Go(r, "answer") /\ UNCHANGED <<rows, holds>>
        BY <1>16, <3>1 DEF CompileVersion, CacheKey
      <4>. QED BY <1>16, <2>0, <4>1 DEF CompileVersion, Go, TypeOK, TypeRequests, Places
    <3>2. CASE cached = NoBody /\ body[aim[r]] \in Sound
      BY <1>16, <2>0, <3>2 DEF CompileVersion, CacheKey, Go, TypeOK, TypeRequests, Places
    <3>3. CASE cached = NoBody /\ body[aim[r]] \notin Sound
      BY <1>16, <3>3
      DEF CompileVersion, CacheKey, Reply, Begin, TypeOK, TypeRequests, Places
    <3>. QED BY <3>1, <3>2, <3>3
  <2>2. TypeCaches'
    <3>1. CASE UNCHANGED cache
      BY <1>16, <3>1 DEF CompileVersion, TypeOK, TypeCaches
    <3>2. CASE cache' = [cache EXCEPT ![Home[r]][aim[r]] = body[aim[r]]]
      BY <1>16, <2>0, <3>2 DEF CompileVersion, TypeOK, TypeCaches
    <3>. QED BY <1>16, <3>1, <3>2 DEF CompileVersion, CacheKey
  <2>. QED
    BY <1>16, <2>1, <2>2
    DEF CompileVersion, tableVars, histVars, TypeOK, TypeTables, TypeHistory
<1>17. ASSUME NEW r \in Requests, Answer(r) PROVE TypeOK'
  BY <1>17
  DEF Answer, Reply, Begin, tableVars, cacheVars, histVars, TypeOK, TypeTables,
      TypeRequests, TypeCaches, TypeHistory, Places
<1>18. ASSUME NEW r \in Requests, ApproveVersion(r) PROVE TypeOK'
  BY <1>18, Busy
  DEF ApproveVersion, Go, cacheVars, histVars, TypeOK, TypeTables, TypeRequests,
      TypeCaches, TypeHistory, Places, Statuses
<1>19. ASSUME NEW r \in Requests, NEW k \in Key, LockRow(r, k) PROVE TypeOK'
  BY <1>19
  DEF LockRow, tableVars, cacheVars, histVars, TypeOK, TypeTables, TypeRequests,
      TypeCaches, TypeHistory
<1>20. ASSUME NEW r \in Requests, Abort(r) PROVE TypeOK'
  BY <1>20, Busy
  DEF Abort, EndTx, Reply, Begin, tableVars, cacheVars, TypeOK, TypeTables,
      TypeRequests, TypeCaches, TypeHistory, Places
<1>21. ASSUME NEW s \in Servers, Crash(s) PROVE TypeOK'
  BY <1>21, Busy
  DEF Crash, tableVars, TypeOK, TypeTables, TypeRequests, TypeCaches, TypeHistory,
      Places
<1>22. ASSUME NEW s \in Servers, NEW p \in Policies, OnPolicyInvalidate(s, p) PROVE TypeOK'
  BY <1>22
  DEF OnPolicyInvalidate, Forget, tableVars, requestVars, histVars, TypeOK,
      TypeTables, TypeRequests, TypeCaches, TypeHistory
<1>. QED
  BY <1>1, <1>2, <1>3, <1>4, <1>5, <1>6, <1>7, <1>8, <1>9, <1>10, <1>11, <1>12, <1>13, <1>14,
     <1>15, <1>16, <1>17, <1>18, <1>19, <1>20, <1>21, <1>22
  DEF Next, Arrive, Serve, TakeRow

(* Every behavior keeps the types of the tables and of the requests        *)
(* (repo.go:25-161).                                                       *)
THEOREM TypeCorrect == Spec => []TypeOK
BY TypeInit, TypeStep, PTL DEF Spec
-----------------------------------------------------------------------------
(* Approvals are only added, so a quorum stays one. *)
VotesKept == \A k \in Key : Quorum(k) => Quorum(k)'

LEMMA VotesStep ==
  ASSUME TypeOK, [Next]_vars
  PROVE  VotesKept
<1>. USE PolicyAssumption, KeyFacts
<1>1. ASSUME NEW k \in Key, approvals[k] \subseteq approvals'[k], approvals'[k] \in SUBSET Users,
             Quorum(k)
      PROVE  Quorum(k)'
  <2>1. IsFiniteSet(approvals'[k])
    BY <1>1, FS_Subset
  <2>2. Cardinality(approvals[k]) <= Cardinality(approvals'[k])
    BY <1>1, <2>1, FS_Subset
  <2>3. Cardinality(approvals[k]) \in Nat /\ Cardinality(approvals'[k]) \in Nat
    BY <1>1, <2>1, FS_Subset, FS_CardinalityType
  <2>. QED BY <1>1, <2>2, <2>3 DEF Quorum
<1>2. \A k \in Key : approvals[k] \subseteq approvals'[k]
  <2>1. CASE UNCHANGED approvals
    BY <2>1
  <2>2. ASSUME NEW r \in Requests, NEW k \in Key, NEW u \in Users, RecordApproval(r, k, u)
        PROVE  \A j \in Key : approvals[j] \subseteq approvals'[j]
    BY <2>2 DEF RecordApproval, TypeOK, TypeTables
  <2>. QED
    BY <2>1, <2>2
    DEF Next, Arrive, Serve, TakeRow, vars, tableVars, CreatePolicy, ReadMaxVersion,
      AssignPolicy, CheckApproved, ListActive, InsertVersion, CountApprovals, StartDemotion,
      Commit, DeadlockVictim, Invalidate, Deny, SelectRollout, CompileVersion, Answer,
      ApproveVersion, LockRow, Abort, Crash, OnPolicyInvalidate
<1>. QED BY <1>1, <1>2, TypeStep DEF VotesKept, TypeOK, TypeTables

LEMMA StandingStep ==
  ASSUME TypeOK, Standing, [Next]_vars
  PROVE  Standing'
<1>. USE PolicyAssumption, KeyFacts
<1>1. CASE UNCHANGED vars
  BY <1>1, Busy
  DEF vars, tableVars, requestVars, cacheVars, histVars, Standing, TypeOK, TypeTables,
      TypeRequests
<1>2. ASSUME NEW p \in Policies, CreatePolicy(p) PROVE Standing'
  BY <1>2, Busy
  DEF CreatePolicy, requestVars, cacheVars, histVars, Standing, TypeOK, TypeTables,
      TypeRequests
<1>3. ASSUME NEW r \in Requests, NEW p \in Policies, NEW v \in Versions, ReadMaxVersion(r, p, v)
      PROVE  Standing'
  BY <1>3, Busy
  DEF ReadMaxVersion, Begin, tableVars, cacheVars, histVars, Standing, TypeOK,
      TypeTables, TypeRequests
<1>4. ASSUME NEW r \in Requests, NEW p \in Policies, AssignPolicy(r, p) PROVE Standing'
  BY <1>4, Busy
  DEF AssignPolicy, Begin, cacheVars, histVars, Standing, TypeOK, TypeTables,
      TypeRequests
<1>5. ASSUME NEW r \in Requests, NEW k \in Key, NEW u \in Users, RecordApproval(r, k, u)
      PROVE  Standing'
  BY <1>5, Busy
  DEF RecordApproval, Begin, cacheVars, histVars, Standing, TypeOK, TypeTables,
      TypeRequests
<1>6. ASSUME NEW r \in Requests, NEW k \in Key, CheckApproved(r, k) PROVE Standing'
  BY <1>6, Busy
  DEF CheckApproved, Begin, tableVars, cacheVars, histVars, Standing, TypeOK,
      TypeTables, TypeRequests
<1>7. ASSUME NEW r \in Requests, NEW k \in Key, ListActive(r, k) PROVE Standing'
  BY <1>7, Busy
  DEF ListActive, Active, Begin, tableVars, cacheVars, histVars, Standing, TypeOK,
      TypeTables, TypeRequests
<1>8. ASSUME NEW r \in Requests, NEW b \in Bodies, InsertVersion(r, b) PROVE Standing'
  <2>0. aim[r] \in Key
    BY <1>8, Busy DEF InsertVersion
  <2>1. CASE body[aim[r]] = NoBody
    <3>1. \A k \in Key : status'[k] = "none" <=> body'[k] = NoBody
      BY <1>8, <2>0, <2>1 DEF InsertVersion, Standing, TypeOK, TypeTables
    <3>2. \A k \in Key : body[k] # NoBody => body'[k] # NoBody
      BY <1>8, <2>0, <2>1 DEF InsertVersion, TypeOK, TypeTables
    <3>3. \A q \in Requests : pc'[q] # "idle" /\ pc'[q] # "invalidate" =>
              pc'[q] = pc[q] /\ aim'[q] = aim[q] /\ rows'[q] = rows[q] /\ aim[q] \in Key
      BY <1>8, <2>1, Busy DEF InsertVersion, Go, TypeOK, TypeRequests
    <3>. QED BY <3>1, <3>2, <3>3 DEF Standing, TypeOK, TypeRequests
  <2>2. CASE body[aim[r]] # NoBody
    BY <1>8, <2>2, Busy DEF InsertVersion, Reply, Begin, Standing, TypeOK, TypeRequests
  <2>. QED BY <2>1, <2>2
<1>9. ASSUME NEW r \in Requests, CountApprovals(r) PROVE Standing'
  BY <1>9, Busy
  DEF CountApprovals, Go, tableVars, cacheVars, histVars, Standing, TypeOK, TypeTables,
      TypeRequests
<1>10. ASSUME NEW r \in Requests, StartDemotion(r) PROVE Standing'
  <2>1. \A q \in Requests : pc'[q] \in {"count", "promote", "demote", "lock"} =>
            aim'[q] = aim[q] /\ pc[q] \in {"count", "promote", "demote", "lock"}
    BY <1>10 DEF StartDemotion, Go, TypeOK, TypeRequests
  <2>2. \A q \in Requests : pc'[q] = "lock" => \A k \in rows'[q] : body[k] # NoBody /\ k[1] = aim[q][1]
    BY <1>10 DEF StartDemotion, Targets, Exists, Go, Standing, TypeOK, TypeRequests
  <2>. QED
    BY <1>10, <2>1, <2>2 DEF StartDemotion, tableVars, Go, Standing
<1>11. ASSUME NEW r \in Requests, Commit(r) PROVE Standing'
  BY <1>11, Busy
  DEF Commit, EndTx, Go, cacheVars, Standing, TypeOK, TypeTables, TypeRequests
<1>12. ASSUME NEW r \in Requests, DeadlockVictim(r) PROVE Standing'
  BY <1>12, Busy
  DEF DeadlockVictim, EndTx, Reply, Begin, tableVars, cacheVars, histVars, Standing,
      TypeOK, TypeTables, TypeRequests
<1>13. ASSUME NEW r \in Requests, Invalidate(r) PROVE Standing'
  BY <1>13, Busy
  DEF Invalidate, Forget, Reply, Begin, tableVars, histVars, Standing, TypeOK,
      TypeTables, TypeRequests
<1>14. ASSUME NEW r \in Requests, Deny(r) PROVE Standing'
  BY <1>14, Busy
  DEF Deny, Reply, Begin, tableVars, cacheVars, histVars, Standing, TypeOK, TypeTables,
      TypeRequests
<1>15. ASSUME NEW r \in Requests, SelectRollout(r) PROVE Standing'
  <2>1. \A q \in Requests : pc'[q] \in {"count", "promote", "demote", "lock"} =>
            aim'[q] = aim[q] /\ pc'[q] = pc[q]
    BY <1>15 DEF SelectRollout, Go, Begin, TypeOK, TypeRequests
  <2>. QED
    BY <1>15, <2>1 DEF SelectRollout, tableVars, Standing
<1>16. ASSUME NEW r \in Requests, CompileVersion(r) PROVE Standing'
  BY <1>16, Busy
  DEF CompileVersion, CacheKey, Go, Reply, Begin, tableVars, histVars, Standing, TypeOK,
      TypeTables, TypeRequests
<1>17. ASSUME NEW r \in Requests, Answer(r) PROVE Standing'
  BY <1>17, Busy
  DEF Answer, Reply, Begin, tableVars, cacheVars, histVars, Standing, TypeOK,
      TypeTables, TypeRequests
<1>18. ASSUME NEW r \in Requests, ApproveVersion(r) PROVE Standing'
  BY <1>18, Busy
  DEF ApproveVersion, Go, cacheVars, histVars, Standing, TypeOK, TypeTables,
      TypeRequests
<1>19. ASSUME NEW r \in Requests, NEW k \in Key, LockRow(r, k) PROVE Standing'
  BY <1>19, Busy
  DEF LockRow, tableVars, cacheVars, histVars, Standing, TypeOK, TypeTables,
      TypeRequests
<1>20. ASSUME NEW r \in Requests, Abort(r) PROVE Standing'
  BY <1>20, Busy
  DEF Abort, EndTx, Reply, Begin, tableVars, cacheVars, Standing, TypeOK, TypeTables,
      TypeRequests
<1>21. ASSUME NEW s \in Servers, Crash(s) PROVE Standing'
  BY <1>21, Busy DEF Crash, tableVars, Standing, TypeOK, TypeTables, TypeRequests
<1>22. ASSUME NEW s \in Servers, NEW p \in Policies, OnPolicyInvalidate(s, p)
      PROVE  Standing'
  BY <1>22, Busy
  DEF OnPolicyInvalidate, Forget, tableVars, requestVars, histVars, Standing, TypeOK,
      TypeTables, TypeRequests
<1>. QED
  BY <1>1, <1>2, <1>3, <1>4, <1>5, <1>6, <1>7, <1>8, <1>9, <1>10, <1>11, <1>12, <1>13,
     <1>14, <1>15, <1>16, <1>17, <1>18, <1>19, <1>20, <1>21, <1>22
  DEF Next, Arrive, Serve, TakeRow

LEMMA CountedStep ==
  ASSUME TypeOK, ApprovedHasQuorum, Counted, VotesKept, [Next]_vars
  PROVE  ApprovedHasQuorum' /\ Counted'
<1>. USE PolicyAssumption, KeyFacts
<1>1. CASE UNCHANGED vars
  BY <1>1, Busy
  DEF vars, tableVars, requestVars, cacheVars, histVars, ApprovedHasQuorum, Counted,
      VotesKept, TypeOK, TypeTables, TypeRequests
<1>2. ASSUME NEW p \in Policies, CreatePolicy(p) PROVE ApprovedHasQuorum' /\ Counted'
  BY <1>2, Busy
  DEF CreatePolicy, requestVars, cacheVars, histVars, ApprovedHasQuorum, Counted,
      VotesKept, TypeOK, TypeTables, TypeRequests
<1>3. ASSUME NEW r \in Requests, NEW p \in Policies, NEW v \in Versions, ReadMaxVersion(r, p, v)
      PROVE  ApprovedHasQuorum' /\ Counted'
  BY <1>3, Busy
  DEF ReadMaxVersion, Begin, tableVars, cacheVars, histVars, ApprovedHasQuorum, Counted,
      VotesKept, TypeOK, TypeTables, TypeRequests
<1>4. ASSUME NEW r \in Requests, NEW p \in Policies, AssignPolicy(r, p)
      PROVE  ApprovedHasQuorum' /\ Counted'
  BY <1>4, Busy
  DEF AssignPolicy, Begin, cacheVars, histVars, ApprovedHasQuorum, Counted, VotesKept,
      TypeOK, TypeTables, TypeRequests
<1>5. ASSUME NEW r \in Requests, NEW k \in Key, NEW u \in Users, RecordApproval(r, k, u)
      PROVE  ApprovedHasQuorum' /\ Counted'
  BY <1>5, Busy
  DEF RecordApproval, Begin, cacheVars, histVars, ApprovedHasQuorum, Counted, VotesKept,
      TypeOK, TypeTables, TypeRequests
<1>6. ASSUME NEW r \in Requests, NEW k \in Key, CheckApproved(r, k)
      PROVE  ApprovedHasQuorum' /\ Counted'
  BY <1>6, Busy
  DEF CheckApproved, Begin, tableVars, cacheVars, histVars, ApprovedHasQuorum, Counted,
      VotesKept, TypeOK, TypeTables, TypeRequests
<1>7. ASSUME NEW r \in Requests, NEW k \in Key, ListActive(r, k)
      PROVE  ApprovedHasQuorum' /\ Counted'
  BY <1>7, Busy
  DEF ListActive, Active, Begin, tableVars, cacheVars, histVars, ApprovedHasQuorum,
      Counted, VotesKept, TypeOK, TypeTables, TypeRequests
<1>8. ASSUME NEW r \in Requests, NEW b \in Bodies, InsertVersion(r, b)
      PROVE  ApprovedHasQuorum' /\ Counted'
  <2>1. \A k \in Key : status'[k] \in {"approved", "active"} => status[k] \in {"approved", "active"}
    BY <1>8, Busy DEF InsertVersion, TypeOK, TypeTables
  <2>2. \A q \in Requests : pc'[q] \in {"promote", "demote", "lock"} =>
            pc'[q] = pc[q] /\ aim'[q] = aim[q] /\ aim[q] \in Key
    BY <1>8, Busy DEF InsertVersion, Go, Reply, Begin, TypeOK, TypeRequests
  <2>. QED BY <2>1, <2>2 DEF VotesKept, ApprovedHasQuorum, Counted
<1>9. ASSUME NEW r \in Requests, CountApprovals(r) PROVE ApprovedHasQuorum' /\ Counted'
  BY <1>9, Busy
  DEF CountApprovals, Go, tableVars, cacheVars, histVars, ApprovedHasQuorum, Counted,
      VotesKept, TypeOK, TypeTables, TypeRequests
<1>10. ASSUME NEW r \in Requests, StartDemotion(r) PROVE ApprovedHasQuorum' /\ Counted'
  BY <1>10, Busy
  DEF StartDemotion, Targets, Go, tableVars, cacheVars, histVars, ApprovedHasQuorum,
      Counted, VotesKept, TypeOK, TypeTables, TypeRequests
<1>11. ASSUME NEW r \in Requests, Commit(r) PROVE ApprovedHasQuorum' /\ Counted'
  BY <1>11, Busy
  DEF Commit, EndTx, Go, cacheVars, ApprovedHasQuorum, Counted, VotesKept, TypeOK,
      TypeTables, TypeRequests
<1>12. ASSUME NEW r \in Requests, DeadlockVictim(r) PROVE ApprovedHasQuorum' /\ Counted'
  BY <1>12, Busy
  DEF DeadlockVictim, EndTx, Reply, Begin, tableVars, cacheVars, histVars,
      ApprovedHasQuorum, Counted, VotesKept, TypeOK, TypeTables, TypeRequests
<1>13. ASSUME NEW r \in Requests, Invalidate(r) PROVE ApprovedHasQuorum' /\ Counted'
  BY <1>13, Busy
  DEF Invalidate, Forget, Reply, Begin, tableVars, histVars, ApprovedHasQuorum, Counted,
      VotesKept, TypeOK, TypeTables, TypeRequests
<1>14. ASSUME NEW r \in Requests, Deny(r) PROVE ApprovedHasQuorum' /\ Counted'
  BY <1>14, Busy
  DEF Deny, Reply, Begin, tableVars, cacheVars, histVars, ApprovedHasQuorum, Counted,
      VotesKept, TypeOK, TypeTables, TypeRequests
<1>15. ASSUME NEW r \in Requests, SelectRollout(r) PROVE ApprovedHasQuorum' /\ Counted'
  <2>1. \A q \in Requests : pc'[q] \in {"promote", "demote", "lock"} =>
            pc'[q] = pc[q] /\ aim'[q] = aim[q] /\ aim[q] \in Key
    BY <1>15, Busy DEF SelectRollout, Go, Begin, TypeOK, TypeRequests
  <2>. QED
    BY <1>15, <2>1 DEF SelectRollout, tableVars, ApprovedHasQuorum, Counted, VotesKept
<1>16. ASSUME NEW r \in Requests, CompileVersion(r) PROVE ApprovedHasQuorum' /\ Counted'
  BY <1>16, Busy
  DEF CompileVersion, CacheKey, Go, Reply, Begin, tableVars, histVars,
      ApprovedHasQuorum, Counted, VotesKept, TypeOK, TypeTables, TypeRequests
<1>17. ASSUME NEW r \in Requests, Answer(r) PROVE ApprovedHasQuorum' /\ Counted'
  BY <1>17, Busy
  DEF Answer, Reply, Begin, tableVars, cacheVars, histVars, ApprovedHasQuorum, Counted,
      VotesKept, TypeOK, TypeTables, TypeRequests
<1>18. ASSUME NEW r \in Requests, ApproveVersion(r) PROVE ApprovedHasQuorum' /\ Counted'
  BY <1>18, Busy
  DEF ApproveVersion, Go, cacheVars, histVars, ApprovedHasQuorum, Counted, VotesKept,
      TypeOK, TypeTables, TypeRequests
<1>19. ASSUME NEW r \in Requests, NEW k \in Key, LockRow(r, k)
      PROVE  ApprovedHasQuorum' /\ Counted'
  BY <1>19, Busy
  DEF LockRow, tableVars, cacheVars, histVars, ApprovedHasQuorum, Counted, VotesKept,
      TypeOK, TypeTables, TypeRequests
<1>20. ASSUME NEW r \in Requests, Abort(r) PROVE ApprovedHasQuorum' /\ Counted'
  BY <1>20, Busy
  DEF Abort, EndTx, Reply, Begin, tableVars, cacheVars, ApprovedHasQuorum, Counted,
      VotesKept, TypeOK, TypeTables, TypeRequests
<1>21. ASSUME NEW s \in Servers, Crash(s) PROVE ApprovedHasQuorum' /\ Counted'
  BY <1>21, Busy
  DEF Crash, tableVars, ApprovedHasQuorum, Counted, VotesKept, TypeOK, TypeTables,
      TypeRequests
<1>22. ASSUME NEW s \in Servers, NEW p \in Policies, OnPolicyInvalidate(s, p)
      PROVE  ApprovedHasQuorum' /\ Counted'
  BY <1>22, Busy
  DEF OnPolicyInvalidate, Forget, tableVars, requestVars, histVars, ApprovedHasQuorum,
      Counted, VotesKept, TypeOK, TypeTables, TypeRequests
<1>. QED
  BY <1>1, <1>2, <1>3, <1>4, <1>5, <1>6, <1>7, <1>8, <1>9, <1>10, <1>11, <1>12, <1>13,
     <1>14, <1>15, <1>16, <1>17, <1>18, <1>19, <1>20, <1>21, <1>22
  DEF Next, Arrive, Serve, TakeRow

LEMMA CoveredStep ==
  ASSUME TypeOK, Standing, Covered, OneActive, [Next]_vars
  PROVE  Covered' /\ OneActive'
<1>. USE PolicyAssumption, KeyFacts
<1>1. CASE UNCHANGED vars
  BY <1>1, Busy
  DEF vars, tableVars, requestVars, cacheVars, histVars, Covered, OneActive, Exists,
      Standing, TypeOK, TypeTables, TypeRequests
<1>2. ASSUME NEW p \in Policies, CreatePolicy(p) PROVE Covered' /\ OneActive'
  BY <1>2, Busy
  DEF CreatePolicy, requestVars, cacheVars, histVars, Covered, OneActive, Exists,
      Standing, TypeOK, TypeTables, TypeRequests
<1>3. ASSUME NEW r \in Requests, NEW p \in Policies, NEW v \in Versions, ReadMaxVersion(r, p, v)
      PROVE  Covered' /\ OneActive'
  BY <1>3, Busy
  DEF ReadMaxVersion, Begin, tableVars, cacheVars, histVars, Covered, OneActive, Exists,
      Standing, TypeOK, TypeTables, TypeRequests
<1>4. ASSUME NEW r \in Requests, NEW p \in Policies, AssignPolicy(r, p)
      PROVE  Covered' /\ OneActive'
  BY <1>4, Busy
  DEF AssignPolicy, Begin, cacheVars, histVars, Covered, OneActive, Exists, Standing,
      TypeOK, TypeTables, TypeRequests
<1>5. ASSUME NEW r \in Requests, NEW k \in Key, NEW u \in Users, RecordApproval(r, k, u)
      PROVE  Covered' /\ OneActive'
  BY <1>5, Busy
  DEF RecordApproval, Begin, cacheVars, histVars, Covered, OneActive, Exists, Standing,
      TypeOK, TypeTables, TypeRequests
<1>6. ASSUME NEW r \in Requests, NEW k \in Key, CheckApproved(r, k)
      PROVE  Covered' /\ OneActive'
  BY <1>6, Busy
  DEF CheckApproved, Begin, tableVars, cacheVars, histVars, Covered, OneActive, Exists,
      Standing, TypeOK, TypeTables, TypeRequests
<1>7. ASSUME NEW r \in Requests, NEW k \in Key, ListActive(r, k)
      PROVE  Covered' /\ OneActive'
  BY <1>7, Busy
  DEF ListActive, Active, Begin, tableVars, cacheVars, histVars, Covered, OneActive,
      Exists, Standing, TypeOK, TypeTables, TypeRequests
<1>8. ASSUME NEW r \in Requests, NEW b \in Bodies, InsertVersion(r, b)
      PROVE  Covered' /\ OneActive'
  <2>0. aim[r] \in Key
    BY <1>8, Busy DEF InsertVersion
  <2>1. CASE body[aim[r]] = NoBody
    <3>1. \A q \in Requests : pc'[q] = "lock" =>
              pc[q] = "lock" /\ aim'[q] = aim[q] /\ rows'[q] = rows[q] /\ aim[q][1] \in Policies
      BY <1>8, <2>1, Busy DEF InsertVersion, Go, TypeOK, TypeRequests
    <3>2. raced \subseteq raced' /\ \A q \in Requests :
              pc[q] = "lock" /\ aim[q][1] = aim[r][1] => aim[q][1] \in raced'
      BY <1>8, <2>0, <2>1 DEF InsertVersion
    <3>3. \A k \in Key : k[1] # aim[r][1] => body'[k] = body[k]
      BY <1>8, <2>0, <2>1 DEF InsertVersion, TypeOK, TypeTables
    <3>4. Covered'
      BY <3>1, <3>2, <3>3 DEF Covered, Exists
    <3>5. \A k \in Key : status'[k] = "active" => status[k] = "active"
      BY <1>8, <2>0, <2>1 DEF InsertVersion, TypeOK, TypeTables
    <3>6. OneActive'
      BY <3>2, <3>5 DEF OneActive
    <3>. QED BY <3>4, <3>6
  <2>2. CASE body[aim[r]] # NoBody
    BY <1>8, <2>2, Busy
    DEF InsertVersion, Reply, Begin, Covered, OneActive, Exists, TypeOK, TypeRequests
  <2>. QED BY <2>1, <2>2
<1>9. ASSUME NEW r \in Requests, CountApprovals(r) PROVE Covered' /\ OneActive'
  BY <1>9, Busy
  DEF CountApprovals, Go, tableVars, cacheVars, histVars, Covered, OneActive, Exists,
      Standing, TypeOK, TypeTables, TypeRequests
<1>10. ASSUME NEW r \in Requests, StartDemotion(r) PROVE Covered' /\ OneActive'
  BY <1>10, Busy
  DEF StartDemotion, Targets, Go, tableVars, cacheVars, histVars, Covered, OneActive,
      Exists, Standing, TypeOK, TypeTables, TypeRequests
<1>11. ASSUME NEW r \in Requests, Commit(r) PROVE Covered' /\ OneActive'
  BY <1>11, Busy
  DEF Commit, EndTx, Go, cacheVars, Covered, OneActive, Exists, Standing, TypeOK,
      TypeTables, TypeRequests
<1>12. ASSUME NEW r \in Requests, DeadlockVictim(r) PROVE Covered' /\ OneActive'
  BY <1>12, Busy
  DEF DeadlockVictim, EndTx, Reply, Begin, tableVars, cacheVars, histVars, Covered,
      OneActive, Exists, Standing, TypeOK, TypeTables, TypeRequests
<1>13. ASSUME NEW r \in Requests, Invalidate(r) PROVE Covered' /\ OneActive'
  BY <1>13, Busy
  DEF Invalidate, Forget, Reply, Begin, tableVars, histVars, Covered, OneActive, Exists,
      Standing, TypeOK, TypeTables, TypeRequests
<1>14. ASSUME NEW r \in Requests, Deny(r) PROVE Covered' /\ OneActive'
  BY <1>14, Busy
  DEF Deny, Reply, Begin, tableVars, cacheVars, histVars, Covered, OneActive, Exists,
      Standing, TypeOK, TypeTables, TypeRequests
<1>15. ASSUME NEW r \in Requests, SelectRollout(r) PROVE Covered' /\ OneActive'
  BY <1>15, Busy
  DEF SelectRollout, Go, Begin, tableVars, cacheVars, histVars, Covered, OneActive,
      Exists, Standing, TypeOK, TypeTables, TypeRequests
<1>16. ASSUME NEW r \in Requests, CompileVersion(r) PROVE Covered' /\ OneActive'
  BY <1>16, Busy
  DEF CompileVersion, CacheKey, Go, Reply, Begin, tableVars, histVars, Covered,
      OneActive, Exists, Standing, TypeOK, TypeTables, TypeRequests
<1>17. ASSUME NEW r \in Requests, Answer(r) PROVE Covered' /\ OneActive'
  BY <1>17, Busy
  DEF Answer, Reply, Begin, tableVars, cacheVars, histVars, Covered, OneActive, Exists,
      Standing, TypeOK, TypeTables, TypeRequests
<1>18. ASSUME NEW r \in Requests, ApproveVersion(r) PROVE Covered' /\ OneActive'
  BY <1>18, Busy
  DEF ApproveVersion, Go, cacheVars, histVars, Covered, OneActive, Exists, Standing,
      TypeOK, TypeTables, TypeRequests
<1>19. ASSUME NEW r \in Requests, NEW k \in Key, LockRow(r, k)
      PROVE  Covered' /\ OneActive'
  BY <1>19, Busy
  DEF LockRow, tableVars, cacheVars, histVars, Covered, OneActive, Exists, Standing,
      TypeOK, TypeTables, TypeRequests
<1>20. ASSUME NEW r \in Requests, Abort(r) PROVE Covered' /\ OneActive'
  BY <1>20, Busy
  DEF Abort, EndTx, Reply, Begin, tableVars, cacheVars, Covered, OneActive, Exists,
      Standing, TypeOK, TypeTables, TypeRequests
<1>21. ASSUME NEW s \in Servers, Crash(s) PROVE Covered' /\ OneActive'
  BY <1>21, Busy
  DEF Crash, tableVars, Covered, OneActive, Exists, Standing, TypeOK, TypeTables,
      TypeRequests
<1>22. ASSUME NEW s \in Servers, NEW p \in Policies, OnPolicyInvalidate(s, p)
      PROVE  Covered' /\ OneActive'
  BY <1>22, Busy
  DEF OnPolicyInvalidate, Forget, tableVars, requestVars, histVars, Covered, OneActive,
      Exists, Standing, TypeOK, TypeTables, TypeRequests
<1>. QED
  BY <1>1, <1>2, <1>3, <1>4, <1>5, <1>6, <1>7, <1>8, <1>9, <1>10, <1>11, <1>12, <1>13,
     <1>14, <1>15, <1>16, <1>17, <1>18, <1>19, <1>20, <1>21, <1>22
  DEF Next, Arrive, Serve, TakeRow

LEMMA CoherentStep ==
  ASSUME TypeOK, Standing, Coherent, DecisionsFollow, [Next]_vars
  PROVE  Coherent' /\ DecisionsFollow'
<1>. USE PolicyAssumption, KeyFacts
<1>1. CASE UNCHANGED vars
  BY <1>1, Busy
  DEF vars, tableVars, requestVars, cacheVars, histVars, Coherent, DecisionsFollow,
      Standing, TypeCaches, TypeOK, TypeTables, TypeRequests
<1>2. ASSUME NEW p \in Policies, CreatePolicy(p) PROVE Coherent' /\ DecisionsFollow'
  BY <1>2, Busy
  DEF CreatePolicy, requestVars, cacheVars, histVars, Coherent, DecisionsFollow,
      Standing, TypeCaches, TypeOK, TypeTables, TypeRequests
<1>3. ASSUME NEW r \in Requests, NEW p \in Policies, NEW v \in Versions, ReadMaxVersion(r, p, v)
      PROVE  Coherent' /\ DecisionsFollow'
  BY <1>3, Busy
  DEF ReadMaxVersion, Begin, tableVars, cacheVars, histVars, Coherent, DecisionsFollow,
      Standing, TypeCaches, TypeOK, TypeTables, TypeRequests
<1>4. ASSUME NEW r \in Requests, NEW p \in Policies, AssignPolicy(r, p)
      PROVE  Coherent' /\ DecisionsFollow'
  BY <1>4, Busy
  DEF AssignPolicy, Begin, cacheVars, histVars, Coherent, DecisionsFollow, Standing,
      TypeCaches, TypeOK, TypeTables, TypeRequests
<1>5. ASSUME NEW r \in Requests, NEW k \in Key, NEW u \in Users, RecordApproval(r, k, u)
      PROVE  Coherent' /\ DecisionsFollow'
  BY <1>5, Busy
  DEF RecordApproval, Begin, cacheVars, histVars, Coherent, DecisionsFollow, Standing,
      TypeCaches, TypeOK, TypeTables, TypeRequests
<1>6. ASSUME NEW r \in Requests, NEW k \in Key, CheckApproved(r, k)
      PROVE  Coherent' /\ DecisionsFollow'
  BY <1>6, Busy
  DEF CheckApproved, Begin, tableVars, cacheVars, histVars, Coherent, DecisionsFollow,
      Standing, TypeCaches, TypeOK, TypeTables, TypeRequests
<1>7. ASSUME NEW r \in Requests, NEW k \in Key, ListActive(r, k)
      PROVE  Coherent' /\ DecisionsFollow'
  BY <1>7, Busy
  DEF ListActive, Active, Begin, tableVars, cacheVars, histVars, Coherent,
      DecisionsFollow, Standing, TypeCaches, TypeOK, TypeTables, TypeRequests
<1>8. ASSUME NEW r \in Requests, NEW b \in Bodies, InsertVersion(r, b)
      PROVE  Coherent' /\ DecisionsFollow'
  <2>0. aim[r] \in Key
    BY <1>8, Busy DEF InsertVersion
  <2>1. \A k \in Key : body[k] # NoBody => body'[k] = body[k]
    BY <1>8, <2>0 DEF InsertVersion, TypeOK, TypeTables
  <2>2. \A k \in Key : status'[k] = "active" => status[k] = "active"
    BY <1>8, <2>0 DEF InsertVersion, TypeOK, TypeTables
  <2>3. \A q \in Requests : pc'[q] \in {"listed", "compile", "answer"} =>
            pc'[q] = pc[q] /\ aim'[q] = aim[q] /\ aim[q] \in Key
    BY <1>8, Busy DEF InsertVersion, Go, Reply, Begin, TypeOK, TypeRequests
  <2>4. activated' = activated /\ cache' = cache /\ used' = used
    BY <1>8 DEF InsertVersion, cacheVars
  <2>5. Coherent'
    BY <2>1, <2>2, <2>3, <2>4 DEF Coherent, TypeOK, TypeHistory, TypeRequests
  <2>6. DecisionsFollow'
    BY <2>1, <2>3, <2>4 DEF Coherent, DecisionsFollow, TypeOK, TypeHistory, TypeRequests
  <2>. QED BY <2>5, <2>6
<1>9. ASSUME NEW r \in Requests, CountApprovals(r) PROVE Coherent' /\ DecisionsFollow'
  BY <1>9, Busy
  DEF CountApprovals, Go, tableVars, cacheVars, histVars, Coherent, DecisionsFollow,
      Standing, TypeCaches, TypeOK, TypeTables, TypeRequests
<1>10. ASSUME NEW r \in Requests, StartDemotion(r) PROVE Coherent' /\ DecisionsFollow'
  BY <1>10, Busy
  DEF StartDemotion, Targets, Go, tableVars, cacheVars, histVars, Coherent,
      DecisionsFollow, Standing, TypeCaches, TypeOK, TypeTables, TypeRequests
<1>11. ASSUME NEW r \in Requests, Commit(r) PROVE Coherent' /\ DecisionsFollow'
  BY <1>11, Busy
  DEF Commit, EndTx, Go, cacheVars, Coherent, DecisionsFollow, Standing, TypeCaches,
      TypeOK, TypeTables, TypeRequests
<1>12. ASSUME NEW r \in Requests, DeadlockVictim(r) PROVE Coherent' /\ DecisionsFollow'
  BY <1>12, Busy
  DEF DeadlockVictim, EndTx, Reply, Begin, tableVars, cacheVars, histVars, Coherent,
      DecisionsFollow, Standing, TypeCaches, TypeOK, TypeTables, TypeRequests
<1>13. ASSUME NEW r \in Requests, Invalidate(r) PROVE Coherent' /\ DecisionsFollow'
  BY <1>13, Busy
  DEF Invalidate, Forget, Reply, Begin, tableVars, histVars, Coherent, DecisionsFollow,
      Standing, TypeCaches, TypeOK, TypeTables, TypeRequests
<1>14. ASSUME NEW r \in Requests, Deny(r) PROVE Coherent' /\ DecisionsFollow'
  BY <1>14, Busy
  DEF Deny, Reply, Begin, tableVars, cacheVars, histVars, Coherent, DecisionsFollow,
      Standing, TypeCaches, TypeOK, TypeTables, TypeRequests
<1>15. ASSUME NEW r \in Requests, SelectRollout(r) PROVE Coherent' /\ DecisionsFollow'
  <2>1. CASE Go(r, "compile")
    BY <1>15, <2>1, Busy DEF SelectRollout, Go, tableVars, cacheVars, histVars, Coherent,
      DecisionsFollow, TypeOK, TypeRequests, TypeHistory
  <2>2. ASSUME NEW k \in Rollouts, body[k] # NoBody, Begin(r, "compile", k)
        PROVE  Coherent' /\ DecisionsFollow'
    BY <1>15, <2>2 DEF SelectRollout, Begin, tableVars, cacheVars, histVars, Coherent,
      DecisionsFollow, TypeOK, TypeRequests
  <2>. QED BY <1>15, <2>1, <2>2 DEF SelectRollout
<1>16. ASSUME NEW r \in Requests, CompileVersion(r) PROVE Coherent' /\ DecisionsFollow'
  <2>. DEFINE cached == cache[Home[r]][aim[r]]
  <2>0. aim[r] \in Key /\ Home[r] \in Servers /\ body[aim[r]] # NoBody
    BY <1>16, Busy DEF CompileVersion, Coherent
  <2>1. cached \in {NoBody, body[aim[r]]}
    BY <2>0 DEF Coherent
  <2>2. \A s \in Servers, k \in Key : cache'[s][k] \in {NoBody, body[k]}
    <3>1. CASE UNCHANGED cache
      BY <3>1 DEF Coherent
    <3>2. CASE cache' = [cache EXCEPT ![Home[r]][aim[r]] = body[aim[r]]]
      BY <2>0, <3>2 DEF Coherent, TypeOK, TypeCaches
    <3>. QED BY <1>16, <3>1, <3>2 DEF CompileVersion, CacheKey
  <2>3. \A q \in Requests : pc'[q] \in {"listed", "compile", "answer"} =>
            /\ aim'[q] = aim[q]
            /\ q # r => pc'[q] = pc[q] /\ used'[q] = used[q]
            /\ q = r => pc[q] = "compile" /\ pc'[q] = "answer" /\ used'[q] = body[aim[q]]
    <3>1. CASE cached # NoBody
      BY <1>16, <2>1, <3>1 DEF CompileVersion, CacheKey, Go, TypeOK, TypeRequests
    <3>2. CASE cached = NoBody /\ body[aim[r]] \in Sound
      BY <1>16, <3>2 DEF CompileVersion, CacheKey, Go, TypeOK, TypeRequests
    <3>3. CASE cached = NoBody /\ body[aim[r]] \notin Sound
      BY <1>16, <3>3 DEF CompileVersion, CacheKey, Reply, Begin, TypeOK, TypeRequests
    <3>. QED BY <3>1, <3>2, <3>3
  <2>4. UNCHANGED <<body, status, activated>>
    BY <1>16 DEF CompileVersion, tableVars, histVars
  <2>5. Coherent'
    BY <2>2, <2>3, <2>4 DEF Coherent
  <2>6. DecisionsFollow'
    BY <2>3, <2>4 DEF Coherent, DecisionsFollow
  <2>. QED BY <2>5, <2>6
<1>17. ASSUME NEW r \in Requests, Answer(r) PROVE Coherent' /\ DecisionsFollow'
  BY <1>17, Busy
  DEF Answer, Reply, Begin, tableVars, cacheVars, histVars, Coherent, DecisionsFollow,
      Standing, TypeCaches, TypeOK, TypeTables, TypeRequests
<1>18. ASSUME NEW r \in Requests, ApproveVersion(r) PROVE Coherent' /\ DecisionsFollow'
  BY <1>18, Busy
  DEF ApproveVersion, Go, cacheVars, histVars, Coherent, DecisionsFollow, Standing,
      TypeCaches, TypeOK, TypeTables, TypeRequests
<1>19. ASSUME NEW r \in Requests, NEW k \in Key, LockRow(r, k)
      PROVE  Coherent' /\ DecisionsFollow'
  BY <1>19, Busy
  DEF LockRow, tableVars, cacheVars, histVars, Coherent, DecisionsFollow, Standing,
      TypeCaches, TypeOK, TypeTables, TypeRequests
<1>20. ASSUME NEW r \in Requests, Abort(r) PROVE Coherent' /\ DecisionsFollow'
  BY <1>20, Busy
  DEF Abort, EndTx, Reply, Begin, tableVars, cacheVars, Coherent, DecisionsFollow,
      Standing, TypeCaches, TypeOK, TypeTables, TypeRequests
<1>21. ASSUME NEW s \in Servers, Crash(s) PROVE Coherent' /\ DecisionsFollow'
  BY <1>21, Busy
  DEF Crash, tableVars, Coherent, DecisionsFollow, Standing, TypeCaches, TypeOK,
      TypeTables, TypeRequests
<1>22. ASSUME NEW s \in Servers, NEW p \in Policies, OnPolicyInvalidate(s, p)
      PROVE  Coherent' /\ DecisionsFollow'
  BY <1>22, Busy
  DEF OnPolicyInvalidate, Forget, tableVars, requestVars, histVars, Coherent,
      DecisionsFollow, Standing, TypeCaches, TypeOK, TypeTables, TypeRequests
<1>. QED
  BY <1>1, <1>2, <1>3, <1>4, <1>5, <1>6, <1>7, <1>8, <1>9, <1>10, <1>11, <1>12, <1>13,
     <1>14, <1>15, <1>16, <1>17, <1>18, <1>19, <1>20, <1>21, <1>22
  DEF Next, Arrive, Serve, TakeRow

LEMMA InvInit == Init => IInv
<1>. SUFFICES ASSUME Init PROVE IInv
  OBVIOUS
<1>. USE PolicyAssumption, KeyFacts
<1>1. TypeOK
  BY TypeInit
<1>2. Standing /\ Counted /\ Covered /\ DecisionsFollow
  BY DEF Init, Standing, Counted, Covered, DecisionsFollow
<1>3. ApprovedHasQuorum /\ OneActive /\ Coherent
  BY DEF Init, ApprovedHasQuorum, OneActive, Coherent
<1>. QED BY <1>1, <1>2, <1>3 DEF IInv

LEMMA InvStep == IInv /\ [Next]_vars => IInv'
BY TypeStep, VotesStep, StandingStep, CountedStep, CoveredStep, CoherentStep DEF IInv

LEMMA InvHolds == Spec => []IInv
BY InvInit, InvStep, PTL DEF Spec

-----------------------------------------------------------------------------
(* Whatever requests overlap, stop half-way or die with their process, a   *)
(* version is approved or active only with the required approvals          *)
(* (policy_approve.go:72, repo.go:129).                                    *)
THEOREM ApprovalsHold == Spec => []ApprovedHasQuorum
BY InvHolds, PTL DEF IInv

(* Activations leave one active version of a policy to which no version    *)
(* was added while one of their UPDATEs ran (repo.go:132).                 *)
THEOREM OneInForce == Spec => []OneActive
BY InvHolds, PTL DEF IInv

(* Verifications evaluate the body of the version they chose, which has    *)
(* been active or is rolled out (verify_v2.go:244).                        *)
THEOREM DecisionsSound == Spec => []DecisionsFollow
BY InvHolds, PTL DEF IInv

-----------------------------------------------------------------------------
(* Refinement of PolicyBoard. *)
InForce == {k \in Key : status[k] = "active"}

LEMMA BoardStep == IInv /\ [Next]_vars => [Board!Next]_<<approvals, InForce>>
<1>. SUFFICES ASSUME IInv, [Next]_vars PROVE [Board!Next]_<<approvals, InForce>>
  OBVIOUS
<1>. USE PolicyAssumption, KeyFacts
<1>1. CASE UNCHANGED <<approvals, status>>
  BY <1>1 DEF InForce
<1>2. ASSUME NEW r \in Requests, NEW k \in Key, NEW u \in Users, RecordApproval(r, k, u)
      PROVE  Board!Next
  BY <1>2 DEF RecordApproval, Board!Next, Board!Vote
<1>3. ASSUME NEW r \in Requests, NEW b \in Bodies, InsertVersion(r, b)
      PROVE  UNCHANGED <<approvals, InForce>>
  <2>1. aim[r] \in Key
    BY <1>3, Busy DEF InsertVersion, IInv
  <2>2. \A k \in Key : status'[k] = "active" <=> status[k] = "active"
    BY <1>3, <2>1 DEF InsertVersion, IInv, TypeOK, TypeTables, Standing
  <2>. QED BY <1>3, <2>2 DEF InForce, InsertVersion
<1>4. ASSUME NEW r \in Requests, ApproveVersion(r) PROVE Board!Next
  <2>1. aim[r] \in Key
    BY <1>4, Busy DEF ApproveVersion, IInv
  <2>2. InForce' = InForce \ {aim[r]}
    BY <1>4, <2>1 DEF InForce, ApproveVersion, IInv, TypeOK, TypeTables
  <2>. QED BY <1>4, <2>1, <2>2 DEF InForce, ApproveVersion, Board!Next, Board!Repeal
<1>5. ASSUME NEW r \in Requests, Commit(r) PROVE Board!Next
  <2>0. aim[r] \in Key
    BY <1>5, Busy DEF Commit, IInv
  <2>1. PICK k \in Key : k = aim[r]
    BY <2>0
  <2>2. Quorum(k) /\ approvals[k] \in SUBSET Users /\ UNCHANGED approvals
    BY <1>5, <2>1 DEF Commit, IInv, Counted, TypeOK, TypeTables
  <2>3. k \in InForce' /\ InForce' \subseteq InForce \cup {k}
    BY <1>5, <2>1 DEF InForce, Commit
  <2>4. \A j \in InForce : j[1] # k[1] => j \in InForce'
    BY <1>5, <2>1 DEF InForce, Commit, IInv, Standing
  <2>5. Board!Enact(k)
    BY <2>2, <2>3, <2>4 DEF InForce, Quorum, Board!Enact
  <2>. QED BY <2>5 DEF Board!Next
<1>. QED
  BY <1>1, <1>2, <1>3, <1>4, <1>5
  DEF Next, Arrive, Serve, TakeRow, vars, tableVars, CreatePolicy,
    ReadMaxVersion, AssignPolicy, CheckApproved, ListActive, CountApprovals, StartDemotion,
    DeadlockVictim, Invalidate, Deny, SelectRollout, CompileVersion, Answer, LockRow, Abort,
    Crash, OnPolicyInvalidate

(* The handlers and their SQL implement the board: votes are only added,   *)
(* and a version enters into force only with its votes (repo.go:118-161).  *)
THEOREM ImplementsBoard == Spec => BoardSpec
<1>1. Init => Board!Init
  BY DEF Init, Board!Init
<1>2. IInv /\ [Next]_vars => [Board!Next]_<<approvals, {k \in Key : status[k] = "active"}>>
  BY BoardStep DEF InForce
<1>. QED BY <1>1, <1>2, InvHolds, PTL DEF Spec, BoardSpec, Board!Spec
=============================================================================
