------------------------ MODULE DeadLetterPages_proofs ------------------------
(***************************************************************************)
(* Proofs about the dead-letter pages, for any number of entries, of rows  *)
(* on a page and of functions running at a time: the type invariant; that  *)
(* no entry is dropped and none resent by accident; that the table is in   *)
(* order and fresh and that what is selected is shown.                     *)
(***************************************************************************)
EXTENDS DeadLetterPages, TLAPS

\* The steps of Next by what they do, whichever button or page they belong to.
Acts == {"requeue", "requeueAll", "delete"}
Handlers(o) ==
    \/ Accept(o) \/ PostFails(o) \/ ReadEntry(o) \/ Resend(o) \/ Forget(o) \/ DeleteEntry(o)
    \/ Answer(o) \/ ServeList(o)
Effects ==
    \/ \E o \in Ops : Landed(o)
    \/ \E o \in Ops, r \in BOOLEAN : Reload(o, r) /\ (r \/ beforeId # 0)
    \/ \E S \in SUBSET (selected \cup Rows) : Select(S)
    \/ \E o \in Ops, a \in Acts, row \in BOOLEAN, ids \in SUBSET Ids : Post(o, a, row, ids)
    \/ \E o \in Ops, m \in {"success", "error", toast} : Report(o, m)
    \/ \E o \in Ops : Handlers(o)
    \/ \E o, p \in Ops : GiveUp(o, p)
    \/ \E e \in Ids : OutsideDelete(e)
    \/ HideToast \/ Arrive

\* The rows of the table are entries, in whatever loads they came.
LEMMA RowTypes == TypeOK => Rows \subseteq Ids
BY DEF TypeOK, Rows

\* What a step of the model does is one of the effects.
LEMMA NextEffects ==
    ASSUME TypeOK, Next PROVE Effects
<1>1. ASSUME NEW o \in Ops, QueueUser(o) PROVE Effects
  <2>1. CASE Refresh(o) \/ LoadMore(o)
    BY <2>1 DEF Refresh, LoadMore, Effects
  <2>2. CASE RequeueSelected(o) \/ DeleteSelected(o)
    BY <2>2 DEF RequeueSelected, DeleteSelected, Requeue, DeleteDLQ, Effects, Acts, TypeOK
  <2>3. CASE RequeueAll(o)
    BY <2>3 DEF RequeueAll, Effects, Acts
  <2>4. CASE \E e \in Ids : RequeueRow(o, e) \/ DeleteRow(o, e)
    BY <2>4 DEF RequeueRow, DeleteRow, Requeue, DeleteDLQ, Effects, Acts
  <2> QED BY <1>1, <2>1, <2>2, <2>3, <2>4 DEF QueueUser
<1>2. ASSUME NEW o \in Ops, WebhookUser(o) PROVE Effects
  <2>1. CASE WebhookRefresh(o) \/ WebhookLoadMore(o)
    BY <2>1 DEF WebhookRefresh, WebhookLoadMore, Effects
  <2>2. CASE WebhookRequeueSelected(o) \/ WebhookDeleteSelected(o)
    BY <2>2 DEF WebhookRequeueSelected, WebhookDeleteSelected, WebhookRequeue, RemoveDLQ, Effects,
                Acts, TypeOK
  <2>3. CASE \E e \in Ids : WebhookRow(o, e)
    BY <2>3 DEF WebhookRow, WebhookRequeue, RemoveDLQ, Effects, Acts
  <2> QED BY <1>2, <2>1, <2>2, <2>3 DEF WebhookUser
<1>3. ASSUME NEW o \in Ops, Page(o) \/ Serve(o) PROVE Effects
  <2>1. CASE LoadDLQ(o) \/ LoadList(o)
    BY <2>1 DEF LoadDLQ, LoadList, Effects
  <2>2. CASE QueueReport(o)
    BY <2>2 DEF QueueReport, Effects
  <2>3. CASE WebhookReport(o)
    BY <2>3 DEF WebhookReport, Effects
  <2>4. CASE Serve(o)
    BY <2>4 DEF Serve, Handlers, Effects
  <2> QED BY <1>3, <2>1, <2>2, <2>3, <2>4 DEF Page
<1>4. ASSUME NEW e \in Ids, Check(e) PROVE Effects
  BY <1>4 DEF Check, Effects
<1>5. CASE ToggleAll \/ WebhookToggleAll
  BY <1>5 DEF ToggleAll, WebhookToggleAll, Effects
<1> QED BY <1>1, <1>2, <1>3, <1>4, <1>5 DEF Next, Effects

-----------------------------------------------------------------------------
LEMMA SpendTypes ==
    ASSUME TypeOK, NEW b \in {"click", "arrive", "fault", "outside"}, Have(b), Spend(b)
    PROVE  budget' \in [{"click", "arrive", "fault", "outside"} -> Nat]
BY DEF TypeOK, Have, Spend

LEMMA FreeTypes == Free \in Op
BY PagesAssumption DEF Free, Op

LEMMA ListTypes ==
    ASSUME TypeOK, NEW c PROVE ListDLQ(c) \subseteq dlq /\ \A e \in ListDLQ(c) : c = 0 \/ e < c
BY DEF ListDLQ, Newest

LEMMA SequenceTypes ==
    ASSUME NEW S, NEW s \in Seq(S), NEW e \in S
    PROVE  <<e>> \in Seq(S) /\ Append(s, e) \in Seq(S)
OBVIOUS

LEMMA LoadTypes ==
    ASSUME TypeOK, NEW o \in Ops, NEW r \in BOOLEAN, StartLoad(o, r)
    PROVE  /\ ops' \in [Ops -> Op] /\ items' \in Seq(SUBSET Ids) /\ beforeId' \in 0..MaxId
           /\ loading' \in BOOLEAN /\ error' \in {"none", "load", "operation"}
           /\ selected' \subseteq Ids /\ crossed' \in BOOLEAN
<1> DEFINE n == IF r THEN 0 ELSE beforeId
<1>1. n \in 0..MaxId
  BY PagesAssumption DEF TypeOK
<1> HIDE DEF n
<1>2. [Free EXCEPT !.at = "list", !.reset = r, !.cursor = n] \in Op
  BY <1>1, FreeTypes DEF Op
<1>7. ops' \in [Ops -> Op]
  BY <1>2 DEF n, StartLoad, TypeOK
<1>3. items' \in Seq(SUBSET Ids)
  BY DEF StartLoad, TypeOK
<1>4. crossed' \in BOOLEAN
  BY DEF StartLoad, TypeOK
<1>5. beforeId' \in 0..MaxId
  BY PagesAssumption DEF StartLoad, TypeOK
<1>6. loading' \in BOOLEAN /\ error' \in {"none", "load", "operation"} /\ selected' \subseteq Ids
  BY DEF StartLoad, TypeOK
<1> QED BY <1>3, <1>4, <1>5, <1>6, <1>7

LEMMA HandlerTypes ==
    ASSUME TypeOK, HoldInv, NEW o \in Ops, Handlers(o)
    PROVE  /\ ops' \in [Ops -> Op] /\ contested' \subseteq Ids /\ unheard' \subseteq Ids
           /\ dlq' \subseteq dlq /\ sent' \in [Ids -> Nat]
           /\ budget' \in [{"click", "arrive", "fault", "outside"} -> Nat]
           /\ UNCHANGED <<kind, top, tableVars, toast, crossed, deleted, outside>>
<1> DEFINE f == ops[o]
<1>1. /\ f \in Op /\ dlq \subseteq Ids /\ 0 \in 0..MaxId
      /\ Skip(f) \in Op /\ (f.at \in {"held", "resent"} => f.held \in Ids)
  <2>1. f \in Op /\ dlq \subseteq Ids /\ 0 \in 0..MaxId
    BY PagesAssumption DEF TypeOK, Ids
  <2>2. f.ids \ {f.held} \in SUBSET Ids
    BY <2>1 DEF Op
  <2>3. Skip(f) \in Op
    BY <2>1, <2>2 DEF Op, Skip
  <2>4. f.at \in {"held", "resent"} => f.held \in Ids
    BY <2>1, PagesAssumption DEF HoldInv, Op, Ids
  <2> QED BY <2>1, <2>3, <2>4
<1>2. ASSUME NEW g \in Op, Serving(o, g)
      PROVE  /\ ops' \in [Ops -> Op]
             /\ UNCHANGED <<kind, top, tableVars, toast, crossed, deleted, outside>>
  BY <1>2 DEF Serving, TypeOK
<1>3. Fault => budget' \in [{"click", "arrive", "fault", "outside"} -> Nat]
  BY SpendTypes DEF Fault
<1>4. CASE Accept(o)
  <2> DEFINE ids == IF f.act = "requeueAll" THEN Oldest(dlq) ELSE f.ids
             g   == IF ids = {}
                    THEN IF f.deserted THEN Free ELSE [f EXCEPT !.at = "answer", !.ok = FALSE]
                    ELSE [f EXCEPT !.at = "serve", !.ids = ids]
  <2>1. ids \subseteq Ids
    BY <1>1 DEF Oldest, Op
  <2>3. /\ [f EXCEPT !.at = "answer", !.ok = FALSE] \in Op
        /\ [f EXCEPT !.at = "serve", !.ids = ids] \in Op
    BY <1>1, <2>1 DEF Op
  <2>2. g \in Op
    BY <2>3, FreeTypes
  <2> QED BY <1>2, <1>4, <2>2 DEF Accept, TypeOK
<1>5. CASE PostFails(o)
  <2>1. [f EXCEPT !.at = "answer", !.ok = FALSE] \in Op
    BY <1>1 DEF Op
  <2> QED BY <1>2, <1>3, <1>5, <2>1 DEF PostFails, TypeOK
<1>6. CASE ReadEntry(o)
  <2>1. PICK e \in f.ids :
          /\ Serving(o, IF e \in dlq THEN [f EXCEPT !.at = "held", !.held = e]
                                     ELSE [f EXCEPT !.ids = @ \ {e}])
          /\ contested' = IF e \in dlq /\ Holders(e) # {} THEN contested \cup {e} ELSE contested
          /\ UNCHANGED <<dlq, sent, unheard, budget>>
    BY <1>6 DEF ReadEntry
  <2>2. e \in Ids /\ e \in 0..MaxId
    BY <1>1, PagesAssumption DEF Op, Ids
  <2>3. [f EXCEPT !.at = "held", !.held = e] \in Op /\ [f EXCEPT !.ids = @ \ {e}] \in Op
    BY <1>1, <2>2 DEF Op
  <2>4. (IF e \in dlq THEN [f EXCEPT !.at = "held", !.held = e]
                      ELSE [f EXCEPT !.ids = @ \ {e}]) \in Op
    BY <2>3
  <2> QED BY <1>2, <2>1, <2>2, <2>4 DEF TypeOK
<1>7. CASE Resend(o)
  <2>1. [f EXCEPT !.at = "resent"] \in Op
    BY <1>1 DEF Op
  <2>2. [sent EXCEPT ![f.held] = @ + 1] \in [Ids -> Nat]
    BY <1>1, <1>7 DEF Resend, TypeOK
  <2>3. /\ sent' \in [Ids -> Nat] /\ dlq' = dlq
        /\ budget' \in [{"click", "arrive", "fault", "outside"} -> Nat]
    BY <1>3, <1>7, <2>2 DEF Resend, TypeOK
  <2>4. contested' \subseteq Ids /\ unheard' \subseteq Ids
    BY <1>1, <1>7 DEF Resend, TypeOK
  <2> QED BY <1>1, <1>2, <1>7, <2>1, <2>3, <2>4 DEF Resend
<1>8. CASE Forget(o)
  <2>1. contested' \subseteq Ids /\ unheard' \subseteq Ids /\ dlq' \subseteq dlq
    BY <1>1, <1>8 DEF Forget, TakeOff, TypeOK
  <2> QED BY <1>1, <1>2, <1>3, <1>8, <2>1 DEF Forget, TypeOK
<1>9. CASE DeleteEntry(o)
  <2>1. PICK e \in f.ids : /\ Serving(o, [f EXCEPT !.ids = @ \ {e}])
                           /\ \/ TakeOff(o, e) /\ UNCHANGED budget
                              \/ Fault /\ UNCHANGED <<dlq, unheard>>
    BY <1>9 DEF DeleteEntry
  <2>3. unheard' \subseteq Ids /\ dlq' \subseteq dlq
    BY <1>1, <2>1 DEF TakeOff, Op, TypeOK
  <2>2. [f EXCEPT !.ids = @ \ {e}] \in Op
    BY <1>1 DEF Op
  <2> QED BY <1>2, <1>3, <1>9, <2>1, <2>2, <2>3 DEF DeleteEntry, TypeOK
<1>10. CASE Answer(o)
  <2>1. [f EXCEPT !.at = "answer"] \in Op /\ [f EXCEPT !.at = "answer", !.ok = FALSE] \in Op
    BY <1>1 DEF Op
  <2> QED BY <1>2, <1>3, <1>10, <2>1, FreeTypes DEF Answer, TypeOK
<1>11. CASE ServeList(o)
  <2>1. [f EXCEPT !.at = "listed", !.ok = FALSE] \in Op
    BY <1>1 DEF Op
  <2>2. [f EXCEPT !.at = "listed", !.page = ListDLQ(f.cursor)] \in Op
    BY <1>1, ListTypes DEF Op
  <2> QED BY <1>2, <1>3, <1>11, <2>1, <2>2 DEF ServeList, TypeOK
<1> QED BY <1>4, <1>5, <1>6, <1>7, <1>8, <1>9, <1>10, <1>11 DEF Handlers

\* When the fetch of a request fails, the page's function o goes on to its catch and
\* the handler moves, as it is, to p.
LEMMA GivenUp ==
    ASSUME TypeOK, NEW o \in Ops, NEW p \in Ops, GiveUp(o, p)
    PROVE  /\ o # p /\ ops[o].at \in {"post", "serve", "held", "resent"} /\ ~ops[o].deserted
           /\ ops[p].at = "free" /\ ops' \in [Ops -> Op]
           /\ \A q \in Ops \ {o, p} : ops'[q] = ops[q]
           /\ ops'[o].at = "answer" /\ ops'[o].act = "none" /\ ops'[o].held = 0
           /\ ~ops'[o].deserted /\ ops'[p].deserted
           /\ ops'[p].at = ops[o].at /\ ops'[p].act = ops[o].act
           /\ ops'[p].held = ops[o].held /\ ops'[p].ids = ops[o].ids
           /\ UNCHANGED <<kind, streamVars, tableVars, toast, histVars>>
           /\ budget' \in [{"click", "arrive", "fault", "outside"} -> Nat]
<1> DEFINE g == [Free EXCEPT !.at = "answer", !.row = ops[o].row, !.ok = FALSE]
           h == [ops[o] EXCEPT !.deserted = TRUE]
<1>1. ops \in [Ops -> Op] /\ ops[o] \in Op
  BY DEF TypeOK
<1>2. g \in Op /\ g.at = "answer" /\ g.act = "none" /\ g.held = 0 /\ g.deserted = FALSE
  BY <1>1, FreeTypes DEF Op, Free
<1>3. /\ h \in Op /\ h.deserted = TRUE /\ h.at = ops[o].at /\ h.act = ops[o].act
      /\ h.held = ops[o].held /\ h.ids = ops[o].ids
  BY <1>1 DEF Op
<1>4. /\ ops[o].at \in {"post", "serve", "held", "resent"} /\ ~ops[o].deserted
      /\ ops[p].at = "free" /\ o # p
      /\ UNCHANGED <<kind, streamVars, tableVars, toast, histVars>>
  BY DEF GiveUp
<1>5. budget' \in [{"click", "arrive", "fault", "outside"} -> Nat]
  BY SpendTypes DEF GiveUp, Fault
<1>6. ops' = [ops EXCEPT ![o] = g, ![p] = h]
  BY DEF GiveUp
<1> HIDE DEF g, h
<1>7. /\ ops' \in [Ops -> Op] /\ ops'[o] = g /\ ops'[p] = h
      /\ \A q \in Ops \ {o, p} : ops'[q] = ops[q]
  BY <1>1, <1>2, <1>3, <1>4, <1>6
<1> QED BY <1>2, <1>3, <1>4, <1>5, <1>7

\* Every step keeps every variable in its type.
LEMMA TypeStep ==
    ASSUME TypeOK, HoldInv, [Next]_vars PROVE TypeOK'
<1> USE DEF TypeOK
<1>1. ASSUME NEW o \in Ops, Landed(o) PROVE TypeOK'
  <2> DEFINE f == ops[o]
  <2>1. f \in Op
    OBVIOUS
  <2>2. ops' \in [Ops -> Op]
    BY <1>1, FreeTypes DEF Landed, Show
  <2>3. items' \in Seq(SUBSET Ids)
    <3> DEFINE P == f.page
    <3>1. P \in SUBSET Ids
      BY <2>1 DEF Op
    <3> HIDE DEF P
    <3>2. items' = items \/ items' = <<P>> \/ items' = Append(items, P)
      BY <1>1 DEF Landed, Show, P
    <3>3. items \in Seq(SUBSET Ids)
      OBVIOUS
    <3> DEFINE T == SUBSET Ids
    <3> HIDE DEF T
    <3>4. P \in T /\ items \in Seq(T)
      BY <3>1, <3>3 DEF T
    <3>5. <<P>> \in Seq(T) /\ Append(items, P) \in Seq(T)
      BY <3>4, SequenceTypes, Zenon
    <3> QED BY <3>2, <3>3, <3>5 DEF T
  <2>4. beforeId' \in 0..MaxId
    <3>1. beforeId' \in {0, beforeId} \cup f.page
      BY <1>1 DEF Landed, Show
    <3>2. f.page \subseteq 0..MaxId
      BY <2>1, PagesAssumption DEF Op, Ids
    <3> QED BY <3>1, <3>2, PagesAssumption
  <2>5. loading' \in BOOLEAN /\ error' \in {"none", "load", "operation"} /\ selected' \subseteq Ids
    BY <1>1 DEF Landed, Show
  <2> QED BY <1>1, <2>2, <2>3, <2>4, <2>5 DEF Landed, streamVars, histVars
<1>2. ASSUME NEW o \in Ops, NEW r \in BOOLEAN, Reload(o, r) PROVE TypeOK'
  <2>1. StartLoad(o, r) /\ UNCHANGED <<kind, streamVars, toast, contested, deleted, outside, unheard, budget>>
    BY <1>2 DEF Reload
  <2> QED BY <2>1, LoadTypes DEF streamVars
<1>3. ASSUME NEW S \in SUBSET (selected \cup Rows), Select(S) PROVE TypeOK'
  <2>1. S \subseteq Ids
    BY RowTypes
  <2> QED BY <1>3, <2>1 DEF Select, streamVars, histVars
<1>4. ASSUME NEW o \in Ops, NEW a \in Acts, NEW row \in BOOLEAN, NEW ids \in SUBSET Ids,
             Post(o, a, row, ids)
      PROVE  TypeOK'
  <2>1. [Free EXCEPT !.at = "post", !.act = a, !.row = row, !.ids = ids] \in Op
    BY FreeTypes DEF Op, Acts
  <2>2. ops' \in [Ops -> Op]
    BY <1>4, <2>1 DEF Post
  <2>3. budget' \in [{"click", "arrive", "fault", "outside"} -> Nat]
    BY <1>4, SpendTypes DEF Post
  <2>4. deleted' \subseteq Ids /\ error' = "none"
    BY <1>4 DEF Post
  <2> QED BY <1>4, <2>2, <2>3, <2>4 DEF Post, streamVars
<1>5. ASSUME NEW o \in Ops, NEW m \in {"success", "error", toast}, Report(o, m) PROVE TypeOK'
  <2>1. /\ StartLoad(o, TRUE) /\ toast' = m
        /\ UNCHANGED <<kind, streamVars, contested, deleted, outside, unheard, budget>>
    BY <1>5 DEF Report
  <2> QED BY <2>1, LoadTypes DEF streamVars
<1>6. ASSUME NEW o \in Ops, Handlers(o) PROVE TypeOK'
  <2> QED BY <1>6, HandlerTypes DEF tableVars
<1>7. ASSUME NEW e \in Ids, OutsideDelete(e) PROVE TypeOK'
  <2>1. budget' \in [{"click", "arrive", "fault", "outside"} -> Nat]
    BY <1>7, SpendTypes DEF OutsideDelete
  <2> QED BY <1>7, <2>1 DEF OutsideDelete, tableVars
<1>8. CASE HideToast
  BY <1>8 DEF HideToast, streamVars, tableVars, histVars
<1>9. CASE Arrive
  <2>1. budget' \in [{"click", "arrive", "fault", "outside"} -> Nat]
    BY <1>9, SpendTypes DEF Arrive
  <2>2. top' \in 0..MaxId /\ dlq' \subseteq 1..top'
    BY <1>9, PagesAssumption DEF Arrive
  <2> QED BY <1>9, <2>1, <2>2 DEF Arrive, tableVars, histVars
<1>10. CASE UNCHANGED vars
  BY <1>10 DEF vars, streamVars, tableVars, histVars
<1>11. ASSUME NEW o \in Ops, NEW p \in Ops, GiveUp(o, p) PROVE TypeOK'
  BY <1>11, GivenUp DEF streamVars, tableVars, histVars
<1> QED
  BY <1>1, <1>2, <1>3, <1>4, <1>5, <1>6, <1>7, <1>8, <1>9, <1>10, <1>11, NextEffects DEF Effects

LEMMA InitTypes == Init => TypeOK
<1> SUFFICES ASSUME Init PROVE TypeOK
  OBVIOUS
<1>1. [Free EXCEPT !.at = "list"] \in Op
  BY FreeTypes DEF Op
<1>2. ops \in [Ops -> Op]
  BY <1>1, FreeTypes DEF Init
<1>3. budget \in [{"click", "arrive", "fault", "outside"} -> Nat]
  BY PagesAssumption DEF Init
<1>4. items \in Seq(SUBSET Ids)
  BY DEF Init
<1>5. /\ top \in 0..MaxId /\ dlq \subseteq 1..top /\ sent \in [Ids -> Nat] /\ beforeId \in 0..MaxId
      /\ contested \subseteq Ids /\ deleted \subseteq Ids /\ outside \subseteq Ids
      /\ selected \subseteq Ids /\ unheard \subseteq Ids
  BY PagesAssumption DEF Init, Ids
<1>6. /\ kind \in {"queue", "webhooks"} /\ loading \in BOOLEAN /\ crossed \in BOOLEAN
      /\ error \in {"none", "load", "operation"} /\ toast \in {"hidden", "success", "error"}
  BY DEF Init
<1> QED BY <1>2, <1>3, <1>4, <1>5, <1>6 DEF TypeOK

LEMMA InitHolds == Init => HoldInv
BY DEF Init, HoldInv, Free

\* A handler takes an entry at its lookup and lets go of it when it skips on.
LEMMA HoldStep ==
    ASSUME TypeOK, HoldInv, [Next]_vars PROVE HoldInv'
<1> USE DEF HoldInv
<1>1. ASSUME NEW o \in Ops, NEW g, ops' = [ops EXCEPT ![o] = g],
             g.held # 0 <=> g.at \in {"held", "resent"}
      PROVE  HoldInv'
  BY <1>1 DEF TypeOK
<1>2. ASSUME NEW o \in Ops, Landed(o) PROVE HoldInv'
  BY <1>1, <1>2 DEF Landed, Show, Free
<1>3. ASSUME NEW o \in Ops, NEW r, StartLoad(o, r) PROVE HoldInv'
  BY <1>1, <1>3 DEF StartLoad, Free
<1>4. ASSUME NEW o \in Ops, NEW a, NEW row, NEW ids, Post(o, a, row, ids) PROVE HoldInv'
  BY <1>1, <1>4 DEF Post, Free
<1>5. ASSUME NEW o \in Ops, Handlers(o) PROVE HoldInv'
  <2> DEFINE f == ops[o]
  <2>1. f \in Op
    BY DEF TypeOK
  <2>2. CASE Accept(o) \/ PostFails(o)
    <3> DEFINE ids == IF f.act = "requeueAll" THEN Oldest(dlq) ELSE f.ids
    <3> HIDE DEF ids
    <3>1. \/ ops' = [ops EXCEPT ![o] = Free]
          \/ ops' = [ops EXCEPT ![o] = [f EXCEPT !.at = "answer", !.ok = FALSE]]
          \/ ops' = [ops EXCEPT ![o] = [f EXCEPT !.at = "serve", !.ids = ids]]
      BY <2>2 DEF Accept, PostFails, Serving, ids
    <3>2. f.at = "post"
      BY <2>2 DEF Accept, PostFails
    <3> QED BY <1>1, <2>1, <3>1, <3>2 DEF Op, Free
  <2>3. CASE ReadEntry(o)
    <3>1. PICK e \in f.ids :
            \/ ops' = [ops EXCEPT ![o] = [f EXCEPT !.at = "held", !.held = e]]
            \/ ops' = [ops EXCEPT ![o] = [f EXCEPT !.ids = @ \ {e}]]
      BY <2>3 DEF ReadEntry, Serving
    <3>2. e # 0
      BY <2>1, PagesAssumption DEF Op, Ids
    <3> QED BY <1>1, <2>1, <2>3, <3>1, <3>2 DEF Op
  <2>4. CASE Resend(o)
    BY <1>1, <2>1, <2>4 DEF Resend, Serving, Skip, Op
  <2>5. CASE Forget(o)
    BY <1>1, <2>1, <2>5 DEF Forget, Serving, Skip, Op
  <2>6. CASE DeleteEntry(o)
    <3>1. PICK e \in f.ids : ops' = [ops EXCEPT ![o] = [f EXCEPT !.ids = @ \ {e}]]
      BY <2>6 DEF DeleteEntry, Serving
    <3> QED BY <1>1, <2>1, <2>6, <3>1 DEF Op
  <2>7. CASE Answer(o)
    BY <1>1, <2>1, <2>7 DEF Answer, Serving, Op, Free
  <2>8. CASE ServeList(o)
    BY <1>1, <2>1, <2>8 DEF ServeList, Serving, Op
  <2> QED BY <1>5, <2>2, <2>3, <2>4, <2>5, <2>6, <2>7, <2>8 DEF Handlers
<1>6. CASE UNCHANGED ops
  BY <1>6
<1>7. ASSUME NEW o \in Ops, NEW m, Report(o, m) \/ Reload(o, m) PROVE HoldInv'
  BY <1>3, <1>7 DEF Report, Reload
<1>8. ASSUME NEW o \in Ops, NEW p \in Ops, GiveUp(o, p) PROVE HoldInv'
  BY <1>8, GivenUp
<1> QED
  BY <1>2, <1>4, <1>5, <1>6, <1>7, <1>8, NextEffects
  DEF Effects, Select, OutsideDelete, HideToast, Arrive, vars

\* TypeOK holds of every state, for any number of entries, rows and functions.
THEOREM TypeCorrect == Spec => []TypeOK
<1>1. Init => TypeOK /\ HoldInv
  BY InitTypes, InitHolds
<1>2. TypeOK /\ HoldInv /\ [Next]_vars => (TypeOK /\ HoldInv)'
  BY TypeStep, HoldStep
<1> QED BY <1>1, <1>2, PTL DEF Spec

-----------------------------------------------------------------------------
(* No entry is dropped.                                                     *)

\* What a function of the page has been told to do, and has done, stays on record.
LEMMA KeptStep ==
    ASSUME TypeOK, TypeOK', HoldInv, KeptInv, [Next]_vars PROVE KeptInv'
<1> USE DEF KeptInv
<1>1. ASSUME NEW o \in Ops, NEW g, ops' = [ops EXCEPT ![o] = g],
             \A e \in Ids : sent[e] <= sent'[e],
             deleted \subseteq deleted',
             g.at = "resent" => sent'[g.held] > 0,
             g.act = "delete" => g.ids \subseteq deleted',
             NothingDropped'
      PROVE  KeptInv'
  <2>1. ASSUME NEW p \in Ops, p # o
        PROVE  /\ ops'[p].at = "resent" => sent'[ops'[p].held] > 0
               /\ ops'[p].act = "delete" => ops'[p].ids \subseteq deleted'
    <3>1. ops'[p] = ops[p] /\ ops[p] \in Op
      BY <1>1, <2>1 DEF TypeOK
    <3>2. ASSUME ops[p].at = "resent" PROVE sent'[ops[p].held] > 0
      <4>1. ops[p].held \in Ids
        BY <3>1, <3>2, PagesAssumption DEF HoldInv, Op, Ids
      <4>2. sent[ops[p].held] > 0 /\ sent[ops[p].held] <= sent'[ops[p].held]
        BY <1>1, <3>2, <4>1
      <4> QED BY <4>1, <4>2 DEF TypeOK
    <3> QED BY <1>1, <3>1, <3>2
  <2>2. ops'[o] = g
    BY <1>1 DEF TypeOK
  <2> QED BY <1>1, <2>1, <2>2
<1>2. ASSUME UNCHANGED <<dlq, top, sent, outside>>, deleted \subseteq deleted'
      PROVE  NothingDropped' /\ \A e \in Ids : sent[e] <= sent'[e]
  BY <1>2 DEF NothingDropped, TypeOK
<1>3. ASSUME NEW o \in Ops, Landed(o) PROVE KeptInv'
  BY <1>1, <1>2, <1>3 DEF Landed, Show, Free, streamVars, histVars
<1>4. ASSUME NEW o \in Ops, NEW r, StartLoad(o, r), UNCHANGED <<streamVars, deleted, outside>>
      PROVE  KeptInv'
  BY <1>1, <1>2, <1>4 DEF StartLoad, Free, streamVars
<1>5. ASSUME NEW o \in Ops, NEW m, Report(o, m) \/ Reload(o, m) PROVE KeptInv'
  BY <1>4, <1>5 DEF Report, Reload
<1>6. ASSUME NEW o \in Ops, NEW a, NEW row, NEW ids, Post(o, a, row, ids) PROVE KeptInv'
  <2>1. deleted \subseteq deleted' /\ (a = "delete" => ids \subseteq deleted')
    BY <1>6 DEF Post
  <2> QED BY <1>1, <1>2, <1>6, <2>1 DEF Post, Free, streamVars
<1>7. ASSUME NEW o \in Ops, Handlers(o) PROVE KeptInv'
  <2> DEFINE f == ops[o]
  <2>1. f \in Op /\ deleted' = deleted /\ outside' = outside /\ top' = top
    BY <1>7, HandlerTypes DEF TypeOK
  <2>2. f.act = "delete" => f.ids \subseteq deleted
    OBVIOUS
  <2>3. CASE Accept(o) \/ PostFails(o)
    <3> DEFINE ids == IF f.act = "requeueAll" THEN Oldest(dlq) ELSE f.ids
    <3>1. f.act = "delete" => ids \subseteq deleted
      BY <2>2
    <3> HIDE DEF ids
    <3>2. /\ \/ ops' = [ops EXCEPT ![o] = Free]
             \/ ops' = [ops EXCEPT ![o] = [f EXCEPT !.at = "answer", !.ok = FALSE]]
             \/ ops' = [ops EXCEPT ![o] = [f EXCEPT !.at = "serve", !.ids = ids]]
          /\ UNCHANGED <<dlq, sent>>
      BY <2>3 DEF Accept, PostFails, Serving, ids
    <3> QED BY <1>1, <1>2, <2>1, <2>2, <3>1, <3>2 DEF Op, Free
  <2>4. CASE ReadEntry(o)
    <3>1. /\ \E e \in f.ids :
               \/ ops' = [ops EXCEPT ![o] = [f EXCEPT !.at = "held", !.held = e]]
               \/ ops' = [ops EXCEPT ![o] = [f EXCEPT !.ids = @ \ {e}]]
          /\ UNCHANGED <<dlq, sent>> /\ f.at = "serve"
      BY <2>4 DEF ReadEntry, Serving
    <3> QED BY <1>1, <1>2, <2>1, <2>2, <3>1 DEF Op
  <2>5. CASE Resend(o)
    <3> DEFINE e == f.held
    <3>1. e \in Ids /\ sent[e] \in Nat /\ dlq' = dlq
      BY <2>1, <2>5, PagesAssumption DEF Resend, HoldInv, Op, Ids, TypeOK
    <3>2. sent' = sent \/ sent' = [sent EXCEPT ![e] = @ + 1]
      BY <2>5 DEF Resend
    <3> HIDE DEF e
    <3>3. /\ \A d \in Ids : sent[d] <= sent'[d]
          /\ sent' = sent \/ sent'[e] > 0
      <4>1. CASE sent' = sent
        BY <4>1 DEF TypeOK
      <4>2. CASE sent' = [sent EXCEPT ![e] = @ + 1]
        BY <3>1, <4>2 DEF TypeOK
      <4> QED BY <3>2, <4>1, <4>2
    <3>4. NothingDropped'
      <4>1. 1..top \subseteq Ids
        BY PagesAssumption DEF TypeOK, Ids
      <4> QED BY <2>1, <3>1, <3>3, <4>1 DEF NothingDropped, TypeOK
    <3>5. \/ ops' = [ops EXCEPT ![o] = Skip(f)]
          \/ ops' = [ops EXCEPT ![o] = [f EXCEPT !.at = "resent"]] /\ sent'[e] > 0
      BY <2>5, <3>1 DEF Resend, Serving, TypeOK, e
    <3>6. /\ Skip(f).at = "serve" /\ Skip(f).act = f.act /\ Skip(f).ids \subseteq f.ids
          /\ [f EXCEPT !.at = "resent"].act = f.act /\ [f EXCEPT !.at = "resent"].ids = f.ids
          /\ [f EXCEPT !.at = "resent"].held = e
      BY <2>1 DEF Skip, Op, e
    <3>7. CASE ops' = [ops EXCEPT ![o] = Skip(f)]
      BY <1>1, <2>1, <2>2, <3>3, <3>4, <3>6, <3>7
    <3>8. CASE ops' = [ops EXCEPT ![o] = [f EXCEPT !.at = "resent"]] /\ sent'[e] > 0
      BY <1>1, <2>1, <2>2, <3>3, <3>4, <3>6, <3>8
    <3> QED BY <3>5, <3>7, <3>8
  <2>6. CASE Forget(o)
    <3>1. /\ dlq' \in {dlq, dlq \ {f.held}} /\ sent' = sent /\ sent[f.held] > 0
          /\ ops' = [ops EXCEPT ![o] = Skip(f)]
      BY <2>6 DEF Forget, TakeOff, Serving
    <3>2. NothingDropped'
      BY <2>1, <3>1 DEF NothingDropped
    <3>3. \A d \in Ids : sent[d] <= sent'[d]
      BY <3>1 DEF TypeOK
    <3> QED BY <1>1, <2>1, <2>2, <3>1, <3>2, <3>3 DEF Skip, Op
  <2>7. CASE DeleteEntry(o)
    <3>1. PICK e \in f.ids : /\ ops' = [ops EXCEPT ![o] = [f EXCEPT !.ids = @ \ {e}]]
                             /\ dlq' = dlq \/ dlq' = dlq \ {e}
      BY <2>7 DEF DeleteEntry, TakeOff, Serving
    <3>2. e \in deleted /\ sent' = sent /\ f.at = "serve"
      BY <2>2, <2>7 DEF DeleteEntry
    <3>3. NothingDropped'
      BY <2>1, <3>1, <3>2 DEF NothingDropped
    <3>4. \A d \in Ids : sent[d] <= sent'[d]
      BY <3>2 DEF TypeOK
    <3> QED BY <1>1, <2>1, <2>2, <3>1, <3>2, <3>3, <3>4 DEF Op
  <2>8. CASE Answer(o)
    <3>1. /\ \/ ops' = [ops EXCEPT ![o] = Free]
             \/ ops' = [ops EXCEPT ![o] = [f EXCEPT !.at = "answer"]]
             \/ ops' = [ops EXCEPT ![o] = [f EXCEPT !.at = "answer", !.ok = FALSE]]
          /\ UNCHANGED <<dlq, sent>> /\ f.at = "serve"
      BY <2>8 DEF Answer, Serving
    <3> QED BY <1>1, <1>2, <2>1, <2>2, <3>1 DEF Op, Free
  <2>9. CASE ServeList(o)
    <3> DEFINE P == ListDLQ(f.cursor)
    <3> HIDE DEF P
    <3>1. /\ \/ ops' = [ops EXCEPT ![o] = [f EXCEPT !.at = "listed", !.page = P]]
             \/ ops' = [ops EXCEPT ![o] = [f EXCEPT !.at = "listed", !.ok = FALSE]]
          /\ UNCHANGED <<dlq, sent>>
      BY <2>9 DEF ServeList, Serving, P
    <3> QED BY <1>1, <1>2, <2>1, <2>2, <3>1 DEF Op
  <2> QED BY <1>7, <2>3, <2>4, <2>5, <2>6, <2>7, <2>8, <2>9 DEF Handlers
<1>8. ASSUME NEW e \in Ids, OutsideDelete(e) PROVE KeptInv'
  BY <1>8 DEF OutsideDelete, NothingDropped
<1>9. CASE Arrive
  BY <1>9 DEF Arrive, NothingDropped, histVars, TypeOK
<1>10. ASSUME UNCHANGED <<dlq, top, sent, deleted, outside, ops>> PROVE KeptInv'
  BY <1>10 DEF NothingDropped
<1>11. ASSUME NEW o \in Ops, NEW p \in Ops, GiveUp(o, p) PROVE KeptInv'
  <2>1. NothingDropped'
    BY <1>2, <1>11, GivenUp DEF streamVars, histVars
  <2>2. ASSUME NEW q \in Ops
        PROVE  /\ ops'[q].at = "resent" => sent'[ops'[q].held] > 0
               /\ ops'[q].act = "delete" => ops'[q].ids \subseteq deleted'
    <3>1. sent' = sent /\ deleted' = deleted
      BY <1>11, GivenUp DEF streamVars, histVars
    <3> QED BY <1>11, <3>1, GivenUp
  <2> QED BY <2>1, <2>2
<1> QED
  BY <1>3, <1>5, <1>6, <1>7, <1>8, <1>9, <1>10, <1>11, NextEffects
  DEF Effects, Select, HideToast, vars, streamVars, histVars

LEMMA InitKept == Init => KeptInv
BY PagesAssumption DEF Init, KeptInv, NothingDropped, Free

\* NothingDropped: an entry is on the stream until it was resent or deleted.
THEOREM EntriesKept == Spec => []NothingDropped
<1> DEFINE I == TypeOK /\ HoldInv /\ KeptInv
<1>1. Init => I
  BY InitTypes, InitHolds, InitKept
<1>2. I /\ [Next]_vars => I'
  BY TypeStep, HoldStep, KeptStep
<1>3. I => NothingDropped
  BY DEF KeptInv
<1> QED BY <1>1, <1>2, <1>3, PTL DEF Spec

-----------------------------------------------------------------------------
(* No entry is resent by accident.                                          *)

\* While nobody takes, sends or lets go of it, an entry keeps its one holder.
LEMMA OnceStays ==
    ASSUME TypeOK, TypeOK', NEW e \in Ids, Once(e), Holders(e)' = Holders(e), sent'[e] = sent[e],
           \A o \in Holders(e) : ops'[o].at = "held" => ops[o].at = "held",
           e \in dlq' => e \in dlq \/ e > top, top <= top'
    PROVE  Once(e)'
<1>1. sent'[e] <= 1
  BY DEF Once
<1>2. \A o, p \in Holders(e)' : o = p
  BY DEF Once
<1>3. \A o \in Holders(e)' : ops'[o].at = "held" => sent'[e] = 0
  BY DEF Once
<1>4. /\ e \in dlq' => sent'[e] = 0 \/ Holders(e)' # {}
      /\ e > top' => sent'[e] = 0 /\ Holders(e)' = {}
  <2>1. e \in Nat /\ top \in Nat /\ top' \in Nat
    BY PagesAssumption DEF TypeOK, Ids
  <2>2. e > top' => e > top
    BY <2>1
  <2> QED BY <2>2 DEF Once
<1> QED BY <1>1, <1>2, <1>3, <1>4 DEF Once

\* A function that holds nothing before and after a step changes no holder.
LEMMA SameHolders ==
    ASSUME TypeOK, NEW o \in Ops, NEW g, ops' = [ops EXCEPT ![o] = g], NEW e \in Ids,
           ops[o].held # e, g.held # e
    PROVE  /\ Holders(e)' = Holders(e) /\ o \notin Holders(e)
           /\ \A p \in Holders(e) : ops'[p] = ops[p]
BY DEF Holders, TypeOK

\* A step about other entries leaves an entry as it is.
LEMMA OnceAside ==
    ASSUME TypeOK, TypeOK', OnceInv, NEW e \in Ids, e \notin contested,
           NEW o \in Ops, NEW g, ops' = [ops EXCEPT ![o] = g], ops[o].held # e, g.held # e,
           sent'[e] = sent[e], top' = top, dlq' \subseteq dlq
    PROVE  Once(e)'
<1>1. /\ Holders(e)' = Holders(e)
      /\ \A p \in Holders(e) : ops'[p].at = "held" => ops[p].at = "held"
  BY SameHolders
<1>2. top <= top' /\ (e \in dlq' => e \in dlq \/ e > top)
  <2>1. top \in 0..MaxId
    BY DEF TypeOK
  <2> QED BY <2>1, PagesAssumption
<1>3. Once(e)
  BY DEF OnceInv
<1> QED BY <1>1, <1>2, <1>3, OnceStays

\* A step of one function that holds nothing before and after it changes nothing.
LEMMA OnceQuiet ==
    ASSUME TypeOK, TypeOK', OnceInv, NEW o \in Ops, \A p \in Ops \ {o} : ops'[p] = ops[p],
           ops[o].held = 0, ops'[o].held = 0,
           sent' = sent, top' = top, contested' = contested, dlq' \subseteq dlq
    PROVE  OnceInv'
<1>1. SUFFICES ASSUME NEW d \in Ids, d \notin contested' PROVE Once(d)'
  BY DEF OnceInv
<1>2. d # 0
  BY PagesAssumption DEF Ids
<1>3. Holders(d)' = Holders(d) /\ \A p \in Holders(d) : ops'[p] = ops[p]
  BY <1>2 DEF Holders
<1>4. top <= top' /\ (d \in dlq' => d \in dlq \/ d > top) /\ sent'[d] = sent[d]
  <2>1. top \in 0..MaxId
    BY DEF TypeOK
  <2> QED BY <2>1, PagesAssumption
<1>5. Once(d)
  BY <1>1 DEF OnceInv
<1>6. \A p \in Holders(d) : ops'[p].at = "held" => ops[p].at = "held"
  BY <1>3
<1> QED BY <1>3, <1>4, <1>5, <1>6, OnceStays

\* An entry that was never sent may have one holder.
LEMMA OnceRead ==
    ASSUME NEW d \in Ids, NEW o, Holders(d)' = {o}, sent'[d] = 0, ~(d > top')
    PROVE  Once(d)'
<1>1. \A p, q \in Holders(d)' : p = q
  OBVIOUS
<1>2. sent'[d] <= 1
  OBVIOUS
<1> QED BY <1>1, <1>2, Zenon DEF Once

\* Once its only holder has let go of it, an entry has been sent at most once.
LEMMA OnceLetGo ==
    ASSUME NEW d \in Ids, Holders(d)' = {}, sent'[d] <= 1,
           (d \in dlq' \/ d > top') => sent'[d] = 0
    PROVE  Once(d)'
BY Zenon DEF Once

\* While its only holder has sent it and not yet dropped it, it was sent once.
LEMMA OnceSent ==
    ASSUME NEW d \in Ids, NEW o, Holders(d)' = {o}, sent'[d] <= 1, ops'[o].at = "resent",
           ~(d > top')
    PROVE  Once(d)'
<1>1. o \in Holders(d)' /\ Holders(d)' # {}
  OBVIOUS
<1>2. \A p, q \in Holders(d)' : p = q
  OBVIOUS
<1>3. \A p \in Holders(d)' : ops'[p].at # "held"
  OBVIOUS
<1> QED BY <1>1, <1>2, <1>3, Zenon DEF Once

\* A function that lets go of the entry it alone holds leaves it with none.
LEMMA LetGo ==
    ASSUME TypeOK, NEW d \in Ids, NEW o \in Ops, \A p \in Holders(d) : p = o,
           \A p \in Ops \ {o} : ops'[p] = ops[p], ops'[o].held # d
    PROVE  Holders(d)' = {}
BY DEF Holders

LEMMA OnceStep ==
    ASSUME TypeOK, TypeOK', HoldInv, OnceInv, [Next]_vars PROVE OnceInv'
<1>a. Ids \subseteq Nat \ {0}
  BY PagesAssumption DEF Ids
<1>2. ASSUME NEW o \in Ops, Landed(o) PROVE OnceInv'
  <2>1. ops[o].held = 0
    BY <1>2 DEF Landed, HoldInv, TypeOK, Op
  <2>2. /\ \A p \in Ops \ {o} : ops'[p] = ops[p]
        /\ ops'[o].held = 0
    BY <1>2 DEF Landed, Show, Free, TypeOK
  <2>3. sent' = sent /\ top' = top /\ contested' = contested /\ dlq' = dlq
    BY <1>2 DEF Landed, streamVars, histVars
  <2> QED BY <2>1, <2>2, <2>3, OnceQuiet
<1>3. ASSUME NEW o \in Ops, NEW m, Report(o, m) \/ Reload(o, m) PROVE OnceInv'
  <2>1. ops[o].held = 0
    BY <1>3 DEF Report, Reload, HoldInv
  <2>2. /\ \A p \in Ops \ {o} : ops'[p] = ops[p]
        /\ ops'[o].held = 0
    BY <1>3 DEF Report, Reload, StartLoad, Free, TypeOK
  <2>3. sent' = sent /\ top' = top /\ contested' = contested /\ dlq' = dlq
    BY <1>3 DEF Report, Reload, StartLoad, streamVars, histVars
  <2> QED BY <2>1, <2>2, <2>3, OnceQuiet
<1>4. ASSUME NEW o \in Ops, NEW a, NEW row, NEW ids, Post(o, a, row, ids) PROVE OnceInv'
  <2>1. ops[o].held = 0
    BY <1>4 DEF Post, HoldInv
  <2>2. /\ \A p \in Ops \ {o} : ops'[p] = ops[p]
        /\ ops'[o].held = 0
    BY <1>4 DEF Post, Free, TypeOK
  <2>3. sent' = sent /\ top' = top /\ contested' = contested /\ dlq' = dlq
    BY <1>4 DEF Post, streamVars, histVars
  <2> QED BY <2>1, <2>2, <2>3, OnceQuiet
<1>5. ASSUME NEW o \in Ops, Handlers(o) PROVE OnceInv'
  <2> DEFINE f == ops[o]
  <2>1. f \in Op /\ top' = top /\ dlq' \subseteq dlq
    BY <1>5, HandlerTypes DEF TypeOK
  <2>2. CASE Accept(o) \/ PostFails(o)
    <3> DEFINE ids == IF f.act = "requeueAll" THEN Oldest(dlq) ELSE f.ids
    <3> HIDE DEF ids
    <3>1. /\ \/ ops' = [ops EXCEPT ![o] = Free]
             \/ ops' = [ops EXCEPT ![o] = [f EXCEPT !.at = "answer", !.ok = FALSE]]
             \/ ops' = [ops EXCEPT ![o] = [f EXCEPT !.at = "serve", !.ids = ids]]
          /\ UNCHANGED <<sent, contested>> /\ f.held = 0
      BY <2>2 DEF Accept, PostFails, Serving, HoldInv, ids
    <3>8. ops \in [Ops -> Op]
      BY DEF TypeOK
    <3>9. (\A p \in Ops \ {o} : ops'[p] = ops[p]) /\ ops'[o].held = 0 /\ f.held = 0
      <4>1. /\ [f EXCEPT !.at = "answer", !.ok = FALSE].held = 0 /\ Free.held = 0
            /\ [f EXCEPT !.at = "serve", !.ids = ids].held = 0
        BY <2>1, <3>1 DEF Op, Free
      <4> QED BY <3>1, <3>8, <4>1
    <3> QED BY <2>1, <3>1, <3>9, OnceQuiet
  <2>3. CASE ReadEntry(o)
    <3>1. PICK e \in f.ids :
            /\ ops' = [ops EXCEPT ![o] = IF e \in dlq THEN [f EXCEPT !.at = "held", !.held = e]
                                                      ELSE [f EXCEPT !.ids = @ \ {e}]]
            /\ contested' = IF e \in dlq /\ Holders(e) # {} THEN contested \cup {e} ELSE contested
            /\ UNCHANGED <<dlq, sent>>
      BY <2>3 DEF ReadEntry, Serving
    <3>2. f.held = 0 /\ f.at = "serve"
      BY <2>3 DEF ReadEntry, HoldInv
    <3>3. CASE e \notin dlq
      <4>1. ops' = [ops EXCEPT ![o] = [f EXCEPT !.ids = @ \ {e}]] /\ contested' = contested
        BY <3>1, <3>3
      <4>2. ops \in [Ops -> Op]
        BY DEF TypeOK
      <4>3. (\A p \in Ops \ {o} : ops'[p] = ops[p]) /\ ops'[o].held = 0
        BY <2>1, <3>2, <4>1, <4>2 DEF Op
      <4> QED BY <2>1, <3>1, <3>2, <4>1, <4>3, OnceQuiet
    <3>4. CASE e \in dlq
      <4> SUFFICES ASSUME NEW d \in Ids, d \notin contested' PROVE Once(d)'
        BY DEF OnceInv
      <4>1. /\ ops' = [ops EXCEPT ![o] = [f EXCEPT !.at = "held", !.held = e]]
            /\ ops'[o].held = e /\ d \notin contested
        BY <2>1, <3>1, <3>4 DEF TypeOK, Op
      <4>2. CASE d # e
        <5>1. f.held # d /\ [f EXCEPT !.at = "held", !.held = e].held # d
          BY <1>a, <2>1, <3>2, <4>2 DEF Op
        <5> QED BY <2>1, <3>1, <4>1, <5>1, OnceAside
      <4>3. CASE d = e
        <5>1. Holders(e) = {} /\ sent[e] = 0 /\ sent' = sent
          BY <3>1, <3>4, <4>1, <4>3 DEF OnceInv, Once
        <5>2. Holders(e)' = {o}
          BY <2>1, <4>1, <5>1 DEF Holders, TypeOK
        <5>3. ~(e > top')
          <6>1. top \in 0..MaxId /\ e \in 1..top
            BY <3>4 DEF TypeOK
          <6> QED BY <2>1, <6>1, PagesAssumption
        <5>4. sent'[e] = 0
          BY <5>1
        <5> QED BY <4>3, <5>2, <5>3, <5>4, OnceRead
      <4> QED BY <4>2, <4>3
    <3> QED BY <3>3, <3>4
  <2>4. CASE Resend(o)
    <3> SUFFICES ASSUME NEW d \in Ids, d \notin contested' PROVE Once(d)'
      BY DEF OnceInv
    <3> DEFINE e == f.held
    <3>1. e \in Ids /\ sent[e] \in Nat /\ f.at = "held"
      BY <2>1, <2>4, PagesAssumption DEF Resend, HoldInv, Op, Ids, TypeOK
    <3>2. /\ sent' = sent \/ sent' = [sent EXCEPT ![e] = @ + 1]
          /\ \/ ops' = [ops EXCEPT ![o] = Skip(f)]
             \/ ops' = [ops EXCEPT ![o] = [f EXCEPT !.at = "resent"]]
          /\ contested \subseteq contested' /\ dlq' = dlq
      BY <2>4 DEF Resend, Serving
    <3>3. CASE d # e
      <4>1. f.held # d /\ Skip(f).held # d /\ [f EXCEPT !.at = "resent"].held # d
        BY <1>a, <2>1, <3>3 DEF Skip, Op
      <4>2. sent'[d] = sent[d] /\ d \notin contested
        BY <3>1, <3>2, <3>3 DEF TypeOK
      <4> QED BY <2>1, <3>2, <4>1, <4>2, OnceAside
    <3>4. CASE d = e
      <4>1. f.held = d /\ d \notin contested
        BY <3>2, <3>4
      <4>2. Once(d) /\ o \in Holders(d)
        BY <4>1 DEF Holders, OnceInv
      <4>3. sent[d] = 0 /\ \A p \in Holders(d) : p = o
        BY <3>1, <4>2 DEF Once
      <4>4. \/ sent' = sent /\ ops' = [ops EXCEPT ![o] = Skip(f)]
            \/ /\ sent' = [sent EXCEPT ![d] = @ + 1]
               /\ ops' = [ops EXCEPT ![o] = [f EXCEPT !.at = "resent"]]
        BY <2>4, <4>1 DEF Resend, Serving
      <4>5. CASE sent' = sent /\ ops' = [ops EXCEPT ![o] = Skip(f)]
        <5>1. Skip(f).held # d
          BY <1>a, <2>1 DEF Skip, Op
        <5>2. (\A p \in Ops \ {o} : ops'[p] = ops[p]) /\ ops'[o].held # d
          BY <4>5, <5>1 DEF TypeOK
        <5>3. Holders(d)' = {}
          BY <4>3, <5>2, LetGo
        <5>4. sent'[d] = 0 /\ sent'[d] <= 1
          BY <4>3, <4>5
        <5> QED BY <5>3, <5>4, OnceLetGo
      <4>6. CASE /\ sent' = [sent EXCEPT ![d] = @ + 1]
                 /\ ops' = [ops EXCEPT ![o] = [f EXCEPT !.at = "resent"]]
        <5>1. ops'[o].at = "resent" /\ ops'[o].held = d
          BY <2>1, <4>1, <4>6 DEF TypeOK, Op
        <5>2. \A p \in Ops \ {o} : ops'[p] = ops[p]
          BY <4>6 DEF TypeOK
        <5>3. Holders(d)' = {o}
          BY <4>3, <5>1, <5>2 DEF Holders
        <5>4. sent'[d] <= 1
          BY <4>3, <4>6 DEF TypeOK
        <5>5. ~(d > top')
          BY <2>1, <4>2 DEF Once
        <5> QED BY <5>1, <5>3, <5>4, <5>5, OnceSent
      <4> QED BY <4>4, <4>5, <4>6
    <3> QED BY <3>3, <3>4
  <2>5. CASE Forget(o)
    <3> SUFFICES ASSUME NEW d \in Ids, d \notin contested' PROVE Once(d)'
      BY DEF OnceInv
    <3> DEFINE e == f.held
    <3>1. e \in Ids /\ e # 0
      BY <2>1, <2>5, PagesAssumption DEF Forget, HoldInv, Op, Ids
    <3>2. /\ ops' = [ops EXCEPT ![o] = Skip(f)] /\ sent' = sent /\ contested \subseteq contested'
          /\ e \in contested' \/ dlq' = dlq \ {e}
      BY <2>5 DEF Forget, TakeOff, Serving
    <3>3. CASE d # e
      <4>1. f.held # d /\ Skip(f).held # d /\ d \notin contested
        BY <1>a, <2>1, <3>2, <3>3 DEF Skip, Op
      <4> QED BY <2>1, <3>2, <4>1, OnceAside
    <3>4. CASE d = e
      <4>1. f.held = d /\ d \notin contested /\ dlq' = dlq \ {d}
        BY <3>2, <3>4
      <4>2. Once(d) /\ o \in Holders(d)
        BY <4>1 DEF Holders, OnceInv
      <4>3. sent[d] <= 1 /\ \A p \in Holders(d) : p = o
        BY <4>2 DEF Once
      <4>4. Skip(f).held # d
        BY <1>a, <2>1 DEF Skip, Op
      <4>5. (\A p \in Ops \ {o} : ops'[p] = ops[p]) /\ ops'[o].held # d
        BY <3>2, <4>4 DEF TypeOK
      <4>6. Holders(d)' = {}
        BY <4>3, <4>5, LetGo
      <4>7. ~(d > top')
        BY <2>1, <4>2 DEF Once
      <4>8. sent'[d] <= 1 /\ d \notin dlq'
        BY <3>2, <4>1, <4>3
      <4> QED BY <4>6, <4>7, <4>8, OnceLetGo
    <3> QED BY <3>3, <3>4
  <2>6. CASE DeleteEntry(o)
    <3>1. PICK e \in f.ids : ops' = [ops EXCEPT ![o] = [f EXCEPT !.ids = @ \ {e}]]
      BY <2>6 DEF DeleteEntry, Serving
    <3>2. f.held = 0 /\ UNCHANGED <<sent, contested>>
      BY <2>6 DEF DeleteEntry, HoldInv
    <3>8. ops \in [Ops -> Op]
      BY DEF TypeOK
    <3>9. (\A p \in Ops \ {o} : ops'[p] = ops[p]) /\ ops'[o].held = 0 /\ f.held = 0
      BY <2>1, <3>1, <3>2, <3>8 DEF Op
    <3> QED BY <2>1, <3>1, <3>2, <3>9, OnceQuiet
  <2>7. CASE Answer(o)
    <3>1. /\ \/ ops' = [ops EXCEPT ![o] = Free]
             \/ ops' = [ops EXCEPT ![o] = [f EXCEPT !.at = "answer"]]
             \/ ops' = [ops EXCEPT ![o] = [f EXCEPT !.at = "answer", !.ok = FALSE]]
          /\ f.held = 0 /\ UNCHANGED <<sent, contested>>
      BY <2>7 DEF Answer, Serving, HoldInv
    <3>8. ops \in [Ops -> Op]
      BY DEF TypeOK
    <3>9. (\A p \in Ops \ {o} : ops'[p] = ops[p]) /\ ops'[o].held = 0 /\ f.held = 0
      <4>1. /\ [f EXCEPT !.at = "answer"].held = 0 /\ Free.held = 0
            /\ [f EXCEPT !.at = "answer", !.ok = FALSE].held = 0
        BY <2>1, <3>1 DEF Op, Free
      <4> QED BY <3>1, <3>8, <4>1
    <3> QED BY <2>1, <3>1, <3>9, OnceQuiet
  <2>8. CASE ServeList(o)
    <3> DEFINE P == ListDLQ(f.cursor)
    <3> HIDE DEF P
    <3>1. /\ \/ ops' = [ops EXCEPT ![o] = [f EXCEPT !.at = "listed", !.page = P]]
             \/ ops' = [ops EXCEPT ![o] = [f EXCEPT !.at = "listed", !.ok = FALSE]]
          /\ f.held = 0 /\ UNCHANGED <<sent, contested>>
      BY <2>8 DEF ServeList, Serving, HoldInv, P
    <3>8. ops \in [Ops -> Op]
      BY DEF TypeOK
    <3>9. (\A p \in Ops \ {o} : ops'[p] = ops[p]) /\ ops'[o].held = 0 /\ f.held = 0
      BY <2>1, <3>1, <3>8 DEF Op
    <3> QED BY <2>1, <3>1, <3>9, OnceQuiet
  <2> QED BY <1>5, <2>2, <2>3, <2>4, <2>5, <2>6, <2>7, <2>8 DEF Handlers
<1>6. ASSUME UNCHANGED <<sent, contested, ops>>, top <= top',
             \A d \in Ids : d \in dlq' => d \in dlq \/ d > top
      PROVE  OnceInv'
  <2> SUFFICES ASSUME NEW d \in Ids, d \notin contested PROVE Once(d)'
    BY <1>6 DEF OnceInv
  <2>1. Once(d) /\ Holders(d)' = Holders(d)
    BY <1>6 DEF OnceInv, Holders
  <2> QED BY <1>6, <2>1, OnceStays
<1>7. ASSUME UNCHANGED <<sent, contested, ops, top>>, dlq' \subseteq dlq PROVE OnceInv'
  <2>1. top <= top'
    BY <1>7, PagesAssumption DEF TypeOK
  <2> QED BY <1>6, <1>7, <2>1
<1>8. ASSUME NEW e \in Ids, OutsideDelete(e) PROVE OnceInv'
  BY <1>7, <1>8 DEF OutsideDelete
<1>9. CASE Arrive
  <2>1. top <= top' /\ \A d \in Ids : d \in dlq' => d \in dlq \/ d > top
    BY <1>9, <1>a, PagesAssumption DEF Arrive, TypeOK
  <2> QED BY <1>6, <1>9, <2>1 DEF Arrive, histVars
<1>10. ASSUME UNCHANGED <<dlq, top, sent, contested, ops>> PROVE OnceInv'
  BY <1>7, <1>10
<1>11. ASSUME NEW o \in Ops, NEW p \in Ops, GiveUp(o, p) PROVE OnceInv'
  <2>1. dlq' = dlq /\ top' = top /\ sent' = sent /\ contested' = contested
    BY <1>11, GivenUp DEF streamVars, histVars
  <2> SUFFICES ASSUME NEW d \in Ids, d \notin contested PROVE Once(d)'
    BY <2>1 DEF OnceInv
  <2>2. Once(d) /\ d # 0
    BY <1>a DEF OnceInv
  <2>3. ops[p].held = 0
    BY <1>11, GivenUp DEF HoldInv
  <2>4. \A q \in Ops : q \in Holders(d)' <=>
          \/ q = p /\ o \in Holders(d)
          \/ q \notin {o, p} /\ q \in Holders(d)
    BY <1>11, <2>2, <2>3, GivenUp DEF Holders
  <2>5. \A q, r \in Holders(d)' : q = r
    BY <2>2, <2>4 DEF Once, Holders
  <2>6. \A q \in Holders(d)' : ops'[q].at = "held" => sent[d] = 0
    BY <1>11, <2>2, <2>4, GivenUp DEF Once, Holders
  <2>7. Holders(d)' = {} <=> Holders(d) = {}
    <3>1. p \notin Holders(d)
      BY <2>2, <2>3 DEF Holders
    <3> QED BY <1>11, <2>4, <3>1 DEF Holders
  <2> QED BY <2>1, <2>2, <2>5, <2>6, <2>7 DEF Once
<1> QED
  BY <1>2, <1>3, <1>4, <1>5, <1>8, <1>9, <1>10, <1>11, NextEffects
  DEF Effects, Select, HideToast, vars, streamVars, histVars

LEMMA InitOnce == Init => OnceInv
BY PagesAssumption DEF Init, OnceInv, Once, Holders, Free, Ids

\* ResentOnce: two sends of an entry take two holders, or an answer that was lost.
THEOREM NoSecondSend == Spec => []ResentOnce
<1> DEFINE I == TypeOK /\ HoldInv /\ OnceInv
<1>1. Init => I
  BY InitTypes, InitHolds, InitOnce
<1>2. I /\ [Next]_vars => I'
  BY TypeStep, HoldStep, OnceStep
<1>3. I => ResentOnce
  BY DEF OnceInv, Once, ResentOnce, TypeOK
<1> QED BY <1>1, <1>2, <1>3, PTL DEF Spec

-----------------------------------------------------------------------------
(* What the administrator sees.                                             *)

\* A handler keeps the function that waits for it busy; nobody's own ends as nobody's.
LEMMA BusyAfter ==
    ASSUME TypeOK, TypeOK', NEW o \in Ops, Handlers(o)
    PROVE  /\ \A p \in Ops \ {o} : ops'[p] = ops[p]
           /\ ~ops[o].deserted =>
                /\ ops'[o].at \in {"serve", "held", "resent", "answer", "listed"}
                /\ ~ops'[o].deserted
<1>1. ops \in [Ops -> Op] /\ ops[o] \in Op
  BY DEF TypeOK
<1>2. ASSUME NEW g, ops' = [ops EXCEPT ![o] = g],
             ~ops[o].deserted => /\ g.at \in {"serve", "held", "resent", "answer", "listed"}
                                 /\ g.deserted = ops[o].deserted
      PROVE  /\ \A p \in Ops \ {o} : ops'[p] = ops[p]
             /\ ~ops[o].deserted =>
                  /\ ops'[o].at \in {"serve", "held", "resent", "answer", "listed"}
                  /\ ~ops'[o].deserted
  BY <1>1, <1>2
<1> DEFINE f == ops[o]
<1>3. CASE Accept(o) \/ PostFails(o)
  <2> DEFINE ids == IF f.act = "requeueAll" THEN Oldest(dlq) ELSE f.ids
  <2> HIDE DEF ids
  <2>1. \/ ops' = [ops EXCEPT ![o] = Free] /\ f.deserted
        \/ ops' = [ops EXCEPT ![o] = [f EXCEPT !.at = "answer", !.ok = FALSE]]
        \/ ops' = [ops EXCEPT ![o] = [f EXCEPT !.at = "serve", !.ids = ids]]
    BY <1>3 DEF Accept, PostFails, Serving, ids
  <2> QED BY <1>1, <1>2, <2>1 DEF Op
<1>4. CASE ReadEntry(o) \/ DeleteEntry(o)
  <2>1. /\ \E e \in f.ids : \/ ops' = [ops EXCEPT ![o] = [f EXCEPT !.at = "held", !.held = e]]
                            \/ ops' = [ops EXCEPT ![o] = [f EXCEPT !.ids = @ \ {e}]]
        /\ f.at = "serve"
    BY <1>4 DEF ReadEntry, DeleteEntry, Serving
  <2> QED BY <1>1, <1>2, <2>1 DEF Op
<1>5. CASE Resend(o) \/ Forget(o)
  <2>1. \/ ops' = [ops EXCEPT ![o] = Skip(f)]
        \/ ops' = [ops EXCEPT ![o] = [f EXCEPT !.at = "resent"]]
    BY <1>5 DEF Resend, Forget, Serving
  <2> QED BY <1>1, <1>2, <2>1 DEF Skip, Op
<1>6. CASE Answer(o)
  <2>1. \/ ops' = [ops EXCEPT ![o] = Free] /\ f.deserted
        \/ ops' = [ops EXCEPT ![o] = [f EXCEPT !.at = "answer"]]
        \/ ops' = [ops EXCEPT ![o] = [f EXCEPT !.at = "answer", !.ok = FALSE]]
    BY <1>6 DEF Answer, Serving
  <2> QED BY <1>1, <1>2, <2>1 DEF Op
<1>7. CASE ServeList(o)
  <2> DEFINE P == ListDLQ(f.cursor)
  <2> HIDE DEF P
  <2>1. \/ ops' = [ops EXCEPT ![o] = [f EXCEPT !.at = "listed", !.page = P]]
        \/ ops' = [ops EXCEPT ![o] = [f EXCEPT !.at = "listed", !.ok = FALSE]]
    BY <1>7 DEF ServeList, Serving, P
  <2> QED BY <1>1, <1>2, <2>1 DEF Op
<1> QED BY <1>3, <1>4, <1>5, <1>6, <1>7 DEF Handlers

LEMMA SelectionStep ==
    ASSUME TypeOK, TypeOK', HoldInv, SelectionVisible, [Next]_vars PROVE SelectionVisible'
<1>1. ASSUME NEW o \in Ops, Landed(o) PROVE SelectionVisible'
  BY <1>1 DEF Landed, Show, SelectionVisible
<1>2. ASSUME NEW o \in Ops, NEW r, StartLoad(o, r) PROVE SelectionVisible'
  BY <1>2 DEF StartLoad, SelectionVisible, Idle, Free, TypeOK
<1>3. ASSUME NEW S \in SUBSET (selected \cup Rows), Select(S) PROVE SelectionVisible'
  BY <1>3 DEF Select, Table, QueueTable, WebhookTable, SelectionVisible, Idle, Rows
<1>4. ASSUME NEW o \in Ops, NEW a, NEW row, NEW ids, Post(o, a, row, ids) PROVE SelectionVisible'
  BY <1>4 DEF Post, SelectionVisible, Idle, Free, TypeOK
<1>5. ASSUME NEW o \in Ops, Handlers(o) PROVE SelectionVisible'
  <2>1. Idle' => Idle
    BY <1>5, BusyAfter DEF Idle
  <2>2. UNCHANGED <<items, error, selected>>
    BY <1>5, HandlerTypes DEF tableVars
  <2> QED BY <2>1, <2>2 DEF SelectionVisible, Rows
<1>6. ASSUME UNCHANGED <<items, error, selected, ops>> PROVE SelectionVisible'
  BY <1>6 DEF SelectionVisible, Idle, Rows
<1>9. ASSUME NEW o \in Ops, NEW p \in Ops, GiveUp(o, p) PROVE SelectionVisible'
  BY <1>9, GivenUp DEF SelectionVisible, Idle
<1>7. ASSUME NEW e \in Ids, OutsideDelete(e) PROVE SelectionVisible'
  BY <1>6, <1>7 DEF OutsideDelete, tableVars
<1>8. CASE HideToast \/ Arrive \/ UNCHANGED vars
  BY <1>6, <1>8 DEF HideToast, Arrive, vars, tableVars
<1> QED
  BY <1>1, <1>2, <1>3, <1>4, <1>5, <1>7, <1>8, <1>9, NextEffects DEF Effects, Reload, Report

LEMMA InitSelection == Init => SelectionVisible
BY DEF Init, SelectionVisible

\* SelectionVisible: on an idle page without an error, what is selected is shown.
THEOREM SelectionShown == Spec => []SelectionVisible
<1> DEFINE I == TypeOK /\ HoldInv /\ SelectionVisible
<1>1. Init => I
  BY InitTypes, InitHolds, InitSelection
<1>2. I /\ [Next]_vars => I'
  BY TypeStep, HoldStep, SelectionStep
<1> QED BY <1>1, <1>2, PTL DEF Spec

-----------------------------------------------------------------------------
(* The table: fresh and in order unless loads overlapped.                   *)

LEMMA Appended ==
    ASSUME NEW S, NEW s \in Seq(S), NEW P \in S
    PROVE  /\ Len(Append(s, P)) = Len(s) + 1 /\ Append(s, P)[Len(s) + 1] = P
           /\ \A i \in 1..Len(s) : Append(s, P)[i] = s[i]
OBVIOUS

\* A list handler that is asked or has answered stays so, apart from the answer
\* itself: every other handler neither starts nor ends a load.
LEMMA ListingKept ==
    ASSUME TypeOK, NEW o \in Ops, Handlers(o), ~ServeList(o)
    PROVE  /\ o \notin Listing /\ Listing' = Listing
           /\ \A p \in Listing : ops'[p] = ops[p]
           /\ ops'[o].at \in {"free", "serve", "held", "resent", "answer"}
<1>1. ops \in [Ops -> Op]
  BY DEF TypeOK
<1>2. /\ ops[o].at \in {"post", "serve", "held", "resent"}
      /\ ops'[o].at \in {"free", "serve", "held", "resent", "answer"}
      /\ \A p \in Ops \ {o} : ops'[p] = ops[p]
  <2>1. CASE Accept(o)
    <3> DEFINE ids == IF ops[o].act = "requeueAll" THEN Oldest(dlq) ELSE ops[o].ids
    <3> HIDE DEF ids
    <3>1. /\ \/ ops' = [ops EXCEPT ![o] = Free]
             \/ ops' = [ops EXCEPT ![o] = [ops[o] EXCEPT !.at = "answer", !.ok = FALSE]]
             \/ ops' = [ops EXCEPT ![o] = [ops[o] EXCEPT !.at = "serve", !.ids = ids]]
          /\ ops[o].at = "post"
      BY <2>1 DEF Accept, Serving, ids
    <3>2. ops[o] \in Op
      BY <1>1
    <3>3. /\ [ops[o] EXCEPT !.at = "answer", !.ok = FALSE].at = "answer"
          /\ [ops[o] EXCEPT !.at = "serve", !.ids = ids].at = "serve"
          /\ Free.at = "free"
      BY <3>2 DEF Op, Free
    <3> QED BY <1>1, <3>1, <3>3
  <2>5. CASE PostFails(o)
    BY <1>1, <2>5 DEF PostFails, Serving, Op
  <2>2. CASE ReadEntry(o) \/ DeleteEntry(o)
    BY <1>1, <2>2 DEF ReadEntry, DeleteEntry, Serving, Op
  <2>3. CASE Resend(o) \/ Forget(o)
    BY <1>1, <2>3 DEF Resend, Forget, Skip, Serving, Op
  <2>4. CASE Answer(o)
    <3>1. /\ \/ ops' = [ops EXCEPT ![o] = Free]
             \/ ops' = [ops EXCEPT ![o] = [ops[o] EXCEPT !.at = "answer"]]
             \/ ops' = [ops EXCEPT ![o] = [ops[o] EXCEPT !.at = "answer", !.ok = FALSE]]
          /\ ops[o].at = "serve"
      BY <2>4 DEF Answer, Serving
    <3>2. ops[o] \in Op
      BY <1>1
    <3>3. /\ [ops[o] EXCEPT !.at = "answer"].at = "answer" /\ Free.at = "free"
          /\ [ops[o] EXCEPT !.at = "answer", !.ok = FALSE].at = "answer"
      BY <3>2 DEF Op, Free
    <3> QED BY <1>1, <3>1, <3>3
  <2> QED BY <2>1, <2>2, <2>3, <2>4, <2>5 DEF Handlers
<1> QED BY <1>2 DEF Listing

\* A load that begins alone is the only one.
LEMMA StartsAlone ==
    ASSUME TypeOK, NEW o \in Ops, NEW r \in BOOLEAN, StartLoad(o, r), ~crossed'
    PROVE  /\ Listing = {} /\ Listing' = {o} /\ (r \/ ~crossed)
           /\ ops'[o].page = {} /\ ops'[o].reset = r
           /\ ~r => ops'[o].cursor = beforeId
BY DEF StartLoad, Listing, Free, TypeOK

\* When the only load lands, none is left.
LEMMA LandsAlone ==
    ASSUME TypeOK, NEW o \in Ops, Landed(o), \A p, q \in Listing : p = q
    PROVE  /\ o \in Listing /\ Listing' = {} /\ crossed' = crossed
           /\ \A p \in Ops \ {o} : ops'[p] = ops[p]
BY DEF Landed, Show, Listing, Free, TypeOK, histVars

LEMMA FreshStep ==
    ASSUME TypeOK, TypeOK', HoldInv, FreshInv, [Next]_vars PROVE FreshInv'
<1>1. ASSUME NEW o \in Ops, Landed(o) PROVE FreshInv'
  <2> SUFFICES ASSUME ~crossed' PROVE
        /\ \A p, q \in Listing' : p = q
        /\ Rows' \subseteq Known' \/ AtWork'
        /\ \A p \in Listing' : ops'[p].page \subseteq Known' \/ AtWork'
    BY DEF FreshInv
  <2>1. ~crossed
    BY <1>1 DEF Landed, histVars
  <2>2. /\ o \in Listing /\ Listing' = {} /\ \A p \in Ops \ {o} : ops'[p] = ops[p]
    BY <1>1, <2>1, LandsAlone DEF FreshInv
  <2>3. Known' = Known
    BY <1>1 DEF Landed, Known, streamVars, histVars
  <2>4. AtWork => AtWork'
    BY <2>2, <1>1 DEF AtWork, Landed
  <2>5. Rows' \subseteq Rows \cup ops[o].page
    <3> DEFINE P == ops[o].page
    <3>1. P \in SUBSET Ids /\ items \in Seq(SUBSET Ids)
      BY DEF TypeOK, Op
    <3> HIDE DEF P
    <3>2. items' = items \/ items' = <<P>> \/ items' = Append(items, P)
      BY <1>1 DEF Landed, Show, P
    <3>3. CASE items' = Append(items, P)
      <4>1. /\ Len(items') = Len(items) + 1 /\ items'[Len(items) + 1] = P
            /\ \A i \in 1..Len(items) : items'[i] = items[i]
        BY <3>1, <3>3, Appended, Zenon
      <4>2. Len(items) \in Nat
        BY <3>1
      <4> QED BY <4>1, <4>2 DEF Rows, P
    <3>4. CASE items' = <<P>> \/ items' = items
      BY <3>4 DEF Rows, P
    <3> QED BY <3>2, <3>3, <3>4
  <2> QED BY <2>1, <2>2, <2>3, <2>4, <2>5 DEF FreshInv
<1>2. ASSUME NEW o \in Ops, NEW r \in BOOLEAN, StartLoad(o, r), ops[o].at = "free" \/ r,
             UNCHANGED <<streamVars, outside, unheard>>
      PROVE  FreshInv'
  <2> SUFFICES ASSUME ~crossed' PROVE
        /\ \A p, q \in Listing' : p = q
        /\ Rows' \subseteq Known' \/ AtWork'
        /\ \A p \in Listing' : ops'[p].page \subseteq Known' \/ AtWork'
    BY DEF FreshInv
  <2>1. Listing' = {o} /\ ops'[o].page = {} /\ (r \/ ~crossed)
    BY <1>2, StartsAlone
  <2>2. Rows' \subseteq Known' \/ AtWork'
    <3>1. CASE r
      BY <1>2, <3>1 DEF StartLoad, Rows
    <3>2. CASE ~r
      <4>1. ops[o].at = "free" /\ Rows' = Rows
        BY <1>2, <3>2 DEF StartLoad, Rows
      <4>2. AtWork => AtWork'
        BY <1>2, <4>1 DEF AtWork, StartLoad, TypeOK
      <4>3. Known' = Known
        BY <1>2 DEF Known, streamVars
      <4> QED BY <2>1, <3>2, <4>1, <4>2, <4>3 DEF FreshInv
    <3> QED BY <3>1, <3>2
  <2> QED BY <2>1, <2>2
<1>3. ASSUME UNCHANGED <<items, crossed>>, Known \subseteq Known', Listing' = Listing,
             \A p \in Listing : ops'[p] = ops[p], AtWork => AtWork'
      PROVE  FreshInv'
  <2>1. Rows' = Rows
    BY <1>3 DEF Rows
  <2> QED BY <1>3, <2>1 DEF FreshInv
<1>4. ASSUME NEW S \in SUBSET (selected \cup Rows), Select(S) PROVE FreshInv'
  BY <1>3, <1>4 DEF Select, Listing, AtWork, Known, streamVars, histVars
<1>5. ASSUME NEW o \in Ops, NEW a, NEW row, NEW ids, Post(o, a, row, ids) PROVE FreshInv'
  <2>1. ops[o].at = "free" /\ ops'[o].at = "post" /\ \A p \in Ops \ {o} : ops'[p] = ops[p]
    BY <1>5 DEF Post, TypeOK, Free
  <2>2. Listing' = Listing /\ (\A p \in Listing : ops'[p] = ops[p]) /\ (AtWork => AtWork')
    BY <2>1 DEF Listing, AtWork
  <2> QED BY <1>3, <1>5, <2>2 DEF Post, Known, streamVars
<1>6. ASSUME NEW o \in Ops, Handlers(o) PROVE FreshInv'
  <2>1. UNCHANGED <<items, crossed, outside>>
    BY <1>6, HandlerTypes DEF tableVars
  <2>2. CASE ~ServeList(o)
    <3>1. /\ Listing' = Listing /\ \A p \in Listing : ops'[p] = ops[p]
          /\ ops'[o].at \in {"free", "serve", "held", "resent", "answer"}
      BY <1>6, <2>2, ListingKept
    <3>2. CASE ~ops[o].deserted
      <4>1. AtWork'
        BY <1>6, <3>1, <3>2, BusyAfter DEF AtWork
      <4> QED BY <2>1, <3>1, <4>1 DEF FreshInv
    <3>3. CASE ops[o].deserted
      <4>1. AtWork => AtWork'
        BY <1>6, <3>3, BusyAfter DEF AtWork
      <4>2. Known \subseteq Known'
        BY <1>6, <2>1, <2>2, <3>3
        DEF Handlers, Accept, PostFails, ReadEntry, Resend, Forget, DeleteEntry, Answer, TakeOff, Known
      <4> QED BY <1>3, <2>1, <3>1, <4>1, <4>2
    <3> QED BY <3>2, <3>3
  <2>3. CASE ServeList(o)
    <3> DEFINE P == ListDLQ(ops[o].cursor)
    <3>1. P \subseteq dlq
      BY ListTypes
    <3> HIDE DEF P
    <3>2. /\ \/ ops' = [ops EXCEPT ![o] = [ops[o] EXCEPT !.at = "listed", !.page = P]]
             \/ ops' = [ops EXCEPT ![o] = [ops[o] EXCEPT !.at = "listed", !.ok = FALSE]]
          /\ dlq' = dlq /\ unheard' = unheard /\ ops[o].at = "list"
      BY <2>3 DEF ServeList, Serving, P
    <3>3. /\ \A p \in Ops \ {o} : ops'[p] = ops[p]
          /\ ops'[o].at = "listed" /\ ops'[o].page \in {P, ops[o].page}
      BY <3>2 DEF TypeOK, Op
    <3>4. Listing' = Listing /\ o \in Listing /\ (AtWork => AtWork')
      BY <3>2, <3>3 DEF Listing, AtWork
    <3>5. Rows' = Rows
      BY <2>1 DEF Rows
    <3>6. Known' = Known /\ P \subseteq Known
      BY <2>1, <3>1, <3>2 DEF Known
    <3> QED BY <2>1, <3>3, <3>4, <3>5, <3>6 DEF FreshInv
  <2> QED BY <2>2, <2>3
<1>7. ASSUME NEW e \in Ids, OutsideDelete(e) PROVE FreshInv'
  <2>1. Known' = Known /\ UNCHANGED <<items, crossed, ops>>
    BY <1>7 DEF OutsideDelete, Known, tableVars
  <2> QED BY <2>1 DEF FreshInv, Listing, AtWork, Rows
<1>8. CASE Arrive
  <2>1. Known \subseteq Known' /\ UNCHANGED <<items, crossed, ops>>
    BY <1>8 DEF Arrive, Known, tableVars, histVars
  <2> QED BY <2>1 DEF FreshInv, Listing, AtWork, Rows
<1>9. CASE HideToast \/ UNCHANGED vars
  BY <1>3, <1>9 DEF HideToast, vars, streamVars, tableVars, histVars, Listing, AtWork, Known
<1>10. ASSUME NEW o \in Ops, NEW r \in BOOLEAN, Reload(o, r) PROVE FreshInv'
  BY <1>2, <1>10 DEF Reload
<1>11. ASSUME NEW o \in Ops, NEW m, Report(o, m) PROVE FreshInv'
  BY <1>2, <1>11 DEF Report
<1>12. ASSUME NEW o \in Ops, NEW p \in Ops, GiveUp(o, p) PROVE FreshInv'
  <2>1. AtWork' /\ Listing' = Listing
    BY <1>12, GivenUp DEF AtWork, Listing
  <2>2. UNCHANGED <<items, crossed>>
    BY <1>12, GivenUp DEF tableVars, histVars
  <2> QED BY <2>1, <2>2 DEF FreshInv
<1> QED
  BY <1>1, <1>4, <1>5, <1>6, <1>7, <1>8, <1>9, <1>10, <1>11, <1>12, NextEffects DEF Effects

LEMMA InitFresh == Init => FreshInv
<1> SUFFICES ASSUME Init PROVE FreshInv
  OBVIOUS
<1> DEFINE first == CHOOSE p \in Ops : TRUE
<1>1. /\ \A o \in Ops : ops[o].page = {}
      /\ \A o \in Ops : ops[o].at = "list" \/ ops[o].at = "listed" => o = first
  <2> HIDE DEF first
  <2>1. ops = [o \in Ops |-> IF o = first THEN [Free EXCEPT !.at = "list"] ELSE Free]
    BY DEF Init, first
  <2> QED BY <2>1 DEF Free
<1>2. Rows = {}
  BY DEF Init, Rows
<1> HIDE DEF first
<1> QED BY <1>1, <1>2 DEF FreshInv, Listing

\* ListFresh: unless loads overlapped, an idle page lists no entry its own operations
\* took off the stream, but for those whose fetch failed before they did.
THEOREM FreshShown == Spec => []ListFresh
<1> DEFINE I == TypeOK /\ HoldInv /\ FreshInv
<1>1. Init => I
  BY InitTypes, InitHolds, InitFresh
<1>2. I /\ [Next]_vars => I'
  BY TypeStep, HoldStep, FreshStep
<1>3. I => ListFresh
  BY DEF FreshInv, ListFresh, Idle, AtWork, Known
<1> QED BY <1>1, <1>2, <1>3, PTL DEF Spec

LEMMA OrderStep ==
    ASSUME TypeOK, TypeOK', HoldInv, OrderInv, [Next]_vars PROVE OrderInv'
<1>a. Ids \subseteq Nat
  BY DEF Ids
<1>b. beforeId \in Nat /\ \A i \in 1..Len(items) : items[i] \subseteq Ids
  BY PagesAssumption DEF TypeOK
<1>1. ASSUME NEW o \in Ops, Landed(o) PROVE OrderInv'
  <2>1. CASE crossed
    <3>1. crossed'
      BY <1>1, <2>1 DEF Landed, histVars
    <3> QED BY <3>1 DEF OrderInv, NewestToOldest
  <2>2. CASE ~crossed
    <3> DEFINE f == ops[o]  P == f.page
    <3>1. /\ o \in Listing /\ Listing' = {}
          /\ \A i, j \in 1..Len(items) : i < j => \A a \in items[i], b \in items[j] : b < a
          /\ beforeId # 0 => \A i \in 1..Len(items) : \A a \in items[i] : beforeId <= a
      BY <1>1, <2>2, LandsAlone DEF OrderInv, NewestToOldest
    <3>2. ~f.reset => beforeId # 0 /\ \A a \in P : a < beforeId
      BY <2>2, <3>1 DEF OrderInv
    <3>3. P \in SUBSET Ids /\ items \in Seq(SUBSET Ids) /\ f.reset \in BOOLEAN
      BY DEF TypeOK, Op
    <3>4. \/ items' = items /\ beforeId' = beforeId
          \/ /\ \/ f.reset /\ items' = <<P>>
                \/ ~f.reset /\ items' = Append(items, P)
             /\ \/ P = {} /\ beforeId' = 0
                \/ beforeId' \in P /\ \A g \in P : beforeId' <= g
      BY <1>1, <3>3 DEF Landed, Show
    <3> HIDE DEF P, f
    <3> SUFFICES
          /\ \A i, j \in 1..Len(items') : i < j => \A a \in items'[i], b \in items'[j] : b < a
          /\ beforeId' # 0 => \A i \in 1..Len(items') : \A a \in items'[i] : beforeId' <= a
      BY <3>1 DEF OrderInv, NewestToOldest
    <3>5. CASE items' = items /\ beforeId' = beforeId
      BY <3>1, <3>5
    <3>6. CASE items' = <<P>> /\ (P = {} \/ \A g \in P : beforeId' <= g)
      BY <3>6
    <3>7. CASE /\ ~f.reset /\ items' = Append(items, P)
               /\ \/ P = {} /\ beforeId' = 0
                  \/ beforeId' \in P /\ \A g \in P : beforeId' <= g
      <4> DEFINE n == Len(items)
      <4>1. /\ Len(items') = n + 1 /\ items'[n + 1] = P
            /\ \A i \in 1..n : items'[i] = items[i]
        <5> DEFINE T == SUBSET Ids
        <5> HIDE DEF T
        <5>1. P \in T /\ items \in Seq(T)
          BY <3>3 DEF T
        <5>2. /\ Len(Append(items, P)) = Len(items) + 1 /\ Append(items, P)[Len(items) + 1] = P
              /\ \A i \in 1..Len(items) : Append(items, P)[i] = items[i]
          BY <5>1, Appended, Zenon
        <5> QED BY <3>7, <5>2, Zenon DEF n
      <4>2. n \in Nat
        BY <3>3
      <4>3. beforeId # 0 /\ \A a \in P : a < beforeId
        BY <3>2, <3>7
      <4> HIDE DEF n
      <4>4. \A i \in 1..n : \A a \in items[i] : a \in Nat /\ beforeId <= a
        BY <1>a, <1>b, <3>1, <4>3 DEF n
      <4>5. \A i \in 1..n : \A a \in items[i], b \in P : b < a
        BY <1>a, <1>b, <3>3, <4>3, <4>4
      <4>6. \A i, j \in 1..Len(items') : i < j => i \in 1..n /\ (j \in 1..n \/ j = n + 1)
        BY <4>1, <4>2
      <4>7. \A i, j \in 1..Len(items') : i < j => \A a \in items'[i], b \in items'[j] : b < a
        BY <3>1, <4>1, <4>5, <4>6 DEF n
      <4>8. ASSUME beforeId' # 0, NEW i \in 1..Len(items'), NEW a \in items'[i]
            PROVE  beforeId' <= a
        <5>1. beforeId' \in P /\ \A g \in P : beforeId' <= g
          BY <3>7, <4>8
        <5>2. i \in 1..n \/ i = n + 1
          BY <4>1, <4>2
        <5>3. CASE i \in 1..n
          <6>1. a \in Nat /\ beforeId <= a
            BY <4>1, <4>4, <5>3
          <6>2. beforeId' \in Nat /\ beforeId' < beforeId
            BY <1>a, <3>3, <4>3, <5>1
          <6> QED BY <1>b, <6>1, <6>2
        <5>4. CASE i = n + 1
          BY <4>1, <5>1, <5>4
        <5> QED BY <5>2, <5>3, <5>4
      <4> QED BY <4>7, <4>8
    <3> QED BY <3>4, <3>5, <3>6, <3>7
  <2> QED BY <2>1, <2>2
<1>2. ASSUME NEW o \in Ops, NEW r \in BOOLEAN, StartLoad(o, r), r \/ beforeId # 0
      PROVE  OrderInv'
  <2>1. CASE crossed'
    BY <2>1 DEF OrderInv, NewestToOldest
  <2>2. CASE ~crossed'
    <3>1. /\ Listing = {} /\ Listing' = {o} /\ (r \/ ~crossed)
          /\ ops'[o].page = {} /\ ops'[o].reset = r
          /\ ~r => ops'[o].cursor = beforeId
      BY <1>2, <2>2, StartsAlone
    <3>2. CASE r
      <4>1. items' = <<>> /\ beforeId' = 0
        BY <1>2, <3>2 DEF StartLoad
      <4>2. Len(items') = 0
        BY <4>1
      <4>3. NewestToOldest'
        BY <4>2 DEF NewestToOldest
      <4>4. /\ \A p, q \in Listing' : p = q
            /\ beforeId' = 0
            /\ \A p \in Listing' : ops'[p].reset
        BY <3>1, <3>2, <4>1
      <4> QED BY <4>3, <4>4 DEF OrderInv
    <3>3. CASE ~r
      <4>1. items' = items /\ beforeId' = beforeId /\ ~crossed
        BY <1>2, <3>1, <3>3 DEF StartLoad
      <4> QED BY <1>2, <3>1, <3>3, <4>1 DEF OrderInv, NewestToOldest
    <3> QED BY <3>2, <3>3
  <2> QED BY <2>1, <2>2
<1>3. ASSUME UNCHANGED <<items, beforeId, crossed>>, Listing' = Listing,
             \A p \in Listing : ops'[p] = ops[p]
      PROVE  OrderInv'
  BY <1>3 DEF OrderInv, NewestToOldest
<1>4. ASSUME UNCHANGED <<items, beforeId, crossed, ops>> PROVE OrderInv'
  BY <1>3, <1>4 DEF Listing
<1>5. ASSUME NEW o \in Ops, NEW a, NEW row, NEW ids, Post(o, a, row, ids) PROVE OrderInv'
  <2>1. ops[o].at = "free" /\ ops'[o].at = "post" /\ \A p \in Ops \ {o} : ops'[p] = ops[p]
    BY <1>5 DEF Post, TypeOK, Free
  <2>2. Listing' = Listing /\ \A p \in Listing : ops'[p] = ops[p]
    BY <2>1 DEF Listing
  <2> QED BY <1>3, <1>5, <2>2 DEF Post
<1>6. ASSUME NEW o \in Ops, Handlers(o) PROVE OrderInv'
  <2>1. UNCHANGED <<items, beforeId, crossed>>
    BY <1>6, HandlerTypes DEF tableVars
  <2>2. CASE ~ServeList(o)
    BY <1>3, <1>6, <2>1, <2>2, ListingKept
  <2>3. CASE ServeList(o)
    <3> DEFINE c == ops[o].cursor
               P == ListDLQ(c)
    <3>1. \A e \in P : c = 0 \/ e < c
      BY ListTypes
    <3> HIDE DEF P
    <3>2. /\ \/ ops' = [ops EXCEPT ![o] = [ops[o] EXCEPT !.at = "listed", !.page = P]]
             \/ ops' = [ops EXCEPT ![o] = [ops[o] EXCEPT !.at = "listed", !.ok = FALSE]]
          /\ ops[o].at = "list"
      BY <2>3 DEF ServeList, Serving, P
    <3>3. /\ \A p \in Ops \ {o} : ops'[p] = ops[p]
          /\ ops'[o].at = "listed" /\ ops'[o].page \in {P, ops[o].page}
          /\ ops'[o].cursor = c /\ ops'[o].reset = ops[o].reset
      <4>1. ops \in [Ops -> Op] /\ ops[o] \in Op
        BY DEF TypeOK
      <4>2. CASE ops' = [ops EXCEPT ![o] = [ops[o] EXCEPT !.at = "listed", !.page = P]]
        BY <4>1, <4>2 DEF Op
      <4>3. CASE ops' = [ops EXCEPT ![o] = [ops[o] EXCEPT !.at = "listed", !.ok = FALSE]]
        BY <4>1, <4>3 DEF Op
      <4> QED BY <3>2, <4>2, <4>3
    <3>4. Listing' = Listing /\ o \in Listing
      BY <3>2, <3>3 DEF Listing
    <3> QED BY <2>1, <3>1, <3>3, <3>4 DEF OrderInv, NewestToOldest
  <2> QED BY <2>2, <2>3
<1>7. ASSUME NEW e \in Ids, OutsideDelete(e) PROVE OrderInv'
  BY <1>4, <1>7 DEF OutsideDelete, tableVars
<1>8. ASSUME NEW S \in SUBSET (selected \cup Rows), Select(S) PROVE OrderInv'
  BY <1>4, <1>8 DEF Select, histVars
<1>9. CASE Arrive \/ HideToast \/ UNCHANGED vars
  BY <1>4, <1>9 DEF Arrive, HideToast, vars, tableVars, histVars
<1>10. ASSUME NEW o \in Ops, NEW r \in BOOLEAN, Reload(o, r) /\ (r \/ beforeId # 0) PROVE OrderInv'
  BY <1>2, <1>10 DEF Reload
<1>11. ASSUME NEW o \in Ops, NEW m, Report(o, m) PROVE OrderInv'
  BY <1>2, <1>11 DEF Report
<1>12. ASSUME NEW o \in Ops, NEW p \in Ops, GiveUp(o, p) PROVE OrderInv'
  <2>1. Listing' = Listing /\ \A q \in Listing : ops'[q] = ops[q]
    BY <1>12, GivenUp DEF Listing
  <2>2. UNCHANGED <<items, beforeId, crossed>>
    BY <1>12, GivenUp DEF tableVars, histVars
  <2> QED BY <1>3, <2>1, <2>2
<1> QED
  BY <1>1, <1>5, <1>6, <1>7, <1>8, <1>9, <1>10, <1>11, <1>12, NextEffects DEF Effects

LEMMA InitOrder == Init => OrderInv
<1> SUFFICES ASSUME Init PROVE OrderInv
  OBVIOUS
<1> DEFINE first == CHOOSE p \in Ops : TRUE
<1>1. /\ \A o \in Ops : ops[o].reset
      /\ \A o \in Ops : ops[o].at = "list" \/ ops[o].at = "listed" => o = first
  <2> HIDE DEF first
  <2>1. ops = [o \in Ops |-> IF o = first THEN [Free EXCEPT !.at = "list"] ELSE Free]
    BY DEF Init, first
  <2> QED BY <2>1 DEF Free
<1>2. items = <<>> /\ beforeId = 0
  BY DEF Init
<1> HIDE DEF first
<1> QED BY <1>1, <1>2 DEF OrderInv, NewestToOldest, Listing

\* NewestToOldest: the table reads newest to oldest without a row twice.
THEOREM InOrder == Spec => []NewestToOldest
<1> DEFINE I == TypeOK /\ HoldInv /\ OrderInv
<1>1. Init => I
  BY InitTypes, InitHolds, InitOrder
<1>2. I /\ [Next]_vars => I'
  BY TypeStep, HoldStep, OrderStep
<1>3. I => NewestToOldest
  BY DEF OrderInv
<1> QED BY <1>1, <1>2, <1>3, PTL DEF Spec
=============================================================================
