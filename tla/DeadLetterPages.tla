--------------------------- MODULE DeadLetterPages ---------------------------
(***************************************************************************)
(* The two dead-letter pages of the web console, admin/queue and           *)
(* admin/webhooks/dlq, and the handlers of the backend they call (ListDLQ, *)
(* RequeueDLQ, DeleteDLQ and their webhook twins in admin_handlers.go).    *)
(*                                                                         *)
(* Every click starts an async function.  What it does between two awaits  *)
(* is one step here; a handler of the backend takes one step per Redis     *)
(* call.  The two pages differ in how they report a failure, so each has   *)
(* its own handlers and shares the list they operate on.                   *)
(***************************************************************************)
EXTENDS Naturals, Sequences, FiniteSets

CONSTANTS
    Ops,       \* async functions of the page that may run at the same time
    MaxId,     \* bound: entries ever written to the stream
    Count,     \* the count the page asks for
    Budgets    \* bounds: clicks that change the stream, arrivals, faults, outsiders

ASSUME PagesAssumption ==
    /\ MaxId \in Nat /\ Count \in Nat \ {0}
    /\ Budgets \subseteq [{"click", "arrive", "fault", "outside"} -> Nat]

VARIABLES
    kind,      \* the page that is open, "queue" or "webhooks"
    dlq,       \* ids of the entries in the dead-letter stream
    top,       \* last id given out
    sent,      \* how often each entry was put back on the stream or delivered
    items,     \* the table: the pages it was filled with, each newest first
    beforeId,  \* paging cursor, 0 when null
    loading, error, selected, toast,
    ops,       \* the running async functions
    crossed,   \* history: a list load began while another was in flight
    contested, \* history: entries two handlers held at once, or whose resend or
               \* XDEL was done without an answer, or failed
    deleted,   \* history: entries the user asked to delete
    outside,   \* history: entries another administrator deleted
    unheard,   \* history: entries a handler took off whose fetch had failed by then
    budget     \* what is left of one of the Budgets

streamVars == <<dlq, top, sent>>
tableVars  == <<items, beforeId, loading, error, selected>>
histVars   == <<crossed, contested, deleted, outside, unheard>>
vars == <<kind, streamVars, tableVars, toast, ops, histVars, budget>>

Ids  == 1..MaxId
Free == [at |-> "free", act |-> "none", row |-> FALSE, ids |-> {}, held |-> 0, ok |-> TRUE,
         deserted |-> FALSE, reset |-> TRUE, cursor |-> 0, page |-> {}]
Op   == [at : {"free", "post", "serve", "held", "resent", "answer", "list", "listed"},
         act : {"none", "requeue", "requeueAll", "delete"}, row : BOOLEAN,
         ids : SUBSET Ids, held : 0..MaxId, ok : BOOLEAN,
         deserted : BOOLEAN, reset : BOOLEAN, cursor : 0..MaxId, page : SUBSET Ids]

TypeOK ==
    /\ kind \in {"queue", "webhooks"}
    /\ top \in 0..MaxId /\ dlq \subseteq 1..top /\ sent \in [Ids -> Nat]
    /\ items \in Seq(SUBSET Ids) /\ beforeId \in 0..MaxId
    /\ loading \in BOOLEAN /\ error \in {"none", "load", "operation"}
    /\ selected \subseteq Ids /\ toast \in {"hidden", "success", "error"}
    /\ ops \in [Ops -> Op]
    /\ crossed \in BOOLEAN /\ contested \subseteq Ids
    /\ deleted \subseteq Ids /\ outside \subseteq Ids /\ unheard \subseteq Ids
    /\ budget \in [{"click", "arrive", "fault", "outside"} -> Nat]

-----------------------------------------------------------------------------
Have(b)  == budget[b] > 0
Spend(b) == budget' = [budget EXCEPT ![b] = @ - 1]

\* The ids XREVRANGE and XRANGE return with a COUNT.
Newest(S) == {e \in S : Cardinality({f \in S : f > e}) < Count}
Oldest(S) == {e \in S : Cardinality({f \in S : f < e}) < Count}

\* Mutant: the cursor is inclusive.
ListDLQInclusive(cursor) == Newest({e \in dlq : cursor = 0 \/ e <= cursor})
\* ListDLQ and ListWebhookDLQ: before_id is an exclusive upper bound.
ListDLQ(cursor) ==
    Newest({e \in dlq : cursor = 0 \/ e < cursor})

Rows == UNION {items[i] : i \in 1..Len(items)}

Listing == {o \in Ops : ops[o].at \in {"list", "listed"}}

\* loadDLQ and loadList up to their await: a reset empties the table before it
\* asks; the selection is only cleared when an answer arrives.
StartLoad(o, reset) ==
    /\ ops' = [ops EXCEPT ![o] = [Free EXCEPT !.at = "list", !.reset = reset,
                                              !.cursor = IF reset THEN 0 ELSE beforeId]]
    /\ items' = IF reset THEN <<>> ELSE items
    /\ beforeId' = IF reset THEN 0 ELSE beforeId
    /\ loading' = TRUE /\ error' = "none" /\ UNCHANGED selected
    /\ crossed' = \/ Listing # {}
                  \/ crossed /\ ~reset

\* Mutants: the selection outlives the table; an empty answer is asked for again.
ShowKeepsSelection(o) ==
    /\ loading' = FALSE /\ UNCHANGED selected
    /\ IF ops[o].ok
       THEN /\ items' = IF ops[o].reset THEN <<ops[o].page>> ELSE Append(items, ops[o].page)
            /\ beforeId' \in ops[o].page \cup {0} /\ UNCHANGED error
       ELSE error' = "load" /\ UNCHANGED <<items, beforeId>>
    /\ ops' = [ops EXCEPT ![o] = Free]
ShowAsksAgain(o) ==
    IF ops[o].page # {} \/ ~ops[o].ok THEN ShowKeepsSelection(o)
    ELSE /\ ops' = [ops EXCEPT ![o].at = "list"]
         /\ UNCHANGED <<loading, error, items, beforeId, selected>>

\* The rest of loadDLQ and loadList: the table, the cursor and the selection
\* change on success only, loading always.
Show(o) ==
    LET f == ops[o] IN
    /\ loading' = FALSE
    /\ IF f.ok
       THEN /\ items' = IF f.reset THEN <<f.page>> ELSE Append(items, f.page)
            /\ \/ f.page = {} /\ beforeId' = 0
               \/ \E e \in f.page : beforeId' = e /\ \A g \in f.page : e <= g
            /\ selected' = {} /\ UNCHANGED error
       ELSE error' = "load" /\ UNCHANGED <<items, beforeId, selected>>
    /\ ops' = [ops EXCEPT ![o] = Free]

Landed(o) ==
    /\ ops[o].at = "listed" /\ Show(o)
    /\ UNCHANGED <<kind, streamVars, toast, histVars, budget>>

LoadDLQ(o)  == kind = "queue" /\ Landed(o)
LoadList(o) == kind = "webhooks" /\ Landed(o)

\* The table is shown when nothing is loading, no error is shown and rows exist.
QueueTable   == kind = "queue" /\ ~loading /\ error = "none" /\ Rows # {}
WebhookTable == kind = "webhooks" /\ ~loading /\ error = "none" /\ Rows # {}
Table        == QueueTable \/ WebhookTable

Reload(o, reset) ==
    /\ ops[o].at = "free" /\ ~loading
    /\ StartLoad(o, reset)
    /\ UNCHANGED <<kind, streamVars, toast, contested, deleted, outside, unheard, budget>>

Refresh(o)         == kind = "queue" /\ Reload(o, TRUE)
LoadMore(o)        == QueueTable /\ beforeId # 0 /\ Reload(o, FALSE)
WebhookRefresh(o)  == kind = "webhooks" /\ Reload(o, TRUE)
WebhookLoadMore(o) == WebhookTable /\ beforeId # 0 /\ Reload(o, FALSE)

Select(S) ==
    /\ Table /\ selected' = S
    /\ UNCHANGED <<kind, streamVars, items, beforeId, loading, error, toast, ops,
                   histVars, budget>>
Check(e)       == e \in Rows /\ Select(IF e \in selected THEN selected \ {e} ELSE selected \cup {e})
ToggleAll      == kind = "queue" /\ \E S \in {Rows, {}} : Select(S)
WebhookToggleAll == kind = "webhooks" /\ \E S \in {Rows, {}} : Select(S)

-----------------------------------------------------------------------------
\* A click sends a POST: error is cleared first, nothing else is locked.
Post(o, act, row, ids) ==
    /\ ops[o].at = "free" /\ Have("click") /\ Spend("click")
    /\ ops' = [ops EXCEPT ![o] = [Free EXCEPT !.at = "post", !.act = act, !.row = row, !.ids = ids]]
    /\ error' = "none"
    /\ deleted' = IF act = "delete" THEN deleted \cup ids ELSE deleted
    /\ UNCHANGED <<kind, streamVars, items, beforeId, loading, selected, toast,
                   crossed, contested, outside, unheard>>

Requeue(o, ids)              == kind = "queue" /\ Post(o, "requeue", FALSE, ids)
DeleteDLQ(o, ids)            == kind = "queue" /\ Post(o, "delete", FALSE, ids)
WebhookRequeue(o, row, ids)  == kind = "webhooks" /\ Post(o, "requeue", row, ids)
RemoveDLQ(o, row, ids)       == kind = "webhooks" /\ Post(o, "delete", row, ids)

\* An empty selection returns before the POST.  On the queue page a row's button
\* and a selection of that row behave alike.
RequeueSelected(o) == selected # {} /\ Requeue(o, selected)
DeleteSelected(o)  == selected # {} /\ DeleteDLQ(o, selected)
RequeueAll(o)      == kind = "queue" /\ Post(o, "requeueAll", FALSE, {})
RequeueRow(o, e)   == QueueTable /\ e \in Rows /\ Requeue(o, {e})
DeleteRow(o, e)    == QueueTable /\ e \in Rows /\ DeleteDLQ(o, {e})

WebhookRequeueSelected(o) == selected # {} /\ WebhookRequeue(o, FALSE, selected)
WebhookDeleteSelected(o)  == selected # {} /\ RemoveDLQ(o, FALSE, selected)
WebhookRow(o, e) ==
    /\ WebhookTable /\ e \in Rows
    /\ WebhookRequeue(o, TRUE, {e}) \/ RemoveDLQ(o, TRUE, {e})

\* Mutant: the list is extended instead of reloaded.
ReportLoadsMore(o, message) ==
    /\ ops[o].at = "answer" /\ toast' = message /\ StartLoad(o, FALSE)
    /\ UNCHANGED <<kind, streamVars, contested, deleted, outside, unheard, budget>>
\* The answer arrives: the message, then a reset load.
Report(o, message) ==
    /\ ops[o].at = "answer" /\ toast' = message
    /\ StartLoad(o, TRUE)
    /\ UNCHANGED <<kind, streamVars, contested, deleted, outside, unheard, budget>>

\* The queue page tells success from failure by the shared error variable.
QueueReport(o) ==
    /\ kind = "queue"
    /\ Report(o, IF ops[o].ok /\ error = "none" THEN "success" ELSE "error")

\* Mutant: a message kind that is not displayed.
WebhookReportInfo(o) == kind = "webhooks" /\ Report(o, "info")
\* The webhook page's catch: only a row's button opens an error toast, and the
\* error it sets for a selection is cleared by the load that follows at once.
WebhookReport(o) ==
    /\ kind = "webhooks"
    /\ Report(o, IF ops[o].ok THEN "success" ELSE IF ops[o].row THEN "error" ELSE toast)

\* Toast.svelte hides a message after its timeout.
HideToast ==
    /\ toast # "hidden" /\ toast' = "hidden"
    /\ UNCHANGED <<kind, streamVars, tableVars, ops, histVars, budget>>

-----------------------------------------------------------------------------
\* The backend.  A failed Redis call or a failed fetch spends a fault.  Nothing ties
\* a handler to the fetch that started it: it runs on when the browser or a proxy
\* has given up (a handler that resends may take three seconds an entry).
Serving(o, f) ==
    /\ ops' = [ops EXCEPT ![o] = f]
    /\ UNCHANGED <<kind, top, tableVars, toast, crossed, deleted, outside>>
Fault == Have("fault") /\ Spend("fault")

\* RequeueDLQ with all=true takes the oldest entries, although the page lists
\* the newest; no id at all is answered with 400.
Accept(o) ==
    LET f   == ops[o]
        ids == IF f.act = "requeueAll" THEN Oldest(dlq) ELSE f.ids IN
    /\ f.at = "post"
    /\ Serving(o, IF ids = {}
                  THEN IF f.deserted THEN Free ELSE [f EXCEPT !.at = "answer", !.ok = FALSE]
                  ELSE [f EXCEPT !.at = "serve", !.ids = ids])
    /\ UNCHANGED <<dlq, sent, contested, unheard, budget>>

\* The request does not reach the backend.
PostFails(o) ==
    /\ ops[o].at = "post" /\ ~ops[o].deserted /\ Fault
    /\ Serving(o, [ops[o] EXCEPT !.at = "answer", !.ok = FALSE])
    /\ UNCHANGED <<dlq, sent, contested, unheard>>

\* The fetch fails at any time before the answer.  The page's function o goes on to
\* its catch, the handler is from now on p's and answers nobody.
GiveUp(o, p) ==
    /\ ops[o].at \in {"post", "serve", "held", "resent"} /\ ~ops[o].deserted
    /\ ops[p].at = "free" /\ Fault
    /\ ops' = [ops EXCEPT ![o] = [Free EXCEPT !.at = "answer", !.row = ops[o].row, !.ok = FALSE],
                          ![p] = [ops[o] EXCEPT !.deserted = TRUE]]
    /\ UNCHANGED <<kind, streamVars, tableVars, toast, histVars>>

Holders(e) == {o \in Ops : ops[o].held = e}

\* Mutant: the entry is not looked up first.
ReadUnchecked(o) ==
    /\ ops[o].at = "serve" /\ ops[o].act # "delete"
    /\ \E e \in ops[o].ids : Serving(o, [ops[o] EXCEPT !.at = "held", !.held = e])
    /\ UNCHANGED <<dlq, sent, contested, unheard, budget>>
\* XRANGE id id: an entry that is gone counts as failed and is skipped.
ReadEntry(o) ==
    /\ ops[o].at = "serve" /\ ops[o].act # "delete"
    /\ \E e \in ops[o].ids :
        /\ Serving(o, IF e \in dlq THEN [ops[o] EXCEPT !.at = "held", !.held = e]
                                   ELSE [ops[o] EXCEPT !.ids = @ \ {e}])
        /\ contested' = IF e \in dlq /\ Holders(e) # {} THEN contested \cup {e} ELSE contested
    /\ UNCHANGED <<dlq, sent, unheard, budget>>

Skip(f) == [f EXCEPT !.at = "serve", !.held = 0, !.ids = @ \ {f.held}]

\* Mutant: the entry is deleted although the resend failed.
ResendIgnoresError(o) ==
    /\ ops[o].at = "held" /\ Serving(o, [ops[o] EXCEPT !.at = "resent"])
    /\ \/ sent' = [sent EXCEPT ![ops[o].held] = @ + 1] /\ UNCHANGED budget
       \/ Fault /\ UNCHANGED sent
    /\ UNCHANGED <<dlq, contested, unheard>>
\* XADD to the codegen stream, or the signed POST to the webhook endpoint.  It may
\* have arrived although it timed out: the entry stays and will be sent again.
Resend(o) ==
    LET e    == ops[o].held
        Sent == [sent EXCEPT ![e] = @ + 1] IN
    /\ ops[o].at = "held"
    /\ \/ /\ sent' = Sent /\ Serving(o, [ops[o] EXCEPT !.at = "resent"])
          /\ UNCHANGED <<contested, budget>>
       \/ /\ Serving(o, Skip(ops[o])) /\ Fault
          /\ \/ UNCHANGED <<sent, contested>>
             \/ sent' = Sent /\ contested' = contested \cup {e}
    /\ UNCHANGED <<dlq, unheard>>

\* Entry e is taken off by o's handler.
TakeOff(o, e) ==
    /\ dlq' = dlq \ {e}
    /\ unheard' = IF ops[o].deserted THEN unheard \cup {e} ELSE unheard

\* XDEL after a successful resend; its error is discarded.
Forget(o) ==
    LET e == ops[o].held IN
    /\ ops[o].at = "resent" /\ Serving(o, Skip(ops[o]))
    /\ \/ TakeOff(o, e) /\ UNCHANGED <<contested, budget>>
       \/ Fault /\ contested' = contested \cup {e} /\ UNCHANGED <<dlq, unheard>>
    /\ UNCHANGED sent

\* DeleteDLQ and DeleteWebhookDLQ: one XDEL per id, errors not counted.
DeleteEntry(o) ==
    /\ ops[o].at = "serve" /\ ops[o].act = "delete"
    /\ \E e \in ops[o].ids :
        /\ Serving(o, [ops[o] EXCEPT !.ids = @ \ {e}])
        /\ \/ TakeOff(o, e) /\ UNCHANGED budget
           \/ Fault /\ UNCHANGED <<dlq, unheard>>
    /\ UNCHANGED <<sent, contested>>

\* 200 with the counts, which no page reads; or the answer is lost.
Answer(o) ==
    /\ ops[o].at = "serve" /\ ops[o].ids = {}
    /\ \/ ops[o].deserted /\ Serving(o, Free) /\ UNCHANGED budget
       \/ ~ops[o].deserted /\ Serving(o, [ops[o] EXCEPT !.at = "answer"]) /\ UNCHANGED budget
       \/ ~ops[o].deserted /\ Serving(o, [ops[o] EXCEPT !.at = "answer", !.ok = FALSE]) /\ Fault
    /\ UNCHANGED <<dlq, sent, contested, unheard>>

ServeList(o) ==
    /\ ops[o].at = "list"
    /\ \/ Serving(o, [ops[o] EXCEPT !.at = "listed", !.page = ListDLQ(ops[o].cursor)])
          /\ UNCHANGED budget
       \/ Serving(o, [ops[o] EXCEPT !.at = "listed", !.ok = FALSE]) /\ Fault
    /\ UNCHANGED <<dlq, sent, contested, unheard>>

\* A worker dead-letters a message; another administrator deletes an entry.
Arrive ==
    /\ Have("arrive") /\ Spend("arrive") /\ top < MaxId
    /\ top' = top + 1 /\ dlq' = dlq \cup {top'}
    /\ UNCHANGED <<kind, sent, tableVars, toast, ops, histVars>>
OutsideDelete(e) ==
    /\ Have("outside") /\ Spend("outside") /\ e \in dlq
    /\ dlq' = dlq \ {e} /\ outside' = outside \cup {e}
    /\ UNCHANGED <<kind, top, sent, tableVars, toast, ops, crossed, contested,
                   deleted, unheard>>

-----------------------------------------------------------------------------
\* onMount has run: a first load is in flight, over a stream that
\* leaves room for the arrivals.
Init ==
    /\ kind \in {"queue", "webhooks"} /\ budget \in Budgets
    /\ top \in 0..MaxId /\ top + budget["arrive"] = MaxId /\ dlq = 1..top
    /\ sent = [e \in Ids |-> 0]
    /\ items = <<>> /\ beforeId = 0 /\ loading = TRUE /\ error = "none" /\ selected = {}
    /\ toast = "hidden"
    /\ ops = [o \in Ops |-> IF o = CHOOSE p \in Ops : TRUE THEN [Free EXCEPT !.at = "list"] ELSE Free]
    /\ crossed = FALSE /\ contested = {} /\ deleted = {} /\ outside = {} /\ unheard = {}

QueueUser(o) ==
    \/ Refresh(o) \/ LoadMore(o) \/ RequeueSelected(o) \/ DeleteSelected(o) \/ RequeueAll(o)
    \/ \E e \in Ids : RequeueRow(o, e) \/ DeleteRow(o, e)
WebhookUser(o) ==
    \/ WebhookRefresh(o) \/ WebhookLoadMore(o)
    \/ WebhookRequeueSelected(o) \/ WebhookDeleteSelected(o)
    \/ \E e \in Ids : WebhookRow(o, e)
Page(o)  == LoadDLQ(o) \/ LoadList(o) \/ QueueReport(o) \/ WebhookReport(o)
Serve(o) == \/ Accept(o) \/ PostFails(o) \/ ReadEntry(o) \/ Resend(o) \/ Forget(o)
            \/ DeleteEntry(o) \/ Answer(o) \/ ServeList(o)

Next ==
    \/ \E o \in Ops : QueueUser(o) \/ WebhookUser(o) \/ Page(o) \/ Serve(o)
    \/ \E o, p \in Ops : GiveUp(o, p)
    \/ \E e \in Ids : Check(e) \/ OutsideDelete(e)
    \/ ToggleAll \/ WebhookToggleAll \/ HideToast \/ Arrive

\* The browser settles every fetch and the backend runs every handler to its
\* end.  The user owes nothing.
Fairness == \A o \in Ops : WF_vars(Page(o)) /\ WF_vars(Serve(o))
Spec == Init /\ [][Next]_vars /\ Fairness

-----------------------------------------------------------------------------
\* Unless two list loads overlapped, the table reads newest to oldest without
\* a row twice (loadDLQ's append, paging by next_before_id).
NewestToOldest ==
    ~crossed => \A i, j \in 1..Len(items) : i < j => \A a \in items[i], b \in items[j] : b < a

\* No function of the page runs; handlers nobody waits for may.
Idle == \A o \in Ops : ops[o].at = "free" \/ ops[o].deserted

\* Unless two list loads overlapped, an idle page lists no entry that its own
\* operations took off the stream: the reload after each of them is enough.  What
\* it misses is taken off by a handler whose fetch failed before: the reload that
\* follows the failure lists the entry while the handler is still about to remove it.
ListFresh ==
    Idle /\ ~crossed => Rows \subseteq dlq \cup outside \cup unheard

\* On an idle page that shows no error, whatever is selected can be seen: a
\* later "selected" button never acts on rows the administrator cannot see.
SelectionVisible ==
    Idle /\ error = "none" => selected \subseteq Rows

\* An entry is put back or delivered twice only if two handlers held it at once, a
\* resend of it timed out although it arrived, or its XDEL failed (RequeueDLQ and
\* RequeueWebhookDLQ read, resend, delete).
ResentOnce == \A e \in Ids : sent[e] > 1 => e \in contested

\* An entry leaves the stream only after it was resent or somebody deleted it.
NothingDropped ==
    \A e \in 1..top : e \in dlq \/ sent[e] > 0 \/ e \in deleted \cup outside

\* The page always comes back from "Loading" with a table or an error, whatever
\* fails and however loads overlap: Refresh is disabled until it does.
LoadingEnds == []<>~loading

-----------------------------------------------------------------------------
(* The inductive invariants behind the properties above.                    *)

\* A handler holds an entry from its lookup to its deletion.
HoldInv == \A o \in Ops : ops[o].held # 0 <=> ops[o].at \in {"held", "resent"}

\* A handler about to delete an entry has resent it, or was told to delete it.
KeptInv ==
    /\ NothingDropped
    /\ \A o \in Ops : /\ ops[o].at = "resent" => sent[ops[o].held] > 0
                      /\ ops[o].act = "delete" => ops[o].ids \subseteq deleted

\* An entry nobody contests has one holder at most, which finds it unsent, and one
\* that was sent is in the hand of the handler that will delete it, or gone.
Once(e) ==
    /\ sent[e] <= 1
    /\ \A o, p \in Holders(e) : o = p
    /\ \A o \in Holders(e) : ops[o].at = "held" => sent[e] = 0
    /\ e \in dlq => sent[e] = 0 \/ Holders(e) # {}
    /\ e > top => sent[e] = 0 /\ Holders(e) = {}
OnceInv == \A e \in Ids \ contested : Once(e)

\* What is listed is on the stream, or the operation that took it off still runs
\* in the page and will load the list again, or had been given up before.
AtWork == \E o \in Ops : ops[o].at \in {"serve", "held", "resent", "answer"} /\ ~ops[o].deserted
Known  == dlq \cup outside \cup unheard
FreshInv ==
    ~crossed =>
        /\ \A o, p \in Listing : o = p
        /\ Rows \subseteq Known \/ AtWork
        /\ \A o \in Listing : ops[o].page \subseteq Known \/ AtWork

\* The only load in flight asks for what is older than every row.
OrderInv ==
    /\ NewestToOldest
    /\ ~crossed =>
        /\ \A o, p \in Listing : o = p
        /\ beforeId # 0 => \A i \in 1..Len(items) : \A a \in items[i] : beforeId <= a
        /\ \A o \in Listing : ~ops[o].reset =>
            /\ ops[o].cursor = beforeId /\ beforeId # 0
            /\ \A a \in ops[o].page : a < beforeId
=============================================================================
