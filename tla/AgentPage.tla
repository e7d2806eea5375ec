------------------------------ MODULE AgentPage ------------------------------
(***************************************************************************)
(* The agent page of the web console, agents/[agentId]: its load function, *)
(* the rule dialog (RuleBuilderModal), the SDK dialog it hands over to     *)
(* (SDKPickerModal) with its polling of a generation job, and the API key  *)
(* dialog.  The backend is reduced to what the page can see of it: stored  *)
(* rules, keys, and generation jobs known to some of its processes only.   *)
(*                                                                         *)
(* A step is the code between two awaits, with the flush of Svelte's       *)
(* reactive blocks that follows it.  Requests are answered by the backend  *)
(* in one step and land in another, in any order.                          *)
(***************************************************************************)
EXTENDS Naturals

CONSTANTS
    Saves, Starts, Polls,           \* requests of a kind in flight at a time, numbered
    Pickers,                        \* SDK dialogs that live at a time, numbered
    MaxOpen, MaxJobs, MaxKeys,      \* bounds: rule dialogs opened, jobs, keys
    Budgets                         \* bounds on what the user and the network do

Kinds == {"open", "edit", "start", "key", "get", "fault", "logout"}

ASSUME AgentPageAssumption ==
    /\ \A C \in {Saves, Starts, Polls, Pickers} : C \subseteq Nat
    /\ \A n \in {MaxOpen, MaxJobs, MaxKeys} : n \in Nat
    /\ Budgets \subseteq [Kinds -> Nat]

VARIABLES
    token,      \* aura_token is in localStorage; another tab may remove it
    data,       \* what load returned: the agent and the keys listed
    form,       \* RuleBuilderModal
    opening,    \* how often the rule dialog was opened
    saves,      \* running handleSave calls
    picker,     \* SDKPickerModal: one that is open at most, and closed ones whose
                \* interval or calls outlive them
    starts,     \* running startGenerate calls of each
    polls,      \* running checkJob calls of each
    dialog,     \* the API key dialog
    create,     \* the running createApiKey call
    revoke,     \* the running handleRevokeKey call
    stored,     \* backend: rules stored for each opening of the dialog
    jobs,       \* backend: generation jobs
    made,       \* backend: API keys created
    revoked,    \* backend: API keys revoked
    twice,      \* history: openings whose save may be sent again by mistake
    misled,     \* history: dialogs that show what an answer said which was still under
                \* way when polling had ended or another job had been started, or
                \* whose error a download took off the screen
    seen,       \* history: keys whose secret was on the screen
    abandoned,  \* history: keys whose answer was lost or found no dialog
    budget

ruleVars    == <<form, opening, saves, stored, twice>>
pickerVars  == <<picker, starts, polls, misled>>
keyVars     == <<dialog, create, revoke, made, revoked, seen, abandoned>>
vars == <<token, data, ruleVars, pickerVars, jobs, keyVars, budget>>

Openings == 1..MaxOpen
Jobs     == 1..MaxJobs
Keys     == 1..MaxKeys

Blank    == [open |-> FALSE, type |-> "template", action |-> FALSE, json |-> "empty",
             error |-> "action", loading |-> FALSE]
NoSave   == [at |-> "idle", opening |-> 0, ok |-> TRUE]
Closed   == [open |-> FALSE, langs |-> "loading", job |-> 0, status |-> "none",
             timer |-> FALSE, error |-> FALSE, downloading |-> FALSE, fetching |-> FALSE]
NoStart  == [at |-> "idle", job |-> 0]
NoPoll   == [at |-> "idle", job |-> 0, status |-> "none", late |-> FALSE]
NoDialog == [open |-> FALSE, named |-> FALSE, loading |-> FALSE, error |-> FALSE, secret |-> 0]
NoCall   == [at |-> "idle", key |-> 0]
NoJob    == [held |-> {}, had |-> {}, lost |-> FALSE]

Steps     == {"idle", "sent", "told"}
JobStatus == {"none", "queued", "running", "ready", "error"}
Ended     == {"ready", "error"}

TypeOK ==
    /\ token \in BOOLEAN
    /\ data \in [pending : BOOLEAN, agent : BOOLEAN, keys : SUBSET Keys]
    /\ form \in [open : BOOLEAN, type : {"template", "custom"}, action : BOOLEAN,
                 json : {"empty", "rule", "bare", "broken"},
                 error : {"none", "action", "syntax"}, loading : BOOLEAN]
    /\ opening \in 0..MaxOpen /\ stored \in [Openings -> Nat]
    /\ saves \in [Saves -> [at : Steps, opening : 0..MaxOpen, ok : BOOLEAN]]
    /\ picker \in [Pickers -> [open : BOOLEAN, langs : {"loading", "codegen", "curated", "none"},
                                job : 0..MaxJobs, status : JobStatus, timer : BOOLEAN,
                                error : BOOLEAN, downloading : BOOLEAN, fetching : BOOLEAN]]
    /\ starts \in [Pickers -> [Starts -> [at : Steps, job : 0..MaxJobs]]]
    /\ polls \in [Pickers -> [Polls -> [at : Steps, job : 0..MaxJobs, status : JobStatus,
                                        late : BOOLEAN]]]
    /\ dialog \in [open : BOOLEAN, named : BOOLEAN, loading : BOOLEAN, error : BOOLEAN,
                   secret : 0..MaxKeys]
    /\ create \in [at : Steps, key : 0..MaxKeys] /\ revoke \in [at : Steps, key : 0..MaxKeys]
    /\ jobs \in [Jobs -> [held : SUBSET JobStatus, had : SUBSET Ended, lost : BOOLEAN]]
    /\ made \in 0..MaxKeys /\ revoked \subseteq Keys
    /\ seen \subseteq Keys /\ abandoned \subseteq Keys
    /\ misled \subseteq Pickers /\ twice \subseteq Openings
    /\ budget \in [Kinds -> Nat]

Have(b)  == budget[b] > 0
Spend(b) == budget' = [budget EXCEPT ![b] = @ - 1]
\* Something in the network or the backend may go wrong.
MayFail(ok) == IF ok THEN UNCHANGED budget ELSE Have("fault") /\ Spend("fault")

\* A new request takes the first free number.
Free(calls, c) == calls[c].at = "idle" /\ \A d \in DOMAIN calls : d < c => calls[d].at # "idle"

-----------------------------------------------------------------------------
\* The page: the tabs, their buttons and the dialogs exist once load has
\* delivered an agent; an open dialog covers the page.
AgentShown == data.agent
PickerOpen == \E k \in Pickers : picker[k].open
Uncovered  == AgentShown /\ ~form.open /\ ~PickerOpen /\ ~dialog.open

\* load runs before the page is shown.  Without a token it answers 401; a failing
\* request for the agent leaves an error page, one for the keys an empty table.
Load ==
    /\ data.pending
    /\ \E agent, listed \in BOOLEAN :
        /\ agent => token
        /\ data' = [pending |-> FALSE, agent |-> agent,
                    keys |-> IF agent /\ listed THEN (1..made) \ revoked ELSE {}]
        /\ MayFail(listed /\ (agent \/ ~token))
    /\ UNCHANGED <<token, ruleVars, pickerVars, jobs, keyVars>>

\* window.location.reload() and everything the page held is gone.  A request the
\* backend has not answered yet counts as never sent.
Reload ==
    /\ data' = [pending |-> TRUE, agent |-> FALSE, keys |-> {}]
    /\ form' = Blank /\ saves' = [s \in Saves |-> NoSave]
    /\ picker' = [k \in Pickers |-> Closed] /\ misled' = {}
    /\ starts' = [k \in Pickers |-> [s \in Starts |-> NoStart]]
    /\ polls' = [k \in Pickers |-> [p \in Polls |-> NoPoll]]
    /\ dialog' = NoDialog /\ create' = NoCall /\ revoke' = NoCall
    /\ abandoned' = IF create.at = "told" /\ create.key # 0
                    THEN abandoned \cup {create.key} ELSE abandoned
    /\ UNCHANGED <<token, opening, stored, twice, jobs, made, revoked, seen>>

\* Signing out in another tab of the browser.
Logout ==
    /\ token /\ Have("logout") /\ Spend("logout") /\ token' = FALSE
    /\ UNCHANGED <<data, ruleVars, pickerVars, jobs, keyVars>>

-----------------------------------------------------------------------------
\* RuleBuilderModal.  The block that renders the preview depends on everything
\* typed and on errorMessage itself, so it runs after every handler and decides
\* alone what the message is: whatever a handler wrote there is wiped.
ErrorOf(f) ==
    CASE f.type = "template" /\ ~f.action     -> "action"
      [] f.type = "custom" /\ f.json = "broken" -> "syntax"
      [] OTHER                                -> "none"
Flush(f) == [f EXCEPT !.error = ErrorOf(f)]

\* handleAddNewRule.
AddNewRule ==
    /\ Uncovered /\ opening < MaxOpen /\ Have("open") /\ Spend("open")
    /\ form' = [form EXCEPT !.open = TRUE] /\ opening' = opening + 1
    /\ UNCHANGED <<token, data, saves, stored, twice, pickerVars, jobs, keyVars>>

Edit(f) ==
    /\ form.open /\ f # form /\ Have("edit") /\ Spend("edit")
    /\ form' = Flush(f)
    /\ UNCHANGED <<token, data, opening, saves, stored, twice, pickerVars, jobs, keyVars>>

\* Choosing a rule type clears what the other type was filled with.
ChooseType(t) ==
    Edit([form EXCEPT !.type = t, !.action = IF t = "custom" THEN FALSE ELSE @,
                      !.json = IF t = "template" THEN "empty" ELSE @])
\* The action is the only field of the guided builder that a save looks at.
FillAction(b) == form.type = "template" /\ Edit([form EXCEPT !.action = b])
\* A text may be blank, no JSON at all, or JSON without an action.
FillJson(j)   == form.type = "custom" /\ Edit([form EXCEPT !.json = j])

\* Mutant: the button stays enabled while a save is running.
HandleSaveWhileLoading(s) ==
    /\ form.open /\ form.error = "none" /\ Free(saves, s) /\ form.action /\ token
    /\ saves' = [saves EXCEPT ![s] = [at |-> "sent", opening |-> opening, ok |-> TRUE]]
    /\ form' = [form EXCEPT !.loading = TRUE]
    /\ UNCHANGED <<token, data, opening, stored, twice, pickerVars, jobs, keyVars, budget>>
\* handleSave up to its await; without an action or a token it writes a message
\* and returns.
HandleSave(s) ==
    /\ form.open /\ ~form.loading /\ form.error = "none" /\ Free(saves, s)
    /\ IF token /\ (form.action \/ form.json = "rule")
       THEN /\ saves' = [saves EXCEPT ![s] = [at |-> "sent", opening |-> opening, ok |-> TRUE]]
            /\ form' = [form EXCEPT !.loading = TRUE]
       ELSE form' = Flush(form) /\ UNCHANGED saves
    /\ UNCHANGED <<token, data, opening, stored, twice, pickerVars, jobs, keyVars, budget>>

\* The permission is created, or refused, or created and the answer lost.
ServeSave(s) ==
    LET n == saves[s].opening IN
    /\ saves[s].at = "sent"
    /\ \E kept, ok \in BOOLEAN :
        /\ ok => kept
        /\ stored' = IF kept THEN [stored EXCEPT ![n] = @ + 1] ELSE stored
        /\ twice' = IF kept /\ ~ok THEN twice \cup {n} ELSE twice
        /\ saves' = [saves EXCEPT ![s].at = "told", ![s].ok = ok]
        /\ MayFail(ok)
    /\ UNCHANGED <<token, data, form, opening, pickerVars, jobs, keyVars>>

\* Nothing of a closed SDK dialog runs any more: its number is free.
Gone(k) ==
    /\ ~picker[k].open /\ ~picker[k].timer
    /\ \A s \in Starts : starts[k][s].at = "idle"
    /\ \A p \in Polls : polls[k][p].at = "idle"
\* The page sets showSDKPickerModal: a new dialog is created unless one is open.
ShowPicker ==
    IF PickerOpen THEN UNCHANGED <<picker, misled>>
    ELSE \E k \in Pickers :
            /\ Gone(k) /\ \A l \in Pickers : l < k => ~Gone(l)
            /\ picker' = [picker EXCEPT ![k] = [Closed EXCEPT !.open = TRUE]]
            /\ misled' = misled \ {k}
\* The rest of handleSave when the rule was saved: the SDK dialog opens, and the
\* rule dialog is reset and closed, the one that is open now.
SaveSucceeds(s) ==
    /\ saves[s].at = "told" /\ saves[s].ok
    /\ saves' = [saves EXCEPT ![s] = NoSave] /\ form' = Blank /\ ShowPicker
    /\ UNCHANGED <<token, data, opening, stored, twice, starts, polls, jobs, keyVars, budget>>

\* The rest of handleSave when it failed.  isLoading is cleared even while the
\* save of a dialog opened later is running.
SaveFails(s) ==
    /\ saves[s].at = "told" /\ ~saves[s].ok
    /\ saves' = [saves EXCEPT ![s] = NoSave]
    /\ form' = Flush([form EXCEPT !.loading = FALSE])
    /\ twice' = twice \cup {saves[t].opening : t \in {u \in Saves \ {s} : saves[u].at # "idle"}}
    /\ UNCHANGED <<token, data, opening, stored, pickerVars, jobs, keyVars, budget>>

\* Escape, the cross and the backdrop close the dialog even while it is saving;
\* Cancel only when it is not.
CloseRule ==
    /\ form.open /\ form' = Blank
    /\ UNCHANGED <<token, data, opening, saves, stored, twice, pickerVars, jobs, keyVars, budget>>
CancelRule == ~form.loading /\ CloseRule

-----------------------------------------------------------------------------
\* SDKPickerModal: its own state starts afresh each time it is created.  onMount asks
\* for the languages; the defaults, which an error leaves in place, include
\* generated ones.
LanguagesLand(k) ==
    /\ picker[k].open /\ picker[k].langs = "loading"
    /\ \/ \E l \in {"codegen", "curated", "none"} :
            token /\ picker' = [picker EXCEPT ![k].langs = l] /\ UNCHANGED budget
       \/ picker' = [picker EXCEPT ![k].langs = "codegen"] /\ MayFail(~token)
    /\ UNCHANGED <<token, data, ruleVars, starts, polls, misled, jobs, keyVars>>

\* The page destroys the component, which has no onDestroy: the interval and the
\* calls that run go on, over variables nobody displays.
ClosePicker(k) ==
    /\ picker[k].open
    /\ picker' = [picker EXCEPT ![k] = [Closed EXCEPT !.job = picker[k].job,
                                 !.status = picker[k].status, !.timer = picker[k].timer]]
    /\ UNCHANGED <<token, data, ruleVars, starts, polls, misled, jobs, keyVars, budget>>

\* The Generate button, disabled once the job has a status other than error.
CanGenerate(k) ==
    /\ picker[k].open /\ picker[k].langs \in {"loading", "codegen"}
    /\ picker[k].job = 0 \/ picker[k].status \in {"none", "error"}

\* startGenerate up to its await: the old job is forgotten, its timer is not.
StartGenerate(k, s) ==
    /\ CanGenerate(k) /\ Free(starts[k], s) /\ Have("start") /\ Spend("start")
    /\ picker' = [picker EXCEPT ![k].job = 0, ![k].status = "none", ![k].error = ~token]
    /\ starts' = IF token THEN [starts EXCEPT ![k][s].at = "sent"] ELSE starts
    /\ misled' = misled \ {k}
    /\ UNCHANGED <<token, data, ruleVars, polls, jobs, keyVars>>

\* The backend records the job in the process that was asked.
ServeStart(k, s) ==
    /\ starts[k][s].at = "sent"
    /\ \/ /\ starts' = [starts EXCEPT ![k][s].at = "told"]
          /\ MayFail(FALSE) /\ UNCHANGED jobs
       \/ \E j \in Jobs :
            /\ jobs[j] = NoJob /\ \A i \in Jobs : i < j => jobs[i] # NoJob
            /\ jobs' = [jobs EXCEPT ![j] = [NoJob EXCEPT !.held = {"queued"}]]
            /\ starts' = [starts EXCEPT ![k][s] = [at |-> "told", job |-> j]]
            /\ UNCHANGED budget
    /\ UNCHANGED <<token, data, ruleVars, picker, polls, misled, keyVars>>

\* Every request of dialog k in flight from now on brings a stale answer.
AllLate(k) == [p \in Polls |-> [polls[k][p] EXCEPT !.late = polls[k][p].at # "idle"]]

\* Mutant: without a status in the answer there is no default.
JobStartsUnset(k, s) ==
    /\ starts[k][s].at = "told" /\ starts' = [starts EXCEPT ![k][s] = NoStart]
    /\ picker' = [picker EXCEPT ![k].job = starts[k][s].job, ![k].status = "undefined",
                                ![k].timer = TRUE]
    /\ UNCHANGED <<token, data, ruleVars, polls, misled, jobs, keyVars, budget>>
\* The rest of startGenerate: the interval is set even when the dialog is gone.
JobStarts(k, s) ==
    /\ starts[k][s].at = "told" /\ starts' = [starts EXCEPT ![k][s] = NoStart]
    /\ IF starts[k][s].job = 0
       THEN picker' = [picker EXCEPT ![k].error = picker[k].open] /\ UNCHANGED <<polls, misled>>
       ELSE /\ picker' = [picker EXCEPT ![k].job = starts[k][s].job, ![k].status = "queued",
                                        ![k].timer = TRUE]
            /\ polls' = [polls EXCEPT ![k] = AllLate(k)] /\ misled' = misled \ {k}
    /\ UNCHANGED <<token, data, ruleVars, jobs, keyVars, budget>>

\* A job is what the records of the processes say of it, the outcomes it has had, and
\* whether it is lost: not run any more, or known to nobody who ran it.  A run is
\* recorded by the process that runs it, which may be another than was asked.
Recorded(j, held, had, lost) ==
    /\ jobs' = [jobs EXCEPT ![j] = [held |-> held, had |-> had, lost |-> lost]]
    /\ UNCHANGED <<token, data, ruleVars, pickerVars, keyVars>>
JobRuns(j) ==
    LET f == jobs[j] IN
    /\ ~f.lost /\ UNCHANGED budget
    /\ \/ /\ f.held = {"queued"}
          /\ \E h \in {{}, f.held} : Recorded(j, h \cup {"running"}, f.had, FALSE)
       \/ /\ "running" \in f.held
          /\ \E st \in Ended :
                Recorded(j, (f.held \ {"running"}) \cup {st}, f.had \cup {st}, FALSE)
\* An entry whose run failed is claimed and runs again.
JobRetries(j) ==
    LET f == jobs[j] IN
    /\ "error" \in f.held /\ ~f.lost /\ MayFail(FALSE)
    /\ \E h \in {f.held, f.held \ {"error"}} : Recorded(j, h \cup {"running"}, f.had, FALSE)
\* The entry is never delivered or parked, a run hangs, or processes that knew die.
JobLost(j) ==
    LET f == jobs[j] IN
    /\ f.held # {} /\ ~f.lost /\ MayFail(FALSE)
    /\ \E h \in SUBSET f.held : Recorded(j, h, f.had, TRUE)

\* checkJob up to its await, once a second while the timer runs.
CheckJob(k, p) ==
    /\ picker[k].timer /\ picker[k].job # 0 /\ token /\ Free(polls[k], p)
    /\ polls' = [polls EXCEPT ![k][p] = [NoPoll EXCEPT !.at = "sent", !.job = picker[k].job]]
    /\ UNCHANGED <<token, data, ruleVars, picker, starts, misled, jobs, keyVars, budget>>

\* GetSDKJob: a process answers what its own record says, or 404, here "none".
GetSDKJob(j) == jobs[j].held \cup {"none"}
Told(k, p, st) ==
    /\ polls' = [polls EXCEPT ![k][p].at = "told", ![k][p].status = st]
    /\ UNCHANGED <<token, data, ruleVars, picker, starts, misled, jobs, keyVars, budget>>
ServePoll(k, p) ==
    polls[k][p].at = "sent" /\ \E st \in GetSDKJob(polls[k][p].job) : Told(k, p, st)
\* A request that fails altogether is ignored.
PollFails(k, p) ==
    /\ polls[k][p].at = "sent" /\ MayFail(FALSE) /\ polls' = [polls EXCEPT ![k][p] = NoPoll]
    /\ UNCHANGED <<token, data, ruleVars, picker, starts, misled, jobs, keyVars>>

\* The status that landed, and whether the timer survives it.
Polled(k, p, keep) ==
    LET f == polls[k][p] IN
    /\ f.at = "told"
    /\ picker' = IF f.status = "none"
                 THEN [picker EXCEPT ![k].timer = @ /\ keep, ![k].error = picker[k].open]
                 ELSE [picker EXCEPT ![k].timer = @ /\ keep, ![k].status = f.status]
    /\ polls' = [polls EXCEPT ![k] = [IF keep THEN polls[k] ELSE AllLate(k) EXCEPT ![p] = NoPoll]]
    /\ misled' = IF f.late THEN misled \cup {k} ELSE misled \ {k}
    /\ UNCHANGED <<token, data, ruleVars, starts, jobs, keyVars, budget>>
\* Mutants: the first answer stops the timer; only a job that is not known does.
JobStatusLandsOnce(k, p)    == Polled(k, p, FALSE)
JobStatusLandsForever(k, p) == Polled(k, p, polls[k][p].status # "none")
\* The rest of checkJob: it looks neither at the job the answer is about nor at
\* what landed before it.
JobStatusLands(k, p) == Polled(k, p, polls[k][p].status \in {"queued", "running"})

\* downloadGenerated: asks whichever process answers; only a failure shows.
DownloadGenerated(k) ==
    /\ picker[k].open /\ picker[k].job # 0 /\ picker[k].status = "ready" /\ ~picker[k].fetching
    /\ Have("get") /\ Spend("get")
    /\ picker' = IF token THEN [picker EXCEPT ![k].fetching = TRUE]
                          ELSE [picker EXCEPT ![k].error = TRUE]
    /\ UNCHANGED <<token, data, ruleVars, starts, polls, misled, jobs, keyVars>>
GeneratedLands(k) ==
    /\ picker[k].fetching
    /\ \E ok \in BOOLEAN :
        /\ ok => \E j \in Jobs : "ready" \in jobs[j].held
        /\ picker' = [picker EXCEPT ![k].fetching = FALSE, ![k].error = @ \/ ~ok]
    /\ UNCHANGED <<token, data, ruleVars, starts, polls, misled, jobs, keyVars, budget>>

\* downloadSDK: takes the error of a generation job off the screen.
DownloadSDK(k) ==
    /\ picker[k].open /\ picker[k].langs # "none" /\ ~picker[k].downloading
    /\ Have("get") /\ Spend("get")
    /\ picker' = [picker EXCEPT ![k].downloading = token, ![k].error = ~token]
    /\ misled' = IF picker[k].error THEN misled \cup {k} ELSE misled
    /\ UNCHANGED <<token, data, ruleVars, starts, polls, jobs, keyVars>>
SDKLands(k) ==
    /\ picker[k].downloading
    /\ \E ok \in BOOLEAN :
         /\ picker' = [picker EXCEPT ![k].downloading = FALSE, ![k].error = @ \/ ~ok]
         /\ MayFail(ok)
    /\ UNCHANGED <<token, data, ruleVars, starts, polls, misled, jobs, keyVars>>

-----------------------------------------------------------------------------
\* The API key dialog.  Opening it again forgets everything but the loading flag.
GenerateNewKey ==
    /\ Uncovered /\ Have("key") /\ Spend("key")
    /\ dialog' = [NoDialog EXCEPT !.open = TRUE, !.loading = dialog.loading]
    /\ UNCHANGED <<token, data, ruleVars, pickerVars, jobs, create, revoke, made, revoked, seen,
                   abandoned>>
NameKey ==
    /\ dialog.open /\ dialog.secret = 0 /\ ~dialog.named /\ dialog' = [dialog EXCEPT !.named = TRUE]
    /\ UNCHANGED <<token, data, ruleVars, pickerVars, jobs, create, revoke, made, revoked, seen,
                   abandoned, budget>>

\* createApiKey up to its await.
CreateKey ==
    /\ dialog.open /\ dialog.secret = 0 /\ ~dialog.loading
    /\ IF dialog.named /\ token
       THEN /\ dialog' = [dialog EXCEPT !.loading = TRUE, !.error = FALSE]
            /\ create' = [at |-> "sent", key |-> 0]
       ELSE dialog' = [dialog EXCEPT !.error = TRUE] /\ UNCHANGED create
    /\ UNCHANGED <<token, data, ruleVars, pickerVars, jobs, revoke, made, revoked, seen, abandoned,
                   budget>>
ServeCreate ==
    /\ create.at = "sent"
    /\ \E kept, ok \in BOOLEAN :
        /\ ok => kept
        /\ kept => made < MaxKeys
        /\ made' = IF kept THEN made + 1 ELSE made
        /\ create' = [at |-> "told", key |-> IF ok THEN made + 1 ELSE 0]
        /\ abandoned' = IF kept /\ ~ok THEN abandoned \cup {made + 1} ELSE abandoned
        /\ MayFail(ok)
    /\ UNCHANGED <<token, data, ruleVars, pickerVars, jobs, dialog, revoke, revoked, seen>>

\* Mutant: the dialog that asked has to be open still, or the answer is dropped.
KeyLandsIfNamed ==
    /\ create.at = "told" /\ create' = NoCall
    /\ dialog' = [dialog EXCEPT !.loading = FALSE,
                                !.secret = IF dialog.named THEN create.key ELSE @]
    /\ seen' = IF dialog.open /\ dialog.named THEN seen \cup ({create.key} \ {0}) ELSE seen
    /\ abandoned' = IF dialog.open THEN abandoned ELSE abandoned \cup ({create.key} \ {0})
    /\ UNCHANGED <<token, data, ruleVars, pickerVars, jobs, revoke, made, revoked, budget>>
\* The rest of createApiKey: the secret is shown by whatever key dialog is open;
\* if none is, opening one clears it.
KeyLands ==
    LET k == create.key IN
    /\ create.at = "told" /\ create' = NoCall
    /\ dialog' = [dialog EXCEPT !.loading = FALSE, !.error = (k = 0),
                                !.secret = IF k # 0 THEN k ELSE @]
    /\ seen' = IF k # 0 /\ dialog.open THEN seen \cup {k} ELSE seen
    /\ abandoned' = IF k # 0 /\ ~dialog.open THEN abandoned \cup {k} ELSE abandoned
    /\ UNCHANGED <<token, data, ruleVars, pickerVars, jobs, revoke, made, revoked, budget>>

\* Cancel only hides the dialog; the cross, Escape and Done reload the page.
CancelKey ==
    /\ dialog.open /\ dialog.secret = 0 /\ dialog' = [dialog EXCEPT !.open = FALSE]
    /\ UNCHANGED <<token, data, ruleVars, pickerVars, jobs, create, revoke, made, revoked, seen,
                   abandoned, budget>>
CloseKey == dialog.open /\ Reload /\ UNCHANGED budget

\* handleRevokeKey, from the table of keys.
RevokeKey(k) ==
    /\ Uncovered /\ k \in data.keys /\ revoke.at = "idle" /\ token
    /\ Have("key") /\ Spend("key") /\ revoke' = [at |-> "sent", key |-> k]
    /\ UNCHANGED <<token, data, ruleVars, pickerVars, jobs, dialog, create, made, revoked, seen,
                   abandoned>>
ServeRevoke ==
    /\ revoke.at = "sent"
    /\ \E kept, ok \in BOOLEAN :
        /\ ok => kept
        /\ revoked' = IF kept THEN revoked \cup {revoke.key} ELSE revoked
        /\ revoke' = [at |-> "told", key |-> IF ok THEN revoke.key ELSE 0]
        /\ MayFail(ok)
    /\ UNCHANGED <<token, data, ruleVars, pickerVars, jobs, dialog, create, made, seen, abandoned>>
\* A failure opens an alert and changes nothing.
RevokeLands ==
    /\ revoke.at = "told"
    /\ IF revoke.key # 0 THEN Reload
       ELSE /\ revoke' = NoCall
            /\ UNCHANGED <<token, data, ruleVars, pickerVars, jobs, dialog, create, made, revoked,
                           seen, abandoned>>
    /\ UNCHANGED budget

-----------------------------------------------------------------------------
Init ==
    /\ token = TRUE /\ budget \in Budgets
    /\ data = [pending |-> TRUE, agent |-> FALSE, keys |-> {}]
    /\ form = Blank /\ opening = 0 /\ saves = [s \in Saves |-> NoSave]
    /\ picker = [k \in Pickers |-> Closed]
    /\ starts = [k \in Pickers |-> [s \in Starts |-> NoStart]]
    /\ polls = [k \in Pickers |-> [p \in Polls |-> NoPoll]]
    /\ dialog = NoDialog /\ create = NoCall /\ revoke = NoCall
    /\ stored = [n \in Openings |-> 0] /\ jobs = [j \in Jobs |-> NoJob]
    /\ made = 0 /\ revoked = {}
    /\ twice = {} /\ misled = {} /\ seen = {} /\ abandoned = {}

RuleUser ==
    \/ AddNewRule \/ CloseRule \/ CancelRule
    \/ \E t \in {"template", "custom"} : ChooseType(t)
    \/ \E b \in BOOLEAN : FillAction(b)
    \/ \E j \in {"empty", "rule", "bare", "broken"} : FillJson(j)
    \/ \E s \in Saves : HandleSave(s)
PickerUser(k) ==
    \/ ClosePicker(k) \/ DownloadGenerated(k) \/ DownloadSDK(k)
    \/ \E s \in Starts : StartGenerate(k, s)
KeyUser ==
    \/ GenerateNewKey \/ NameKey \/ CreateKey \/ CancelKey \/ CloseKey
    \/ \E k \in Keys : RevokeKey(k)

\* What the browser and the backend do without being asked again.
Settle ==
    \/ Load \/ ServeCreate \/ KeyLands \/ ServeRevoke \/ RevokeLands
    \/ \E s \in Saves : ServeSave(s) \/ SaveSucceeds(s) \/ SaveFails(s)
Lands(k) == \E p \in Polls : JobStatusLands(k, p)
PickerSettles(k) ==
    \/ LanguagesLand(k) \/ GeneratedLands(k) \/ SDKLands(k) \/ Lands(k)
    \/ \E s \in Starts : ServeStart(k, s) \/ JobStarts(k, s)
    \/ \E p \in Polls : ServePoll(k, p) \/ PollFails(k, p)
Tick(k) == \E p \in Polls : CheckJob(k, p)
Answers(k) == \E p \in Polls : ServePoll(k, p)
\* A process that knows how the job ended is asked.
AskRunner(k) ==
    \E p \in Polls, st \in Ended :
        polls[k][p].at = "sent" /\ st \in jobs[polls[k][p].job].held /\ Told(k, p, st)

Next ==
    \/ RuleUser \/ KeyUser \/ Settle \/ Logout
    \/ \E k \in Pickers : PickerUser(k) \/ PickerSettles(k) \/ Tick(k)
    \/ \E j \in Jobs : JobRuns(j) \/ JobRetries(j) \/ JobLost(j)

\* Requests are answered and answers land, the interval timer fires, a worker runs and
\* ends a job that is not lost, and the load balancer does not keep a dialog away for ever from a process
\* that knows how its job ended.
Fairness ==
    /\ \A k \in Pickers : /\ WF_vars(Answers(k)) /\ WF_vars(Lands(k)) /\ WF_vars(Tick(k))
                          /\ SF_vars(AskRunner(k))
    /\ \A j \in Jobs : WF_vars(JobRuns(j))
Spec == Init /\ [][Next]_vars /\ Fairness

-----------------------------------------------------------------------------
\* One rule dialog stores one rule, unless its answer was lost or the failure of
\* an older dialog's save unlocked the button (handleSave, isLoading).
SavedOnce == \A n \in Openings : stored[n] > 1 => n \in twice

\* What the SDK dialog says of a finished job is true of the job it shows, and once it
\* has stopped asking it shows an outcome or an error (checkJob, downloadSDK).  The
\* excuse: an answer landed that was under way when polling had ended or another job
\* had been started, in order or not; or a download took the error away.
JobShown ==
    \A k \in Pickers \ misled :
        picker[k].open /\ picker[k].job # 0 =>
            /\ picker[k].status \in Ended => picker[k].status \in jobs[picker[k].job].had
            /\ picker[k].timer \/ picker[k].error \/ picker[k].status \in Ended

\* The secret of every key was on the screen once, unless its answer was lost
\* or found its dialog hidden or its page left (createApiKey shows it only once).
SecretSeen == \A k \in 1..made : create.key = k \/ k \in seen \cup abandoned

\* A dialog stops polling, whatever processes answer it, also the one that was closed
\* while it polled: unless its job is lost, of which the processes left may say
\* "queued" or "running" for ever (the interval of startGenerate).
PollingEnds ==
    \A k \in Pickers :
        picker[k].timer ~> \/ ~picker[k].timer \/ ~token
                           \/ \E j \in Jobs : picker[k].job = j /\ jobs[j].lost
=============================================================================
