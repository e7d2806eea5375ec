-------------------------- MODULE AgentPage_proofs --------------------------
(***************************************************************************)
(* Proofs about AgentPage, for any number of requests in flight, dialogs,  *)
(* jobs and keys: its types, that one rule dialog stores one rule, that    *)
(* what is shown of a generation job is true, and that the secret of every *)
(* key was on the screen.  The rule dialog, the SDK dialog and the key     *)
(* dialog share no variable, so each has an invariant of its own.          *)
(***************************************************************************)
EXTENDS AgentPage, TLAPS

Form   == [open : BOOLEAN, type : {"template", "custom"}, action : BOOLEAN,
           json : {"empty", "rule", "bare", "broken"},
           error : {"none", "action", "syntax"}, loading : BOOLEAN]
Save   == [at : Steps, opening : 0..MaxOpen, ok : BOOLEAN]
Picker == [open : BOOLEAN, langs : {"loading", "codegen", "curated", "none"},
           job : 0..MaxJobs, status : JobStatus, timer : BOOLEAN, error : BOOLEAN,
           downloading : BOOLEAN, fetching : BOOLEAN]
Start  == [at : Steps, job : 0..MaxJobs]
Poll   == [at : Steps, job : 0..MaxJobs, status : JobStatus, late : BOOLEAN]
Dialog == [open : BOOLEAN, named : BOOLEAN, loading : BOOLEAN, error : BOOLEAN, secret : 0..MaxKeys]
KeyCall == [at : Steps, key : 0..MaxKeys]
Job    == [held : SUBSET JobStatus, had : SUBSET Ended, lost : BOOLEAN]

LEMMA PageFacts ==
    /\ MaxOpen \in Nat /\ MaxJobs \in Nat /\ MaxKeys \in Nat
    /\ 0 \in 0..MaxOpen /\ 0 \in 0..MaxJobs /\ 0 \in 0..MaxKeys
    /\ \A n \in Openings : n \in Nat /\ n > 0 /\ n \in 0..MaxOpen
    /\ \A j \in Jobs : j \in Nat /\ j > 0 /\ j \in 0..MaxJobs
    /\ \A k \in Keys : k \in Nat /\ k > 0 /\ k \in 0..MaxKeys
    /\ \A k \in 0..MaxKeys : k # 0 => k \in Keys
    /\ \A j \in 0..MaxJobs : j # 0 => j \in Jobs
BY AgentPageAssumption DEF Openings, Jobs, Keys

-----------------------------------------------------------------------------
(***************************************************************************)
(* Which part of the page a step is about.                                 *)
(***************************************************************************)
RuleStep ==
    \/ AddNewRule \/ CloseRule
    \/ \E t \in {"template", "custom"} : ChooseType(t)
    \/ \E b \in BOOLEAN : FillAction(b)
    \/ \E j \in {"empty", "rule", "bare", "broken"} : FillJson(j)
    \/ \E s \in Saves : HandleSave(s) \/ ServeSave(s) \/ SaveSucceeds(s) \/ SaveFails(s)
PickerStep(k) ==
    \/ ClosePicker(k) \/ DownloadGenerated(k) \/ DownloadSDK(k)
    \/ LanguagesLand(k) \/ GeneratedLands(k) \/ SDKLands(k)
    \/ \E s \in Starts : StartGenerate(k, s) \/ ServeStart(k, s) \/ JobStarts(k, s)
    \/ \E p \in Polls : CheckJob(k, p) \/ ServePoll(k, p) \/ PollFails(k, p) \/ JobStatusLands(k, p)
JobStep(j) == JobRuns(j) \/ JobRetries(j) \/ JobLost(j)
PickersStep == (\E k \in Pickers : PickerStep(k)) \/ \E j \in Jobs : JobStep(j)
KeyStep ==
    \/ GenerateNewKey \/ NameKey \/ CreateKey \/ CancelKey \/ ServeCreate \/ KeyLands \/ ServeRevoke
    \/ \E k \in Keys : RevokeKey(k)
RevokeFails == RevokeLands /\ ~Reload

LEMMA NextParts ==
    Next => RuleStep \/ PickersStep \/ KeyStep \/ Load \/ Logout \/ RevokeFails \/ (Reload /\ UNCHANGED budget)
BY DEF Next, RuleUser, PickerUser, PickerSettles, Lands, KeyUser, Settle, Tick, CancelRule, CloseKey,
       RevokeFails, RevokeLands, RuleStep, PickersStep, PickerStep, JobStep, KeyStep

LEMMA RuleAlone == ASSUME RuleStep PROVE UNCHANGED <<token, data, jobs, keyVars, starts, polls>>
BY DEF RuleStep, AddNewRule, CloseRule, ChooseType, FillAction, FillJson, Edit, HandleSave, ServeSave,
       SaveSucceeds, SaveFails, ShowPicker, pickerVars

LEMMA PickerAlone == ASSUME PickersStep PROVE UNCHANGED <<token, data, ruleVars, keyVars>>
<1>1. ASSUME NEW k \in Pickers, PickerStep(k) PROVE UNCHANGED <<token, data, ruleVars, keyVars>>
  <2>1. CASE \/ ClosePicker(k) \/ DownloadGenerated(k) \/ DownloadSDK(k)
             \/ LanguagesLand(k) \/ GeneratedLands(k) \/ SDKLands(k)
    BY <2>1 DEF ClosePicker, DownloadGenerated, DownloadSDK, LanguagesLand, GeneratedLands, SDKLands
  <2>2. ASSUME NEW s \in Starts, StartGenerate(k, s) \/ ServeStart(k, s) \/ JobStarts(k, s)
        PROVE  UNCHANGED <<token, data, ruleVars, keyVars>>
    BY <2>2 DEF StartGenerate, ServeStart, JobStarts
  <2>3. ASSUME NEW p \in Polls, CheckJob(k, p) \/ ServePoll(k, p) \/ PollFails(k, p)
        PROVE  UNCHANGED <<token, data, ruleVars, keyVars>>
    BY <2>3 DEF CheckJob, ServePoll, Told, PollFails
  <2>4. ASSUME NEW p \in Polls, JobStatusLands(k, p) PROVE UNCHANGED <<token, data, ruleVars, keyVars>>
    BY <2>4 DEF JobStatusLands, Polled
  <2> QED BY <1>1, <2>1, <2>2, <2>3, <2>4 DEF PickerStep
<1>2. ASSUME NEW j \in Jobs, JobStep(j) PROVE UNCHANGED <<token, data, ruleVars, keyVars>>
  BY <1>2 DEF JobStep, JobRuns, JobRetries, JobLost, Recorded
<1> QED BY <1>1, <1>2 DEF PickersStep

LEMMA KeyAlone == ASSUME KeyStep PROVE UNCHANGED <<token, data, ruleVars, pickerVars, jobs>>
BY DEF KeyStep, GenerateNewKey, NameKey, CreateKey, CancelKey, ServeCreate, KeyLands, ServeRevoke, RevokeKey

LEMMA LoadAlone ==
    ASSUME Load \/ Logout \/ RevokeFails
    PROVE  /\ UNCHANGED <<ruleVars, pickerVars, jobs, dialog, create, made, revoked, seen, abandoned>>
           /\ revoke' \in {revoke, NoCall}
BY DEF Load, Logout, RevokeFails, RevokeLands, keyVars

\* What a user and the network may still do is spent and never refilled.
BudgetType == budget \in [Kinds -> Nat]

LEMMA SpendType == ASSUME BudgetType, NEW b \in Kinds, Have(b), Spend(b) PROVE BudgetType'
<1>1. budget[b] - 1 \in Nat BY DEF Have, BudgetType
<1> QED BY <1>1 DEF Spend, BudgetType

LEMMA BudgetStep == ASSUME BudgetType, [Next]_vars PROVE BudgetType'
<1>1. ASSUME UNCHANGED budget PROVE BudgetType' BY <1>1 DEF BudgetType
<1>2. \A b \in Kinds : Have(b) /\ Spend(b) => BudgetType' BY SpendType
<1>3. ASSUME NEW ok, MayFail(ok) PROVE BudgetType' BY <1>1, <1>2, <1>3 DEF MayFail, Kinds
<1>4. CASE RuleStep
  BY <1>1, <1>2, <1>3, <1>4 DEF RuleStep, AddNewRule, CloseRule, ChooseType, FillAction, FillJson,
     Edit, HandleSave, ServeSave, SaveSucceeds, SaveFails, Kinds
<1>5. CASE PickersStep
  <2>1. ASSUME NEW k \in Pickers, PickerStep(k) PROVE BudgetType'
    <3>1. CASE \/ ClosePicker(k) \/ DownloadGenerated(k) \/ DownloadSDK(k)
               \/ LanguagesLand(k) \/ GeneratedLands(k) \/ SDKLands(k)
      BY <1>1, <1>2, <1>3, <3>1 DEF ClosePicker, DownloadGenerated, DownloadSDK, LanguagesLand,
         GeneratedLands, SDKLands, Kinds
    <3>2. ASSUME NEW s \in Starts, StartGenerate(k, s) \/ ServeStart(k, s) \/ JobStarts(k, s)
          PROVE  BudgetType'
      BY <1>1, <1>2, <1>3, <3>2 DEF StartGenerate, ServeStart, JobStarts, Kinds
    <3>3. ASSUME NEW p \in Polls, CheckJob(k, p) \/ ServePoll(k, p) \/ PollFails(k, p)
          PROVE  BudgetType'
      BY <1>1, <1>3, <3>3 DEF CheckJob, ServePoll, Told, PollFails
    <3>4. ASSUME NEW p \in Polls, JobStatusLands(k, p) PROVE BudgetType'
      BY <1>1, <3>4 DEF JobStatusLands, Polled
    <3> QED BY <2>1, <3>1, <3>2, <3>3, <3>4 DEF PickerStep
  <2>2. ASSUME NEW j \in Jobs, JobStep(j) PROVE BudgetType'
    BY <1>1, <1>3, <2>2 DEF JobStep, JobRuns, JobRetries, JobLost
  <2> QED BY <1>5, <2>1, <2>2 DEF PickersStep
<1>6. CASE KeyStep
  BY <1>1, <1>2, <1>3, <1>6 DEF KeyStep, GenerateNewKey, NameKey, CreateKey, CancelKey, ServeCreate,
     KeyLands, ServeRevoke, RevokeKey, Kinds
<1>7. CASE Load BY <1>3, <1>7 DEF Load
<1>8. CASE Logout BY <1>2, <1>8 DEF Logout, Kinds
<1>9. CASE RevokeFails BY <1>1, <1>9 DEF RevokeFails, RevokeLands
<1>10. CASE UNCHANGED budget BY <1>1, <1>10
<1> QED BY <1>4, <1>5, <1>6, <1>7, <1>8, <1>9, <1>10, NextParts DEF vars

-----------------------------------------------------------------------------
(***************************************************************************)
(* The rule dialog.  stored[n] <= 1 is not inductive: a second save of the *)
(* same dialog might be under way.  Unless its save may be sent again by   *)
(* mistake, an opening has at most one running save, which is told what it *)
(* has stored, and once that save is gone a dialog that is still open has  *)
(* stored nothing.                                                         *)
(***************************************************************************)
RuleTypes ==
    /\ form \in Form /\ opening \in 0..MaxOpen /\ stored \in [Openings -> Nat]
    /\ saves \in [Saves -> Save] /\ twice \subseteq Openings
Saving(s, n) == saves[s].at # "idle" /\ saves[s].opening = n
OpenForm ==
    /\ form.loading => form.open
    /\ form.open => opening > 0
Opened ==
    /\ \A n \in Openings : n > opening => stored[n] = 0
    /\ \A s \in Saves : saves[s].at # "idle" => saves[s].opening > 0 /\ saves[s].opening <= opening
Knows(n)  == \A s \in Saves : Saving(s, n) =>
                 stored[n] = IF saves[s].at = "told" /\ saves[s].ok THEN 1 ELSE 0
Single(n) == \A s, t \in Saves : Saving(s, n) /\ Saving(t, n) => s = t
Unsaved(n) ==
    form.open /\ opening = n => /\ form.loading \/ \A s \in Saves : ~Saving(s, n)
                                /\ stored[n] = 0 \/ \E s \in Saves : Saving(s, n)
OnceOnly(n) == stored[n] <= 1 /\ Knows(n) /\ Single(n) /\ Unsaved(n)
RuleInv == RuleTypes /\ OpenForm /\ Opened /\ \A n \in Openings \ twice : OnceOnly(n)

LEMMA BlankType == Blank \in Form /\ ~Blank.open /\ ~Blank.loading
BY DEF Blank, Form

LEMMA NoSaveType == NoSave \in Save /\ NoSave.at = "idle"
BY PageFacts DEF NoSave, Save, Steps

LEMMA InitRule == Init => RuleInv
<1> SUFFICES ASSUME Init PROVE RuleInv OBVIOUS
<1>1. /\ form = Blank /\ opening = 0 /\ stored = [n \in Openings |-> 0] /\ twice = {}
      /\ saves = [s \in Saves |-> NoSave]
  BY DEF Init
<1>2. \A s \in Saves : saves[s].at = "idle" BY <1>1, NoSaveType
<1>3. RuleTypes BY <1>1, BlankType, NoSaveType, PageFacts DEF RuleTypes
<1>4. \A n \in Openings : stored[n] = 0 BY <1>1
<1>5. \A n \in Openings : OnceOnly(n)
  BY <1>1, <1>2, <1>4, BlankType DEF OnceOnly, Knows, Single, Unsaved, Saving
<1> QED BY <1>1, <1>2, <1>3, <1>4, <1>5, BlankType DEF RuleInv, OpenForm, Opened

\* What the block that renders the preview makes of a form.
LEMMA FlushType ==
    ASSUME NEW f \in Form
    PROVE  Flush(f) \in Form /\ Flush(f).open = f.open /\ Flush(f).loading = f.loading
<1>1. ErrorOf(f) \in {"none", "action", "syntax"} BY DEF ErrorOf
<1> QED BY <1>1 DEF Flush, Form

\* Closing the dialog, or editing it, disturbs no save.
LEMMA FormMoves ==
    ASSUME RuleInv, form' \in Form, UNCHANGED <<opening, saves, stored, twice>>,
           \/ ~form'.loading /\ ~form'.open
           \/ form'.open = form.open /\ form'.loading = form.loading
    PROVE  RuleInv'
<1>1. RuleTypes' /\ OpenForm' /\ Opened' BY DEF RuleInv, RuleTypes, OpenForm, Opened
<1>2. ASSUME NEW n \in Openings \ twice PROVE OnceOnly(n)'
  BY DEF RuleInv, OnceOnly, Knows, Single, Unsaved, Saving
<1> QED BY <1>1, <1>2 DEF RuleInv

LEMMA EditKeeps ==
    ASSUME RuleInv, NEW f \in Form, f.open = form.open, f.loading = form.loading, Edit(f)
    PROVE  RuleInv'
<1>1. form' = Flush(f) /\ UNCHANGED <<opening, saves, stored, twice>> BY DEF Edit
<1> QED BY <1>1, FlushType, FormMoves

LEMMA EditsKeep ==
    ASSUME RuleInv,
           \/ \E t \in {"template", "custom"} : ChooseType(t)
           \/ \E b \in BOOLEAN : FillAction(b)
           \/ \E j \in {"empty", "rule", "bare", "broken"} : FillJson(j)
    PROVE  RuleInv'
<1>1. form \in Form BY DEF RuleInv, RuleTypes
<1>2. ASSUME NEW t \in {"template", "custom"}, ChooseType(t) PROVE RuleInv'
  <2>1. PICK f \in {[form EXCEPT !.type = t, !.action = IF t = "custom" THEN FALSE ELSE @,
                                 !.json = IF t = "template" THEN "empty" ELSE @]} : Edit(f)
    BY <1>2 DEF ChooseType
  <2>2. f \in Form /\ f.open = form.open /\ f.loading = form.loading BY <1>1, <2>1 DEF Form
  <2> QED BY <2>1, <2>2, EditKeeps
<1>3. ASSUME NEW b \in BOOLEAN, FillAction(b) PROVE RuleInv'
  <2>1. PICK f \in {[form EXCEPT !.action = b]} : Edit(f) BY <1>3 DEF FillAction
  <2>2. f \in Form /\ f.open = form.open /\ f.loading = form.loading BY <1>1, <2>1 DEF Form
  <2> QED BY <2>1, <2>2, EditKeeps
<1>4. ASSUME NEW j \in {"empty", "rule", "bare", "broken"}, FillJson(j) PROVE RuleInv'
  <2>1. PICK f \in {[form EXCEPT !.json = j]} : Edit(f) BY <1>4 DEF FillJson
  <2>2. f \in Form /\ f.open = form.open /\ f.loading = form.loading BY <1>1, <2>1 DEF Form
  <2> QED BY <2>1, <2>2, EditKeeps
<1> QED BY <1>2, <1>3, <1>4

\* Nothing is stored or being saved for a dialog that opens.
LEMMA AddNewRuleKeeps == ASSUME RuleInv, AddNewRule PROVE RuleInv'
<1>1. /\ form \in Form /\ opening \in Nat /\ opening < MaxOpen /\ opening' = opening + 1 /\ ~form.open
      /\ form' = [form EXCEPT !.open = TRUE] /\ UNCHANGED <<saves, stored, twice>>
  BY PageFacts DEF AddNewRule, Uncovered, RuleInv, RuleTypes
<1>2. form' \in Form /\ form'.open /\ form'.loading = form.loading /\ ~form.loading
  BY <1>1 DEF Form, RuleInv, OpenForm
<1>3. opening' \in 0..MaxOpen BY <1>1, PageFacts
<1>4. RuleTypes' BY <1>1, <1>2, <1>3 DEF RuleInv, RuleTypes
<1>5. \A s \in Saves : saves[s].opening \in Nat BY PageFacts DEF RuleInv, RuleTypes, Save
<1>6. OpenForm' /\ Opened' BY <1>1, <1>2, <1>5, PageFacts DEF RuleInv, OpenForm, Opened
<1>7. ASSUME NEW n \in Openings \ twice PROVE OnceOnly(n)'
  <2>1. OnceOnly(n) /\ n \in Nat BY PageFacts DEF RuleInv
  <2>2. stored'[n] <= 1 /\ Knows(n)' /\ Single(n)' BY <1>1, <2>1 DEF OnceOnly, Knows, Single, Saving
  <2>3. Unsaved(n)'
    <3> SUFFICES ASSUME opening' = n
                 PROVE  (\A s \in Saves : ~Saving(s, n)') /\ stored'[n] = 0
      BY DEF Unsaved
    <3> QED BY <1>1, <1>5, <2>1 DEF RuleInv, Opened, Saving
  <2> QED BY <2>2, <2>3 DEF OnceOnly
<1> QED BY <1>1, <1>4, <1>6, <1>7 DEF RuleInv

\* A save starts from an open dialog whose button is enabled: none is running for
\* it and nothing is stored.
LEMMA HandleSaveKeeps == ASSUME RuleInv, NEW s \in Saves, HandleSave(s) PROVE RuleInv'
<1>1. /\ form \in Form /\ opening \in 0..MaxOpen /\ opening \in Nat /\ saves \in [Saves -> Save]
      /\ form.open /\ ~form.loading /\ UNCHANGED <<opening, stored, twice>> /\ saves[s].at = "idle"
      /\ opening > 0
  BY PageFacts DEF HandleSave, Free, RuleInv, RuleTypes, OpenForm
<1>2. CASE form' = Flush(form) /\ UNCHANGED saves
  <2>1. form' \in Form /\ form'.open = form.open /\ form'.loading = form.loading
    BY <1>1, <1>2, FlushType
  <2> QED BY <1>1, <1>2, <2>1, FormMoves
<1>3. CASE /\ saves' = [saves EXCEPT ![s] = [at |-> "sent", opening |-> opening, ok |-> TRUE]]
           /\ form' = [form EXCEPT !.loading = TRUE]
  <2> DEFINE f == [at |-> "sent", opening |-> opening, ok |-> TRUE]
  <2>1. f \in Save /\ f.at = "sent" /\ f.opening = opening BY <1>1 DEF Save, Steps
  <2>2. \A t \in Saves : saves'[t] = IF t = s THEN f ELSE saves[t] BY <1>1, <1>3
  <2>3. form' \in Form /\ form'.open /\ form'.loading BY <1>1, <1>3 DEF Form
  <2>4. saves' \in [Saves -> Save] BY <1>1, <1>3, <2>1
  <2> HIDE DEF f
  <2>5. RuleTypes' BY <1>1, <2>3, <2>4 DEF RuleInv, RuleTypes
  <2>6. OpenForm' /\ Opened' BY <1>1, <2>1, <2>2, <2>3 DEF RuleInv, OpenForm, Opened
  <2>7. ASSUME NEW n \in Openings \ twice PROVE OnceOnly(n)'
    <3>1. OnceOnly(n) BY DEF RuleInv
    <3>2. CASE n # opening
      BY <1>1, <2>1, <2>2, <3>1, <3>2 DEF OnceOnly, Knows, Single, Unsaved, Saving
    <3>3. CASE n = opening
      <4>1. stored[n] = 0 /\ \A t \in Saves : ~Saving(t, n) BY <1>1, <3>1, <3>3 DEF OnceOnly, Unsaved
      <4>2. \A t \in Saves : Saving(t, n)' <=> t = s BY <2>1, <2>2, <3>3, <4>1 DEF Saving
      <4>3. saves'[s].at = "sent" /\ stored'[n] = 0 BY <1>1, <2>1, <2>2, <4>1
      <4> QED BY <2>3, <4>2, <4>3 DEF OnceOnly, Knows, Single, Unsaved
    <3> QED BY <3>2, <3>3
  <2> QED BY <1>1, <2>5, <2>6, <2>7 DEF RuleInv
<1> QED BY <1>2, <1>3 DEF HandleSave

LEMMA ServeSaveKeeps == ASSUME RuleInv, NEW s \in Saves, ServeSave(s) PROVE RuleInv'
<1>1. PICK n \in Openings : n = saves[s].opening
  BY PageFacts DEF ServeSave, RuleInv, RuleTypes, Save, Opened, Openings
<1>2. PICK kept \in BOOLEAN, ok \in BOOLEAN :
          /\ ok => kept
          /\ stored' = IF kept THEN [stored EXCEPT ![n] = @ + 1] ELSE stored
          /\ twice' = IF kept /\ ~ok THEN twice \cup {n} ELSE twice
          /\ saves' = [saves EXCEPT ![s].at = "told", ![s].ok = ok]
  BY <1>1 DEF ServeSave
<1>3. /\ saves \in [Saves -> Save] /\ saves[s].at = "sent" /\ UNCHANGED <<form, opening>>
      /\ opening \in Nat /\ stored \in [Openings -> Nat]
  BY PageFacts DEF ServeSave, RuleInv, RuleTypes
<1> DEFINE f == [saves[s] EXCEPT !.at = "told", !.ok = ok]
<1>4. f \in Save /\ f.at = "told" /\ f.ok = ok /\ f.opening = n BY <1>1, <1>3 DEF Save, Steps
<1>5. saves' \in [Saves -> Save] /\ \A t \in Saves : saves'[t] = IF t = s THEN f ELSE saves[t]
  BY <1>2, <1>3, <1>4
<1> HIDE DEF f
<1>6. stored' \in [Openings -> Nat] /\ \A m \in Openings : m # n => stored'[m] = stored[m]
  BY <1>2, <1>3
<1>7. stored'[n] = IF kept THEN stored[n] + 1 ELSE stored[n] BY <1>2, <1>3
<1>8. twice \subseteq twice' /\ twice' \subseteq Openings BY <1>2 DEF RuleInv, RuleTypes
<1>9. RuleTypes' BY <1>3, <1>5, <1>6, <1>8 DEF RuleInv, RuleTypes
<1>10. n > 0 /\ n <= opening /\ n \in Nat BY <1>1, <1>3, PageFacts DEF RuleInv, Opened
<1>11. OpenForm' /\ Opened'
  <2>1. OpenForm' BY <1>3 DEF RuleInv, OpenForm
  <2>2. \A m \in Openings : m > opening' => stored'[m] = 0
    BY <1>3, <1>6, <1>10, PageFacts DEF RuleInv, Opened
  <2>3. \A t \in Saves : saves'[t].at # "idle" => saves'[t].opening > 0 /\ saves'[t].opening <= opening'
    BY <1>3, <1>4, <1>5, <1>10 DEF RuleInv, Opened
  <2> QED BY <2>1, <2>2, <2>3 DEF Opened
<1>12. \A t \in Saves, m \in Openings : Saving(t, m)' <=> Saving(t, m)
  BY <1>1, <1>3, <1>4, <1>5 DEF Saving
<1>13. ASSUME NEW m \in Openings \ twice' PROVE OnceOnly(m)'
  <2>1. OnceOnly(m) BY <1>8 DEF RuleInv
  <2>2. Single(m)' BY <1>12, <2>1 DEF OnceOnly, Single
  <2>3. CASE m # n
    <3>1. Knows(m)'
      <4> SUFFICES ASSUME NEW t \in Saves, Saving(t, m)
                   PROVE  stored'[m] = IF saves'[t].at = "told" /\ saves'[t].ok THEN 1 ELSE 0
        BY <1>12 DEF Knows
      <4>1. t # s BY <1>1, <2>3 DEF Saving
      <4> QED BY <1>5, <1>6, <2>1, <2>3, <4>1 DEF OnceOnly, Knows
    <3>2. Unsaved(m)' BY <1>3, <1>6, <1>12, <2>1, <2>3 DEF OnceOnly, Unsaved
    <3> QED BY <1>6, <2>1, <2>2, <2>3, <3>1, <3>2 DEF OnceOnly
  <2>4. CASE m = n
    <3>1. Saving(s, n) BY <1>1, <1>3 DEF Saving
    <3>2. stored[n] = 0 BY <1>3, <2>1, <2>4, <3>1 DEF OnceOnly, Knows
    <3>3. kept => ok BY <1>2, <2>4
    <3>4. stored'[n] = IF ok THEN 1 ELSE 0 BY <1>2, <1>7, <3>2, <3>3
    <3>5. Knows(n)'
      <4> SUFFICES ASSUME NEW t \in Saves, Saving(t, n)
                   PROVE  stored'[n] = IF saves'[t].at = "told" /\ saves'[t].ok THEN 1 ELSE 0
        BY <1>12 DEF Knows
      <4>1. t = s BY <2>1, <2>4, <3>1 DEF OnceOnly, Single
      <4> QED BY <1>4, <1>5, <3>4, <4>1
    <3>6. Unsaved(n)' BY <1>3, <1>12, <2>1, <2>4, <3>1 DEF OnceOnly, Unsaved
    <3> QED BY <2>2, <2>4, <3>4, <3>5, <3>6 DEF OnceOnly
  <2> QED BY <2>3, <2>4
<1> QED BY <1>9, <1>11, <1>13 DEF RuleInv

\* A save that has come to its end is gone.
LEMMA SaveEnds ==
    ASSUME RuleInv, NEW s \in Saves, saves' = [saves EXCEPT ![s] = NoSave],
           UNCHANGED <<opening, stored>>, form' \in Form, OpenForm', twice \subseteq twice',
           twice' \subseteq Openings, \A n \in Openings \ twice' : Unsaved(n)'
    PROVE  RuleInv'
<1>1. \A t \in Saves : saves'[t] = IF t = s THEN NoSave ELSE saves[t] BY DEF RuleInv, RuleTypes
<1>2. saves' \in [Saves -> Save] BY NoSaveType DEF RuleInv, RuleTypes
<1>3. RuleTypes' BY <1>2 DEF RuleInv, RuleTypes
<1>4. Opened' BY <1>1, NoSaveType DEF RuleInv, Opened
<1>5. \A t \in Saves, n \in Openings : Saving(t, n)' => Saving(t, n) /\ saves'[t] = saves[t]
  BY <1>1, NoSaveType DEF Saving
<1>6. ASSUME NEW n \in Openings \ twice' PROVE OnceOnly(n)'
  <2>1. OnceOnly(n) BY DEF RuleInv
  <2>2. Knows(n)' /\ Single(n)' BY <1>5, <2>1 DEF OnceOnly, Knows, Single
  <2> QED BY <2>1, <2>2 DEF OnceOnly
<1> QED BY <1>3, <1>4, <1>6 DEF RuleInv

LEMMA SaveSucceedsKeeps == ASSUME RuleInv, NEW s \in Saves, SaveSucceeds(s) PROVE RuleInv'
<1>1. form' = Blank /\ UNCHANGED <<opening, stored, twice>> /\ saves' = [saves EXCEPT ![s] = NoSave]
  BY DEF SaveSucceeds
<1>2. OpenForm' /\ \A n \in Openings : Unsaved(n)' BY <1>1, BlankType DEF OpenForm, Unsaved
<1> QED BY <1>1, <1>2, BlankType, SaveEnds DEF RuleInv, RuleTypes

\* The button is enabled again: if another save is running, by mistake.
LEMMA SaveFailsKeeps == ASSUME RuleInv, NEW s \in Saves, SaveFails(s) PROVE RuleInv'
<1> DEFINE g == [form EXCEPT !.loading = FALSE]
           Others == {u \in Saves \ {s} : saves[u].at # "idle"}
<1>1. /\ saves[s].at = "told" /\ ~saves[s].ok /\ UNCHANGED <<opening, stored>>
      /\ saves' = [saves EXCEPT ![s] = NoSave]
      /\ twice' = twice \cup {saves[t].opening : t \in Others} /\ form' = Flush(g)
  BY DEF SaveFails
<1>2. g \in Form /\ g.open = form.open /\ ~g.loading BY DEF RuleInv, RuleTypes, Form
<1> HIDE DEF g
<1>3. form' \in Form /\ form'.open = form.open /\ ~form'.loading BY <1>1, <1>2, FlushType
<1>4. OpenForm' BY <1>1, <1>3 DEF RuleInv, OpenForm
<1>5. \A t \in Saves : saves[t].at # "idle" => saves[t].opening \in Openings
  BY PageFacts DEF RuleInv, RuleTypes, Save, Opened, Openings
<1>6. twice \subseteq twice' /\ twice' \subseteq Openings BY <1>1, <1>5 DEF RuleInv, RuleTypes
<1>7. ASSUME NEW n \in Openings \ twice' PROVE Unsaved(n)'
  <2>1. OnceOnly(n) BY <1>6 DEF RuleInv
  <2>2. \A t \in Saves : t # s => ~Saving(t, n) BY <1>1 DEF Saving
  <2>3. saves' \in [Saves -> Save] /\ saves'[s] = NoSave /\ \A t \in Saves : t # s => saves'[t] = saves[t]
    BY <1>1, NoSaveType DEF RuleInv, RuleTypes
  <2>4. \A t \in Saves : ~Saving(t, n)' BY <2>2, <2>3, NoSaveType DEF Saving
  <2>5. form.open /\ opening = n => stored[n] = 0
    BY <1>1, <2>1, <2>2 DEF OnceOnly, Knows, Unsaved
  <2> QED BY <1>1, <1>3, <2>4, <2>5 DEF Unsaved
<1> QED BY <1>1, <1>3, <1>4, <1>6, <1>7, SaveEnds

LEMMA ReloadKeepsRule == ASSUME RuleInv, Reload PROVE RuleInv'
<1>1. form' = Blank /\ UNCHANGED <<opening, stored, twice>> /\ saves' = [s \in Saves |-> NoSave]
  BY DEF Reload
<1>2. \A s \in Saves : saves'[s].at = "idle" BY <1>1, NoSaveType
<1>3. RuleTypes' BY <1>1, BlankType, NoSaveType DEF RuleInv, RuleTypes
<1>4. OpenForm' /\ Opened' BY <1>1, <1>2, BlankType DEF RuleInv, OpenForm, Opened
<1>5. ASSUME NEW n \in Openings \ twice PROVE OnceOnly(n)'
  BY <1>1, <1>2, BlankType DEF RuleInv, OnceOnly, Knows, Single, Unsaved, Saving
<1> QED BY <1>1, <1>3, <1>4, <1>5 DEF RuleInv

LEMMA RuleKept == ASSUME RuleInv, [Next]_vars PROVE RuleInv'
<1>1. ASSUME UNCHANGED ruleVars PROVE RuleInv'
  BY <1>1 DEF ruleVars, RuleInv, RuleTypes, OpenForm, Opened, OnceOnly, Knows, Single, Unsaved, Saving
<1>2. CASE CloseRule
  <2>1. form' = Blank /\ UNCHANGED <<opening, saves, stored, twice>> BY <1>2 DEF CloseRule
  <2> QED BY <2>1, BlankType, FormMoves
<1>3. CASE RuleStep
  BY <1>2, <1>3, AddNewRuleKeeps, EditsKeep, HandleSaveKeeps, ServeSaveKeeps, SaveSucceedsKeeps,
     SaveFailsKeeps DEF RuleStep
<1> QED BY <1>1, <1>3, NextParts, PickerAlone, KeyAlone, LoadAlone, ReloadKeepsRule DEF vars

\* One filling of the rule dialog stores one rule, however saves of several
\* dialogs overlap, unless an answer was lost or an older save's failure
\* unlocked the button (handleSave of RuleBuilderModal).
THEOREM OneRule == Spec => []SavedOnce
<1>1. RuleInv => SavedOnce
  <2> SUFFICES ASSUME RuleInv, NEW n \in Openings, stored[n] > 1, n \notin twice PROVE FALSE
    BY DEF SavedOnce
  <2>1. stored[n] <= 1 /\ stored[n] \in Nat BY DEF RuleInv, RuleTypes, OnceOnly
  <2> QED BY <2>1
<1> QED BY <1>1, InitRule, RuleKept, PTL DEF Spec

-----------------------------------------------------------------------------
(***************************************************************************)
(* The SDK dialogs.  What lands is shown whatever it is about, so JobShown *)
(* rests on what is under way: an answer that is not late is about the job *)
(* shown, and while one may come the timer is on.  An answer names an      *)
(* outcome the job has had, and a record of a process does too.            *)
(***************************************************************************)
PickerTypes ==
    /\ picker \in [Pickers -> Picker] /\ starts \in [Pickers -> [Starts -> Start]]
    /\ polls \in [Pickers -> [Polls -> Poll]] /\ misled \subseteq Pickers /\ jobs \in [Jobs -> Job]
Sincere(k, p) ==
    polls[k][p].at # "idle" =>
        /\ polls[k][p].job \in Jobs
        /\ polls[k][p].at = "told" /\ polls[k][p].status \in Ended =>
               polls[k][p].status \in jobs[polls[k][p].job].had
        /\ ~polls[k][p].late /\ picker[k].job # 0 => picker[k].timer /\ polls[k][p].job = picker[k].job
StillAsking(k) == picker[k].timer /\ picker[k].job # 0 => picker[k].status \notin Ended
Outcome(k) ==
    picker[k].open /\ picker[k].job # 0 /\ k \notin misled =>
        /\ picker[k].status \in Ended => picker[k].status \in jobs[picker[k].job].had
        /\ picker[k].timer \/ picker[k].error \/ picker[k].status \in Ended
DialogInv(k) == (\A p \in Polls : Sincere(k, p)) /\ StillAsking(k) /\ Outcome(k)
Honest == \A j \in Jobs : jobs[j].held \cap Ended \subseteq jobs[j].had
PickerInv == PickerTypes /\ Honest /\ \A k \in Pickers : DialogInv(k)

LEMMA PickerBlanks ==
    /\ Closed \in Picker /\ Closed.job = 0 /\ ~Closed.timer /\ NoStart \in Start
    /\ NoPoll \in Poll /\ NoPoll.at = "idle"
    /\ NoJob \in Job /\ NoJob.held = {} /\ NoJob.had = {}
BY PageFacts DEF Closed, Picker, NoStart, Start, NoPoll, Poll, NoJob, Job, JobStatus, Steps

\* Dialogs that are closed, with nothing under way.
LEMMA AllClosed ==
    ASSUME picker' = [k \in Pickers |-> Closed], misled' = {},
           starts' = [k \in Pickers |-> [s \in Starts |-> NoStart]],
           polls' = [k \in Pickers |-> [p \in Polls |-> NoPoll]], jobs' \in [Jobs -> Job], Honest'
    PROVE  PickerInv'
<1>1. PickerTypes' BY PickerBlanks DEF PickerTypes
<1>2. \A k \in Pickers : picker'[k] = Closed /\ \A p \in Polls : polls'[k][p].at = "idle"
  BY PickerBlanks
<1>3. \A k \in Pickers : DialogInv(k)'
  BY <1>2, PickerBlanks DEF DialogInv, Sincere, StillAsking, Outcome
<1> QED BY <1>1, <1>3 DEF PickerInv

LEMMA InitPicker == Init => PickerInv
<1> SUFFICES ASSUME Init PROVE PickerInv OBVIOUS
<1>1. /\ picker = [k \in Pickers |-> Closed] /\ misled = {}
      /\ starts = [k \in Pickers |-> [s \in Starts |-> NoStart]]
      /\ polls = [k \in Pickers |-> [p \in Polls |-> NoPoll]] /\ jobs = [j \in Jobs |-> NoJob]
  BY DEF Init
<1>2. PickerTypes BY <1>1, PickerBlanks DEF PickerTypes
<1>3. Honest BY <1>1, PickerBlanks DEF Honest
<1>4. \A k \in Pickers : picker[k] = Closed /\ \A p \in Polls : polls[k][p].at = "idle"
  BY <1>1, PickerBlanks
<1>5. \A k \in Pickers : DialogInv(k)
  BY <1>4, PickerBlanks DEF DialogInv, Sincere, StillAsking, Outcome
<1> QED BY <1>2, <1>3, <1>5 DEF PickerInv

\* What a dialog does is nothing to the others.
LEMMA OneDialog ==
    ASSUME PickerInv, NEW k \in Pickers, picker' \in [Pickers -> Picker],
           starts' \in [Pickers -> [Starts -> Start]], polls' \in [Pickers -> [Polls -> Poll]],
           misled' \subseteq Pickers, UNCHANGED jobs, DialogInv(k)',
           \A l \in Pickers : l # k => /\ picker'[l] = picker[l] /\ polls'[l] = polls[l]
                                       /\ l \in misled => l \in misled'
    PROVE  PickerInv'
<1>1. PickerTypes' /\ Honest' BY DEF PickerInv, PickerTypes, Honest
<1>2. ASSUME NEW l \in Pickers, l # k PROVE DialogInv(l)'
  BY <1>2 DEF PickerInv, DialogInv, Sincere, StillAsking, Outcome
<1> QED BY <1>1, <1>2 DEF PickerInv

\* Nothing the invariant speaks of changes, but an error may come up or the dialog close.
LEMMA PickerMoves ==
    ASSUME PickerInv, NEW k \in Pickers, NEW g \in Picker, picker' = [picker EXCEPT ![k] = g],
           starts' \in [Pickers -> [Starts -> Start]], UNCHANGED <<polls, jobs, misled>>,
           g.job = picker[k].job, g.status = picker[k].status, g.timer = picker[k].timer,
           g.open => picker[k].open /\ (picker[k].error => g.error)
    PROVE  PickerInv'
<1>1. /\ picker' \in [Pickers -> Picker] /\ polls \in [Pickers -> [Polls -> Poll]]
      /\ misled \subseteq Pickers /\ \A l \in Pickers : picker'[l] = IF l = k THEN g ELSE picker[l]
  BY DEF PickerInv, PickerTypes
<1>2. DialogInv(k)' BY <1>1 DEF PickerInv, DialogInv, Sincere, StillAsking, Outcome
<1> QED BY <1>1, <1>2, OneDialog

LEMMA SaveShowsPicker == ASSUME PickerInv, NEW s \in Saves, SaveSucceeds(s) PROVE PickerInv'
<1>1. UNCHANGED <<polls, jobs, starts>> /\ ShowPicker BY DEF SaveSucceeds
<1>2. CASE UNCHANGED <<picker, misled>>
  BY <1>1, <1>2 DEF PickerInv, PickerTypes, Honest, DialogInv, Sincere, StillAsking, Outcome
<1>3. ASSUME NEW k \in Pickers, Gone(k), picker' = [picker EXCEPT ![k] = [Closed EXCEPT !.open = TRUE]],
             misled' = misled \ {k}
      PROVE  PickerInv'
  <2>1. PICK g \in {[Closed EXCEPT !.open = TRUE]} : picker' = [picker EXCEPT ![k] = g] BY <1>3
  <2>2. g \in Picker /\ g.job = 0 /\ ~g.timer
    BY <2>1, PickerBlanks, PageFacts DEF Closed, Picker, JobStatus
  <2>3. picker \in [Pickers -> Picker] /\ misled \subseteq Pickers BY DEF PickerInv, PickerTypes
  <2>4. picker' \in [Pickers -> Picker] /\ \A l \in Pickers : picker'[l] = IF l = k THEN g ELSE picker[l]
    BY <2>1, <2>2, <2>3
  <2>5. \A p \in Polls : polls[k][p].at = "idle" BY <1>3 DEF Gone
  <2>6. DialogInv(k)' BY <1>1, <2>2, <2>4, <2>5 DEF DialogInv, Sincere, StillAsking, Outcome
  <2> QED BY <1>1, <1>3, <2>3, <2>4, <2>6, OneDialog DEF PickerInv, PickerTypes
<1> QED BY <1>1, <1>2, <1>3 DEF ShowPicker

\* Steps of an open dialog that change neither the job it shows nor its timer.
LEMMA LanguagesLandKeeps == ASSUME PickerInv, NEW k \in Pickers, LanguagesLand(k) PROVE PickerInv'
<1>1. PICK l \in {"codegen", "curated", "none"} : picker' = [picker EXCEPT ![k].langs = l]
  BY DEF LanguagesLand
<1>2. PICK g \in {[picker[k] EXCEPT !.langs = l]} : picker' = [picker EXCEPT ![k] = g] BY <1>1
<1>3. g \in Picker /\ g.job = picker[k].job /\ g.status = picker[k].status /\ g.timer = picker[k].timer
      /\ g.open = picker[k].open /\ g.error = picker[k].error
  BY <1>2 DEF PickerInv, PickerTypes, Picker
<1> QED BY <1>2, <1>3, PickerMoves DEF LanguagesLand, PickerInv, PickerTypes

LEMMA DownloadGeneratedKeeps == ASSUME PickerInv, NEW k \in Pickers, DownloadGenerated(k) PROVE PickerInv'
<1>1. PICK g \in {[picker[k] EXCEPT !.fetching = TRUE], [picker[k] EXCEPT !.error = TRUE]} :
          picker' = [picker EXCEPT ![k] = g]
  BY DEF DownloadGenerated
<1>2. g \in Picker /\ g.job = picker[k].job /\ g.status = picker[k].status /\ g.timer = picker[k].timer
      /\ g.open = picker[k].open /\ (picker[k].error => g.error)
  BY <1>1 DEF PickerInv, PickerTypes, Picker
<1> QED BY <1>1, <1>2, PickerMoves DEF DownloadGenerated, PickerInv, PickerTypes

LEMMA DownloadsLandKeep ==
    ASSUME PickerInv, NEW k \in Pickers, GeneratedLands(k) \/ SDKLands(k) PROVE PickerInv'
<1>1. picker[k] \in Picker /\ UNCHANGED <<starts, polls, misled, jobs>>
  BY DEF GeneratedLands, SDKLands, PickerInv, PickerTypes
<1>2. PICK ok \in BOOLEAN :
          \/ picker' = [picker EXCEPT ![k].fetching = FALSE, ![k].error = @ \/ ~ok]
          \/ picker' = [picker EXCEPT ![k].downloading = FALSE, ![k].error = @ \/ ~ok]
  BY DEF GeneratedLands, SDKLands
<1>3. PICK g \in {[picker[k] EXCEPT !.fetching = FALSE, !.error = (picker[k].error \/ ~ok)],
                  [picker[k] EXCEPT !.downloading = FALSE, !.error = (picker[k].error \/ ~ok)]} :
          picker' = [picker EXCEPT ![k] = g]
  BY <1>2
<1>4. (picker[k].error \/ ~ok) \in BOOLEAN OBVIOUS
<1>5. g \in Picker /\ g.job = picker[k].job /\ g.status = picker[k].status /\ g.timer = picker[k].timer
      /\ g.open = picker[k].open /\ g.error = (picker[k].error \/ ~ok)
  BY <1>1, <1>3, <1>4 DEF Picker
<1> QED BY <1>1, <1>3, <1>5, PickerMoves DEF PickerInv, PickerTypes

\* The component is gone: what goes on is shown to nobody.
LEMMA ClosePickerKeeps == ASSUME PickerInv, NEW k \in Pickers, ClosePicker(k) PROVE PickerInv'
<1>1. PICK g \in {[Closed EXCEPT !.job = picker[k].job, !.status = picker[k].status,
                                 !.timer = picker[k].timer]} : picker' = [picker EXCEPT ![k] = g]
  BY DEF ClosePicker
<1>2. picker[k] \in Picker BY DEF PickerInv, PickerTypes
<1>3. g \in Picker /\ g.job = picker[k].job /\ g.status = picker[k].status /\ g.timer = picker[k].timer
      /\ ~g.open
  BY <1>1, <1>2 DEF Closed, Picker
<1> QED BY <1>1, <1>3, PickerMoves DEF ClosePicker, PickerInv, PickerTypes

\* The download takes the error of the job away: that is what misled notes.
LEMMA DownloadSDKKeeps ==
    ASSUME PickerInv, token \in BOOLEAN, NEW k \in Pickers, DownloadSDK(k) PROVE PickerInv'
<1>1. PICK g \in {[picker[k] EXCEPT !.downloading = token, !.error = ~token]} :
          picker' = [picker EXCEPT ![k] = g]
  BY DEF DownloadSDK
<1>2. /\ picker \in [Pickers -> Picker] /\ misled \subseteq Pickers /\ UNCHANGED <<starts, polls, jobs>>
      /\ misled' = IF picker[k].error THEN misled \cup {k} ELSE misled
  BY DEF DownloadSDK, PickerInv, PickerTypes
<1>3. g \in Picker /\ g.job = picker[k].job /\ g.status = picker[k].status /\ g.timer = picker[k].timer
      /\ g.open = picker[k].open
  <2>1. picker[k] \in Picker /\ (~token) \in BOOLEAN BY <1>2
  <2> QED BY <1>1, <2>1 DEF Picker
<1>4. picker' \in [Pickers -> Picker] /\ \A l \in Pickers : picker'[l] = IF l = k THEN g ELSE picker[l]
  BY <1>1, <1>2, <1>3
<1>5. DialogInv(k)' BY <1>2, <1>3, <1>4 DEF PickerInv, DialogInv, Sincere, StillAsking, Outcome
<1> QED BY <1>2, <1>4, <1>5, OneDialog DEF PickerInv, PickerTypes

\* A start changes a request of its own dialog.
LEMMA StartType ==
    ASSUME PickerInv, NEW k \in Pickers, NEW s \in Starts, NEW f \in Start,
           starts' = [starts EXCEPT ![k][s] = f]
    PROVE  starts' \in [Pickers -> [Starts -> Start]]
<1>1. starts \in [Pickers -> [Starts -> Start]] BY DEF PickerInv, PickerTypes
<1>2. [starts[k] EXCEPT ![s] = f] \in [Starts -> Start] BY <1>1
<1>3. starts' = [starts EXCEPT ![k] = [starts[k] EXCEPT ![s] = f]] OBVIOUS
<1> QED BY <1>1, <1>2, <1>3

\* The old job is forgotten: whatever lands now finds no job, or a later one.
LEMMA StartGenerateKeeps ==
    ASSUME PickerInv, token \in BOOLEAN, NEW k \in Pickers, NEW s \in Starts, StartGenerate(k, s)
    PROVE  PickerInv'
<1>1. PICK g \in {[picker[k] EXCEPT !.job = 0, !.status = "none", !.error = ~token]} :
          picker' = [picker EXCEPT ![k] = g]
  BY DEF StartGenerate
<1>2. picker \in [Pickers -> Picker] /\ misled \subseteq Pickers /\ UNCHANGED <<polls, jobs>>
      /\ misled' = misled \ {k}
  BY DEF StartGenerate, PickerInv, PickerTypes
<1>3. g \in Picker /\ g.job = 0
  <2>1. picker[k] \in Picker /\ (~token) \in BOOLEAN BY <1>2
  <2> QED BY <1>1, <2>1, PageFacts DEF Picker, JobStatus
<1>4. starts' \in [Pickers -> [Starts -> Start]]
  <2>1. starts \in [Pickers -> [Starts -> Start]] BY DEF PickerInv, PickerTypes
  <2>2. PICK f \in {[starts[k][s] EXCEPT !.at = "sent"]} :
            starts' = [starts EXCEPT ![k][s] = f] \/ starts' = starts
    BY DEF StartGenerate
  <2>3. f \in Start BY <2>1, <2>2 DEF Start, Steps
  <2> QED BY <2>1, <2>2, <2>3, StartType
<1>5. picker' \in [Pickers -> Picker] /\ \A l \in Pickers : picker'[l] = IF l = k THEN g ELSE picker[l]
  BY <1>1, <1>2, <1>3
<1>6. DialogInv(k)' BY <1>2, <1>3, <1>5 DEF PickerInv, DialogInv, Sincere, StillAsking, Outcome
<1> QED BY <1>2, <1>4, <1>5, <1>6, OneDialog DEF PickerInv, PickerTypes

\* The outcomes a job has had are not forgotten.
LEMMA JobsMove ==
    ASSUME PickerInv, starts' \in [Pickers -> [Starts -> Start]], NEW j \in Jobs, NEW f \in Job,
           jobs' = [jobs EXCEPT ![j] = f], jobs[j].had \subseteq f.had, f.held \cap Ended \subseteq f.had,
           UNCHANGED <<picker, polls, misled>>
    PROVE  PickerInv'
<1>1. jobs \in [Jobs -> Job] BY DEF PickerInv, PickerTypes
<1>2. jobs' \in [Jobs -> Job] /\ \A i \in Jobs : jobs'[i] = IF i = j THEN f ELSE jobs[i] BY <1>1
<1>3. PickerTypes' BY <1>2 DEF PickerInv, PickerTypes
<1>4. Honest' BY <1>2 DEF PickerInv, Honest
<1>5. \A i \in Jobs : jobs[i].had \subseteq jobs'[i].had BY <1>2
<1>6. ASSUME NEW k \in Pickers PROVE DialogInv(k)'
  <2>1. picker[k].job # 0 => picker[k].job \in Jobs BY PageFacts DEF PickerInv, PickerTypes, Picker
  <2>2. DialogInv(k) BY DEF PickerInv
  <2>3. ASSUME NEW p \in Polls PROVE Sincere(k, p)' BY <1>5, <2>2 DEF DialogInv, Sincere
  <2>4. StillAsking(k)' /\ Outcome(k)' BY <1>5, <2>1, <2>2 DEF DialogInv, StillAsking, Outcome
  <2> QED BY <2>3, <2>4 DEF DialogInv
<1> QED BY <1>3, <1>4, <1>6 DEF PickerInv

LEMMA ServeStartKeeps ==
    ASSUME PickerInv, NEW k \in Pickers, NEW s \in Starts, ServeStart(k, s) PROVE PickerInv'
<1>1. /\ starts \in [Pickers -> [Starts -> Start]] /\ jobs \in [Jobs -> Job]
      /\ UNCHANGED <<picker, polls, misled>>
  BY DEF ServeStart, PickerInv, PickerTypes
<1>2. CASE starts' = [starts EXCEPT ![k][s].at = "told"] /\ UNCHANGED jobs
  <2>1. PICK f \in {[starts[k][s] EXCEPT !.at = "told"]} : starts' = [starts EXCEPT ![k][s] = f]
    BY <1>2
  <2>2. starts[k][s] \in Start BY <1>1
  <2>3. f \in Start BY <2>1, <2>2 DEF Start, Steps
  <2>4. starts' \in [Pickers -> [Starts -> Start]] BY <2>1, <2>3, StartType
  <2> QED BY <1>1, <1>2, <2>4
        DEF PickerInv, PickerTypes, Honest, DialogInv, Sincere, StillAsking, Outcome
<1>3. ASSUME NEW j \in Jobs, jobs[j] = NoJob, jobs' = [jobs EXCEPT ![j] = [NoJob EXCEPT !.held = {"queued"}]],
             starts' = [starts EXCEPT ![k][s] = [at |-> "told", job |-> j]]
      PROVE  PickerInv'
  <2>1. PICK f \in {[NoJob EXCEPT !.held = {"queued"}]} : jobs' = [jobs EXCEPT ![j] = f] BY <1>3
  <2>2. f \in Job /\ f.held = {"queued"} /\ f.had = {} BY <2>1 DEF NoJob, Job, JobStatus
  <2>3. [at |-> "told", job |-> j] \in Start BY PageFacts DEF Start, Steps
  <2>4. starts' \in [Pickers -> [Starts -> Start]] BY <1>3, <2>3, StartType
  <2> QED BY <1>1, <1>3, <2>1, <2>2, <2>4, PickerBlanks, JobsMove DEF Ended
<1> QED BY <1>2, <1>3 DEF ServeStart

\* A record that says how the job ended was written by a run that ended so.
LEMMA RecordedKeeps ==
    ASSUME PickerInv, NEW j \in Jobs, NEW held \in SUBSET JobStatus, NEW had \in SUBSET Ended,
           NEW lost \in BOOLEAN, Recorded(j, held, had, lost),
           jobs[j].had \subseteq had, held \cap Ended \subseteq had
    PROVE  PickerInv'
<1>1. PICK f \in {[held |-> held, had |-> had, lost |-> lost]} : jobs' = [jobs EXCEPT ![j] = f]
  BY DEF Recorded
<1>2. f \in Job /\ f.held = held /\ f.had = had BY <1>1 DEF Job
<1> QED BY <1>1, <1>2, JobsMove DEF Recorded, pickerVars, PickerInv, PickerTypes

LEMMA JobsKeep ==
    ASSUME PickerInv, NEW j \in Jobs, JobRuns(j) \/ JobRetries(j) \/ JobLost(j) PROVE PickerInv'
<1> DEFINE f == jobs[j]
<1>1. /\ f.held \in SUBSET JobStatus /\ f.had \in SUBSET Ended /\ f.held \cap Ended \subseteq f.had
      /\ "running" \in JobStatus /\ "running" \notin Ended /\ Ended \subseteq JobStatus
      /\ "queued" \notin Ended
  BY DEF PickerInv, PickerTypes, Honest, Job, JobStatus, Ended
<1>2. ASSUME NEW h \in SUBSET f.held, Recorded(j, h \cup {"running"}, f.had, FALSE) PROVE PickerInv'
  BY <1>1, <1>2, RecordedKeeps
<1>3. ASSUME NEW st \in Ended, Recorded(j, (f.held \ {"running"}) \cup {st}, f.had \cup {st}, FALSE)
      PROVE  PickerInv'
  <2>1. (f.held \ {"running"}) \cup {st} \in SUBSET JobStatus /\ f.had \cup {st} \in SUBSET Ended
    BY <1>1
  <2>2. ((f.held \ {"running"}) \cup {st}) \cap Ended \subseteq f.had \cup {st} BY <1>1
  <2> QED BY <1>3, <2>1, <2>2, RecordedKeeps
<1>4. ASSUME NEW h \in SUBSET f.held, Recorded(j, h, f.had, TRUE) PROVE PickerInv'
  BY <1>1, <1>4, RecordedKeeps
<1>5. CASE JobRuns(j)
  <2>1. {} \in SUBSET f.held /\ f.held \in SUBSET f.held OBVIOUS
  <2> QED BY <1>2, <1>3, <1>5, <2>1 DEF JobRuns
<1>6. CASE JobRetries(j)
  <2>1. f.held \in SUBSET f.held /\ f.held \ {"error"} \in SUBSET f.held OBVIOUS
  <2> QED BY <1>2, <1>6, <2>1 DEF JobRetries
<1>7. CASE JobLost(j) BY <1>4, <1>7 DEF JobLost
<1> QED BY <1>5, <1>6, <1>7

\* Every request that runs is late from now on.
LEMMA LateType ==
    ASSUME PickerInv, NEW k \in Pickers, NEW p \in Polls
    PROVE  /\ AllLate(k)[p] \in Poll /\ AllLate(k)[p].at = polls[k][p].at
           /\ AllLate(k)[p].job = polls[k][p].job /\ AllLate(k)[p].status = polls[k][p].status
           /\ polls[k][p].at # "idle" => AllLate(k)[p].late
<1>1. polls[k][p] \in Poll BY DEF PickerInv, PickerTypes
<1>2. AllLate(k)[p] = [polls[k][p] EXCEPT !.late = (polls[k][p].at # "idle")] BY DEF AllLate
<1>3. (polls[k][p].at # "idle") \in BOOLEAN OBVIOUS
<1> QED BY <1>1, <1>2, <1>3 DEF Poll

LEMMA JobStartsKeeps ==
    ASSUME PickerInv, NEW k \in Pickers, NEW s \in Starts, JobStarts(k, s) PROVE PickerInv'
<1>1. /\ starts \in [Pickers -> [Starts -> Start]] /\ picker \in [Pickers -> Picker]
      /\ polls \in [Pickers -> [Polls -> Poll]] /\ misled \subseteq Pickers
      /\ UNCHANGED jobs /\ starts' = [starts EXCEPT ![k][s] = NoStart]
  BY DEF JobStarts, PickerInv, PickerTypes
<1>2. starts' \in [Pickers -> [Starts -> Start]] BY <1>1, PickerBlanks, StartType
<1>3. CASE picker' = [picker EXCEPT ![k].error = picker[k].open] /\ UNCHANGED <<polls, misled>>
  <2>1. PICK g \in {[picker[k] EXCEPT !.error = picker[k].open]} : picker' = [picker EXCEPT ![k] = g]
    BY <1>3
  <2>2. picker[k] \in Picker BY <1>1
  <2>3. g \in Picker /\ g.job = picker[k].job /\ g.status = picker[k].status /\ g.timer = picker[k].timer
        /\ g.open = picker[k].open /\ g.error = picker[k].open
    BY <2>1, <2>2 DEF Picker
  <2> QED BY <1>1, <1>2, <1>3, <2>1, <2>3, PickerMoves
<1>4. CASE /\ picker' = [picker EXCEPT ![k].job = starts[k][s].job, ![k].status = "queued",
                                       ![k].timer = TRUE]
           /\ polls' = [polls EXCEPT ![k] = AllLate(k)] /\ misled' = misled \ {k}
  <2>1. PICK g \in {[picker[k] EXCEPT !.job = starts[k][s].job, !.status = "queued", !.timer = TRUE]} :
            picker' = [picker EXCEPT ![k] = g]
    BY <1>4
  <2>2. starts[k][s].job \in 0..MaxJobs BY <1>1 DEF Start
  <2>3. g \in Picker /\ g.status = "queued" /\ g.timer BY <1>1, <2>1, <2>2 DEF Picker, JobStatus
  <2>4. picker' \in [Pickers -> Picker] /\ \A l \in Pickers : picker'[l] = IF l = k THEN g ELSE picker[l]
    BY <1>1, <2>1, <2>3
  <2>5. AllLate(k) \in [Polls -> Poll] BY LateType DEF AllLate
  <2>6. /\ polls' \in [Pickers -> [Polls -> Poll]] /\ polls'[k] = AllLate(k)
        /\ \A l \in Pickers : l # k => polls'[l] = polls[l]
    BY <1>1, <1>4, <2>5
  <2>7. ASSUME NEW p \in Polls PROVE Sincere(k, p)'
    <3>1. Sincere(k, p) BY DEF PickerInv, DialogInv
    <3>2. /\ polls'[k][p].at = polls[k][p].at /\ polls'[k][p].job = polls[k][p].job
          /\ polls'[k][p].status = polls[k][p].status
          /\ polls[k][p].at # "idle" => polls'[k][p].late
      BY <2>6, LateType
    <3> QED BY <1>1, <3>1, <3>2 DEF Sincere
  <2>8. DialogInv(k)' BY <2>3, <2>4, <2>7 DEF DialogInv, StillAsking, Outcome, Ended
  <2> QED BY <1>1, <1>2, <1>4, <2>4, <2>6, <2>8, OneDialog
<1> QED BY <1>3, <1>4 DEF JobStarts

\* A step of one request that shows nothing.
LEMMA OnePoll ==
    ASSUME PickerInv, NEW k \in Pickers, NEW p \in Polls, NEW f \in Poll,
           polls' = [polls EXCEPT ![k][p] = f], UNCHANGED <<picker, starts, misled, jobs>>,
           f.at # "idle" =>
               /\ f.job \in Jobs
               /\ f.at = "told" /\ f.status \in Ended => f.status \in jobs[f.job].had
               /\ ~f.late /\ picker[k].job # 0 => picker[k].timer /\ f.job = picker[k].job
    PROVE  PickerInv'
<1>1. /\ polls \in [Pickers -> [Polls -> Poll]] /\ picker \in [Pickers -> Picker]
      /\ starts \in [Pickers -> [Starts -> Start]] /\ misled \subseteq Pickers
  BY DEF PickerInv, PickerTypes
<1>2. polls' = [polls EXCEPT ![k] = [polls[k] EXCEPT ![p] = f]] OBVIOUS
<1>3. [polls[k] EXCEPT ![p] = f] \in [Polls -> Poll] BY <1>1
<1>4. polls' \in [Pickers -> [Polls -> Poll]] /\ \A l \in Pickers : l # k => polls'[l] = polls[l]
  BY <1>1, <1>2, <1>3
<1>5. \A q \in Polls : polls'[k][q] = IF q = p THEN f ELSE polls[k][q] BY <1>1, <1>2
<1>6. ASSUME NEW q \in Polls PROVE Sincere(k, q)' BY <1>5 DEF PickerInv, DialogInv, Sincere
<1>7. DialogInv(k)' BY <1>6 DEF PickerInv, DialogInv, StillAsking, Outcome
<1> QED BY <1>1, <1>4, <1>7, OneDialog

LEMMA CheckJobKeeps ==
    ASSUME PickerInv, NEW k \in Pickers, NEW p \in Polls, CheckJob(k, p) PROVE PickerInv'
<1>1. PICK f \in {[NoPoll EXCEPT !.at = "sent", !.job = picker[k].job]} :
          polls' = [polls EXCEPT ![k][p] = f]
  BY DEF CheckJob
<1>2. picker[k].job \in 0..MaxJobs /\ picker[k].job # 0 /\ picker[k].timer
  BY DEF CheckJob, PickerInv, PickerTypes, Picker
<1>3. f \in Poll /\ f.at = "sent" /\ f.job = picker[k].job
  BY <1>1, <1>2, PickerBlanks DEF NoPoll, Poll, Steps, JobStatus
<1>4. f.job \in Jobs BY <1>2, <1>3, PageFacts
<1>5. UNCHANGED <<picker, starts, misled, jobs>> BY DEF CheckJob
<1> QED BY <1>1, <1>2, <1>3, <1>4, <1>5, OnePoll

\* A process calls a job ended only if a run of it ended so.
LEMMA ServePollKeeps ==
    ASSUME PickerInv, NEW k \in Pickers, NEW p \in Polls, ServePoll(k, p) PROVE PickerInv'
<1> DEFINE r == polls[k][p]
<1>1. PICK st \in GetSDKJob(r.job) : Told(k, p, st) BY DEF ServePoll
<1>2. r \in Poll /\ jobs \in [Jobs -> Job] /\ r.at = "sent" /\ Sincere(k, p)
  BY DEF ServePoll, PickerInv, PickerTypes, DialogInv
<1>3. r.job \in Jobs BY <1>2 DEF Sincere
<1>4. jobs[r.job] \in Job /\ jobs[r.job].held \cap Ended \subseteq jobs[r.job].had
  BY <1>2, <1>3 DEF PickerInv, Honest
<1>5. st \in JobStatus /\ (st \in Ended => st \in jobs[r.job].had)
  BY <1>1, <1>4 DEF GetSDKJob, Job, JobStatus, Ended
<1>6. PICK f \in {[r EXCEPT !.at = "told", !.status = st]} : polls' = [polls EXCEPT ![k][p] = f]
  BY <1>1 DEF Told
<1>7. f \in Poll /\ f.at = "told" /\ f.status = st /\ f.job = r.job /\ f.late = r.late
  BY <1>2, <1>5, <1>6 DEF Poll, Steps
<1>8. ~r.late /\ picker[k].job # 0 => picker[k].timer /\ r.job = picker[k].job
  BY <1>2 DEF Sincere
<1>9. UNCHANGED <<picker, starts, misled, jobs>> BY <1>1 DEF Told
<1> QED BY <1>3, <1>5, <1>6, <1>7, <1>8, <1>9, OnePoll

LEMMA PollFailsKeeps ==
    ASSUME PickerInv, NEW k \in Pickers, NEW p \in Polls, PollFails(k, p) PROVE PickerInv'
<1>1. polls' = [polls EXCEPT ![k][p] = NoPoll] /\ UNCHANGED <<picker, starts, misled, jobs>>
  BY DEF PollFails
<1> QED BY <1>1, PickerBlanks, OnePoll

\* An answer that is not late is about the job shown; if it stops the timer, what is
\* still under way is late.  The timer survives as long as the job may still change.
LEMMA JobStatusLandsKeeps ==
    ASSUME PickerInv, NEW k \in Pickers, NEW p \in Polls, JobStatusLands(k, p) PROVE PickerInv'
<1> DEFINE r == polls[k][p]
           keep == r.status \in {"queued", "running"}
           rest == [IF keep THEN polls[k] ELSE AllLate(k) EXCEPT ![p] = NoPoll]
<1>1. /\ picker \in [Pickers -> Picker] /\ polls \in [Pickers -> [Polls -> Poll]]
      /\ starts \in [Pickers -> [Starts -> Start]] /\ misled \subseteq Pickers
      /\ picker[k] \in Picker /\ r \in Poll /\ r.at = "told" /\ DialogInv(k) /\ Sincere(k, p)
      /\ UNCHANGED <<starts, jobs>> /\ misled' = IF r.late THEN misled \cup {k} ELSE misled \ {k}
      /\ polls' = [polls EXCEPT ![k] = rest]
  BY DEF JobStatusLands, Polled, PickerInv, PickerTypes, DialogInv
<1>2. keep \in BOOLEAN /\ (picker[k].timer /\ keep) \in BOOLEAN OBVIOUS
<1>3. PICK g \in {IF r.status = "none"
                  THEN [picker[k] EXCEPT !.timer = (picker[k].timer /\ keep), !.error = picker[k].open]
                  ELSE [picker[k] EXCEPT !.timer = (picker[k].timer /\ keep), !.status = r.status]} :
          picker' = [picker EXCEPT ![k] = g]
  <2>1. CASE r.status = "none"
    <3>1. picker' = [picker EXCEPT ![k].timer = (picker[k].timer /\ keep), ![k].error = picker[k].open]
      BY <2>1 DEF JobStatusLands, Polled
    <3> QED BY <2>1, <3>1
  <2>2. CASE r.status # "none"
    <3>1. picker' = [picker EXCEPT ![k].timer = (picker[k].timer /\ keep), ![k].status = r.status]
      BY <2>2 DEF JobStatusLands, Polled
    <3> QED BY <2>2, <3>1
  <2> QED BY <2>1, <2>2
<1>4. /\ g \in Picker /\ g.job = picker[k].job /\ g.open = picker[k].open
      /\ g.timer = (picker[k].timer /\ keep)
      /\ IF r.status = "none" THEN g.error = picker[k].open /\ g.status = picker[k].status
                              ELSE g.error = picker[k].error /\ g.status = r.status
  <2>1. r.status \in JobStatus BY <1>1 DEF Poll
  <2> QED BY <1>1, <1>2, <1>3, <2>1 DEF Picker
<1>5. picker' \in [Pickers -> Picker] /\ \A l \in Pickers : picker'[l] = IF l = k THEN g ELSE picker[l]
  BY <1>1, <1>3, <1>4
<1>6. rest \in [Polls -> Poll]
  <2>1. polls[k] \in [Polls -> Poll] BY <1>1
  <2>2. AllLate(k) \in [Polls -> Poll] BY LateType DEF AllLate
  <2>3. (IF keep THEN polls[k] ELSE AllLate(k)) \in [Polls -> Poll] BY <2>1, <2>2
  <2> QED BY <2>3, PickerBlanks
<1>7. \A q \in Polls : q # p => rest[q] = IF keep THEN polls[k][q] ELSE AllLate(k)[q]
  BY <1>1 DEF AllLate
<1>8. rest[p] = NoPoll BY <1>1 DEF AllLate
<1> HIDE DEF rest
<1>9. /\ polls' \in [Pickers -> [Polls -> Poll]] /\ polls'[k] = rest
      /\ \A l \in Pickers : l # k => polls'[l] = polls[l]
  BY <1>1, <1>6
<1>10. ASSUME NEW q \in Polls PROVE Sincere(k, q)'
  <2>1. CASE q = p BY <1>8, <1>9, <2>1, PickerBlanks DEF Sincere
  <2>2. CASE q # p
    <3>1. Sincere(k, q) BY <1>1 DEF DialogInv
    <3>2. CASE keep
      <4>1. polls'[k][q] = polls[k][q] BY <1>7, <1>9, <2>2, <3>2
      <4>2. picker'[k].job = picker[k].job /\ picker'[k].timer = picker[k].timer BY <1>1, <1>4, <1>5, <3>2 DEF Picker
      <4> QED BY <1>1, <3>1, <4>1, <4>2 DEF Sincere
    <3>3. CASE ~keep
      <4>1. polls'[k][q] = AllLate(k)[q] BY <1>7, <1>9, <2>2, <3>3
      <4>2. /\ polls'[k][q].at = polls[k][q].at /\ polls'[k][q].job = polls[k][q].job
            /\ polls'[k][q].status = polls[k][q].status
            /\ polls[k][q].at # "idle" => polls'[k][q].late
        BY <4>1, LateType
      <4> QED BY <1>1, <3>1, <4>2 DEF Sincere
    <3> QED BY <3>2, <3>3
  <2> QED BY <2>1, <2>2
<1>11. StillAsking(k)'
  <2> SUFFICES ASSUME picker[k].timer, keep, picker[k].job # 0 PROVE g.status \notin Ended
    BY <1>4, <1>5 DEF StillAsking
  <2> QED BY <1>4 DEF Ended
<1>12. Outcome(k)'
  <2> SUFFICES ASSUME picker[k].open, picker[k].job # 0, ~r.late
               PROVE  /\ g.status \in Ended => g.status \in jobs[picker[k].job].had
                      /\ g.timer \/ g.error \/ g.status \in Ended
    BY <1>1, <1>4, <1>5 DEF Outcome
  <2>1. picker[k].timer /\ r.job = picker[k].job BY <1>1 DEF Sincere
  <2>2. CASE r.status = "none"
    <3>1. picker[k].status \notin Ended BY <1>1, <2>1 DEF DialogInv, StillAsking
    <3> QED BY <1>4, <2>2, <3>1
  <2>3. CASE r.status # "none"
    <3>1. r.status \in JobStatus BY <1>1 DEF Poll
    <3>2. keep \/ r.status \in Ended BY <2>3, <3>1 DEF JobStatus, Ended
    <3>3. r.status \in Ended => r.status \in jobs[picker[k].job].had BY <1>1, <2>1 DEF Sincere
    <3> QED BY <1>4, <2>1, <2>3, <3>2, <3>3
  <2> QED BY <2>2, <2>3
<1>13. DialogInv(k)' BY <1>10, <1>11, <1>12 DEF DialogInv
<1> QED BY <1>1, <1>5, <1>9, <1>13, OneDialog

LEMMA PickerKept == ASSUME PickerInv, token \in BOOLEAN, [Next]_vars PROVE PickerInv'
<1>1. ASSUME UNCHANGED <<pickerVars, jobs>> PROVE PickerInv'
  BY <1>1 DEF pickerVars, PickerInv, PickerTypes, Honest, DialogInv, Sincere, StillAsking, Outcome
<1>2. CASE RuleStep
  <2>1. ASSUME UNCHANGED <<picker, misled>> PROVE PickerInv'
    BY <1>1, <1>2, <2>1, RuleAlone DEF pickerVars
  <2> QED BY <1>2, <2>1, SaveShowsPicker
        DEF RuleStep, AddNewRule, CloseRule, ChooseType, FillAction, FillJson, Edit, HandleSave,
            ServeSave, SaveFails, pickerVars
<1>3. CASE Reload
  <2>1. Honest' BY <1>3 DEF Reload, PickerInv, Honest
  <2> QED BY <1>3, <2>1, AllClosed DEF Reload, PickerInv, PickerTypes
<1>4. ASSUME NEW k \in Pickers, PickerStep(k) PROVE PickerInv'
  BY <1>4, ClosePickerKeeps, DownloadGeneratedKeeps, DownloadSDKKeeps, LanguagesLandKeeps,
     DownloadsLandKeep, StartGenerateKeeps, ServeStartKeeps, JobStartsKeeps, CheckJobKeeps,
     ServePollKeeps, PollFailsKeeps, JobStatusLandsKeeps DEF PickerStep
<1>5. ASSUME NEW j \in Jobs, JobStep(j) PROVE PickerInv' BY <1>5, JobsKeep DEF JobStep
<1> QED BY <1>1, <1>2, <1>3, <1>4, <1>5, NextParts, KeyAlone, LoadAlone DEF vars, PickersStep

TokenType == token \in BOOLEAN

LEMMA TokenKept == ASSUME TokenType, [Next]_vars PROVE TokenType'
<1>1. CASE Load \/ Logout \/ RevokeFails \/ Reload
  BY <1>1 DEF Load, Logout, RevokeFails, RevokeLands, Reload, TokenType
<1> QED BY <1>1, NextParts, RuleAlone, PickerAlone, KeyAlone DEF TokenType, vars

\* What an SDK dialog says of a finished job is true of the job it shows, and it
\* falls silent only with an outcome or an error; unless an answer landed that was
\* under way when polling had ended or another job had been started, or a download
\* took the error away (checkJob, downloadSDK).
THEOREM JobIsShown == Spec => []JobShown
<1>1. Init => TokenType BY DEF Init, TokenType
<1>2. PickerInv => JobShown BY DEF PickerInv, DialogInv, Outcome, JobShown
<1>3. Spec => []TokenType BY <1>1, TokenKept, PTL DEF Spec
<1>4. TokenType /\ PickerInv /\ [Next]_vars => PickerInv' BY PickerKept DEF TokenType
<1> QED BY <1>2, <1>3, <1>4, InitPicker, PTL DEF Spec

-----------------------------------------------------------------------------
(***************************************************************************)
(* The key dialog.  A key is on its way only in the answer of the running  *)
(* call, and while a call runs the button that starts one is disabled, so  *)
(* no answer is forgotten for another.                                     *)
(***************************************************************************)
KeyTypes ==
    /\ dialog \in Dialog /\ create \in KeyCall /\ revoke \in KeyCall
    /\ made \in 0..MaxKeys /\ revoked \subseteq Keys /\ seen \subseteq Keys /\ abandoned \subseteq Keys
OneCall ==
    /\ create.at # "idle" => dialog.loading
    /\ create.at # "told" => create.key = 0
    /\ revoke.at = "sent" => revoke.key \in Keys
KeyInv == KeyTypes /\ OneCall /\ SecretSeen

LEMMA KeyBlanks ==
    /\ NoDialog \in Dialog /\ NoCall \in KeyCall /\ NoCall.at = "idle" /\ NoCall.key = 0
BY PageFacts DEF NoDialog, Dialog, NoCall, KeyCall, Steps

LEMMA InitKey == Init => KeyInv
<1> SUFFICES ASSUME Init PROVE KeyInv OBVIOUS
<1>1. /\ dialog = NoDialog /\ create = NoCall /\ revoke = NoCall /\ made = 0
      /\ revoked = {} /\ seen = {} /\ abandoned = {}
  BY DEF Init
<1> QED BY <1>1, KeyBlanks, PageFacts DEF KeyInv, KeyTypes, OneCall, SecretSeen

\* The dialog moves, but neither a call nor a key does.
LEMMA DialogMoves ==
    ASSUME KeyInv, dialog' \in Dialog, dialog'.loading = dialog.loading,
           UNCHANGED <<create, revoke, made, revoked, seen, abandoned>>
    PROVE  KeyInv'
BY DEF KeyInv, KeyTypes, OneCall, SecretSeen

LEMMA DialogsKeep == ASSUME KeyInv, GenerateNewKey \/ NameKey \/ CancelKey PROVE KeyInv'
<1>1. dialog \in Dialog /\ UNCHANGED <<create, revoke, made, revoked, seen, abandoned>>
  BY DEF GenerateNewKey, NameKey, CancelKey, KeyInv, KeyTypes
<1>2. CASE dialog' = [NoDialog EXCEPT !.open = TRUE, !.loading = dialog.loading]
  BY <1>1, <1>2, KeyBlanks, DialogMoves DEF NoDialog, Dialog
<1>3. CASE dialog' = [dialog EXCEPT !.named = TRUE] BY <1>1, <1>3, DialogMoves DEF Dialog
<1>4. CASE dialog' = [dialog EXCEPT !.open = FALSE] BY <1>1, <1>4, DialogMoves DEF Dialog
<1> QED BY <1>2, <1>3, <1>4 DEF GenerateNewKey, NameKey, CancelKey

LEMMA CreateKeyKeeps == ASSUME KeyInv, CreateKey PROVE KeyInv'
<1>1. dialog \in Dialog /\ ~dialog.loading /\ UNCHANGED <<revoke, made, revoked, seen, abandoned>>
  BY DEF CreateKey, KeyInv, KeyTypes
<1>2. create.at = "idle" /\ create.key = 0 BY <1>1 DEF KeyInv, OneCall
<1>3. CASE dialog' = [dialog EXCEPT !.loading = TRUE, !.error = FALSE] /\ create' = [at |-> "sent", key |-> 0]
  <2>1. dialog' \in Dialog /\ dialog'.loading BY <1>1, <1>3 DEF Dialog
  <2>2. create' \in KeyCall /\ create'.at = "sent" /\ create'.key = 0
    BY <1>3, PageFacts DEF KeyCall, Steps
  <2> QED BY <1>1, <1>2, <2>1, <2>2 DEF KeyInv, KeyTypes, OneCall, SecretSeen
<1>4. CASE dialog' = [dialog EXCEPT !.error = TRUE] /\ UNCHANGED create
  BY <1>1, <1>4, DialogMoves DEF Dialog
<1> QED BY <1>3, <1>4 DEF CreateKey

LEMMA ServeCreateKeeps == ASSUME KeyInv, ServeCreate PROVE KeyInv'
<1>1. PICK kept \in BOOLEAN, ok \in BOOLEAN :
          /\ ok => kept
          /\ kept => made < MaxKeys
          /\ made' = IF kept THEN made + 1 ELSE made
          /\ create' = [at |-> "told", key |-> IF ok THEN made + 1 ELSE 0]
          /\ abandoned' = IF kept /\ ~ok THEN abandoned \cup {made + 1} ELSE abandoned
  BY DEF ServeCreate
<1>2. /\ create.at = "sent" /\ create.key = 0 /\ dialog.loading /\ made \in 0..MaxKeys /\ made \in Nat
      /\ UNCHANGED <<dialog, revoke, revoked, seen>>
  BY PageFacts DEF ServeCreate, KeyInv, KeyTypes, OneCall
<1>3. kept => made + 1 \in 0..MaxKeys /\ made + 1 \in Keys BY <1>1, <1>2, PageFacts DEF Keys
<1>4. create' \in KeyCall /\ create'.at = "told" BY <1>1, <1>3, PageFacts DEF KeyCall, Steps
<1>5. made' \in 0..MaxKeys /\ abandoned' \subseteq Keys BY <1>1, <1>2, <1>3 DEF KeyInv, KeyTypes
<1>6. KeyTypes' /\ OneCall' BY <1>2, <1>4, <1>5 DEF KeyInv, KeyTypes, OneCall
<1>7. SecretSeen'
  <2> SUFFICES ASSUME NEW k \in 1..made' PROVE create'.key = k \/ k \in seen \cup abandoned'
    BY <1>2 DEF SecretSeen
  <2>1. CASE k \in 1..made BY <1>1, <1>2, <2>1 DEF KeyInv, SecretSeen
  <2>2. CASE k = made + 1 /\ kept BY <1>1, <2>2
  <2> QED BY <1>1, <1>2, <2>1, <2>2
<1> QED BY <1>6, <1>7 DEF KeyInv

\* The secret is put on the screen, or found no dialog to show it.
LEMMA KeyLandsKeeps == ASSUME KeyInv, KeyLands PROVE KeyInv'
<1> DEFINE k == create.key
<1>1. /\ dialog \in Dialog /\ k \in 0..MaxKeys /\ create' = NoCall
      /\ UNCHANGED <<revoke, made, revoked>>
      /\ seen' = IF k # 0 /\ dialog.open THEN seen \cup {k} ELSE seen
      /\ abandoned' = IF k # 0 /\ ~dialog.open THEN abandoned \cup {k} ELSE abandoned
  BY DEF KeyLands, KeyInv, KeyTypes, KeyCall
<1>2. dialog' \in Dialog
  <2>1. (k = 0) \in BOOLEAN OBVIOUS
  <2>2. dialog' = [dialog EXCEPT !.loading = FALSE, !.error = (k = 0),
                                 !.secret = IF k # 0 THEN k ELSE dialog.secret]
    BY DEF KeyLands
  <2>3. (IF k # 0 THEN k ELSE dialog.secret) \in 0..MaxKeys BY <1>1 DEF Dialog
  <2> QED BY <1>1, <2>1, <2>2, <2>3 DEF Dialog
<1>3. k # 0 => k \in Keys BY <1>1, PageFacts
<1>4. KeyTypes' BY <1>1, <1>2, <1>3, KeyBlanks DEF KeyInv, KeyTypes
<1>5. OneCall' BY <1>1, KeyBlanks DEF KeyInv, OneCall
<1>6. SecretSeen'
  <2> SUFFICES ASSUME NEW i \in 1..made PROVE i \in seen' \cup abandoned' BY <1>1 DEF SecretSeen
  <2>1. i # 0 BY DEF KeyInv, KeyTypes
  <2>2. k = i \/ i \in seen \cup abandoned BY DEF KeyInv, SecretSeen
  <2> QED BY <1>1, <2>1, <2>2
<1> QED BY <1>4, <1>5, <1>6 DEF KeyInv

LEMMA RevokesKeep ==
    ASSUME KeyInv, ServeRevoke \/ \E k \in Keys : RevokeKey(k) PROVE KeyInv'
<1>1. UNCHANGED <<dialog, create, made, seen, abandoned>> BY DEF ServeRevoke, RevokeKey
<1>2. CASE ServeRevoke
  <2>1. revoke.key \in Keys /\ revoke.key \in 0..MaxKeys BY <1>2, PageFacts DEF ServeRevoke, KeyInv, OneCall
  <2>2. revoked' \subseteq Keys BY <1>2, <2>1 DEF ServeRevoke, KeyInv, KeyTypes
  <2>3. revoke' \in KeyCall /\ revoke'.at = "told"
    BY <1>2, <2>1, PageFacts DEF ServeRevoke, KeyCall, Steps
  <2> QED BY <1>1, <2>2, <2>3 DEF KeyInv, KeyTypes, OneCall, SecretSeen
<1>3. ASSUME NEW k \in Keys, RevokeKey(k) PROVE KeyInv'
  <2>1. revoke' = [at |-> "sent", key |-> k] /\ UNCHANGED revoked BY <1>3 DEF RevokeKey
  <2>2. revoke' \in KeyCall /\ revoke'.key = k BY <2>1, PageFacts DEF KeyCall, Steps
  <2> QED BY <1>1, <2>1, <2>2 DEF KeyInv, KeyTypes, OneCall, SecretSeen
<1> QED BY <1>2, <1>3

\* Leaving the page gives up the key an answer has brought.
LEMMA ReloadKeepsKeys == ASSUME KeyInv, Reload PROVE KeyInv'
<1>1. /\ dialog' = NoDialog /\ create' = NoCall /\ revoke' = NoCall /\ UNCHANGED <<made, revoked, seen>>
      /\ abandoned' = IF create.at = "told" /\ create.key # 0
                      THEN abandoned \cup {create.key} ELSE abandoned
  BY DEF Reload
<1>2. create.key # 0 => create.key \in Keys BY PageFacts DEF KeyInv, KeyTypes, KeyCall
<1>3. KeyTypes' BY <1>1, <1>2, KeyBlanks DEF KeyInv, KeyTypes
<1>4. OneCall' BY <1>1, KeyBlanks DEF OneCall
<1>5. SecretSeen'
  <2> SUFFICES ASSUME NEW i \in 1..made PROVE i \in seen \cup abandoned' BY <1>1 DEF SecretSeen
  <2>1. i # 0 BY DEF KeyInv, KeyTypes
  <2>2. create.key = i \/ i \in seen \cup abandoned BY DEF KeyInv, SecretSeen
  <2>3. create.key = i => create.at = "told" BY <2>1 DEF KeyInv, OneCall
  <2> QED BY <1>1, <2>1, <2>2, <2>3
<1> QED BY <1>3, <1>4, <1>5 DEF KeyInv

LEMMA KeyKept == ASSUME KeyInv, [Next]_vars PROVE KeyInv'
<1>1. ASSUME UNCHANGED <<dialog, create, made, revoked, seen, abandoned>>, revoke' \in {revoke, NoCall}
      PROVE  KeyInv'
  BY <1>1, KeyBlanks DEF KeyInv, KeyTypes, OneCall, SecretSeen
<1>2. CASE UNCHANGED keyVars BY <1>1, <1>2 DEF keyVars
<1>3. CASE KeyStep
  BY <1>3, DialogsKeep, CreateKeyKeeps, ServeCreateKeeps, KeyLandsKeeps, RevokesKeep DEF KeyStep
<1> QED BY <1>1, <1>2, <1>3, NextParts, RuleAlone, PickerAlone, LoadAlone, ReloadKeepsKeys DEF vars

\* Every key that was created had its secret on the screen, unless its answer
\* was lost or found its dialog hidden or its page left (createApiKey).
THEOREM SecretIsSeen == Spec => []SecretSeen
<1>1. KeyInv => SecretSeen BY DEF KeyInv
<1> QED BY <1>1, InitKey, KeyKept, PTL DEF Spec

-----------------------------------------------------------------------------
DataType == data \in [pending : BOOLEAN, agent : BOOLEAN, keys : SUBSET Keys]

LEMMA DataKept == ASSUME DataType, KeyInv, [Next]_vars PROVE DataType'
<1>1. CASE Load
  <2>1. PICK agent \in BOOLEAN, listed \in BOOLEAN :
            data' = [pending |-> FALSE, agent |-> agent,
                     keys |-> IF agent /\ listed THEN (1..made) \ revoked ELSE {}]
    BY <1>1 DEF Load
  <2>2. made \in 0..MaxKeys BY DEF KeyInv, KeyTypes
  <2>3. 1..made \subseteq Keys BY <2>2, PageFacts DEF Keys
  <2>4. (IF agent /\ listed THEN (1..made) \ revoked ELSE {}) \in SUBSET Keys BY <2>3
  <2> QED BY <2>1, <2>4 DEF DataType
<1>2. CASE Reload
  <2>1. data' = [pending |-> TRUE, agent |-> FALSE, keys |-> {}] BY <1>2 DEF Reload
  <2> QED BY <2>1 DEF DataType
<1>3. CASE Logout \/ RevokeFails BY <1>3 DEF Logout, RevokeFails, RevokeLands, DataType
<1> QED BY <1>1, <1>2, <1>3, NextParts, RuleAlone, PickerAlone, KeyAlone DEF DataType, vars

\* Every variable has the type TypeOK gives it.
THEOREM TypeCorrect == Spec => []TypeOK
<1> DEFINE TypeInv == BudgetType /\ TokenType /\ DataType /\ RuleInv /\ PickerInv /\ KeyInv
<1>1. Init => TypeInv
  <2> SUFFICES ASSUME Init PROVE TypeInv OBVIOUS
  <2>1. BudgetType BY AgentPageAssumption DEF Init, BudgetType
  <2>2. TokenType BY DEF Init, TokenType
  <2>3. data = [pending |-> TRUE, agent |-> FALSE, keys |-> {}] BY DEF Init
  <2>4. DataType BY <2>3 DEF DataType
  <2> QED BY <2>1, <2>2, <2>4, InitRule, InitPicker, InitKey
<1>2. TypeInv /\ [Next]_vars => TypeInv'
  BY BudgetStep, TokenKept, DataKept, RuleKept, PickerKept, KeyKept DEF TokenType
<1>3. TypeInv => TypeOK
  BY DEF TypeOK, BudgetType, TokenType, DataType, RuleInv, RuleTypes, PickerInv, PickerTypes, KeyInv,
         KeyTypes, Form, Save, Picker, Start, Poll, Dialog, KeyCall, Job
<1> QED BY <1>1, <1>2, <1>3, PTL DEF Spec
=============================================================================
