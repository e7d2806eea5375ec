------------------------------ MODULE TrustKeys ------------------------------
(***************************************************************************)
(* The signing keys of an organization: the page of the web console that   *)
(* creates, rotates, activates and deactivates them (trust-keys), the      *)
(* handlers of trust_keys_handlers.go, and the sweeper of main.go that     *)
(* switches a key off when its grace window ends.                          *)
(*                                                                         *)
(* A handler takes one step per statement, and an async function of the    *)
(* page one step between two awaits.  The fields of the form are read when *)
(* a button is pressed, so they are parameters of the buttons here.  Time  *)
(* is abstracted: a deadline may have passed at any moment after it was    *)
(* set.                                                                    *)
(*                                                                         *)
(* The handlers are written for several active keys at a time.  Migration  *)
(* 025 has a unique index on them and 026, which should drop it, has no    *)
(* "Up" section: cmd/migrate runs the whole file and creates the index     *)
(* again.  Whether a database has the index is a fact of an instance       *)
(* (setting), as are the number of active keys to begin with and two facts *)
(* that only the readers of the keys look at.                              *)
(***************************************************************************)
EXTENDS Naturals

CONSTANTS
    Ops,       \* async functions of the page running at the same time, numbered
    MaxKeys,   \* bound: keys ever created
    Instances  \* databases, and bounds on what users and the network do in each

Kinds    == {"click", "fault"}
Settings == [oneActive : BOOLEAN, cached : BOOLEAN, verified : BOOLEAN, keys : Nat \ {0}]

ASSUME TrustKeysAssumption ==
    /\ Ops \subseteq Nat /\ MaxKeys \in Nat \ {0}
    /\ Instances \subseteq [budget : [Kinds -> Nat], setting : Settings]

VARIABLES
    rows,      \* table trust_keys, in the order of created_at
    table,     \* the keys the page lists, and which of them it shows as active
    loading, error,
    ops,       \* running functions of the page and the handlers they called
    excused,   \* history: something happened that may leave no active key
    revived,   \* history: keys activated with a deadline of an earlier rotation
    budget,
    setting    \* facts of the instance, see above

pageVars == <<table, loading, error>>
keyVars  == <<rows, pageVars, ops, excused, revived, setting>>

Ids   == 1..MaxKeys
NoRow == [made |-> FALSE, active |-> FALSE, deadline |-> FALSE, kms |-> FALSE, public |-> FALSE]
Free  == [at |-> "free", act |-> "none", key |-> 0, kms |-> FALSE, public |-> FALSE,
          grace |-> FALSE, exclusive |-> FALSE, ok |-> TRUE,
          listed |-> [known |-> {}, active |-> {}]]

\* What the grace field may hold: nothing, a duration in hours or in days, or
\* the number of seconds beside it.  The page refuses anything else.
Graces == {"none", "hours", "days", "seconds"}
Listing == [known : SUBSET Ids, active : SUBSET Ids]

KeysTypeOK ==
    /\ rows \in [Ids -> [made : BOOLEAN, active : BOOLEAN, deadline : BOOLEAN, kms : BOOLEAN,
                         public : BOOLEAN]]
    /\ table \in Listing /\ loading \in BOOLEAN /\ error \in BOOLEAN
    /\ ops \in [Ops -> [at : {"free", "insert", "mark", "created", "others", "self", "off", "answer",
                              "load", "loaded"},
                        act : {"none", "create", "rotate", "activate", "deactivate"},
                        key : 0..MaxKeys, kms : BOOLEAN, public : BOOLEAN, grace : BOOLEAN,
                        exclusive : BOOLEAN, ok : BOOLEAN, listed : Listing]]
    /\ excused \in BOOLEAN /\ revived \subseteq Ids
    /\ budget \in [Kinds -> Nat] /\ setting \in Settings

Have(b)  == budget[b] > 0
Spend(b) == budget' = [budget EXCEPT ![b] = @ - 1]
Fault    == Have("fault") /\ Spend("fault")

Made   == {k \in Ids : rows[k].made}
Active == {k \in Ids : rows[k].active}
\* The unique index lets no key k become active beside another.
Allowed(k) == setting.oneActive => Active \subseteq {k}
Idle(o) == ops[o].at = "free" /\ \A p \in Ops : p < o => ops[p].at # "free"
Busy   == \E o \in Ops : ops[o].at \notin {"free", "load", "loaded"}

\* time.ParseDuration has no unit for days: the window the page has accepted and
\* previewed counts as none.  A function carries what the handler makes of it.
HasGrace(g) == g \in {"hours", "seconds"}

-----------------------------------------------------------------------------
\* The page.  A button's function sends a request; a missing key reference or,
\* for a rotation, a missing public key only opens a message.
Click(o, f) ==
    /\ Idle(o) /\ Have("click") /\ Spend("click")
    /\ ops' = [ops EXCEPT ![o] = f] /\ excused' = (excused \/ Busy)
    /\ UNCHANGED <<rows, pageVars, revived>>

CreateKey(o, kms, public) ==
    /\ kms \/ public
    /\ Click(o, [Free EXCEPT !.at = "insert", !.act = "create", !.kms = kms, !.public = public])
RotateKey(o, kms, grace) ==
    Click(o, [Free EXCEPT !.at = "insert", !.act = "rotate", !.kms = kms, !.public = TRUE,
                          !.grace = HasGrace(grace), !.exclusive = kms])

\* The table is shown when nothing is loading and no error is.
Shown(k) == k \in table.known /\ ~loading /\ ~error
Activate(o, k, grace, exclusive) ==
    /\ Shown(k) /\ k \notin table.active
    /\ Click(o, [Free EXCEPT !.at = IF exclusive THEN "others" ELSE "self", !.act = "activate",
                             !.key = k, !.grace = HasGrace(grace), !.exclusive = exclusive])
Deactivate(o, k) ==
    /\ Shown(k) /\ k \in table.active
    /\ Click(o, [Free EXCEPT !.at = "off", !.act = "deactivate", !.key = k])

\* rotateKey for a key service: the key was created inactive, a second request
\* activates it exclusively; if that fails the key stays as it is.
ActivateCreated(o) ==
    /\ ops[o].at = "created"
    /\ \/ ops' = [ops EXCEPT ![o].at = "others"] /\ UNCHANGED budget
       \/ ops' = [ops EXCEPT ![o].at = "answer", ![o].ok = FALSE] /\ Fault
    /\ UNCHANGED <<rows, pageVars, excused, revived>>

StartLoad(o) ==
    /\ ops' = [ops EXCEPT ![o] = [Free EXCEPT !.at = "load"]]
    /\ loading' = TRUE /\ error' = FALSE /\ UNCHANGED table
\* The answer of an operation: a failure opens a message and leaves the table.
Report(o) ==
    /\ ops[o].at = "answer"
    /\ IF ops[o].ok THEN StartLoad(o)
       ELSE ops' = [ops EXCEPT ![o] = Free] /\ UNCHANGED pageVars
    /\ UNCHANGED <<rows, excused, revived, budget>>
Refresh(o) ==
    /\ Idle(o) /\ ~loading /\ Have("click") /\ Spend("click")
    /\ StartLoad(o) /\ UNCHANGED <<rows, excused, revived>>

\* The rest of loadAll.
LoadAll(o) ==
    /\ ops[o].at = "loaded" /\ ops' = [ops EXCEPT ![o] = Free] /\ loading' = FALSE
    /\ IF ops[o].ok THEN table' = ops[o].listed /\ UNCHANGED error
                    ELSE error' = TRUE /\ UNCHANGED table
    /\ UNCHANGED <<rows, excused, revived, budget>>

-----------------------------------------------------------------------------
\* The handlers.  Answer gives the next state of an operation that is done.
Step(o, at) == ops' = [ops EXCEPT ![o].at = at]
Answer(o, ok) == ops' = [ops EXCEPT ![o].at = "answer", ![o].ok = ok]

\* CreateTrustKey and the INSERT of RotateTrustKey, which makes the key active.
Insert(o) ==
    LET f == ops[o] IN
    /\ f.at = "insert"
    /\ \/ \E k \in Ids \ Made :
            /\ \A j \in Ids : j < k => rows[j].made
            /\ f.act = "create" \/ f.kms \/ Allowed(k)
            /\ rows' = [rows EXCEPT ![k] = [made |-> TRUE, active |-> f.act = "rotate" /\ ~f.kms,
                                            deadline |-> FALSE, kms |-> f.kms, public |-> f.public]]
            /\ ops' = [ops EXCEPT ![o].key = k,
                                  ![o].at = IF f.act = "create" THEN "answer"
                                            ELSE IF f.kms THEN "created" ELSE "mark"]
            /\ UNCHANGED budget
       \/ f.act = "rotate" /\ ~f.kms /\ ~Allowed(0) /\ Answer(o, FALSE) /\ UNCHANGED <<rows, budget>>
       \/ Answer(o, FALSE) /\ Fault /\ UNCHANGED rows
    /\ UNCHANGED <<pageVars, excused, revived>>

\* The rows with a deadline on every active key but the new one.
Limited(k) == [j \in Ids |-> [rows[j] EXCEPT !.deadline = @ \/ (rows[j].active /\ j # k)]]

\* Mutant: the new key is not left out.
MarkAll(o) ==
    /\ ops[o].at = "mark" /\ Answer(o, TRUE)
    /\ rows' = [j \in Ids |-> [rows[j] EXCEPT !.deadline = ops[o].grace /\ rows[j].active]]
    /\ UNCHANGED <<pageVars, excused, revived, budget>>
\* The rest of RotateTrustKey: without a grace window the other keys stay as they
\* are; the error of the UPDATE is discarded.
Mark(o) ==
    /\ ops[o].at = "mark" /\ Answer(o, TRUE)
    /\ \/ rows' = (IF ops[o].grace THEN Limited(ops[o].key) ELSE rows) /\ UNCHANGED budget
       \/ Fault /\ UNCHANGED rows
    /\ UNCHANGED <<pageVars, excused, revived>>

\* ActivateTrustKey with exclusive=1, first statement: a deadline for the other
\* active keys, or off at once; its error is discarded.
Others(o) ==
    /\ ops[o].at = "others" /\ Step(o, "self")
    /\ \/ /\ rows' = IF ops[o].grace THEN Limited(ops[o].key)
                     ELSE [j \in Ids |-> [rows[j] EXCEPT !.active = @ /\ j = ops[o].key]]
          /\ UNCHANGED budget
       \/ Fault /\ UNCHANGED rows
    /\ UNCHANGED <<pageVars, excused, revived>>
\* Second statement: the deadline an earlier rotation gave this key stays.
Self(o) ==
    LET k == ops[o].key IN
    /\ ops[o].at = "self"
    /\ \/ /\ Allowed(k) /\ rows' = [rows EXCEPT ![k].active = TRUE] /\ Answer(o, TRUE)
          /\ revived' = IF rows[k].deadline THEN revived \cup {k} ELSE revived
          /\ UNCHANGED <<excused, budget>>
       \/ ~Allowed(k) /\ Answer(o, FALSE) /\ UNCHANGED <<rows, excused, revived, budget>>
       \/ Answer(o, FALSE) /\ Fault /\ excused' = TRUE /\ UNCHANGED <<rows, revived>>
    /\ UNCHANGED pageVars

\* DeactivateTrustKey.
Off(o) ==
    /\ ops[o].at = "off"
    /\ \/ /\ rows' = [rows EXCEPT ![ops[o].key].active = FALSE] /\ Answer(o, TRUE)
          /\ excused' = TRUE /\ UNCHANGED budget
       \/ Answer(o, FALSE) /\ Fault /\ UNCHANGED <<rows, excused>>
    /\ UNCHANGED <<pageVars, revived>>

ListTrustKeys(o) ==
    /\ ops[o].at = "load"
    /\ \/ /\ ops' = [ops EXCEPT ![o].at = "loaded",
                                ![o].listed = [known |-> Made, active |-> Active]]
          /\ UNCHANGED budget
       \/ ops' = [ops EXCEPT ![o].at = "loaded", ![o].ok = FALSE] /\ Fault
    /\ UNCHANGED <<rows, pageVars, excused, revived>>

\* Mutant: the last active key is spared.
SweepButLast(k) ==
    /\ rows[k].active /\ rows[k].deadline /\ Active # {k}
    /\ rows' = [rows EXCEPT ![k].active = FALSE, ![k].deadline = FALSE]
    /\ excused' = (excused \/ k \in revived)
    /\ UNCHANGED <<pageVars, ops, revived, budget>>
\* The sweeper of main.go, for a key whose deadline has passed.
Sweep(k) ==
    /\ rows[k].active /\ rows[k].deadline
    /\ rows' = [rows EXCEPT ![k].active = FALSE, ![k].deadline = FALSE]
    /\ excused' = (excused \/ k \in revived)
    /\ UNCHANGED <<pageVars, ops, revived, budget>>

-----------------------------------------------------------------------------
\* The organization has active keys; onMount has run loadAll.  The key set that
\* loadAll shows beside the table is left out: the page is one more reader of it,
\* and may have had it cached.
KeysInit ==
    /\ \E i \in Instances : budget = i.budget /\ setting = i.setting
    /\ rows = [k \in Ids |-> IF k <= setting.keys
                             THEN [NoRow EXCEPT !.made = TRUE, !.active = TRUE, !.public = TRUE]
                             ELSE NoRow]
    /\ table = [known |-> Made, active |-> Active] /\ loading = FALSE /\ error = FALSE
    /\ ops = [o \in Ops |-> Free] /\ excused = FALSE /\ revived = {}

Page(o)   == ActivateCreated(o) \/ Report(o) \/ LoadAll(o)
Serve(o)  == Insert(o) \/ Mark(o) \/ Others(o) \/ Self(o) \/ Off(o) \/ ListTrustKeys(o)
Administrator(o) ==
    \/ Refresh(o)
    \/ \E kms, public \in BOOLEAN : CreateKey(o, kms, public)
    \/ \E kms \in BOOLEAN, grace \in Graces : RotateKey(o, kms, grace)
    \/ \E k \in Ids, grace \in Graces, exclusive \in BOOLEAN : Activate(o, k, grace, exclusive)
    \/ \E k \in Ids : Deactivate(o, k)
KeysNext ==
    /\ \/ \E o \in Ops : Administrator(o) \/ Page(o) \/ Serve(o)
       \/ \E k \in Ids : Sweep(k)
    /\ UNCHANGED setting

\* An organization is left without an active key only by a deactivation, by an
\* activation that is between its two statements or failed there, by operations
\* that overlapped, or by the sweep of a key that was activated again before its
\* deadline: rotating and activating keys one at a time never does it.
KeyKept == Active # {} \/ excused \/ \E o \in Ops : ops[o].at = "self"
SigningKeyKept == ~setting.oneActive => KeyKept

\* The same of any database, as migration 026 means it to be: it is named
\* trust_keys_allow_multi_active and says "Drop legacy unique index (safe if not
\* present)", so that an old key and its successor may be active at a time.
RotationKeepsKey == KeyKept

\* Keys given a deadline are switched off: again and again none is overdue
\* (sweeper of main.go).
KeyRetires == []<>(\A k \in Ids : ~(rows[k].active /\ rows[k].deadline))
=============================================================================
