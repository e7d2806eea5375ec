------------------------------- MODULE Console -------------------------------
(***************************************************************************)
(* The web console in one browser: the pages that sign a user in and out   *)
(* (login, register, SSO callback), the frame around the signed-in pages,  *)
(* and the pages that change something in an organization (settings,       *)
(* agents, API keys, onboarding), open in several tabs.                    *)
(*                                                                         *)
(* The tabs share localStorage, whose aura_token and aura_org_id say who   *)
(* is signed in and which organization is worked on.  Each page reads them *)
(* at a moment of its own: when it is loaded, perhaps while the mouse only *)
(* hovers over its link, when it is mounted, or at a click.  A step is the *)
(* code between two awaits; requests are answered by the backend in one    *)
(* step and land in another, in any order, and the function that waits     *)
(* runs on after its page is left.  The requests of a load are answered    *)
(* when they are sent; what it returned is displayed later.                *)
(*                                                                         *)
(* User u owns organization u and belongs to no other; 0 is none.  The     *)
(* texts of the forms, and so what a save changes, are left out.           *)
(***************************************************************************)
EXTENDS Naturals, FiniteSets

CONSTANTS
    Users,      \* those who sign in with this browser, numbered
    Tabs,       \* its tabs
    Calls,      \* functions waiting for the backend or a timer at a time, numbered
    Things,     \* agents, rules and keys that can be made, numbered
    Registered, \* the users who have an account to begin with
    Stranger,   \* an identifier under which nothing is stored
    Budgets     \* bounds on what the users and the network do

Activities == {"go", "sign", "save", "make", "fault"}

ASSUME ConsoleAssumption ==
    /\ Users \subseteq Nat \ {0} /\ Registered \subseteq Users
    /\ Stranger \in Nat \ (Users \cup {0})
    /\ Things \subseteq Nat \ {0} /\ Calls \subseteq Nat
    /\ Budgets \subseteq [Activities -> Nat]

VARIABLES
    storage,    \* localStorage: aura_token and aura_org_id
    accounts,   \* backend: the users' accounts
    tabs,       \* the page of each tab
    calls,      \* running functions
    things,     \* backend: agents, rules and API keys
    mixed,      \* history: token and organization may be of two sign-ins
    lost,       \* history: fillings of a form whose answer was lost
    fills,      \* history: fillings of forms that make something
    budget
vars == <<storage, accounts, tabs, calls, things, mixed, lost, fills, budget>>

server  == <<accounts, things, lost>>
Someone == Users \cup {0, Stranger}
\* One of the identity provider's has no password.
Accounts == {"none", "sso", "password"}
AppPages == {"dashboard", "logs", "settings", "agents", "apikeys", "onboarding"}
Pages    == AppPages \cup {"login", "register"}
Saving   == {"profile", "password", "organization"}
Making   == {"agent", "first", "rule", "key"}
Kinds    == {"login", "register", "revoke"} \cup Saving \cup Making

\* What a load returned: the page it is for and its data.
Nowhere == [page |-> "none", org |-> 0, keys |-> {}, empty |-> FALSE]
Blank  == [page |-> "loading", user |-> 0, org |-> 0, keys |-> {}, step |-> 1, agent |-> 0,
           empty |-> FALSE, dialog |-> FALSE, fill |-> 0, busy |-> {}, own |-> {}, doc |-> {},
           loaded |-> Nowhere, going |-> Nowhere]
NoCall == [kind |-> "none", at |-> "idle", tab |-> 0, by |-> 0, org |-> 0, fill |-> 0,
           thing |-> 0, ok |-> FALSE, clean |-> FALSE]
Nothing == [kind |-> "none", org |-> 0, fill |-> 0, revoked |-> FALSE]

LoadRecord ==
    [page : Pages \cup {"none", "loading"}, org : Someone, keys : SUBSET Things, empty : BOOLEAN]
PageRecord ==
    [page : Pages \cup {"loading"}, user : Someone, org : Someone, keys : SUBSET Things,
     step : 1..4, agent : Things \cup {0}, empty : BOOLEAN, dialog : BOOLEAN, fill : Nat,
     busy : SUBSET Kinds, own : SUBSET Calls, doc : SUBSET Calls,
     loaded : LoadRecord, going : LoadRecord]
CallRecord ==
    [kind : Kinds \cup {"none"},
     at : {"idle", "sent", "told", "asked", "listed", "going", "timer"},
     tab : Tabs \cup {0}, by : Someone, org : Someone, fill : Nat,
     thing : Things \cup {0}, ok : BOOLEAN, clean : BOOLEAN]
ThingRecord == [kind : Making \cup {"none"}, org : Someone, fill : Nat, revoked : BOOLEAN]

TypeOK ==
    /\ storage \in [token : Someone, org : Someone] /\ accounts \in [Users -> Accounts]
    /\ tabs \in [Tabs -> PageRecord] /\ calls \in [Calls -> CallRecord]
    /\ things \in [Things -> ThingRecord]
    /\ mixed \in BOOLEAN /\ lost \subseteq Nat /\ fills \in Nat
    /\ budget \in [Activities -> Nat]

Spend(a) == budget[a] > 0 /\ budget' = [budget EXCEPT ![a] = @ - 1]
\* Something in the network or the backend may go wrong.
MayFail(ok) == IF ok THEN UNCHANGED budget ELSE Spend("fault")
Attempt(a, ok) ==
    /\ budget[a] > 0 /\ (ok \/ budget["fault"] > 0)
    /\ budget' = [budget EXCEPT ![a] = @ - 1, !["fault"] = IF ok THEN @ ELSE @ - 1]

-----------------------------------------------------------------------------
\* Pages.  A load function reads the session s from localStorage and asks the backend.
Authenticated(s) == s.token # 0 /\ s.org # 0
\* OrgMemberMiddleware.
Member(u, o) == u \in Users /\ u = o
Own(s)       == Member(s.token, s.org)
Made(k, o)   == {i \in Things : things[i].kind \in k /\ things[i].org = o /\ ~things[i].revoked}

\* The invitation to onboarding is for who has no agents, or whose agents were refused.
LoadDashboard(s, ok) ==
    [Nowhere EXCEPT !.page = "dashboard",
                    !.empty = ~(Own(s) /\ ok /\ Made({"agent", "first"}, s.org) # {})]
\* The organization is kept when the request fails.
LoadAgents(s) ==
    [Nowhere EXCEPT !.page = "agents", !.org = IF Authenticated(s) THEN s.org ELSE 0]
\* Mutant: the body of an error is listed as if it were keys.
LoadKeysUnchecked(s, ok) ==
    [Nowhere EXCEPT !.page = "apikeys", !.org = s.org,
                    !.keys = IF Own(s) /\ ok THEN Made({"key"}, s.org) ELSE {0}]
LoadKeys(s, ok) ==
    [Nowhere EXCEPT !.page = "apikeys", !.org = s.org,
                    !.keys = IF Own(s) /\ ok THEN Made({"key"}, s.org) ELSE {}]
Load(p, s, ok) ==
    CASE p = "dashboard" -> LoadDashboard(s, ok)
      [] p = "agents"    -> LoadAgents(s)
      [] p = "apikeys"   -> LoadKeys(s, ok)
      [] OTHER           -> [Nowhere EXCEPT !.page = p]

\* A page as it is mounted with what its load returned, however long ago that was;
\* the functions doc go on running.
MountOnboarding(pg, s) == [pg EXCEPT !.user = s.token, !.org = s.org]
Page(d, doc, s) ==
    LET pg == [Blank EXCEPT !.page = d.page, !.org = d.org, !.keys = d.keys,
                            !.empty = d.empty, !.doc = doc] IN
    IF d.page = "onboarding" THEN MountOnboarding(pg, s) ELSE pg
\* The frame of the signed-in pages sends whoever has no token to the login page,
\* but only when it is mounted itself: later it does not look again.
Framed(d, doc, s, mounts) ==
    IF d.page \in AppPages /\ s.token = 0 /\ mounts
    THEN [Blank EXCEPT !.page = "login", !.doc = doc] ELSE Page(d, doc, s)

\* goto and links keep the document; the page stays until the other has been loaded.
\* What was loaded for the same address already is used, and an older navigation is
\* given up, also for one to the page itself, which does nothing more.
Goto(pg, p, s, ok) ==
    [pg EXCEPT !.going = IF pg.page = p THEN Nowhere
                         ELSE IF pg.loaded.page = p THEN pg.loaded ELSE Load(p, s, ok)]
\* Loading a document ends every function of the one before.
Document(p, s, ok) == [Blank EXCEPT !.going = Load(p, s, ok)]

NavItems == AppPages \ {"onboarding"}
\* The links of the frame, of the dashboard and between the sign-in pages.
FrameLinks(t, p)     == tabs[t].page \in AppPages /\ p \in NavItems
OnboardingLink(t, p) == tabs[t].page = "dashboard" /\ tabs[t].empty /\ p = "onboarding"
SignInLinks(t, p)    == {tabs[t].page, p} = {"login", "register"}
Link(t, p) ==
    /\ tabs[t].page # p
    /\ FrameLinks(t, p) \/ OnboardingLink(t, p) \/ SignInLinks(t, p)

\* The mouse over a link loads its page, once (data-sveltekit-preload-data).
Hover(t, p) ==
    /\ Link(t, p) /\ tabs[t].loaded.page # p
    /\ \E ok \in BOOLEAN :
        Attempt("go", ok) /\ tabs' = [tabs EXCEPT ![t].loaded = Load(p, storage, ok)]
    /\ UNCHANGED <<storage, calls, mixed, fills, server>>
Follow(t, p) ==
    /\ Link(t, p)
    /\ \E ok \in BOOLEAN :
        /\ IF tabs[t].loaded.page = p THEN UNCHANGED budget ELSE Attempt("go", ok)
        /\ tabs' = [tabs EXCEPT ![t] = Goto(@, p, storage, ok)]
    /\ UNCHANGED <<storage, calls, mixed, fills, server>>
\* An address typed in, or a page loaded again.
Open(t, p) ==
    /\ \E ok \in BOOLEAN :
        Attempt("go", ok) /\ tabs' = [tabs EXCEPT ![t] = Document(p, storage, ok)]
    /\ UNCHANGED <<storage, calls, mixed, fills, server>>
\* What was loaded is displayed, and nothing loaded before is used again.
Shows(t) ==
    /\ tabs[t].going.page # "none"
    /\ tabs' = [tabs EXCEPT
                  ![t] = Framed(@.going, @.doc, storage, @.page \notin AppPages)]
    /\ UNCHANGED <<storage, calls, mixed, fills, budget, server>>

-----------------------------------------------------------------------------
\* Functions.  A new one takes the first free number.
Free(c) == calls[c].at = "idle" /\ \A d \in Calls : d < c => calls[d].at # "idle"
Starts(c, call, page, locks) ==
    /\ Free(c) /\ calls' = [calls EXCEPT ![c] = call]
    /\ tabs' = [tabs EXCEPT ![call.tab] = [page EXCEPT !.busy = @ \cup locks, !.own = @ \cup {c},
                                                        !.doc = @ \cup {c}]]
\* A call as page t sends it, and the button it disables.
Sent(t, k, by, org) ==
    [NoCall EXCEPT !.kind = k, !.at = "sent", !.tab = t, !.by = by, !.org = org]
Ready(t, k) == k \notin tabs[t].busy
Lands(c, k, at) ==
    calls[c].kind \in k /\ calls[c].at = at /\ c \in tabs[calls[c].tab].doc
\* The page p as function c leaves it: its own page unlocks the button (finally).
Without(p, c) ==
    [p EXCEPT !.doc = @ \ {c}, !.own = @ \ {c},
              !.busy = IF c \in p.own THEN @ \ {calls[c].kind} ELSE @]
Ends(c) == calls' = [calls EXCEPT ![c] = NoCall]
\* A login has set the token and not yet the organization.
Between(c) == calls[c].kind = "login" /\ calls[c].at \in {"asked", "listed"}
\* A function whose document is gone; its request may or may not have arrived.
Gone(c) ==
    /\ calls[c].at # "idle" /\ c \notin tabs[calls[c].tab].doc /\ Ends(c)
    /\ mixed' = (mixed \/ Between(c))
    /\ UNCHANGED <<storage, tabs, fills, budget, server>>

-----------------------------------------------------------------------------
\* Signing in.  Another sign-in, registration or sign-out wrote to localStorage meanwhile.
Disturbed == [c \in Calls |-> [calls[c] EXCEPT !.clean = FALSE]]

LoginForm(t) == tabs[t].page = "login" /\ Ready(t, "login")
HandleLogin(t, u, c) ==
    /\ LoginForm(t) /\ Spend("sign")
    /\ Starts(c, Sent(t, "login", u, 0), tabs[t], {"login"})
    /\ UNCHANGED <<storage, mixed, fills, server>>
LoginUser(c) ==
    /\ calls[c].kind = "login" /\ calls[c].at = "sent"
    /\ \E ok \in BOOLEAN :
        /\ ok => accounts[calls[c].by] = "password"
        /\ calls' = [calls EXCEPT ![c].at = "told", ![c].ok = ok]
        /\ MayFail(ok \/ accounts[calls[c].by] # "password")
    /\ UNCHANGED <<storage, tabs, mixed, fills, server>>
\* The token is stored, then the organizations are asked for.
LoginLands(c) ==
    /\ Lands(c, {"login"}, "told")
    /\ IF calls[c].ok
       THEN /\ storage' = [storage EXCEPT !.token = calls[c].by]
            /\ calls' = [Disturbed EXCEPT ![c].at = "asked",
                                          ![c].clean = ~\E d \in Calls : Between(d)]
            /\ UNCHANGED tabs
       ELSE Ends(c) /\ tabs' = [tabs EXCEPT ![calls[c].tab] = Without(@, c)] /\ UNCHANGED storage
    /\ UNCHANGED <<mixed, fills, budget, server>>
GetMyOrganizations(c) ==
    /\ calls[c].at = "asked"
    /\ \E ok \in BOOLEAN :
        /\ calls' = [calls EXCEPT ![c].at = "listed", ![c].org = IF ok THEN calls[c].by ELSE 0]
        /\ MayFail(ok)
    /\ UNCHANGED <<storage, tabs, mixed, fills, server>>

\* Mutant: an organization that is already stored is kept.
OrgsLandIfNone(c) ==
    /\ Lands(c, {"login"}, "listed")
    /\ storage' = [storage EXCEPT !.org = IF @ = 0 THEN calls[c].org ELSE @]
    /\ mixed' = (calls[c].org = 0 \/ ~calls[c].clean)
    /\ calls' = [Disturbed EXCEPT ![c].at = "going"]
    /\ tabs' = [tabs EXCEPT ![calls[c].tab] = Goto(@, "dashboard", storage', TRUE)]
    /\ UNCHANGED <<fills, budget, server>>
\* The first organization is stored and the tab sent to the dashboard, wherever it
\* is by now; a failure is ignored and leaves the organization of an earlier session.
OrgsLand(c) ==
    /\ Lands(c, {"login"}, "listed")
    /\ storage' = [storage EXCEPT !.org = IF calls[c].org # 0 THEN calls[c].org ELSE @]
    /\ mixed' = (calls[c].org = 0 \/ ~calls[c].clean)
    /\ calls' = [Disturbed EXCEPT ![c].at = "going"]
    /\ tabs' = [tabs EXCEPT ![calls[c].tab] = Goto(@, "dashboard", storage', TRUE)]
    /\ UNCHANGED <<fills, budget, server>>
\* The button is free again when the dashboard is on display or has been given up.
LoginEnds(c) ==
    /\ Lands(c, {"login"}, "going") /\ tabs[calls[c].tab].going.page # "dashboard" /\ Ends(c)
    /\ tabs' = [tabs EXCEPT ![calls[c].tab] = Without(@, c)]
    /\ UNCHANGED <<storage, mixed, fills, budget, server>>

RegisterForm(t) == tabs[t].page = "register" /\ Ready(t, "register")
HandleRegister(t, u, c) ==
    /\ RegisterForm(t) /\ Spend("sign")
    /\ Starts(c, Sent(t, "register", u, 0), tabs[t], {"register"})
    /\ UNCHANGED <<storage, mixed, fills, server>>
RegisterUser(c) ==
    /\ calls[c].kind = "register" /\ calls[c].at = "sent"
    /\ \E kept, ok \in BOOLEAN :
        /\ ok => kept
        /\ kept => accounts[calls[c].by] = "none"
        /\ accounts' = IF kept THEN [accounts EXCEPT ![calls[c].by] = "password"] ELSE accounts
        /\ calls' = [calls EXCEPT ![c].at = "told", ![c].ok = ok]
        /\ MayFail(ok \/ accounts[calls[c].by] # "none")
    /\ UNCHANGED <<storage, tabs, mixed, fills, things, lost>>
\* The new organization is stored, whoever is signed in; the form is free again.
RegisterLands(c) ==
    LET t  == calls[c].tab
        ts == [tabs EXCEPT ![t] = [Without(tabs[t], c) EXCEPT !.doc = tabs[t].doc]] IN
    /\ Lands(c, {"register"}, "told")
    /\ IF calls[c].ok
       THEN /\ storage' = [storage EXCEPT !.org = calls[c].by]
            /\ mixed' = (mixed \/ storage.token # 0)
            /\ calls' = [Disturbed EXCEPT ![c].at = "timer"] /\ tabs' = ts
       ELSE /\ Ends(c) /\ tabs' = [tabs EXCEPT ![t] = Without(@, c)]
            /\ UNCHANGED <<storage, mixed>>
    /\ UNCHANGED <<fills, budget, server>>
\* Two seconds later the tab goes to the login page, even from a signed-in page.
RegisterTimer(c) ==
    /\ Lands(c, {"register"}, "timer") /\ Ends(c)
    /\ tabs' = [tabs EXCEPT ![calls[c].tab] = Goto(Without(@, c), "login", storage, TRUE)]
    /\ UNCHANGED <<storage, mixed, fills, budget, server>>

\* The identity provider sends the tab through CallbackSSO to the callback page.  The
\* handler ignores what the database answers: when it fails over the user (from the
\* first statement on) the token and the organization are of nobody stored, when it
\* fails over the organizations only, the token is the user's.
SSOCallback(t, u) ==
    /\ \/ /\ Attempt("sign", TRUE) /\ storage' = [token |-> u, org |-> u] /\ mixed' = FALSE
          /\ accounts' = [accounts EXCEPT ![u] = IF @ = "none" THEN "sso" ELSE @]
       \/ /\ Attempt("sign", FALSE) /\ storage' = [token |-> u, org |-> Stranger] /\ mixed' = TRUE
          /\ accounts' = [accounts EXCEPT ![u] = IF @ = "none" THEN "sso" ELSE @]
       \/ /\ Attempt("sign", FALSE) /\ storage' = [token |-> Stranger, org |-> Stranger]
          /\ mixed' = TRUE /\ UNCHANGED accounts
    /\ calls' = Disturbed
    /\ tabs' = [tabs EXCEPT ![t] = Document("dashboard", storage', TRUE)]
    /\ UNCHANGED <<fills, things, lost>>

\* Signing out leaves aura_org_id in place.
HandleLogout(t) ==
    /\ tabs[t].page \in AppPages /\ Spend("sign")
    /\ storage' = [storage EXCEPT !.token = 0] /\ calls' = Disturbed
    /\ tabs' = [tabs EXCEPT ![t] = Goto(@, "login", storage, TRUE)]
    /\ UNCHANGED <<mixed, fills, server>>

-----------------------------------------------------------------------------
\* Settings.  Each button has a flag of its own; who is asked to change is read
\* from localStorage at the click, not taken from the form.
SettingsForms(t, k) == tabs[t].page = "settings" /\ Ready(t, k)
Save(t, c, k) ==
    /\ SettingsForms(t, k) /\ Spend("save")
    /\ Starts(c, Sent(t, k, storage.token, storage.org), tabs[t], {k})
    /\ UNCHANGED <<storage, mixed, fills, server>>
SaveProfile(t, c)  == Save(t, c, "profile")
SavePassword(t, c) == Save(t, c, "password")
SaveOrg(t, c)      == Save(t, c, "organization")

\* UpdateMe, UpdatePassword and UpdateOrganization.
Accepted(r) ==
    CASE r.kind = "profile"  -> r.by \in Users
      [] r.kind = "password" -> r.by \in Users /\ accounts[r.by] = "password"
      [] OTHER               -> Member(r.by, r.org)
ServeSave(c) ==
    LET r == calls[c] IN
    /\ r.kind \in Saving /\ r.at = "sent"
    /\ \E ok \in BOOLEAN :
        /\ ok => Accepted(r)
        /\ calls' = [calls EXCEPT ![c].at = "told", ![c].ok = ok]
        /\ MayFail(ok \/ ~Accepted(r) \/ r.kind = "password")  \* it may be mistyped
    /\ UNCHANGED <<storage, accounts, tabs, things, mixed, lost, fills>>
\* Mutant: only a success frees the button.
SaveLandsNoFinally(c) ==
    /\ Lands(c, Saving, "told") /\ Ends(c)
    /\ tabs' = [tabs EXCEPT ![calls[c].tab] =
                  IF calls[c].ok THEN Without(@, c) ELSE [@ EXCEPT !.doc = @ \ {c}, !.own = @ \ {c}]]
    /\ UNCHANGED <<storage, mixed, fills, budget, server>>
SaveLands(c) ==
    /\ Lands(c, Saving, "told") /\ Ends(c)
    /\ tabs' = [tabs EXCEPT ![calls[c].tab] = Without(@, c)]
    /\ UNCHANGED <<storage, mixed, fills, budget, server>>

-----------------------------------------------------------------------------
\* Making agents, rules and keys: the filling of a form is numbered when it is
\* first sent, and sent again under the same number after a failure.
Filling(t) == IF tabs[t].fill # 0 THEN tabs[t].fill ELSE fills + 1
Make(t, c, call, locks) ==
    /\ Spend("make") /\ fills' = IF tabs[t].fill # 0 THEN fills ELSE fills + 1
    /\ Starts(c, [call EXCEPT !.fill = Filling(t)], [tabs[t] EXCEPT !.fill = Filling(t)], locks)
    /\ UNCHANGED <<storage, mixed, server>>

\* The agents page.  The cross, Escape and the backdrop close the dialog even while
\* it is creating; Cancel only when it is not.  What was typed stays.
OpenCreate(t) ==
    /\ tabs[t].page = "agents" /\ ~tabs[t].dialog /\ tabs' = [tabs EXCEPT ![t].dialog = TRUE]
    /\ UNCHANGED <<storage, calls, mixed, fills, budget, server>>
CloseCreate(t) ==
    /\ tabs[t].dialog /\ tabs' = [tabs EXCEPT ![t].dialog = FALSE]
    /\ UNCHANGED <<storage, calls, mixed, fills, budget, server>>
CancelCreate(t) == Ready(t, "agent") /\ CloseCreate(t)

\* Mutant: the form is sent while it is creating.
CreateAgentAgain(t, c) ==
    /\ tabs[t].dialog /\ tabs[t].org # 0 /\ storage.token # 0
    /\ Make(t, c, Sent(t, "agent", storage.token, tabs[t].org), {"agent"})
CreateForm(t) == tabs[t].dialog /\ Ready(t, "agent")
\* handleCreateAgent: the organization of the page, the token of the moment.
HandleCreateAgent(t, c) ==
    /\ CreateForm(t) /\ tabs[t].org # 0 /\ storage.token # 0
    /\ Make(t, c, Sent(t, "agent", storage.token, tabs[t].org), {"agent"})

\* Onboarding: one form after another under one flag, all with the token and the
\* organization of the moment it was mounted.
Step(t, n) == tabs[t].page = "onboarding" /\ tabs[t].step = n /\ tabs[t].busy = {}
Onboarding(t, c, n, k, agent) ==
    /\ Step(t, n) /\ tabs[t].user # 0 /\ tabs[t].org # 0
    /\ Make(t, c, [Sent(t, k, tabs[t].user, tabs[t].org) EXCEPT !.thing = agent], {k})
CreateAgent(t, c)  == Onboarding(t, c, 1, "first", 0)
AddRule(t, c)      == Onboarding(t, c, 2, "rule", tabs[t].agent)
CreateApiKey(t, c) == Onboarding(t, c, 3, "key", 0)

\* The backend makes it, refuses it, or makes it and the answer is lost.  A rule is
\* for an agent of the same organization (ensureAgentInOrg).
Allowed(r) == Member(r.by, r.org) /\ (r.kind = "rule" => things[r.thing].org = r.org)
Full == \A i \in Things : things[i].kind # "none"  \* a bound: then nothing more is made
ServeMake(c) ==
    LET r == calls[c] IN
    /\ r.kind \in Making /\ r.at = "sent"
    /\ \/ \E i \in Things, ok \in BOOLEAN :
            /\ things[i].kind = "none" /\ \A j \in Things : j < i => things[j].kind # "none"
            /\ Allowed(r)
            /\ things' =
                   [things EXCEPT ![i] = [Nothing EXCEPT !.kind = r.kind, !.org = r.org, !.fill = r.fill]]
            /\ calls' = [calls EXCEPT ![c].at = "told", ![c].ok = ok, ![c].thing = i]
            /\ lost' = IF ok THEN lost ELSE lost \cup {r.fill}
            /\ MayFail(ok)
       \/ /\ calls' = [calls EXCEPT ![c].at = "told"]
          /\ MayFail(~Allowed(r) \/ Full) /\ UNCHANGED <<things, lost>>
    /\ UNCHANGED <<storage, accounts, tabs, mixed, fills>>

NextStep(k) == CASE k = "first" -> 2 [] k = "rule" -> 3 [] OTHER -> 4
\* Onboarding goes a step further; a failure leaves the form as it is.  If the page
\* was left meanwhile nothing is left of the answer.
Advanced(p, c) ==
    IF c \in p.own /\ calls[c].ok
    THEN [Without(p, c) EXCEPT !.step = NextStep(calls[c].kind), !.fill = 0,
                               !.agent = IF calls[c].kind = "first" THEN calls[c].thing ELSE @]
    ELSE Without(p, c)
\* When the agents page has made one it loads the page again, whatever it is by now.
MakeLands(c) ==
    /\ Lands(c, Making, "told") /\ Ends(c)
    /\ tabs' = [tabs EXCEPT ![calls[c].tab] =
                  IF calls[c].kind # "agent" THEN Advanced(@, c)
                  ELSE IF calls[c].ok THEN Document(@.page, storage, TRUE) ELSE Without(@, c)]
    /\ UNCHANGED <<storage, mixed, fills, budget, server>>

-----------------------------------------------------------------------------
\* The API keys page: no flag, and a failure shows nothing.
KeyTable(t) == IF tabs[t].page = "apikeys" THEN tabs[t].keys ELSE {}
Revoke(t, k, c) ==
    /\ k \in KeyTable(t) /\ storage.token # 0 /\ tabs[t].org # 0
    /\ Spend("make")
    /\ Starts(c, [Sent(t, "revoke", storage.token, tabs[t].org) EXCEPT !.thing = k], tabs[t], {})
    /\ UNCHANGED <<storage, mixed, fills, server>>
DeleteAPIKey(c) ==
    LET r == calls[c]
        valid == Member(r.by, r.org) /\ things[r.thing].org = r.org /\ ~things[r.thing].revoked IN
    /\ r.kind = "revoke" /\ r.at = "sent"
    /\ \E kept, ok \in BOOLEAN :
        /\ ok => kept
        /\ kept => valid
        /\ things' = IF kept THEN [things EXCEPT ![r.thing].revoked = TRUE] ELSE things
        /\ calls' = [calls EXCEPT ![c].at = "told", ![c].ok = ok]
        /\ MayFail(ok \/ ~valid)
    /\ UNCHANGED <<storage, accounts, tabs, mixed, lost, fills>>
RevokeLands(c) ==
    /\ Lands(c, {"revoke"}, "told") /\ Ends(c)
    /\ tabs' = [tabs EXCEPT ![calls[c].tab] =
                  IF calls[c].ok THEN Document(@.page, storage, TRUE) ELSE Without(@, c)]
    /\ UNCHANGED <<storage, mixed, fills, budget, server>>

-----------------------------------------------------------------------------
Init ==
    /\ things = [i \in Things |-> Nothing]
    /\ accounts = [u \in Users |-> IF u \in Registered THEN "password" ELSE "none"]
    /\ budget \in Budgets
    /\ \E u \in Registered \cup {0} : storage = [token |-> u, org |-> u]
    /\ tabs = [t \in Tabs |-> Framed(Load("dashboard", storage, TRUE), {}, storage, TRUE)]
    /\ calls = [c \in Calls |-> NoCall]
    /\ mixed = FALSE /\ lost = {} /\ fills = 0

SignsInOut ==
    \/ \E t \in Tabs, u \in Users : SSOCallback(t, u)
    \/ \E t \in Tabs, u \in Users, c \in Calls : HandleLogin(t, u, c) \/ HandleRegister(t, u, c)
    \/ \E t \in Tabs : HandleLogout(t)
Navigates == \E t \in Tabs, p \in Pages : Hover(t, p) \/ Follow(t, p) \/ Open(t, p)
Clicks ==
    \/ \E t \in Tabs : OpenCreate(t) \/ CloseCreate(t) \/ CancelCreate(t)
    \/ \E t \in Tabs, c \in Calls :
        \/ SaveProfile(t, c) \/ SavePassword(t, c) \/ SaveOrg(t, c)
        \/ HandleCreateAgent(t, c)
        \/ CreateAgent(t, c) \/ AddRule(t, c) \/ CreateApiKey(t, c)
        \/ \E k \in Things : Revoke(t, k, c)
\* The backend answers function c, and function c goes on or is gone.
Serves(c) == LoginUser(c) \/ GetMyOrganizations(c) \/ RegisterUser(c)
             \/ ServeSave(c) \/ ServeMake(c) \/ DeleteAPIKey(c)
Returns(c) == LoginLands(c) \/ OrgsLand(c) \/ LoginEnds(c) \/ RegisterLands(c)
              \/ RegisterTimer(c) \/ SaveLands(c) \/ MakeLands(c) \/ RevokeLands(c) \/ Gone(c)
Next ==
    \/ SignsInOut \/ Navigates \/ Clicks
    \/ \E t \in Tabs : Shows(t)
    \/ \E c \in Calls : Serves(c) \/ Returns(c)

\* The backend answers or the browser gives the request up, timers fire, and a page
\* that is loaded is displayed.
Fairness ==
    /\ \A c \in Calls : WF_vars(Serves(c)) /\ WF_vars(Returns(c))
    /\ \A t \in Tabs : WF_vars(Shows(t))
Spec == Init /\ [][Next]_vars /\ Fairness

-----------------------------------------------------------------------------
\* Whoever is signed in works on an organization of his own, once no login is
\* between its token and its organization; unless the organizations could not be
\* listed, the tab was loaded again before they were, somebody registered in a
\* signed-in browser, the callback's database failed, or two sign-ins overlapped
\* (handleLogin, handleRegister, the callback page and handleLogout share two keys).
SessionMatches ==
    storage.token # 0 /\ ~mixed /\ (\A c \in Calls : ~Between(c)) => storage.org = storage.token

\* One filling of a form makes one thing, however often it is sent, unless an
\* answer was lost (isCreating, loading; the console sends no Idempotency-Key).
MadeOnce ==
    \A i, j \in Things : things[i].fill = things[j].fill /\ things[i].fill # 0 =>
        i = j \/ things[i].fill \in lost

\* A button disabled for a request does not stay so: again and again, as soon as the
\* users let go, every button is enabled again or its page left, whatever the answers,
\* the other tabs and the navigations under way do meanwhile
\* (isLoading, savingProfile, savingOrg, savingPassword, isCreating, loading).
ButtonsComeBack == []<>(\A t \in Tabs : tabs[t].busy = {})
-----------------------------------------------------------------------------
\* What makes the invariants inductive.  A login between its token and its organization
\* that nothing disturbed is the only one and the token stored is its own.
SessionInv ==
    /\ \A c \in Calls : calls[c].at \in {"asked", "listed"} => calls[c].kind = "login"
    /\ \A c \in Calls : calls[c].at = "listed" => calls[c].org \in {0, calls[c].by}
    /\ \A c \in Calls : Between(c) /\ calls[c].clean =>
           storage.token = calls[c].by /\ \A d \in Calls : Between(d) => d = c
    /\ SessionMatches

\* A filling is in one form and in one running function at most, which has disabled the
\* button of that form; what was made of it, and the answer not lost, leaves the form when
\* that function ends.
Runs(r) == r.at # "idle" /\ r.kind \in Making
Pair(pg, t, r, c) ==
    /\ c \in pg.doc => r.at # "idle" /\ r.tab = t
    /\ c \in pg.own => c \in pg.doc
    /\ c \in pg.own /\ Runs(r) => r.fill = pg.fill /\ r.kind \in pg.busy
    /\ Runs(r) /\ r.fill = pg.fill => c \in pg.own /\ (pg.page = "agents" => r.kind = "agent")
Pairs  == \A t \in Tabs, c \in Calls : Pair(tabs[t], t, calls[c], c)
Filled == \A t \in Tabs : tabs[t].fill <= fills /\ (tabs[t].dialog => tabs[t].page = "agents")
Apart  == \A t, u \in Tabs : tabs[t].fill = tabs[u].fill => t = u \/ tabs[t].fill = 0
Numbered ==
    /\ \A c \in Calls : Runs(calls[c]) => calls[c].fill \in 1..fills
    /\ \A i \in Things : things[i].fill <= fills
Single ==
    \A c, d \in Calls :
        Runs(calls[c]) /\ Runs(calls[d]) /\ calls[c].fill = calls[d].fill => c = d
Counts(i) == things[i].fill # 0 /\ things[i].fill \notin lost
Answered ==
    \A i \in Things, c \in Calls :
        Counts(i) /\ Runs(calls[c]) /\ calls[c].fill = things[i].fill =>
            calls[c].at = "told" /\ calls[c].ok
Pending ==
    \A i \in Things, t \in Tabs : Counts(i) /\ tabs[t].fill = things[i].fill =>
        \E c \in Calls : Runs(calls[c]) /\ calls[c].fill = things[i].fill
MadeInv ==
    Pairs /\ Filled /\ Apart /\ Numbered /\ Single /\ Answered /\ Pending /\ MadeOnce
=============================================================================
