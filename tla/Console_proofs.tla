--------------------------- MODULE Console_proofs ---------------------------
(***************************************************************************)
(* Proofs about Console, for any number of users, tabs, functions and      *)
(* things: type correctness, that a token and an organization belong       *)
(* together, and that one filling of a form makes one thing.               *)
(***************************************************************************)
EXTENDS Console, TLAPS

LEMMA ZeroFacts == 0 \in Someone /\ 0 \notin Users /\ 0 \notin Things /\ Things \subseteq Nat
BY ConsoleAssumption DEF Someone

LEMMA SpendTypes ==
    ASSUME TypeOK, NEW a \in Activities, Spend(a)
    PROVE  budget' \in [Activities -> Nat]
BY DEF TypeOK, Spend

LEMMA FaultTypes ==
    ASSUME TypeOK, NEW ok, MayFail(ok)
    PROVE  budget' \in [Activities -> Nat]
<1>1. CASE ok BY <1>1 DEF MayFail, TypeOK
<1>2. CASE ~ok BY <1>2, SpendTypes DEF MayFail, Activities
<1> QED BY <1>1, <1>2

LEMMA AttemptTypes ==
    ASSUME TypeOK, NEW a \in Activities, NEW ok, Attempt(a, ok)
    PROVE  budget' \in [Activities -> Nat]
BY DEF Attempt, TypeOK, Activities

-----------------------------------------------------------------------------
(* The operators on pages and functions keep their types.                   *)

LEMMA BlankTypes ==
    /\ Nowhere \in LoadRecord /\ Blank \in PageRecord
    /\ NoCall \in CallRecord /\ Nothing \in ThingRecord
<1>1. Nowhere \in LoadRecord BY ZeroFacts DEF Nowhere, LoadRecord
<1> QED BY <1>1, ZeroFacts DEF Blank, NoCall, Nothing, PageRecord, CallRecord, ThingRecord

\* A page keeps its type when another is loaded for it or displayed in its place.
Places == Pages \cup {"loading"}
LEMMA LoadTypes ==
    ASSUME NEW p \in Places, NEW s \in [token : Someone, org : Someone], NEW ok \in BOOLEAN
    PROVE  Load(p, s, ok) \in LoadRecord /\ Load(p, s, ok).page = p
<1>1. Nowhere \in LoadRecord BY BlankTypes
<1>2. {"dashboard", "agents", "apikeys"} \subseteq Pages /\ p \in Pages \cup {"none", "loading"}
  BY DEF Pages, AppPages, Places
<1>3. LoadDashboard(s, ok) \in LoadRecord /\ LoadDashboard(s, ok).page = "dashboard"
  BY <1>1, <1>2 DEF LoadDashboard, LoadRecord
<1>4. LoadAgents(s) \in LoadRecord /\ LoadAgents(s).page = "agents"
  BY <1>1, <1>2, ZeroFacts DEF LoadAgents, LoadRecord
<1>5. LoadKeys(s, ok) \in LoadRecord /\ LoadKeys(s, ok).page = "apikeys"
  BY <1>1, <1>2 DEF LoadKeys, LoadRecord, Made
<1>6. [Nowhere EXCEPT !.page = p] \in LoadRecord /\ [Nowhere EXCEPT !.page = p].page = p
  BY <1>1, <1>2 DEF LoadRecord
<1> QED BY <1>3, <1>4, <1>5, <1>6 DEF Load

\* A page just displayed has no form filled in and no function of its own.
Fresh(pg, doc) ==
    /\ pg.own = {} /\ pg.busy = {} /\ pg.doc = doc /\ pg.fill = 0 /\ ~pg.dialog

LEMMA FramedTypes ==
    ASSUME NEW d \in LoadRecord, d.page # "none", NEW doc \in SUBSET Calls,
           NEW s \in [token : Someone, org : Someone], NEW mounts \in BOOLEAN
    PROVE  Framed(d, doc, s, mounts) \in PageRecord /\ Fresh(Framed(d, doc, s, mounts), doc)
<1> DEFINE pg == [Blank EXCEPT !.page = d.page, !.org = d.org, !.keys = d.keys,
                               !.empty = d.empty, !.doc = doc]
           login == [Blank EXCEPT !.page = "login", !.doc = doc]
<1>1. pg \in PageRecord /\ Fresh(pg, doc)
  <2>1. d.page \in Pages \cup {"loading"} /\ d.org \in Someone /\ d.keys \in SUBSET Things
        /\ d.empty \in BOOLEAN
    BY DEF LoadRecord
  <2>2. pg \in PageRecord BY <2>1, BlankTypes DEF PageRecord
  <2> QED BY <2>2 DEF Fresh, Blank
<1>2. login \in PageRecord /\ Fresh(login, doc)
  <2>1. login \in PageRecord BY BlankTypes DEF PageRecord, Pages
  <2> QED BY <2>1 DEF Fresh, Blank
<1> HIDE DEF pg, login
<1>3. MountOnboarding(pg, s) \in PageRecord /\ Fresh(MountOnboarding(pg, s), doc)
  BY <1>1 DEF MountOnboarding, PageRecord, Fresh
<1>4. Page(d, doc, s) \in PageRecord /\ Fresh(Page(d, doc, s), doc)
  BY <1>1, <1>3 DEF Page, pg
<1> QED BY <1>2, <1>4 DEF Framed, login

LEMMA DocumentTypes ==
    ASSUME NEW p \in Places, NEW s \in [token : Someone, org : Someone], NEW ok \in BOOLEAN
    PROVE  Document(p, s, ok) \in PageRecord /\ Fresh(Document(p, s, ok), {})
<1>1. Load(p, s, ok) \in LoadRecord BY LoadTypes
<1> DEFINE d == Load(p, s, ok)
<1> HIDE DEF d
<1>2. [Blank EXCEPT !.going = d] \in PageRecord BY <1>1, BlankTypes DEF PageRecord, d
<1>3. Fresh([Blank EXCEPT !.going = d], {}) BY DEF Fresh, Blank
<1> QED BY <1>2, <1>3 DEF Document, d

\* What goto and hovering change of a page.
Elsewhere(p, q) ==
    /\ q.own = p.own /\ q.doc = p.doc /\ q.busy = p.busy /\ q.fill = p.fill
    /\ q.page = p.page /\ q.dialog = p.dialog

LEMMA GotoTypes ==
    ASSUME NEW pg \in PageRecord, NEW p \in Pages, NEW s \in [token : Someone, org : Someone],
           NEW ok \in BOOLEAN
    PROVE  Goto(pg, p, s, ok) \in PageRecord /\ Elsewhere(pg, Goto(pg, p, s, ok))
<1> DEFINE d == IF pg.page = p THEN Nowhere
                ELSE IF pg.loaded.page = p THEN pg.loaded ELSE Load(p, s, ok)
<1>1. Load(p, s, ok) \in LoadRecord BY LoadTypes DEF Places
<1>2. d \in LoadRecord BY <1>1, BlankTypes DEF PageRecord
<1> HIDE DEF d
<1>3. [pg EXCEPT !.going = d] \in PageRecord /\ Elsewhere(pg, [pg EXCEPT !.going = d])
  BY <1>2 DEF PageRecord, Elsewhere
<1> QED BY <1>3 DEF Goto, d

LEMMA WithoutTypes ==
    ASSUME NEW pg \in PageRecord, NEW c \in Calls
    PROVE  Without(pg, c) \in PageRecord
BY DEF Without, PageRecord

LEMMA DisturbedTypes ==
    ASSUME TypeOK
    PROVE  Disturbed \in [Calls -> CallRecord]
<1>1. \A c \in Calls : [calls[c] EXCEPT !.clean = FALSE] \in CallRecord
  <2> TAKE c \in Calls
  <2>1. calls[c] \in CallRecord BY DEF TypeOK
  <2> QED BY <2>1 DEF CallRecord
<1> QED BY <1>1 DEF Disturbed

LEMMA EndsTypes ==
    ASSUME TypeOK, NEW c \in Calls, Ends(c)
    PROVE  calls' \in [Calls -> CallRecord]
BY BlankTypes DEF TypeOK, Ends

LEMMA StartsTypes ==
    ASSUME TypeOK, NEW c \in Calls, NEW call \in CallRecord, NEW pg \in PageRecord,
           NEW locks \in SUBSET Kinds, Starts(c, call, pg, locks)
    PROVE  calls' \in [Calls -> CallRecord] /\ tabs' \in [Tabs -> PageRecord]
<1> DEFINE started == [pg EXCEPT !.busy = @ \cup locks, !.own = @ \cup {c}, !.doc = @ \cup {c}]
<1>1. started \in PageRecord BY DEF PageRecord
<1> HIDE DEF started
<1>2. tabs' = [tabs EXCEPT ![call.tab] = started] BY DEF Starts, started
<1> QED BY <1>1, <1>2 DEF Starts, TypeOK

LEMMA SentTypes ==
    ASSUME NEW t \in Tabs, NEW k \in Kinds, NEW by \in Someone, NEW org \in Someone
    PROVE  Sent(t, k, by, org) \in CallRecord
BY BlankTypes DEF Sent, CallRecord

-----------------------------------------------------------------------------
(* Each action keeps the types.                                             *)

LEMMA StateTypes ==
    ASSUME TypeOK
    PROVE  /\ storage \in [token : Someone, org : Someone]
           /\ storage.token \in Someone /\ storage.org \in Someone
           /\ \A t \in Tabs : tabs[t] \in PageRecord
           /\ \A c \in Calls : calls[c] \in CallRecord
BY DEF TypeOK

LEMMA NavigateTypes ==
    ASSUME TypeOK, NEW t \in Tabs, NEW p \in Pages, Hover(t, p) \/ Follow(t, p) \/ Open(t, p)
    PROVE  /\ TypeOK' /\ UNCHANGED <<storage, calls, mixed, fills, server>>
           /\ \E pg \in PageRecord : /\ tabs' = [tabs EXCEPT ![t] = pg]
                                     /\ Elsewhere(tabs[t], pg) \/ Fresh(pg, {})
<1>1. tabs[t] \in PageRecord /\ p \in Places BY StateTypes DEF Places
<1>2. UNCHANGED <<storage, calls, mixed, fills, server>> BY DEF Hover, Follow, Open
<1>3. \E pg \in PageRecord : /\ tabs' = [tabs EXCEPT ![t] = pg]
                             /\ Elsewhere(tabs[t], pg) \/ Fresh(pg, {})
  <2>1. CASE Hover(t, p)
    <3>1. PICK ok \in BOOLEAN : tabs' = [tabs EXCEPT ![t].loaded = Load(p, storage, ok)]
      BY <2>1 DEF Hover
    <3>2. Load(p, storage, ok) \in LoadRecord BY <1>1, StateTypes, LoadTypes
    <3> DEFINE d  == Load(p, storage, ok)
               pg == [tabs[t] EXCEPT !.loaded = d]
    <3> HIDE DEF d
    <3>3. pg \in PageRecord /\ Elsewhere(tabs[t], pg) BY <1>1, <3>2 DEF PageRecord, Elsewhere, d
    <3>4. tabs' = [tabs EXCEPT ![t] = pg] BY <3>1 DEF d, TypeOK
    <3> QED BY <3>3, <3>4
  <2>2. CASE Follow(t, p) BY <1>1, <2>2, StateTypes, GotoTypes DEF Follow
  <2>3. CASE Open(t, p) BY <1>1, <2>3, StateTypes, DocumentTypes DEF Open
  <2> QED BY <2>1, <2>2, <2>3
<1>4. tabs' \in [Tabs -> PageRecord] BY <1>3 DEF TypeOK
<1>5. budget' \in [Activities -> Nat]
  BY AttemptTypes DEF Hover, Follow, Open, TypeOK, Activities
<1> QED BY <1>2, <1>3, <1>4, <1>5 DEF TypeOK, server

LEMMA ShowsTypes ==
    ASSUME TypeOK, NEW t \in Tabs, Shows(t)
    PROVE  /\ TypeOK' /\ UNCHANGED <<storage, calls, mixed, fills, server>>
           /\ \E pg \in PageRecord : tabs' = [tabs EXCEPT ![t] = pg] /\ Fresh(pg, tabs[t].doc)
<1> DEFINE d      == tabs[t].going
           doc    == tabs[t].doc
           mounts == tabs[t].page \notin AppPages
           pg     == Framed(d, doc, storage, mounts)
<1>1. d \in LoadRecord /\ doc \in SUBSET Calls /\ mounts \in BOOLEAN
  BY StateTypes DEF PageRecord
<1>2. d.page # "none" BY DEF Shows
<1>3. tabs' = [tabs EXCEPT ![t] = pg] BY DEF Shows
<1>4. UNCHANGED <<storage, calls, mixed, fills, budget, server>> BY DEF Shows
<1> HIDE DEF d, mounts
<1>5. pg \in PageRecord /\ Fresh(pg, doc) BY <1>1, <1>2, StateTypes, FramedTypes
<1> HIDE DEF pg
<1>6. tabs' \in [Tabs -> PageRecord] BY <1>3, <1>5 DEF TypeOK
<1>7. TypeOK' BY <1>4, <1>6 DEF TypeOK, server
<1> QED BY <1>3, <1>4, <1>5, <1>7

\* What the callback page stores is of one sign-in, or is not known to be.
LEMMA SSOStorage ==
    ASSUME NEW t \in Tabs, NEW u \in Users, SSOCallback(t, u)
    PROVE  /\ storage' \in [token : Someone, org : Someone]
           /\ mixed' \in BOOLEAN /\ (mixed' \/ storage'.org = storage'.token)
<1>1. u \in Someone /\ Stranger \in Someone BY DEF Someone
<1>2. \A a, b \in Someone : /\ [token |-> a, org |-> b] \in [token : Someone, org : Someone]
                            /\ [token |-> a, org |-> b].token = a
                            /\ [token |-> a, org |-> b].org = b
  OBVIOUS
<1>3. \/ storage' = [token |-> u, org |-> u] /\ mixed' = FALSE
      \/ storage' = [token |-> u, org |-> Stranger] /\ mixed' = TRUE
      \/ storage' = [token |-> Stranger, org |-> Stranger] /\ mixed' = TRUE
  BY DEF SSOCallback
<1>4. CASE storage' = [token |-> u, org |-> u] /\ mixed' = FALSE
  <2>1. storage' \in [token : Someone, org : Someone] /\ storage'.org = storage'.token
    BY <1>1, <1>2, <1>4
  <2> QED BY <1>4, <2>1
<1>5. CASE mixed' = TRUE BY <1>1, <1>2, <1>3, <1>5
<1> QED BY <1>3, <1>4, <1>5

LEMMA SSOTypes ==
    ASSUME TypeOK, NEW t \in Tabs, NEW u \in Users, SSOCallback(t, u)
    PROVE  TypeOK'
<1>1. storage' \in [token : Someone, org : Someone] BY SSOStorage
<1>2. Document("dashboard", storage', TRUE) \in PageRecord
  BY <1>1, DocumentTypes DEF Places, Pages, AppPages
<1>3. tabs' \in [Tabs -> PageRecord] BY <1>2 DEF TypeOK, SSOCallback
<1>4. budget' \in [Activities -> Nat] BY AttemptTypes DEF SSOCallback, Activities
<1>5. accounts' \in [Users -> Accounts] BY DEF SSOCallback, TypeOK, Accounts
<1>6. mixed' \in BOOLEAN BY SSOStorage
<1> QED BY <1>1, <1>3, <1>4, <1>5, <1>6, DisturbedTypes DEF SSOCallback, TypeOK

LEMMA LogoutTypes ==
    ASSUME TypeOK, NEW t \in Tabs, HandleLogout(t)
    PROVE  TypeOK'
<1>1. Goto(tabs[t], "login", storage, TRUE) \in PageRecord
  BY StateTypes, GotoTypes DEF Pages
<1>2. tabs' \in [Tabs -> PageRecord] BY <1>1 DEF TypeOK, HandleLogout
<1>3. storage' \in [token : Someone, org : Someone] BY ZeroFacts DEF HandleLogout, TypeOK
<1>4. budget' \in [Activities -> Nat] BY SpendTypes DEF HandleLogout, Activities
<1> QED BY <1>2, <1>3, <1>4, DisturbedTypes DEF HandleLogout, TypeOK, server

LEMMA SignInTypes ==
    ASSUME TypeOK, NEW t \in Tabs, NEW u \in Users, NEW c \in Calls,
           HandleLogin(t, u, c) \/ HandleRegister(t, u, c)
    PROVE  TypeOK'
<1>1. PICK k \in {"login", "register"} : Starts(c, Sent(t, k, u, 0), tabs[t], {k})
  BY DEF HandleLogin, HandleRegister
<1>2. Sent(t, k, u, 0) \in CallRecord BY SentTypes, ZeroFacts DEF Kinds, Someone
<1>3. calls' \in [Calls -> CallRecord] /\ tabs' \in [Tabs -> PageRecord]
  BY <1>1, <1>2, StateTypes, StartsTypes DEF Kinds
<1>4. budget' \in [Activities -> Nat] BY SpendTypes DEF HandleLogin, HandleRegister, Activities
<1> QED BY <1>3, <1>4 DEF HandleLogin, HandleRegister, TypeOK, server

LEMMA SaveTypes ==
    ASSUME TypeOK, NEW t \in Tabs, NEW c \in Calls,
           SaveProfile(t, c) \/ SavePassword(t, c) \/ SaveOrg(t, c)
    PROVE  TypeOK'
<1>1. PICK k \in Saving : Save(t, c, k)
  BY DEF SaveProfile, SavePassword, SaveOrg, Saving
<1>2. Sent(t, k, storage.token, storage.org) \in CallRecord
  BY SentTypes, StateTypes DEF Kinds, Saving
<1>3. calls' \in [Calls -> CallRecord] /\ tabs' \in [Tabs -> PageRecord]
  BY <1>1, <1>2, StateTypes, StartsTypes DEF Save, Kinds, Saving
<1>4. budget' \in [Activities -> Nat] BY <1>1, SpendTypes DEF Save, Activities
<1> QED BY <1>1, <1>3, <1>4 DEF Save, TypeOK, server

LEMMA MakeTypes ==
    ASSUME TypeOK, NEW t \in Tabs, NEW c \in Calls, NEW call \in CallRecord,
           NEW locks \in SUBSET Kinds, Make(t, c, call, locks)
    PROVE  TypeOK'
<1>1. Filling(t) \in Nat BY StateTypes DEF Filling, PageRecord, TypeOK
<1>2. [call EXCEPT !.fill = Filling(t)] \in CallRecord
  BY <1>1 DEF CallRecord
<1>3. [tabs[t] EXCEPT !.fill = Filling(t)] \in PageRecord
  BY <1>1, StateTypes DEF PageRecord
<1>4. calls' \in [Calls -> CallRecord] /\ tabs' \in [Tabs -> PageRecord]
  BY <1>2, <1>3, StartsTypes DEF Make
<1>5. budget' \in [Activities -> Nat] BY SpendTypes DEF Make, Activities
<1> QED BY <1>4, <1>5 DEF Make, TypeOK, server

LEMMA CreateTypes ==
    ASSUME TypeOK, NEW t \in Tabs, NEW c \in Calls,
           \/ HandleCreateAgent(t, c)
           \/ CreateAgent(t, c) \/ AddRule(t, c) \/ CreateApiKey(t, c)
    PROVE  TypeOK'
<1>1. CASE HandleCreateAgent(t, c)
  <2>1. Sent(t, "agent", storage.token, tabs[t].org) \in CallRecord
    BY SentTypes, StateTypes DEF Kinds, Making, PageRecord
  <2> QED BY <1>1, <2>1, MakeTypes DEF HandleCreateAgent, Kinds, Making
<1>2. ASSUME NEW n, NEW k \in Making, NEW agent \in Things \cup {0}, Onboarding(t, c, n, k, agent)
      PROVE  TypeOK'
  <2> DEFINE call == Sent(t, k, tabs[t].user, tabs[t].org)
  <2>1. call \in CallRecord BY SentTypes, StateTypes DEF Kinds, PageRecord
  <2> HIDE DEF call
  <2>2. [call EXCEPT !.thing = agent] \in CallRecord BY <2>1 DEF CallRecord
  <2>3. Make(t, c, [call EXCEPT !.thing = agent], {k}) BY <1>2 DEF Onboarding, call
  <2> QED BY <2>2, <2>3, MakeTypes DEF Kinds
<1>3. tabs[t].agent \in Things \cup {0} BY StateTypes DEF PageRecord
<1> QED BY <1>1, <1>2, <1>3 DEF CreateAgent, AddRule, CreateApiKey, Making

LEMMA RevokeTypes ==
    ASSUME TypeOK, NEW t \in Tabs, NEW c \in Calls, NEW k \in Things, Revoke(t, k, c)
    PROVE  TypeOK'
<1> DEFINE call == Sent(t, "revoke", storage.token, tabs[t].org)
<1>1. call \in CallRecord BY SentTypes, StateTypes DEF Kinds, PageRecord
<1> HIDE DEF call
<1>2. [call EXCEPT !.thing = k] \in CallRecord BY <1>1 DEF CallRecord
<1>3. Starts(c, [call EXCEPT !.thing = k], tabs[t], {}) BY DEF Revoke, call
<1>4. calls' \in [Calls -> CallRecord] /\ tabs' \in [Tabs -> PageRecord]
  BY <1>2, <1>3, StateTypes, StartsTypes
<1>5. budget' \in [Activities -> Nat] BY SpendTypes DEF Revoke, Activities
<1> QED BY <1>4, <1>5 DEF Revoke, TypeOK, server

LEMMA DialogTypes ==
    ASSUME TypeOK, NEW t \in Tabs, OpenCreate(t) \/ CloseCreate(t) \/ CancelCreate(t)
    PROVE  TypeOK'
<1>1. PICK b \in BOOLEAN : tabs' = [tabs EXCEPT ![t].dialog = b]
  BY DEF OpenCreate, CloseCreate, CancelCreate
<1>2. [tabs[t] EXCEPT !.dialog = b] \in PageRecord BY StateTypes DEF PageRecord
<1>3. tabs' \in [Tabs -> PageRecord] BY <1>1, <1>2 DEF TypeOK
<1> QED BY <1>3 DEF OpenCreate, CloseCreate, CancelCreate, TypeOK, server

LEMMA ServeTypes ==
    ASSUME TypeOK, NEW c \in Calls,
           LoginUser(c) \/ GetMyOrganizations(c) \/ RegisterUser(c) \/ ServeSave(c)
           \/ ServeMake(c) \/ DeleteAPIKey(c)
    PROVE  TypeOK'
<1>1. calls[c] \in CallRecord BY StateTypes
<1>2. \A at \in {"told", "listed"}, ok \in BOOLEAN, org \in Someone, i \in Things \cup {0} :
         /\ [calls[c] EXCEPT !.at = at] \in CallRecord
         /\ [calls[c] EXCEPT !.at = at, !.ok = ok] \in CallRecord
         /\ [calls[c] EXCEPT !.at = at, !.ok = ok, !.thing = i] \in CallRecord
         /\ [calls[c] EXCEPT !.at = at, !.org = org] \in CallRecord
  BY <1>1 DEF CallRecord
<1>3. CASE LoginUser(c)
  <2>1. calls' \in [Calls -> CallRecord] BY <1>2, <1>3 DEF LoginUser, TypeOK
  <2>2. budget' \in [Activities -> Nat] BY <1>3, FaultTypes DEF LoginUser
  <2> QED BY <1>3, <2>1, <2>2 DEF LoginUser, TypeOK, server
<1>4. CASE GetMyOrganizations(c)
  <2>1. PICK ok \in BOOLEAN :
           /\ calls' = [calls EXCEPT ![c].at = "listed", ![c].org = IF ok THEN calls[c].by ELSE 0]
           /\ MayFail(ok)
    BY <1>4 DEF GetMyOrganizations
  <2>2. (IF ok THEN calls[c].by ELSE 0) \in Someone BY <1>1, ZeroFacts DEF CallRecord
  <2>3. calls' \in [Calls -> CallRecord] BY <1>2, <2>1, <2>2 DEF TypeOK
  <2>4. budget' \in [Activities -> Nat] BY <2>1, FaultTypes
  <2> QED BY <1>4, <2>3, <2>4 DEF GetMyOrganizations, TypeOK, server
<1>5. CASE RegisterUser(c)
  <2>1. calls' \in [Calls -> CallRecord] BY <1>2, <1>5 DEF RegisterUser, TypeOK
  <2>2. budget' \in [Activities -> Nat] BY <1>5, FaultTypes DEF RegisterUser
  <2>4. accounts' \in [Users -> Accounts] BY <1>5 DEF RegisterUser, TypeOK, Accounts
  <2> QED BY <1>5, <2>1, <2>2, <2>4 DEF RegisterUser, TypeOK
<1>6. CASE ServeSave(c)
  <2>1. calls' \in [Calls -> CallRecord] BY <1>2, <1>6 DEF ServeSave, TypeOK
  <2>2. budget' \in [Activities -> Nat] BY <1>6, FaultTypes DEF ServeSave
  <2> QED BY <1>6, <2>1, <2>2 DEF ServeSave, TypeOK
<1>7. CASE ServeMake(c)
  <2>0. calls[c].kind \in Making BY <1>7 DEF ServeMake
  <2>1. CASE UNCHANGED <<things, lost>> /\ calls' = [calls EXCEPT ![c].at = "told"]
             /\ MayFail(~Allowed(calls[c]) \/ Full)
    <3>1. calls' \in [Calls -> CallRecord] BY <1>2, <2>1 DEF TypeOK
    <3>2. budget' \in [Activities -> Nat] BY <2>1, FaultTypes
    <3> QED BY <1>7, <2>1, <3>1, <3>2 DEF ServeMake, TypeOK
  <2>2. ASSUME NEW i \in Things, NEW ok \in BOOLEAN,
               things' = [things EXCEPT ![i] = [Nothing EXCEPT !.kind = calls[c].kind,
                            !.org = calls[c].org, !.fill = calls[c].fill]],
               calls' = [calls EXCEPT ![c].at = "told", ![c].ok = ok, ![c].thing = i],
               lost' = IF ok THEN lost ELSE lost \cup {calls[c].fill},
               MayFail(ok)
        PROVE  TypeOK'
    <3>1. calls' \in [Calls -> CallRecord] BY <1>2, <2>2 DEF TypeOK
    <3>2. budget' \in [Activities -> Nat] BY <2>2, FaultTypes
    <3>3. [Nothing EXCEPT !.kind = calls[c].kind, !.org = calls[c].org, !.fill = calls[c].fill]
             \in ThingRecord
      BY <1>1, <2>0, BlankTypes DEF CallRecord, ThingRecord
    <3>4. things' \in [Things -> ThingRecord] BY <2>2, <3>3 DEF TypeOK
    <3>5. lost' \subseteq Nat BY <1>1, <2>2 DEF TypeOK, CallRecord
    <3> QED BY <1>7, <3>1, <3>2, <3>4, <3>5 DEF ServeMake, TypeOK
  <2> QED BY <1>7, <2>1, <2>2 DEF ServeMake
<1>8. CASE DeleteAPIKey(c)
  <2>1. calls' \in [Calls -> CallRecord] BY <1>2, <1>8 DEF DeleteAPIKey, TypeOK
  <2>2. budget' \in [Activities -> Nat] BY <1>8, FaultTypes DEF DeleteAPIKey
  <2>3. \A i \in Things : [things[i] EXCEPT !.revoked = TRUE] \in ThingRecord
    BY DEF TypeOK, ThingRecord
  <2>4. \/ things' = things
        \/ things' = [things EXCEPT ![calls[c].thing].revoked = TRUE]
    BY <1>8 DEF DeleteAPIKey
  <2>5. things' \in [Things -> ThingRecord] BY <2>3, <2>4 DEF TypeOK
  <2> QED BY <1>8, <2>1, <2>2, <2>5 DEF DeleteAPIKey, TypeOK
<1> QED BY <1>3, <1>4, <1>5, <1>6, <1>7, <1>8

\* A function that ends its call and leaves the page of its tab in some state.
LEMMA ReturnTypes ==
    ASSUME TypeOK, NEW c \in Calls, Ends(c), NEW pg, tabs' = [tabs EXCEPT ![calls[c].tab] = pg],
           calls[c].tab \in Tabs => pg \in PageRecord,
           UNCHANGED <<storage, fills, budget, server>>, mixed' \in BOOLEAN
    PROVE  TypeOK'
<1>1. tabs' \in [Tabs -> PageRecord] BY DEF TypeOK
<1> QED BY <1>1, EndsTypes DEF TypeOK, server

LEMMA LoginLandsTypes ==
    ASSUME TypeOK, NEW c \in Calls, LoginLands(c)
    PROVE  TypeOK'
<1>1. CASE calls[c].ok
  <2>1. calls[c].by \in Someone BY StateTypes DEF CallRecord
  <2>2. storage' \in [token : Someone, org : Someone] BY <1>1, <2>1 DEF LoginLands, TypeOK
  <2>3. tabs' \in [Tabs -> PageRecord] BY <1>1 DEF LoginLands, TypeOK
  <2>4. Disturbed[c] \in CallRecord BY DisturbedTypes
  <2>5. [Disturbed[c] EXCEPT !.at = "asked", !.clean = ~\E d \in Calls : Between(d)] \in CallRecord
    BY <2>4 DEF CallRecord
  <2>6. calls' \in [Calls -> CallRecord] BY <1>1, <2>5, DisturbedTypes DEF LoginLands
  <2> QED BY <2>2, <2>3, <2>6 DEF LoginLands, TypeOK, server
<1>2. CASE ~calls[c].ok
  <2>1. calls[c].tab \in Tabs => Without(tabs[calls[c].tab], c) \in PageRecord
    BY WithoutTypes, StateTypes
  <2> QED BY <1>2, <2>1, ReturnTypes DEF LoginLands, TypeOK
<1> QED BY <1>1, <1>2

LEMMA OrgsLandTypes ==
    ASSUME TypeOK, NEW c \in Calls, OrgsLand(c)
    PROVE  TypeOK'
<1>1. calls[c].org \in Someone BY StateTypes DEF CallRecord
<1>2. storage' \in [token : Someone, org : Someone] BY <1>1 DEF OrgsLand, TypeOK
<1>3. calls[c].tab \in Tabs => Goto(tabs[calls[c].tab], "dashboard", storage', TRUE) \in PageRecord
  BY <1>2, StateTypes, GotoTypes DEF Pages, AppPages
<1>4. tabs' \in [Tabs -> PageRecord] BY <1>3 DEF TypeOK, OrgsLand
<1>5. Disturbed[c] \in CallRecord BY DisturbedTypes
<1>6. [Disturbed[c] EXCEPT !.at = "going"] \in CallRecord BY <1>5 DEF CallRecord
<1>7. calls' \in [Calls -> CallRecord] BY <1>6, DisturbedTypes DEF OrgsLand
<1>8. mixed' \in BOOLEAN BY DEF OrgsLand
<1> QED BY <1>2, <1>4, <1>7, <1>8 DEF OrgsLand, TypeOK, server

LEMMA RegisterLandsTypes ==
    ASSUME TypeOK, NEW c \in Calls, RegisterLands(c)
    PROVE  TypeOK'
<1>1. calls[c].tab \in Tabs => Without(tabs[calls[c].tab], c) \in PageRecord
  BY WithoutTypes, StateTypes
<1>2. CASE calls[c].ok
  <2> DEFINE t  == calls[c].tab
             pg == [Without(tabs[t], c) EXCEPT !.doc = tabs[t].doc]
             ts == [tabs EXCEPT ![t] = pg]
  <2>1. t \in Tabs => pg \in PageRecord BY <1>1, StateTypes DEF PageRecord
  <2> HIDE DEF pg
  <2>2. ts \in [Tabs -> PageRecord] BY <2>1 DEF TypeOK
  <2>3. tabs' \in [Tabs -> PageRecord] BY <1>2, <2>2 DEF RegisterLands, pg
  <2>4. calls[c].by \in Someone BY StateTypes DEF CallRecord
  <2>5. storage' \in [token : Someone, org : Someone] BY <1>2, <2>4 DEF RegisterLands, TypeOK
  <2>6. Disturbed[c] \in CallRecord BY DisturbedTypes
  <2>7. [Disturbed[c] EXCEPT !.at = "timer"] \in CallRecord BY <2>6 DEF CallRecord
  <2>8. calls' \in [Calls -> CallRecord] BY <1>2, <2>7, DisturbedTypes DEF RegisterLands
  <2>9. mixed' \in BOOLEAN BY <1>2 DEF RegisterLands
  <2> QED BY <2>3, <2>5, <2>8, <2>9 DEF RegisterLands, TypeOK, server
<1>3. CASE ~calls[c].ok
  BY <1>1, <1>3, ReturnTypes DEF RegisterLands, TypeOK
<1> QED BY <1>2, <1>3

LEMMA LandTypes ==
    ASSUME TypeOK, NEW c \in Calls,
           LoginEnds(c) \/ RegisterTimer(c) \/ SaveLands(c) \/ MakeLands(c) \/ RevokeLands(c)
    PROVE  TypeOK'
<1> DEFINE t == calls[c].tab
<1>1. t \in Tabs => Without(tabs[t], c) \in PageRecord BY WithoutTypes, StateTypes
<1>2. t \in Tabs => Document(tabs[t].page, storage, TRUE) \in PageRecord
  BY DocumentTypes, StateTypes DEF PageRecord, Places
<1>3. t \in Tabs => Goto(Without(tabs[t], c), "login", storage, TRUE) \in PageRecord
  BY <1>1, GotoTypes, StateTypes DEF Pages
<1>4. t \in Tabs => Advanced(tabs[t], c) \in PageRecord
  <2> SUFFICES ASSUME t \in Tabs PROVE Advanced(tabs[t], c) \in PageRecord OBVIOUS
  <2> DEFINE pg == Without(tabs[t], c)
  <2>1. pg \in PageRecord BY <1>1
  <2>2. calls[c].thing \in Things \cup {0} BY StateTypes DEF CallRecord
  <2>3. NextStep(calls[c].kind) \in 1..4 BY DEF NextStep
  <2> HIDE DEF pg
  <2>4. [pg EXCEPT !.step = NextStep(calls[c].kind), !.fill = 0,
                   !.agent = IF calls[c].kind = "first" THEN calls[c].thing ELSE @] \in PageRecord
    BY <2>1, <2>2, <2>3 DEF PageRecord
  <2> QED BY <2>1, <2>4 DEF Advanced, pg
<1>5. mixed' \in BOOLEAN /\ UNCHANGED <<storage, fills, budget, server>> /\ Ends(c)
  BY DEF LoginEnds, RegisterTimer, SaveLands, MakeLands, RevokeLands, TypeOK
<1>6. \E pg : /\ tabs' = [tabs EXCEPT ![t] = pg]
              /\ t \in Tabs => pg \in PageRecord
  BY <1>1, <1>2, <1>3, <1>4 DEF LoginEnds, RegisterTimer, SaveLands, MakeLands, RevokeLands
<1> HIDE DEF t
<1> QED BY <1>5, <1>6, ReturnTypes DEF t

LEMMA GoneTypes ==
    ASSUME TypeOK, NEW c \in Calls, Gone(c)
    PROVE  TypeOK'
BY EndsTypes DEF Gone, TypeOK, server

\* Whatever the tabs and the backend do, every variable has its type, for any number
\* of users, tabs, running functions and things made.
THEOREM TypeCorrect == Spec => []TypeOK
<1>1. Init => TypeOK
  <2> SUFFICES ASSUME Init PROVE TypeOK OBVIOUS
  <2>1. storage \in [token : Someone, org : Someone]
    BY ConsoleAssumption DEF Init, Someone
  <2>2. Framed(Load("dashboard", storage, TRUE), {}, storage, TRUE) \in PageRecord
    <3>1. Load("dashboard", storage, TRUE) \in LoadRecord
          /\ Load("dashboard", storage, TRUE).page = "dashboard"
      BY <2>1, LoadTypes DEF Places, Pages, AppPages
    <3> QED BY <2>1, <3>1, FramedTypes
  <2>3. tabs \in [Tabs -> PageRecord] BY <2>2 DEF Init
  <2>4. budget \in [Activities -> Nat] BY ConsoleAssumption DEF Init
  <2>5. accounts \in [Users -> Accounts] BY DEF Init, Accounts
  <2> QED BY <2>1, <2>3, <2>4, <2>5, BlankTypes DEF Init, TypeOK
<1>2. TypeOK /\ [Next]_vars => TypeOK'
  <2> SUFFICES ASSUME TypeOK, [Next]_vars PROVE TypeOK' OBVIOUS
  <2>1. CASE SignsInOut BY <2>1, SSOTypes, SignInTypes, LogoutTypes DEF SignsInOut
  <2>2. CASE Navigates BY <2>2, NavigateTypes DEF Navigates
  <2>3. CASE Clicks BY <2>3, DialogTypes, SaveTypes, CreateTypes, RevokeTypes DEF Clicks
  <2>4. CASE \E t \in Tabs : Shows(t) BY <2>4, ShowsTypes
  <2>5. CASE \E c \in Calls : Serves(c) BY <2>5, ServeTypes DEF Serves
  <2>6. CASE \E c \in Calls : Returns(c)
    BY <2>6, LoginLandsTypes, OrgsLandTypes, RegisterLandsTypes, LandTypes, GoneTypes DEF Returns
  <2>7. CASE UNCHANGED vars BY <2>7 DEF vars, TypeOK
  <2> QED BY <2>1, <2>2, <2>3, <2>4, <2>5, <2>6, <2>7 DEF Next
<1> QED BY <1>1, <1>2, PTL DEF Spec

-----------------------------------------------------------------------------
(* A token and an organization that belong together.                        *)

\* What a step does to the running functions: one of them may change, all others are
\* left alone, or only lose the mark that nothing disturbed them.
Alone(c) == \A d \in Calls \ {c} : calls'[d] = calls[d]

LEMMA StartsAlone ==
    ASSUME TypeOK, NEW c \in Calls, NEW call, NEW pg, NEW locks, Starts(c, call, pg, locks)
    PROVE  Alone(c) /\ calls'[c] = call /\ calls[c].at = "idle"
BY DEF TypeOK, Starts, Free, Alone

LEMMA EndsAlone ==
    ASSUME TypeOK, NEW c \in Calls, Ends(c)
    PROVE  Alone(c) /\ calls'[c] = NoCall
BY DEF TypeOK, Ends, Alone

\* A function that neither was nor is between token and organization.
LEMMA QuietSession ==
    ASSUME TypeOK, SessionInv, UNCHANGED <<storage, mixed>>, NEW c \in Calls, Alone(c),
           calls[c].at \notin {"asked", "listed"}, calls'[c].at \notin {"asked", "listed"}
    PROVE  SessionInv'
<1>1. \A d \in Calls : d # c => calls'[d] = calls[d] BY DEF Alone
<1>2. \A d \in Calls : Between(d)' <=> Between(d) BY <1>1 DEF Between
<1>3. (\A d \in Calls : calls[d].at \in {"asked", "listed"} => calls[d].kind = "login")'
  BY <1>1 DEF SessionInv
<1>4. (\A d \in Calls : calls[d].at = "listed" => calls[d].org \in {0, calls[d].by})'
  BY <1>1 DEF SessionInv
<1>5. (\A d \in Calls : Between(d) /\ calls[d].clean =>
           storage.token = calls[d].by /\ \A e \in Calls : Between(e) => e = d)'
  <2> SUFFICES ASSUME NEW d \in Calls, Between(d)', calls'[d].clean
               PROVE  storage'.token = calls'[d].by /\ \A e \in Calls : Between(e)' => e = d
    OBVIOUS
  <2>1. d # c BY DEF Between
  <2>2. calls'[d] = calls[d] BY <1>1, <2>1
  <2> QED BY <1>2, <2>2 DEF SessionInv
<1>6. SessionMatches' BY <1>2 DEF SessionInv, SessionMatches
<1> QED BY <1>3, <1>4, <1>5, <1>6 DEF SessionInv

LEMMA StartsSession ==
    ASSUME TypeOK, SessionInv, NEW t \in Tabs, NEW c \in Calls,
           \/ \E u \in Users : HandleLogin(t, u, c) \/ HandleRegister(t, u, c)
           \/ SaveProfile(t, c) \/ SavePassword(t, c) \/ SaveOrg(t, c)
           \/ HandleCreateAgent(t, c)
           \/ CreateAgent(t, c) \/ AddRule(t, c) \/ CreateApiKey(t, c)
           \/ \E k \in Things : Revoke(t, k, c)
    PROVE  SessionInv'
<1>1. UNCHANGED <<storage, mixed>>
  BY DEF HandleLogin, HandleRegister, SaveProfile, SavePassword, SaveOrg, Save,
         HandleCreateAgent, CreateAgent, AddRule, CreateApiKey, Onboarding, Make, Revoke
<1>2. \A k, by, org : Sent(t, k, by, org).at = "sent" BY DEF Sent, NoCall
<1>3. \E call, pg, locks : call.at = "sent" /\ Starts(c, call, pg, locks)
  <2>1. CASE \E u \in Users : HandleLogin(t, u, c) \/ HandleRegister(t, u, c)
    BY <1>2, <2>1 DEF HandleLogin, HandleRegister
  <2>2. ASSUME NEW k, Save(t, c, k)
        PROVE  \E call, pg, locks : call.at = "sent" /\ Starts(c, call, pg, locks)
    BY <2>2 DEF Save, Sent, NoCall
  <2>3. ASSUME NEW call, NEW locks, call.at = "sent", Make(t, c, call, locks),
               call \in CallRecord
        PROVE  \E cl, pg, lk : cl.at = "sent" /\ Starts(c, cl, pg, lk)
    BY <2>3 DEF Make, CallRecord
  <2>4. CASE HandleCreateAgent(t, c)
    <3>1. Sent(t, "agent", storage.token, tabs[t].org) \in CallRecord
      BY SentTypes, StateTypes DEF Kinds, Making, PageRecord
    <3> QED BY <1>2, <2>3, <2>4, <3>1 DEF HandleCreateAgent
  <2>5. ASSUME NEW n, NEW k \in Making, NEW agent \in Things \cup {0},
               Onboarding(t, c, n, k, agent)
        PROVE  \E cl, pg, lk : cl.at = "sent" /\ Starts(c, cl, pg, lk)
    <3> DEFINE call == Sent(t, k, tabs[t].user, tabs[t].org)
    <3>1. call \in CallRecord BY SentTypes, StateTypes DEF Kinds, PageRecord
    <3>2. call.at = "sent" BY <1>2
    <3> HIDE DEF call
    <3>3. [call EXCEPT !.thing = agent] \in CallRecord /\ [call EXCEPT !.thing = agent].at = "sent"
      BY <3>1, <3>2 DEF CallRecord
    <3>4. Make(t, c, [call EXCEPT !.thing = agent], {k}) BY <2>5 DEF Onboarding, call
    <3> QED BY <2>3, <3>3, <3>4
  <2>6. CASE \E k \in Things : Revoke(t, k, c) BY <2>6 DEF Revoke, Sent, NoCall
  <2>7. tabs[t].agent \in Things \cup {0} BY StateTypes DEF PageRecord
  <2> QED BY <2>1, <2>2, <2>4, <2>5, <2>6, <2>7
          DEF SaveProfile, SavePassword, SaveOrg, CreateAgent, AddRule, CreateApiKey, Making
<1>4. Alone(c) /\ calls[c].at = "idle" /\ calls'[c].at = "sent" BY <1>3, StartsAlone
<1> QED BY <1>1, <1>4, QuietSession

\* The backend at work.
LEMMA ServesAlone ==
    ASSUME TypeOK, NEW c \in Calls,
           LoginUser(c) \/ RegisterUser(c) \/ ServeSave(c) \/ ServeMake(c) \/ DeleteAPIKey(c)
    PROVE  Alone(c) /\ calls[c].at = "sent" /\ calls'[c].at = "told"
<1>1. calls \in [Calls -> CallRecord] /\ calls[c] \in CallRecord BY DEF TypeOK
<1>2. \E ok, i : \/ calls' = [calls EXCEPT ![c].at = "told"]
                 \/ calls' = [calls EXCEPT ![c].at = "told", ![c].ok = ok]
                 \/ calls' = [calls EXCEPT ![c].at = "told", ![c].ok = ok, ![c].thing = i]
  BY DEF LoginUser, RegisterUser, ServeSave, ServeMake, DeleteAPIKey
<1>3. calls[c].at = "sent" BY DEF LoginUser, RegisterUser, ServeSave, ServeMake, DeleteAPIKey
<1> QED BY <1>1, <1>2, <1>3 DEF Alone, CallRecord

LEMMA ServesSession ==
    ASSUME TypeOK, SessionInv, NEW c \in Calls,
           LoginUser(c) \/ GetMyOrganizations(c) \/ RegisterUser(c) \/ ServeSave(c)
           \/ ServeMake(c) \/ DeleteAPIKey(c)
    PROVE  SessionInv'
<1>1. CASE LoginUser(c) \/ RegisterUser(c) \/ ServeSave(c) \/ ServeMake(c) \/ DeleteAPIKey(c)
  <2>1. UNCHANGED <<storage, mixed>>
    BY <1>1 DEF LoginUser, RegisterUser, ServeSave, ServeMake, DeleteAPIKey
  <2> QED BY <1>1, <2>1, ServesAlone, QuietSession
<1>2. CASE GetMyOrganizations(c)
  <2>1. PICK org \in {0, calls[c].by} :
           calls' = [calls EXCEPT ![c].at = "listed", ![c].org = org]
    BY <1>2 DEF GetMyOrganizations
  <2>2. UNCHANGED <<storage, mixed>> BY <1>2 DEF GetMyOrganizations
  <2>3. calls[c].at = "asked" /\ calls[c].kind = "login" BY <1>2 DEF GetMyOrganizations, SessionInv
  <2>4. calls \in [Calls -> CallRecord] /\ calls[c] \in CallRecord BY DEF TypeOK
  <2>5. /\ \A d \in Calls : d # c => calls'[d] = calls[d]
        /\ calls'[c].at = "listed" /\ calls'[c].org = org /\ calls'[c].kind = calls[c].kind
        /\ calls'[c].by = calls[c].by /\ calls'[c].clean = calls[c].clean
    BY <2>1, <2>4 DEF CallRecord
  <2>6. \A d \in Calls : Between(d)' <=> Between(d) BY <2>3, <2>5 DEF Between
  <2>7. \A d \in Calls : calls'[d].by = calls[d].by /\ calls'[d].clean = calls[d].clean
    BY <2>5
  <2>8. SessionMatches' BY <2>2, <2>6 DEF SessionInv, SessionMatches
  <2>9. (\A d \in Calls : Between(d) /\ calls[d].clean =>
           storage.token = calls[d].by /\ \A e \in Calls : Between(e) => e = d)'
    BY <2>2, <2>6, <2>7 DEF SessionInv
  <2>10. (\A d \in Calls : calls[d].at \in {"asked", "listed"} => calls[d].kind = "login")'
    BY <2>3, <2>5 DEF SessionInv
  <2>11. (\A d \in Calls : calls[d].at = "listed" => calls[d].org \in {0, calls[d].by})'
    BY <2>5 DEF SessionInv
  <2> QED BY <2>8, <2>9, <2>10, <2>11 DEF SessionInv
<1> QED BY <1>1, <1>2

\* A step that writes localStorage: whoever is between has been disturbed.
LEMMA DisturbedSession ==
    ASSUME TypeOK, SessionInv, SessionMatches',
           \A d \in Calls : calls'[d] = Disturbed[d] \/ calls'[d].at \notin {"asked", "listed"}
    PROVE  SessionInv'
<1>1. \A d \in Calls : /\ Disturbed[d].at = calls[d].at /\ Disturbed[d].kind = calls[d].kind
                       /\ Disturbed[d].org = calls[d].org /\ Disturbed[d].by = calls[d].by
                       /\ Disturbed[d].clean = FALSE
  <2> TAKE d \in Calls
  <2>1. calls[d] \in CallRecord BY DEF TypeOK
  <2> QED BY <2>1 DEF Disturbed, CallRecord
<1>2. \A d \in Calls : Between(d)' => ~calls'[d].clean BY <1>1 DEF Between
<1> QED BY <1>1, <1>2 DEF SessionInv

LEMMA SignsSession ==
    ASSUME TypeOK, SessionInv, NEW t \in Tabs,
           HandleLogout(t) \/ \E u \in Users : SSOCallback(t, u)
    PROVE  SessionInv'
<1>1. calls' = Disturbed BY DEF HandleLogout, SSOCallback
<1>2. SessionMatches'
  <2>1. CASE HandleLogout(t) BY <2>1, StateTypes DEF HandleLogout, SessionMatches
  <2>2. CASE \E u \in Users : SSOCallback(t, u) BY <2>2, SSOStorage DEF SessionMatches
  <2> QED BY <2>1, <2>2
<1> QED BY <1>1, <1>2, DisturbedSession

LEMMA LoginLandsSession ==
    ASSUME TypeOK, SessionInv, NEW c \in Calls, LoginLands(c)
    PROVE  SessionInv'
<1>1. calls[c].at = "told" /\ calls[c].kind = "login" BY DEF LoginLands, Lands
<1>2. CASE calls[c].ok
  <2> DEFINE first == ~\E d \in Calls : Between(d)
  <2>1. calls' = [Disturbed EXCEPT ![c].at = "asked", ![c].clean = first]
    BY <1>2 DEF LoginLands
  <2>2. Disturbed \in [Calls -> CallRecord] /\ Disturbed[c] \in CallRecord BY DisturbedTypes
  <2>3. first \in BOOLEAN OBVIOUS
  <2>4. Disturbed[c] = [calls[c] EXCEPT !.clean = FALSE] BY DEF Disturbed
  <2>5. calls[c] \in CallRecord BY StateTypes
  <2>6. storage' = [storage EXCEPT !.token = calls[c].by] BY <1>2 DEF LoginLands
  <2> HIDE DEF first
  <2>7. /\ calls'[c].at = "asked" /\ calls'[c].clean = first /\ calls'[c].kind = "login"
        /\ calls'[c].by = calls[c].by
        /\ \A d \in Calls : d # c => calls'[d] = Disturbed[d]
    BY <1>1, <2>1, <2>2, <2>3, <2>4, <2>5 DEF CallRecord
  <2>8. \A d \in Calls : /\ Disturbed[d].at = calls[d].at /\ Disturbed[d].kind = calls[d].kind
                         /\ Disturbed[d].org = calls[d].org /\ Disturbed[d].by = calls[d].by
                         /\ Disturbed[d].clean = FALSE
    <3> TAKE d \in Calls
    <3>1. calls[d] \in CallRecord BY DEF TypeOK
    <3> QED BY <3>1 DEF Disturbed, CallRecord
  <2>9. Between(c)' BY <2>7 DEF Between
  <2>10. SessionMatches' BY <2>9 DEF SessionMatches
  <2>11. \A d \in Calls : d # c => /\ Between(d)' <=> Between(d)
                                   /\ ~calls'[d].clean
    BY <2>7, <2>8 DEF Between
  <2>12. storage'.token = calls[c].by BY <2>6 DEF TypeOK
  <2>13. (\A d \in Calls : Between(d) /\ calls[d].clean =>
             storage.token = calls[d].by /\ \A e \in Calls : Between(e) => e = d)'
    BY <2>7, <2>11, <2>12 DEF first
  <2> QED BY <2>7, <2>8, <2>10, <2>13 DEF SessionInv
<1>3. CASE ~calls[c].ok
  <2>1. Ends(c) /\ UNCHANGED <<storage, mixed>> BY <1>3 DEF LoginLands
  <2>2. Alone(c) /\ calls'[c].at = "idle" BY <2>1, EndsAlone DEF NoCall
  <2> QED BY <1>1, <2>1, <2>2, QuietSession
<1> QED BY <1>2, <1>3

LEMMA OrgsLandSession ==
    ASSUME TypeOK, SessionInv, NEW c \in Calls, OrgsLand(c)
    PROVE  SessionInv'
<1>1. Between(c) /\ calls[c].at = "listed" BY DEF OrgsLand, Lands, Between
<1>2. /\ storage' = [storage EXCEPT !.org = IF calls[c].org # 0 THEN calls[c].org ELSE @]
      /\ mixed' = (calls[c].org = 0 \/ ~calls[c].clean)
      /\ calls' = [Disturbed EXCEPT ![c].at = "going"]
  BY DEF OrgsLand
<1>3. SessionMatches'
  <2> SUFFICES ASSUME ~mixed' PROVE storage'.org = storage'.token BY DEF SessionMatches
  <2>1. calls[c].org = calls[c].by /\ calls[c].org # 0 /\ storage.token = calls[c].by
    BY <1>1, <1>2 DEF SessionInv
  <2> QED BY <1>2, <2>1 DEF TypeOK
<1>4. \A d \in Calls : calls'[d] = Disturbed[d] \/ calls'[d].at = "going"
  BY <1>2, DisturbedTypes DEF CallRecord
<1> QED BY <1>3, <1>4, DisturbedSession

LEMMA RegisterLandsSession ==
    ASSUME TypeOK, SessionInv, NEW c \in Calls, RegisterLands(c)
    PROVE  SessionInv'
<1>1. calls[c].at = "told" BY DEF RegisterLands, Lands
<1>2. CASE calls[c].ok
  <2>1. /\ calls' = [Disturbed EXCEPT ![c].at = "timer"]
        /\ storage' = [storage EXCEPT !.org = calls[c].by]
        /\ mixed' = (mixed \/ storage.token # 0)
    BY <1>2 DEF RegisterLands
  <2>2. SessionMatches' BY <2>1 DEF SessionMatches, TypeOK
  <2>3. Disturbed \in [Calls -> CallRecord] /\ Disturbed[c] \in CallRecord BY DisturbedTypes
  <2>4. \A d \in Calls : calls'[d] = Disturbed[d] \/ calls'[d].at = "timer"
    BY <2>1, <2>3 DEF CallRecord
  <2> QED BY <2>2, <2>4, DisturbedSession
<1>3. CASE ~calls[c].ok
  <2>1. Ends(c) /\ UNCHANGED <<storage, mixed>> BY <1>3 DEF RegisterLands
  <2>2. Alone(c) /\ calls'[c].at = "idle" BY <2>1, EndsAlone DEF NoCall
  <2> QED BY <1>1, <2>1, <2>2, QuietSession
<1> QED BY <1>2, <1>3

LEMMA LandSession ==
    ASSUME TypeOK, SessionInv, NEW c \in Calls,
           LoginEnds(c) \/ RegisterTimer(c) \/ SaveLands(c) \/ MakeLands(c) \/ RevokeLands(c)
    PROVE  SessionInv'
<1>1. Ends(c) /\ UNCHANGED <<storage, mixed>> /\ calls[c].at \in {"told", "going", "timer"}
  BY DEF LoginEnds, RegisterTimer, SaveLands, MakeLands, RevokeLands, Lands
<1>2. Alone(c) /\ calls'[c].at = "idle" BY <1>1, EndsAlone DEF NoCall
<1> QED BY <1>1, <1>2, QuietSession

LEMMA GoneSession ==
    ASSUME TypeOK, SessionInv, NEW c \in Calls, Gone(c)
    PROVE  SessionInv'
<1>1. Alone(c) /\ calls'[c].at = "idle" BY EndsAlone DEF NoCall, Gone
<1>2. storage' = storage /\ mixed' = (mixed \/ Between(c)) BY DEF Gone
<1>3. \A d \in Calls : d # c => calls'[d] = calls[d] BY <1>1 DEF Alone
<1>4. ~Between(c)' BY <1>1 DEF Between
<1>5. \A d \in Calls : d # c => (Between(d)' <=> Between(d)) BY <1>3 DEF Between
<1>6. SessionMatches' BY <1>2, <1>5 DEF SessionInv, SessionMatches
<1>7. (\A d \in Calls : Between(d) /\ calls[d].clean =>
           storage.token = calls[d].by /\ \A e \in Calls : Between(e) => e = d)'
  BY <1>2, <1>3, <1>4, <1>5 DEF SessionInv
<1> QED BY <1>1, <1>3, <1>6, <1>7 DEF SessionInv

LEMMA SessionStep == TypeOK /\ SessionInv /\ [Next]_vars => SessionInv'
<1> SUFFICES ASSUME TypeOK, SessionInv, [Next]_vars PROVE SessionInv' OBVIOUS
<1>1. CASE SignsInOut BY <1>1, SignsSession, StartsSession DEF SignsInOut
<1>2. CASE UNCHANGED <<storage, mixed, calls>>
  BY <1>2 DEF SessionInv, SessionMatches, Between
<1>3. CASE Navigates BY <1>2, <1>3 DEF Navigates, Hover, Follow, Open
<1>4. CASE Clicks
  BY <1>2, <1>4, StartsSession DEF Clicks, OpenCreate, CloseCreate, CancelCreate
<1>5. CASE \E t \in Tabs : Shows(t) BY <1>2, <1>5 DEF Shows
<1>6. CASE \E c \in Calls : Serves(c) BY <1>6, ServesSession DEF Serves
<1>7. CASE \E c \in Calls : Returns(c)
  BY <1>7, LoginLandsSession, OrgsLandSession, RegisterLandsSession, LandSession, GoneSession
     DEF Returns
<1>8. CASE UNCHANGED vars BY <1>2, <1>8 DEF vars
<1> QED BY <1>1, <1>3, <1>4, <1>5, <1>6, <1>7, <1>8 DEF Next

\* Whoever is signed in works on an organization of his own once every login has
\* stored both, for any number of tabs and logins at a time: a login nothing
\* disturbed is the only one between its token and its organization.
THEOREM SessionTogether == Spec => []SessionMatches
<1>1. Init => SessionInv
  <2> SUFFICES ASSUME Init PROVE SessionInv OBVIOUS
  <2>1. storage.org = storage.token BY DEF Init
  <2>2. \A c \in Calls : calls[c].at = "idle" BY DEF Init, NoCall
  <2> QED BY <2>1, <2>2 DEF SessionInv, SessionMatches, Between
<1>2. SessionInv => SessionMatches BY DEF SessionInv
<1> QED BY <1>1, <1>2, SessionStep, TypeCorrect, PTL DEF Spec

-----------------------------------------------------------------------------
(* One filling of a form makes one thing.                                   *)

LEMMA SentFields ==
    ASSUME NEW t \in Tabs, NEW k \in Kinds, NEW by \in Someone, NEW org \in Someone
    PROVE  /\ Sent(t, k, by, org).at = "sent" /\ Sent(t, k, by, org).kind = k
           /\ Sent(t, k, by, org).tab = t /\ Sent(t, k, by, org).by = by
           /\ Sent(t, k, by, org).org = org
BY DEF Sent, NoCall

\* Each part of MadeInv after a step.
LEMMA MadeNext ==
    MadeInv' <=> /\ Pairs' /\ Filled' /\ Apart' /\ Numbered' /\ Single'
                 /\ Answered' /\ Pending' /\ MadeOnce'
BY DEF MadeInv

\* A page that keeps what is filled in, or is new.
Same(p, q) ==
    /\ q.own \subseteq p.own /\ \A c \in Calls : c \in p.own => c \in q.own \/ ~Runs(calls[c])
    /\ q.doc = p.doc /\ \A k \in Making : k \in p.busy => k \in q.busy
    /\ q.fill = p.fill /\ q.page = p.page /\ (q.dialog => q.page = "agents")
Blanked(p, q) == q.own = {} /\ q.doc \subseteq p.doc /\ q.fill = 0 /\ ~q.dialog
\* A function that goes on as it was, as far as making something goes.
SameCall(r, s) ==
    /\ s.at = "idle" <=> r.at = "idle"
    /\ s.tab = r.tab /\ s.kind = r.kind /\ s.fill = r.fill
    /\ r.kind \in Making => s.at = r.at /\ s.ok = r.ok

LEMMA MadeKept ==
    ASSUME TypeOK, MadeInv,
           \A t \in Tabs : Same(tabs[t], tabs'[t]) \/ Blanked(tabs[t], tabs'[t]),
           \A c \in Calls : SameCall(calls[c], calls'[c]),
           \A i \in Things : things'[i].fill = things[i].fill, UNCHANGED <<lost, fills>>
    PROVE  MadeInv'
<1>1. fills \in Nat /\ \A c \in Calls : Runs(calls[c]) => calls[c].fill # 0
  BY DEF TypeOK, MadeInv, Numbered
<1>2. \A c \in Calls : /\ Runs(calls'[c]) <=> Runs(calls[c])
                       /\ calls'[c].fill = calls[c].fill
                       /\ Runs(calls[c]) => calls'[c].at = calls[c].at /\ calls'[c].ok = calls[c].ok
  BY DEF SameCall, Runs
<1>3. Pairs'
  <2> SUFFICES ASSUME NEW t \in Tabs, NEW c \in Calls PROVE Pair(tabs'[t], t, calls'[c], c)
    BY DEF Pairs
  <2>1. Pair(tabs[t], t, calls[c], c) BY DEF MadeInv, Pairs
  <2>2. CASE Same(tabs[t], tabs'[t]) BY <1>2, <2>1, <2>2 DEF Same, SameCall, Pair, Runs
  <2>3. CASE Blanked(tabs[t], tabs'[t])
    BY <1>1, <1>2, <2>1, <2>3 DEF Blanked, SameCall, Pair, Runs
  <2> QED BY <2>2, <2>3
<1>4. Filled' BY <1>1 DEF MadeInv, Filled, Same, Blanked
<1>5. Apart' BY DEF MadeInv, Apart, Same, Blanked
<1>6. Numbered' BY <1>2 DEF MadeInv, Numbered
<1>7. Single' BY <1>2 DEF MadeInv, Single
<1>8. \A i \in Things : Counts(i)' <=> Counts(i) BY DEF Counts
<1>9. Answered' BY <1>2, <1>8 DEF MadeInv, Answered
<1>10. Pending'
  <2> SUFFICES ASSUME NEW i \in Things, NEW t \in Tabs, Counts(i)', tabs'[t].fill = things'[i].fill
               PROVE  \E c \in Calls : Runs(calls'[c]) /\ calls'[c].fill = things'[i].fill
    BY DEF Pending
  <2>1. tabs[t].fill = things[i].fill BY DEF Same, Blanked, Counts
  <2> QED BY <1>2, <1>8, <2>1 DEF MadeInv, Pending
<1>11. MadeOnce' BY DEF MadeInv, MadeOnce
<1> QED BY <1>3, <1>4, <1>5, <1>6, <1>7, <1>9, <1>10, <1>11, MadeNext

\* The pages as function c ends: c leaves them, and its own form is free, and empty
\* if the function made something and was told.
Emptied(p, q, c) ==
    /\ q.own = p.own \ {c} /\ q.doc = p.doc \ {c} /\ q.fill \in {0, p.fill}
    /\ q.dialog => q.page = "agents"
    /\ q.fill = p.fill =>
        /\ q.page = p.page
        /\ \A k \in p.busy : k \in q.busy \/ (c \in p.own /\ k = calls[c].kind)
Cleared(p, q, c) ==
    /\ c \notin q.doc
    /\ \/ Same(p, q) \/ Blanked(p, q)
       \/ Emptied(p, q, c) /\ (q.fill # p.fill => c \in p.own /\ Runs(calls[c]))
    /\ Runs(calls[c]) /\ calls[c].at = "told" /\ calls[c].ok =>
           q.fill = 0 \/ q.fill # calls[c].fill

LEMMA MadeEnded ==
    ASSUME TypeOK, MadeInv, NEW c \in Calls, calls'[c] = NoCall,
           \A d \in Calls : d # c => SameCall(calls[d], calls'[d]),
           \A t \in Tabs : Cleared(tabs[t], tabs'[t], c),
           UNCHANGED <<things, lost, fills>>
    PROVE  MadeInv'
<1>1. fills \in Nat /\ \A d \in Calls : Runs(calls[d]) => calls[d].fill # 0
  BY DEF TypeOK, MadeInv, Numbered
<1>2. \A d \in Calls : d # c =>
        /\ Runs(calls'[d]) <=> Runs(calls[d])
        /\ calls'[d].fill = calls[d].fill
        /\ Runs(calls[d]) => calls'[d].at = calls[d].at /\ calls'[d].ok = calls[d].ok
  BY DEF SameCall, Runs
<1>3. ~Runs(calls'[c]) BY DEF Runs, NoCall
<1>4. \A t \in Tabs : tabs'[t].fill \in {0, tabs[t].fill}
  BY DEF Cleared, Same, Blanked, Emptied
<1>5. Pairs'
  <2> SUFFICES ASSUME NEW t \in Tabs, NEW d \in Calls PROVE Pair(tabs'[t], t, calls'[d], d)
    BY DEF Pairs
  <2>1. Pair(tabs[t], t, calls[d], d) /\ Pair(tabs[t], t, calls[c], c) BY DEF MadeInv, Pairs
  <2>2. Cleared(tabs[t], tabs'[t], c) OBVIOUS
  <2>3. CASE Same(tabs[t], tabs'[t]) BY <1>2, <1>3, <2>1, <2>2, <2>3 DEF Same, Cleared, SameCall, Pair, Runs
  <2>4. CASE Blanked(tabs[t], tabs'[t])
    BY <1>1, <1>2, <1>3, <2>1, <2>2, <2>4 DEF Blanked, Cleared, SameCall, Pair, Runs
  <2>5. CASE Emptied(tabs[t], tabs'[t], c) /\ tabs'[t].fill = tabs[t].fill
    <3>1. CASE d = c BY <1>3, <2>2, <2>5, <3>1 DEF Cleared, Emptied, Pair
    <3>2. CASE d # c
      <4>1. d \in tabs'[t].doc <=> d \in tabs[t].doc BY <2>5, <3>2 DEF Emptied
      <4>2. d \in tabs'[t].own <=> d \in tabs[t].own BY <2>5, <3>2 DEF Emptied
      <4>3. ASSUME d \in tabs[t].own, Runs(calls[d])
            PROVE  calls[d].fill = tabs[t].fill /\ calls[d].kind \in tabs'[t].busy
        <5>1. calls[d].fill = tabs[t].fill /\ calls[d].kind \in tabs[t].busy
          BY <2>1, <4>3 DEF Pair
        <5>2. CASE c \in tabs[t].own /\ calls[d].kind = calls[c].kind
          <6>1. Runs(calls[c]) BY <2>1, <4>3, <5>2 DEF Pair, Runs
          <6>2. calls[c].fill = tabs[t].fill BY <2>1, <5>2, <6>1 DEF Pair
          <6> QED BY <3>2, <4>3, <5>1, <6>1, <6>2 DEF MadeInv, Single
        <5> QED BY <2>5, <5>1, <5>2 DEF Emptied
      <4> QED BY <1>2, <2>1, <2>5, <3>2, <4>1, <4>2, <4>3 DEF Emptied, SameCall, Pair, Runs
    <3> QED BY <3>1, <3>2
  <2>6. CASE /\ Emptied(tabs[t], tabs'[t], c) /\ tabs'[t].fill # tabs[t].fill
             /\ ~Blanked(tabs[t], tabs'[t])
    <3>1. tabs'[t].fill = 0 /\ c \in tabs[t].own /\ Runs(calls[c])
      BY <2>2, <2>6 DEF Cleared, Emptied, Same
    <3>2. calls[c].fill = tabs[t].fill BY <2>1, <3>1 DEF Pair
    <3>3. d \in tabs'[t].own => ~Runs(calls'[d])
      BY <1>2, <1>3, <2>1, <2>6, <3>1, <3>2 DEF Emptied, Pair, MadeInv, Single
    <3>4. Runs(calls'[d]) => calls'[d].fill # 0 BY <1>1, <1>2, <1>3
    <3> QED BY <2>1, <2>6, <3>1, <3>3, <3>4 DEF Emptied, SameCall, Pair
  <2> QED BY <2>2, <2>3, <2>4, <2>5, <2>6 DEF Cleared
<1>6. Filled' BY <1>1, <1>4 DEF MadeInv, Filled, Cleared, Same, Blanked, Emptied
<1>7. Apart' BY <1>4 DEF MadeInv, Apart
<1>8. Numbered' BY <1>2, <1>3 DEF MadeInv, Numbered
<1>9. Single' BY <1>2, <1>3 DEF MadeInv, Single
<1>10. \A i \in Things : Counts(i)' <=> Counts(i) BY DEF Counts
<1>11. Answered' BY <1>2, <1>3, <1>10 DEF MadeInv, Answered
<1>12. Pending'
  <2> SUFFICES ASSUME NEW i \in Things, NEW t \in Tabs, Counts(i)', tabs'[t].fill = things'[i].fill
               PROVE  \E d \in Calls : Runs(calls'[d]) /\ calls'[d].fill = things'[i].fill
    BY DEF Pending
  <2>1. tabs[t].fill = things[i].fill BY <1>4 DEF Counts
  <2>2. PICK d \in Calls : Runs(calls[d]) /\ calls[d].fill = things[i].fill
    BY <1>10, <2>1 DEF MadeInv, Pending
  <2>3. d # c
    <3> SUFFICES ASSUME d = c PROVE FALSE OBVIOUS
    <3>1. calls[c].at = "told" /\ calls[c].ok BY <1>10, <2>2 DEF MadeInv, Answered
    <3> QED BY <2>2, <3>1 DEF Cleared, Counts
  <2> QED BY <1>2, <2>2, <2>3
<1>13. MadeOnce' BY DEF MadeInv, MadeOnce
<1> QED BY <1>5, <1>6, <1>7, <1>8, <1>9, <1>11, <1>12, <1>13, MadeNext

\* A new function, and the filling of the form it sends.
LEMMA MadeStarted ==
    ASSUME TypeOK, MadeInv, NEW t \in Tabs, NEW c \in Calls, NEW call \in CallRecord,
           NEW pg \in PageRecord, NEW locks, Starts(c, call, pg, locks), call.tab = t, call.at = "sent",
           pg.own = tabs[t].own, pg.doc = tabs[t].doc, pg.busy = tabs[t].busy,
           pg.page = tabs[t].page, pg.dialog = tabs[t].dialog,
           UNCHANGED <<things, lost>>,
           \/ call.kind \notin Making /\ pg.fill = tabs[t].fill /\ fills' = fills
           \/ /\ call.kind \in Making /\ call.kind \in locks
              /\ call.fill = Filling(t) /\ pg.fill = Filling(t)
              /\ fills' = (IF tabs[t].fill # 0 THEN fills ELSE fills + 1)
              /\ \A d \in tabs[t].own : ~Runs(calls[d])
              /\ pg.page = "agents" => call.kind = "agent"
    PROVE  MadeInv'
<1>1. /\ calls'[c] = call /\ calls[c].at = "idle"
      /\ \A d \in Calls : d # c => calls'[d] = calls[d]
  BY StartsAlone DEF Alone
<1> DEFINE started == [pg EXCEPT !.busy = @ \cup locks, !.own = @ \cup {c}, !.doc = @ \cup {c}]
<1>2. /\ started.own = tabs[t].own \cup {c} /\ started.doc = tabs[t].doc \cup {c}
      /\ started.busy = tabs[t].busy \cup locks /\ started.page = tabs[t].page
      /\ started.dialog = tabs[t].dialog /\ started.fill = pg.fill
  BY DEF PageRecord
<1>3. tabs' = [tabs EXCEPT ![t] = started] BY DEF Starts
<1> HIDE DEF started
<1>4. tabs'[t] = started /\ \A u \in Tabs : u # t => tabs'[u] = tabs[u] BY <1>3 DEF TypeOK
<1>5. \A u \in Tabs : c \notin tabs[u].doc /\ c \notin tabs[u].own
  BY <1>1 DEF MadeInv, Pairs, Pair
<1>6. fills \in Nat /\ \A u \in Tabs : tabs[u].fill \in Nat /\ tabs[u].fill <= fills
  BY DEF TypeOK, MadeInv, Filled, PageRecord
<1>7. CASE call.kind \notin Making
  <2>1. \A d \in Calls : Runs(calls'[d]) <=> (Runs(calls[d]) /\ d # c)
    BY <1>1, <1>7 DEF Runs
  <2>2. pg.fill = tabs[t].fill /\ fills' = fills BY <1>7
  <2>3. Pairs'
    <3> SUFFICES ASSUME NEW u \in Tabs, NEW d \in Calls PROVE Pair(tabs'[u], u, calls'[d], d)
      BY DEF Pairs
    <3>1. Pair(tabs[u], u, calls[d], d) BY DEF MadeInv, Pairs
    <3>2. CASE d = c BY <1>1, <1>2, <1>4, <1>5, <2>1, <3>2 DEF Pair
    <3>3. CASE d # c
      BY <1>1, <1>2, <1>4, <2>1, <2>2, <3>1, <3>3 DEF Pair
    <3> QED BY <3>2, <3>3
  <2>4. \A u \in Tabs : tabs'[u].fill = tabs[u].fill /\ tabs'[u].page = tabs[u].page
                        /\ tabs'[u].dialog = tabs[u].dialog
    BY <1>2, <1>4, <2>2
  <2>5. Filled' /\ Apart' BY <2>2, <2>4 DEF MadeInv, Filled, Apart
  <2>6. Numbered' /\ Single' /\ Answered'
    BY <1>1, <2>1, <2>2 DEF MadeInv, Numbered, Single, Answered, Counts
  <2>7. Pending'
    <3> SUFFICES ASSUME NEW i \in Things, NEW u \in Tabs, Counts(i)', tabs'[u].fill = things'[i].fill
                 PROVE  \E d \in Calls : Runs(calls'[d]) /\ calls'[d].fill = things'[i].fill
      BY DEF Pending
    <3>1. PICK d \in Calls : Runs(calls[d]) /\ calls[d].fill = things[i].fill
      BY <2>4 DEF MadeInv, Pending, Counts
    <3>2. d # c BY <1>1, <3>1 DEF Runs
    <3> QED BY <1>1, <2>1, <3>1, <3>2
  <2>8. MadeOnce' BY DEF MadeInv, MadeOnce
  <2> QED BY <2>3, <2>5, <2>6, <2>7, <2>8, MadeNext
<1>8. CASE call.kind \in Making
  <2> DEFINE f == Filling(t)
  <2>1. /\ call.fill = f /\ pg.fill = f /\ call.kind \in locks
        /\ fills' = (IF tabs[t].fill # 0 THEN fills ELSE fills + 1)
    BY <1>8
  <2>2. f \in 1..fills' /\ fills <= fills' /\ fills' \in Nat BY <1>6, <2>1 DEF Filling
  \* The filling is in no other form and no other function, and nothing came of it.
  <2>3. \A d \in Calls : Runs(calls[d]) => calls[d].fill # f
    <3>1. CASE tabs[t].fill # 0
      <4>1. \A d \in Calls : Runs(calls[d]) /\ calls[d].fill = tabs[t].fill => d \in tabs[t].own
        BY DEF MadeInv, Pairs, Pair
      <4> QED BY <1>8, <3>1, <4>1 DEF Filling
    <3>2. CASE tabs[t].fill = 0
      BY <1>6, <3>2 DEF Filling, MadeInv, Numbered
    <3> QED BY <3>1, <3>2
  <2>4. \A u \in Tabs : u # t => tabs[u].fill # f
    BY <1>6 DEF Filling, MadeInv, Apart
  <2>5. \A i \in Things : Counts(i) => things[i].fill # f
    <3>1. CASE tabs[t].fill # 0 BY <2>3, <3>1 DEF Filling, MadeInv, Pending
    <3>2. CASE tabs[t].fill = 0
      <4>1. \A i \in Things : things[i].fill \in Nat BY DEF TypeOK, ThingRecord
      <4> QED BY <1>6, <3>2, <4>1 DEF Filling, MadeInv, Numbered
    <3> QED BY <3>1, <3>2
  <2>6. \A d \in Calls : Runs(calls'[d]) <=> (d = c \/ Runs(calls[d]))
    BY <1>1, <1>8 DEF Runs
  <2>7. ~Runs(calls[c]) BY <1>1 DEF Runs
  <2>8. tabs'[t].fill = f BY <1>2, <1>4, <2>1
  <2> HIDE DEF f
  <2>9. Pairs'
    <3> SUFFICES ASSUME NEW u \in Tabs, NEW d \in Calls PROVE Pair(tabs'[u], u, calls'[d], d)
      BY DEF Pairs
    <3>1. Pair(tabs[u], u, calls[d], d) BY DEF MadeInv, Pairs
    <3>2. CASE u # t /\ d # c BY <1>1, <1>4, <3>1, <3>2
    <3>3. CASE u # t /\ d = c BY <1>1, <1>4, <1>5, <2>1, <2>4, <3>3 DEF Pair
    <3>4. CASE u = t /\ d = c BY <1>1, <1>2, <1>4, <1>8, <2>1, <2>8, <3>4 DEF Pair
    <3>5. CASE u = t /\ d # c
      <4>1. d \in tabs[t].own => ~Runs(calls[d]) BY <1>8
      <4> QED BY <1>1, <1>2, <1>4, <2>3, <2>8, <3>1, <3>5, <4>1 DEF Pair
    <3> QED BY <3>2, <3>3, <3>4, <3>5
  <2>10. Filled'
    <3>1. \A u \in Tabs : tabs'[u].fill <= fills' BY <1>4, <1>6, <2>2, <2>8
    <3>2. \A u \in Tabs : tabs'[u].dialog => tabs'[u].page = "agents"
      BY <1>2, <1>4 DEF MadeInv, Filled
    <3> QED BY <3>1, <3>2 DEF Filled
  <2>11. Apart' BY <1>4, <2>4, <2>8 DEF MadeInv, Apart
  <2>12. Numbered'
    <3>1. \A d \in Calls : Runs(calls'[d]) => calls'[d].fill \in 1..fills'
      BY <1>1, <1>6, <2>1, <2>2, <2>6 DEF MadeInv, Numbered
    <3>2. \A i \in Things : things[i].fill \in Nat /\ things[i].fill <= fills
      BY DEF TypeOK, ThingRecord, MadeInv, Numbered
    <3> QED BY <1>6, <2>2, <3>1, <3>2 DEF Numbered
  <2>13. Single' BY <1>1, <2>1, <2>3, <2>6, <2>7 DEF MadeInv, Single
  <2>14. Answered' BY <1>1, <2>1, <2>5, <2>6 DEF MadeInv, Answered, Counts
  <2>15. Pending'
    <3> SUFFICES ASSUME NEW i \in Things, NEW u \in Tabs, Counts(i)', tabs'[u].fill = things'[i].fill
                 PROVE  \E d \in Calls : Runs(calls'[d]) /\ calls'[d].fill = things'[i].fill
      BY DEF Pending
    <3>1. Counts(i) BY DEF Counts
    <3>2. u # t BY <2>5, <2>8, <3>1
    <3>3. PICK d \in Calls : Runs(calls[d]) /\ calls[d].fill = things[i].fill
      BY <1>4, <3>1, <3>2 DEF MadeInv, Pending
    <3> QED BY <1>1, <2>6, <2>7, <3>3
  <2>16. MadeOnce' BY DEF MadeInv, MadeOnce
  <2> QED BY <2>9, <2>10, <2>11, <2>12, <2>13, <2>14, <2>15, <2>16, MadeNext
<1> QED BY <1>7, <1>8

\* The backend makes something of a filling that nothing was made of.
LEMMA MadeServed ==
    ASSUME TypeOK, MadeInv, NEW c \in Calls, ServeMake(c)
    PROVE  MadeInv'
<1>1. Runs(calls[c]) /\ calls[c].at = "sent" BY DEF ServeMake, Runs
<1>2. /\ UNCHANGED <<tabs, fills>>
      /\ \A d \in Calls : d # c => calls'[d] = calls[d]
      /\ calls'[c].at = "told" /\ calls'[c].kind = calls[c].kind /\ calls'[c].tab = calls[c].tab
      /\ calls'[c].fill = calls[c].fill
  <2>1. calls \in [Calls -> CallRecord] /\ calls[c] \in CallRecord BY DEF TypeOK
  <2>2. \E ok, i : \/ calls' = [calls EXCEPT ![c].at = "told"]
                   \/ calls' = [calls EXCEPT ![c].at = "told", ![c].ok = ok, ![c].thing = i]
    BY DEF ServeMake
  <2>3. UNCHANGED <<tabs, fills>> BY DEF ServeMake
  <2> QED BY <2>1, <2>2, <2>3 DEF CallRecord
<1>3. \A d \in Calls : (Runs(calls'[d]) <=> Runs(calls[d])) /\ calls'[d].fill = calls[d].fill
  BY <1>1, <1>2 DEF Runs
<1>4. Pairs' BY <1>1, <1>2 DEF MadeInv, Pairs, Pair, Runs
<1>5. Filled' /\ Apart' BY <1>2 DEF MadeInv, Filled, Apart
<1>6. Single' BY <1>3 DEF MadeInv, Single
<1> DEFINE f == calls[c].fill
<1>7. f \in 1..fills /\ \A i \in Things : Counts(i) => things[i].fill # f
  BY <1>1 DEF MadeInv, Numbered, Answered
<1> HIDE DEF f
<1>8. \A d \in Calls : Runs(calls[d]) /\ calls[d].fill = f => d = c
  BY <1>1 DEF MadeInv, Single, f
<1>9. CASE UNCHANGED <<things, lost>>
  <2>1. \A i \in Things : Counts(i)' <=> Counts(i) BY <1>9 DEF Counts
  <2>2. Numbered' BY <1>2, <1>3, <1>9 DEF MadeInv, Numbered
  <2>3. Answered'
    BY <1>1, <1>2, <1>3, <1>7, <1>9, <2>1 DEF MadeInv, Answered, f
  <2>4. Pending' BY <1>2, <1>3, <1>9, <2>1 DEF MadeInv, Pending
  <2>5. MadeOnce' BY <1>9 DEF MadeInv, MadeOnce
  <2> QED BY <1>4, <1>5, <1>6, <2>2, <2>3, <2>4, <2>5, MadeNext
<1>10. CASE ~UNCHANGED <<things, lost>>
  <2> DEFINE Result(r) == [Nothing EXCEPT !.kind = r.kind, !.org = r.org, !.fill = r.fill]
  <2>1. PICK i \in Things, ok \in BOOLEAN :
           /\ things' = [things EXCEPT ![i] = Result(calls[c])]
           /\ calls' = [calls EXCEPT ![c].at = "told", ![c].ok = ok, ![c].thing = i]
           /\ lost' = IF ok THEN lost ELSE lost \cup {calls[c].fill}
    BY <1>10 DEF ServeMake
  <2>2. Result(calls[c]).fill = f BY DEF Nothing, f
  <2> HIDE DEF Result
  <2>3. things'[i].fill = f /\ \A j \in Things : j # i => things'[j] = things[j]
    BY <2>1, <2>2 DEF TypeOK
  <2>4. calls'[c].ok = ok
    <3>1. calls \in [Calls -> CallRecord] /\ calls[c] \in CallRecord BY DEF TypeOK
    <3> QED BY <2>1, <3>1 DEF CallRecord
  <2>5. lost \subseteq lost' /\ (f \notin lost' => ok) BY <2>1 DEF f
  <2>6. \A j \in Things : j # i /\ Counts(j)' => Counts(j) /\ things[j].fill # f
    BY <1>7, <2>3, <2>5 DEF Counts
  <2>7. Numbered'
    <3>1. \A j \in Things : things'[j].fill <= fills
      <4>1. f <= fills BY <1>7 DEF TypeOK
      <4> QED BY <2>3, <4>1 DEF MadeInv, Numbered
    <3> QED BY <1>2, <1>3, <3>1 DEF MadeInv, Numbered
  <2>8. Answered'
    <3> SUFFICES ASSUME NEW j \in Things, NEW d \in Calls, Counts(j)', Runs(calls'[d]),
                        calls'[d].fill = things'[j].fill
                 PROVE  calls'[d].at = "told" /\ calls'[d].ok
      BY DEF Answered
    <3>1. CASE j = i BY <1>2, <1>3, <1>8, <2>3, <2>4, <2>5, <3>1 DEF Counts
    <3>2. CASE j # i
      <4>1. d # c BY <1>2, <2>3, <2>6, <3>2 DEF f
      <4> QED BY <1>2, <1>3, <2>3, <2>6, <3>2, <4>1 DEF MadeInv, Answered
    <3> QED BY <3>1, <3>2
  <2>9. Pending'
    <3> SUFFICES ASSUME NEW j \in Things, NEW t \in Tabs, Counts(j)', tabs'[t].fill = things'[j].fill
                 PROVE  \E d \in Calls : Runs(calls'[d]) /\ calls'[d].fill = things'[j].fill
      BY DEF Pending
    <3>1. CASE j = i BY <1>1, <1>3, <2>3, <3>1 DEF f
    <3>2. CASE j # i BY <1>2, <1>3, <2>3, <2>6, <3>2 DEF MadeInv, Pending
    <3> QED BY <3>1, <3>2
  <2>10. MadeOnce'
    <3> SUFFICES ASSUME NEW j \in Things, NEW k \in Things, things'[j].fill = things'[k].fill,
                        things'[j].fill # 0, things'[j].fill \notin lost', j # k
                 PROVE  FALSE
      BY DEF MadeOnce
    <3>1. CASE j # i /\ k # i BY <2>3, <2>5, <3>1 DEF MadeInv, MadeOnce
    <3>2. CASE j = i BY <2>3, <2>6, <3>2 DEF Counts
    <3>3. CASE k = i BY <2>3, <2>6, <3>3 DEF Counts
    <3> QED BY <3>1, <3>2, <3>3
  <2> QED BY <1>4, <1>5, <1>6, <2>7, <2>8, <2>9, <2>10, MadeNext
<1> QED BY <1>9, <1>10

LEMMA MadeServes ==
    ASSUME TypeOK, SessionInv, MadeInv, NEW c \in Calls,
           LoginUser(c) \/ GetMyOrganizations(c) \/ RegisterUser(c) \/ ServeSave(c)
           \/ DeleteAPIKey(c)
    PROVE  MadeInv'
<1>1. calls \in [Calls -> CallRecord] /\ calls[c] \in CallRecord BY DEF TypeOK
<1>2. calls[c].kind \notin Making
  BY DEF LoginUser, GetMyOrganizations, RegisterUser, ServeSave, DeleteAPIKey, SessionInv,
         Making, Saving
<1>3. calls[c].at \in {"sent", "asked"} /\ UNCHANGED <<tabs, lost, fills>>
  BY DEF LoginUser, GetMyOrganizations, RegisterUser, ServeSave, DeleteAPIKey, server
<1>4. \E ok, org : \/ calls' = [calls EXCEPT ![c].at = "told", ![c].ok = ok]
                   \/ calls' = [calls EXCEPT ![c].at = "listed", ![c].org = org]
  BY DEF LoginUser, GetMyOrganizations, RegisterUser, ServeSave, DeleteAPIKey
<1>5. \A d \in Calls : SameCall(calls[d], calls'[d])
  BY <1>1, <1>2, <1>3, <1>4 DEF SameCall, CallRecord
<1>6. things' = things \/ things' = [things EXCEPT ![calls[c].thing].revoked = TRUE]
  BY DEF LoginUser, GetMyOrganizations, RegisterUser, ServeSave, DeleteAPIKey, server
<1>7. \A i \in Things : things'[i].fill = things[i].fill
  <2> TAKE i \in Things
  <2>1. things \in [Things -> ThingRecord] /\ things[i] \in ThingRecord BY DEF TypeOK
  <2> QED BY <1>6, <2>1 DEF ThingRecord
<1>8. \A t \in Tabs : Same(tabs[t], tabs'[t]) BY <1>3 DEF Same, MadeInv, Filled
<1> QED BY <1>3, <1>5, <1>7, <1>8, MadeKept

LEMMA DisturbedCalls ==
    ASSUME TypeOK, NEW d \in Calls
    PROVE  SameCall(calls[d], Disturbed[d])
<1>1. calls[d] \in CallRecord BY DEF TypeOK
<1> QED BY <1>1 DEF Disturbed, SameCall, CallRecord

\* A page with another navigation, or another page.
LEMMA PagesMade ==
    ASSUME TypeOK, MadeInv, NEW t \in Tabs, NEW pg,
           Elsewhere(tabs[t], pg) \/ Fresh(pg, {}) \/ Fresh(pg, tabs[t].doc)
    PROVE  Same(tabs[t], pg) \/ Blanked(tabs[t], pg)
<1>1. tabs[t].dialog => tabs[t].page = "agents" BY DEF MadeInv, Filled
<1> QED BY <1>1 DEF Elsewhere, Fresh, Same, Blanked

\* Signing out, the callback page, links and addresses.
LEMMA MadePages ==
    ASSUME TypeOK, MadeInv, NEW t \in Tabs,
           \/ HandleLogout(t) \/ \E u \in Users : SSOCallback(t, u)
           \/ \E p \in Pages : Hover(t, p) \/ Follow(t, p) \/ Open(t, p)
           \/ Shows(t)
    PROVE  MadeInv'
<1>1. \A u \in Tabs : Same(tabs[u], tabs[u]) BY DEF Same, MadeInv, Filled
<1>2. /\ UNCHANGED <<things, lost, fills>> /\ \A d \in Calls : SameCall(calls[d], calls'[d])
      /\ \E pg \in PageRecord : /\ tabs' = [tabs EXCEPT ![t] = pg]
                                /\ \/ Elsewhere(tabs[t], pg) \/ Fresh(pg, {})
                                   \/ Fresh(pg, tabs[t].doc)
  <2>1. CASE HandleLogout(t)
    <3>1. calls' = Disturbed /\ UNCHANGED <<things, lost, fills>>
      BY <2>1 DEF HandleLogout, server
    <3>2. tabs' = [tabs EXCEPT ![t] = Goto(tabs[t], "login", storage, TRUE)]
      BY <2>1 DEF HandleLogout
    <3> QED BY <3>1, <3>2, StateTypes, GotoTypes, DisturbedCalls DEF Pages
  <2>2. CASE \E u \in Users : SSOCallback(t, u)
    <3>1. calls' = Disturbed /\ UNCHANGED <<things, lost, fills>> BY <2>2 DEF SSOCallback
    <3>2. storage' \in [token : Someone, org : Someone] BY <2>2, SSOStorage
    <3>3. tabs' = [tabs EXCEPT ![t] = Document("dashboard", storage', TRUE)]
      BY <2>2 DEF SSOCallback
    <3>4. "dashboard" \in Places BY DEF Places, Pages, AppPages
    <3> QED BY <3>1, <3>2, <3>3, <3>4, DocumentTypes, DisturbedCalls
  <2>3. CASE Shows(t) \/ \E p \in Pages : Hover(t, p) \/ Follow(t, p) \/ Open(t, p)
    <3>1. UNCHANGED <<calls, fills, server>> BY <2>3, ShowsTypes, NavigateTypes
    <3>2. \A d \in Calls : SameCall(calls[d], calls'[d]) BY <3>1 DEF SameCall
    <3> QED BY <2>3, <3>1, <3>2, ShowsTypes, NavigateTypes DEF server
  <2> QED BY <2>1, <2>2, <2>3
<1>3. PICK pg \in PageRecord :
         /\ tabs' = [tabs EXCEPT ![t] = pg]
         /\ Elsewhere(tabs[t], pg) \/ Fresh(pg, {}) \/ Fresh(pg, tabs[t].doc)
  BY <1>2
<1>4. \A u \in Tabs : tabs'[u] = (IF u = t THEN pg ELSE tabs[u]) BY <1>3 DEF TypeOK
<1>5. Same(tabs[t], pg) \/ Blanked(tabs[t], pg) BY <1>3, PagesMade
<1> QED BY <1>1, <1>2, <1>4, <1>5, MadeKept

LEMMA MadeDialog ==
    ASSUME TypeOK, MadeInv, NEW t \in Tabs, OpenCreate(t) \/ CloseCreate(t) \/ CancelCreate(t)
    PROVE  MadeInv'
<1>1. PICK b \in BOOLEAN : tabs' = [tabs EXCEPT ![t].dialog = b]
  BY DEF OpenCreate, CloseCreate, CancelCreate
<1>2. tabs[t].page = "agents" BY DEF OpenCreate, CloseCreate, CancelCreate, MadeInv, Filled
<1>3. \A u \in Tabs : Same(tabs[u], tabs'[u])
  <2> TAKE u \in Tabs
  <2>1. tabs \in [Tabs -> PageRecord] /\ tabs[u] \in PageRecord BY DEF TypeOK
  <2> QED BY <1>1, <1>2, <2>1 DEF PageRecord, Same, MadeInv, Filled
<1>4. UNCHANGED <<calls, things, lost, fills>>
  BY DEF OpenCreate, CloseCreate, CancelCreate, server
<1>5. \A d \in Calls : SameCall(calls[d], calls'[d]) BY <1>4 DEF SameCall
<1> QED BY <1>3, <1>4, <1>5, MadeKept

LEMMA MadeClick ==
    ASSUME TypeOK, MadeInv, NEW t \in Tabs, NEW c \in Calls,
           \/ \E u \in Users : HandleLogin(t, u, c) \/ HandleRegister(t, u, c)
           \/ SaveProfile(t, c) \/ SavePassword(t, c) \/ SaveOrg(t, c)
           \/ \E k \in Things : Revoke(t, k, c)
    PROVE  MadeInv'
<1>1. UNCHANGED <<things, lost, fills>>
  BY DEF HandleLogin, HandleRegister, SaveProfile, SavePassword, SaveOrg, Save, Revoke, server
<1>2. tabs[t] \in PageRecord BY StateTypes
<1>3. PICK call \in CallRecord, locks \in SUBSET Kinds :
         /\ Starts(c, call, tabs[t], locks) /\ call.tab = t /\ call.at = "sent"
         /\ call.kind \notin Making
  <2>1. CASE \E u \in Users : HandleLogin(t, u, c) \/ HandleRegister(t, u, c)
    <3>1. PICK u \in Users, k \in {"login", "register"} : Starts(c, Sent(t, k, u, 0), tabs[t], {k})
      BY <2>1 DEF HandleLogin, HandleRegister
    <3>2. k \in Kinds /\ k \notin Making /\ u \in Someone BY DEF Kinds, Making, Someone
    <3>3. /\ Sent(t, k, u, 0) \in CallRecord /\ Sent(t, k, u, 0).tab = t
          /\ Sent(t, k, u, 0).at = "sent" /\ Sent(t, k, u, 0).kind = k
      BY <3>2, SentTypes, SentFields, ZeroFacts
    <3> QED BY <3>1, <3>2, <3>3
  <2>2. ASSUME NEW k \in Saving, Save(t, c, k)
        PROVE  \E call \in CallRecord, locks \in SUBSET Kinds :
                  /\ Starts(c, call, tabs[t], locks) /\ call.tab = t /\ call.at = "sent"
                  /\ call.kind \notin Making
    <3> DEFINE sent == Sent(t, k, storage.token, storage.org)
    <3>1. k \in Kinds /\ k \notin Making BY DEF Kinds, Saving, Making
    <3>2. sent \in CallRecord /\ sent.kind = k /\ sent.tab = t /\ sent.at = "sent"
      BY <3>1, SentTypes, SentFields, StateTypes
    <3>3. Starts(c, sent, tabs[t], {k}) BY <2>2 DEF Save
    <3> HIDE DEF sent
    <3> QED BY <3>1, <3>2, <3>3
  <2>3. CASE \E k \in Things : Revoke(t, k, c)
    <3>1. PICK k \in Things : Revoke(t, k, c) BY <2>3
    <3> DEFINE sent == Sent(t, "revoke", storage.token, tabs[t].org)
               call == [sent EXCEPT !.thing = k]
    <3>2. "revoke" \in Kinds /\ tabs[t].org \in Someone BY <1>2 DEF Kinds, PageRecord
    <3>3. sent \in CallRecord /\ sent.kind = "revoke" /\ sent.tab = t /\ sent.at = "sent"
      BY <3>2, SentTypes, SentFields, StateTypes
    <3> HIDE DEF sent
    <3>4. call \in CallRecord /\ call.kind = "revoke" /\ call.tab = t /\ call.at = "sent"
      BY <3>3 DEF CallRecord
    <3> HIDE DEF call
    <3>5. Starts(c, call, tabs[t], {}) BY <3>1 DEF Revoke, call, sent
    <3> QED BY <3>4, <3>5 DEF Making
  <2> QED BY <1>2, <2>1, <2>2, <2>3
          DEF SaveProfile, SavePassword, SaveOrg, Saving
<1> QED BY <1>1, <1>2, <1>3, MadeStarted

LEMMA MadeSent ==
    ASSUME TypeOK, MadeInv, NEW t \in Tabs, NEW c \in Calls, NEW call \in CallRecord,
           Make(t, c, call, {call.kind}), call.kind \in Making, call.tab = t, call.at = "sent",
           \A d \in tabs[t].own : ~Runs(calls[d]), tabs[t].page = "agents" => call.kind = "agent"
    PROVE  MadeInv'
<1> DEFINE made == [call EXCEPT !.fill = Filling(t)]
           pg   == [tabs[t] EXCEPT !.fill = Filling(t)]
<1>1. tabs[t] \in PageRecord BY StateTypes
<1>2. Filling(t) \in Nat /\ tabs[t].org \in Someone BY <1>1 DEF Filling, PageRecord, TypeOK
<1>3. /\ pg \in PageRecord /\ pg.own = tabs[t].own /\ pg.doc = tabs[t].doc /\ pg.busy = tabs[t].busy
      /\ pg.page = tabs[t].page /\ pg.dialog = tabs[t].dialog /\ pg.fill = Filling(t)
  BY <1>1, <1>2 DEF PageRecord
<1>4. /\ made \in CallRecord /\ made.kind = call.kind /\ made.tab = t /\ made.at = "sent"
      /\ made.fill = Filling(t)
  BY <1>2 DEF CallRecord
<1>5. Starts(c, made, pg, {call.kind}) BY DEF Make
<1>6. UNCHANGED <<things, lost>> /\ fills' = (IF tabs[t].fill # 0 THEN fills ELSE fills + 1)
  BY DEF Make, server
<1> HIDE DEF made, pg
<1> QED BY <1>3, <1>4, <1>5, <1>6, MadeStarted

\* A form is not sent while something its page made is on its way.
LEMMA MadeCreate ==
    ASSUME TypeOK, MadeInv, NEW t \in Tabs, NEW c \in Calls,
           \/ HandleCreateAgent(t, c)
           \/ CreateAgent(t, c) \/ AddRule(t, c) \/ CreateApiKey(t, c)
    PROVE  MadeInv'
<1>1. tabs[t] \in PageRecord /\ tabs[t].org \in Someone /\ tabs[t].user \in Someone
  BY StateTypes DEF PageRecord
<1>2. \A d \in Calls : Pair(tabs[t], t, calls[d], d) BY DEF MadeInv, Pairs
<1>3. tabs[t].own \subseteq Calls BY <1>1 DEF PageRecord
<1>4. CASE HandleCreateAgent(t, c)
  <2> DEFINE call == Sent(t, "agent", storage.token, tabs[t].org)
  <2>1. "agent" \in Kinds /\ "agent" \in Making BY DEF Kinds, Making
  <2>2. call \in CallRecord /\ call.kind = "agent" /\ call.tab = t /\ call.at = "sent"
    BY <1>1, <2>1, SentTypes, SentFields, StateTypes
  <2>3. Make(t, c, call, {"agent"}) BY <1>4 DEF HandleCreateAgent
  <2> HIDE DEF call
  <2>4. tabs[t].page = "agents" /\ "agent" \notin tabs[t].busy
    BY <1>4 DEF HandleCreateAgent, CreateForm, Ready, MadeInv, Filled
  <2>5. \A d \in tabs[t].own : ~Runs(calls[d]) BY <1>2, <1>3, <2>4 DEF Pair
  <2> QED BY <2>1, <2>2, <2>3, <2>5, MadeSent
<1>5. ASSUME NEW n, NEW k \in Making, NEW agent \in Things \cup {0}, Onboarding(t, c, n, k, agent)
      PROVE  MadeInv'
  <2> DEFINE sent == Sent(t, k, tabs[t].user, tabs[t].org)
             call == [sent EXCEPT !.thing = agent]
  <2>1. k \in Kinds BY DEF Kinds
  <2>2. sent \in CallRecord /\ sent.kind = k /\ sent.tab = t /\ sent.at = "sent"
    BY <1>1, <2>1, SentTypes, SentFields
  <2> HIDE DEF sent
  <2>3. call \in CallRecord /\ call.kind = k /\ call.tab = t /\ call.at = "sent"
    BY <2>2 DEF CallRecord
  <2> HIDE DEF call
  <2>4. Make(t, c, call, {k}) BY <1>5 DEF Onboarding, call, sent
  <2>5. tabs[t].page = "onboarding" /\ tabs[t].busy = {} BY <1>5 DEF Onboarding, Step
  <2>6. \A d \in tabs[t].own : ~Runs(calls[d]) BY <1>2, <1>3, <2>5 DEF Pair
  <2> QED BY <2>3, <2>4, <2>5, <2>6, MadeSent
<1>6. tabs[t].agent \in Things \cup {0} BY <1>1 DEF PageRecord
<1> QED BY <1>4, <1>5, <1>6 DEF CreateAgent, AddRule, CreateApiKey, Making

LEMMA WithoutFields ==
    ASSUME NEW pg \in PageRecord, NEW c \in Calls
    PROVE  /\ Without(pg, c).own = pg.own \ {c} /\ Without(pg, c).doc = pg.doc \ {c}
           /\ Without(pg, c).fill = pg.fill /\ Without(pg, c).page = pg.page
           /\ Without(pg, c).dialog = pg.dialog
           /\ Without(pg, c).busy =
                  (IF c \in pg.own THEN pg.busy \ {calls[c].kind} ELSE pg.busy)
BY DEF Without, PageRecord

LEMMA WithoutCleared ==
    ASSUME TypeOK, MadeInv, NEW t \in Tabs, NEW c \in Calls,
           ~(Runs(calls[c]) /\ calls[c].at = "told" /\ calls[c].ok)
    PROVE  Cleared(tabs[t], Without(tabs[t], c), c)
<1>1. tabs[t] \in PageRecord BY StateTypes
<1>2. tabs[t].dialog => tabs[t].page = "agents" BY DEF MadeInv, Filled
<1> DEFINE q == Without(tabs[t], c)
<1>3. /\ q.own = tabs[t].own \ {c} /\ q.doc = tabs[t].doc \ {c} /\ q.fill = tabs[t].fill
      /\ q.page = tabs[t].page /\ q.dialog = tabs[t].dialog
  BY <1>1, WithoutFields
<1>7. q.busy = (IF c \in tabs[t].own THEN tabs[t].busy \ {calls[c].kind} ELSE tabs[t].busy)
  BY <1>1, WithoutFields
<1>4. \A k \in tabs[t].busy : k \in q.busy \/ (c \in tabs[t].own /\ k = calls[c].kind)
  BY <1>7
<1> HIDE DEF q
<1>5. Emptied(tabs[t], q, c) BY <1>2, <1>3, <1>4 DEF Emptied
<1>6. Cleared(tabs[t], q, c) BY <1>3, <1>5 DEF Cleared
<1> QED BY <1>6 DEF q

\* The other pages are not of the document of the function that ends.
LEMMA OtherCleared ==
    ASSUME TypeOK, MadeInv, NEW u \in Tabs, NEW c \in Calls, c \notin tabs[u].doc
    PROVE  Cleared(tabs[u], tabs[u], c)
<1>1. Same(tabs[u], tabs[u]) BY DEF Same, MadeInv, Filled
<1>2. Runs(calls[c]) /\ tabs[u].fill = calls[c].fill => c \in tabs[u].doc
  BY DEF MadeInv, Pairs, Pair
<1> QED BY <1>1, <1>2 DEF Cleared

LEMMA MadeReturn ==
    ASSUME TypeOK, MadeInv, NEW c \in Calls, calls'[c] = NoCall,
           \A d \in Calls : d # c => SameCall(calls[d], calls'[d]),
           \A u \in Tabs : u # calls[c].tab => tabs'[u] = tabs[u],
           calls[c].tab \in Tabs => Cleared(tabs[calls[c].tab], tabs'[calls[c].tab], c),
           UNCHANGED <<things, lost, fills>>
    PROVE  MadeInv'
<1>1. \A u \in Tabs : u # calls[c].tab => c \notin tabs[u].doc BY DEF MadeInv, Pairs, Pair
<1>2. \A u \in Tabs : Cleared(tabs[u], tabs'[u], c) BY <1>1, OtherCleared
<1> QED BY <1>2, MadeEnded

\* A page of another document, and one that was sent elsewhere as well.
LEMMA DocumentCleared ==
    ASSUME NEW t \in Tabs, NEW c \in Calls, NEW pg, Fresh(pg, {})
    PROVE  Cleared(tabs[t], pg, c)
BY DEF Fresh, Cleared, Blanked

LEMMA GotoCleared ==
    ASSUME NEW t \in Tabs, NEW c \in Calls, NEW pg, NEW q, Cleared(tabs[t], pg, c), Elsewhere(pg, q)
    PROVE  Cleared(tabs[t], q, c)
<1>1. Same(tabs[t], pg) => Same(tabs[t], q) BY DEF Elsewhere, Same
<1>2. Blanked(tabs[t], pg) => Blanked(tabs[t], q) BY DEF Elsewhere, Blanked
<1>3. Emptied(tabs[t], pg, c) => Emptied(tabs[t], q, c) BY DEF Elsewhere, Emptied
<1> QED BY <1>1, <1>2, <1>3 DEF Elsewhere, Cleared

\* A sign-in that takes effect.
LEMMA MadeSignLands ==
    ASSUME TypeOK, MadeInv, NEW c \in Calls, LoginLands(c) \/ OrgsLand(c) \/ RegisterLands(c)
    PROVE  MadeInv'
<1> DEFINE t == calls[c].tab
<1>1. Disturbed \in [Calls -> CallRecord] /\ Disturbed[c] \in CallRecord BY DisturbedTypes
<1>2. UNCHANGED <<things, lost, fills>> BY DEF LoginLands, OrgsLand, RegisterLands, server
<1>3. calls[c].kind \notin Making /\ calls[c].at \in {"told", "listed"}
  BY DEF LoginLands, OrgsLand, RegisterLands, Lands, Making
<1>4. ~Runs(calls[c]) BY <1>3 DEF Runs
<1>5. \A d \in Calls : SameCall(calls[d], Disturbed[d]) BY DisturbedCalls
<1>6. CASE (LoginLands(c) \/ RegisterLands(c)) /\ calls[c].ok
  <2>1. \E at \in {"asked", "timer"} : \E clean :
           \/ calls' = [Disturbed EXCEPT ![c].at = at, ![c].clean = clean]
           \/ calls' = [Disturbed EXCEPT ![c].at = at]
    BY <1>6 DEF LoginLands, RegisterLands
  <2>2. \A d \in Calls : SameCall(calls[d], calls'[d])
    BY <1>1, <1>3, <1>5, <2>1 DEF SameCall, CallRecord
  <2>3. CASE LoginLands(c)
    <3>1. tabs' = tabs BY <1>6, <2>3 DEF LoginLands
    <3>2. \A u \in Tabs : Same(tabs[u], tabs'[u]) BY <3>1 DEF Same, MadeInv, Filled
    <3> QED BY <1>2, <2>2, <3>2, MadeKept
  <2>4. CASE RegisterLands(c)
    <3> DEFINE wo == Without(tabs[t], c)
               pg == [wo EXCEPT !.doc = tabs[t].doc]
               ts == [tabs EXCEPT ![t] = pg]
    <3>1. ASSUME t \in Tabs PROVE pg \in PageRecord /\ Same(tabs[t], pg)
      <4>1. wo \in PageRecord /\ tabs[t] \in PageRecord BY <3>1, WithoutTypes, StateTypes
      <4>2. /\ wo.own = tabs[t].own \ {c} /\ wo.fill = tabs[t].fill /\ wo.page = tabs[t].page
            /\ wo.dialog = tabs[t].dialog
        BY <4>1, WithoutFields
      <4>6. wo.busy = (IF c \in tabs[t].own THEN tabs[t].busy \ {calls[c].kind} ELSE tabs[t].busy)
        BY <4>1, WithoutFields
      <4>3. \A k \in Making : k \in tabs[t].busy => k \in wo.busy BY <1>3, <4>6
      <4> HIDE DEF wo
      <4>4. /\ pg \in PageRecord /\ pg.own = wo.own /\ pg.fill = wo.fill /\ pg.page = wo.page
            /\ pg.dialog = wo.dialog /\ pg.busy = wo.busy /\ pg.doc = tabs[t].doc
        BY <4>1 DEF PageRecord
      <4> HIDE DEF pg
      <4>5. tabs[t].dialog => tabs[t].page = "agents" BY <3>1 DEF MadeInv, Filled
      <4> QED BY <1>4, <4>2, <4>3, <4>4, <4>5 DEF Same
    <3>2. tabs' = ts BY <1>6, <2>4 DEF RegisterLands
    <3> HIDE DEF pg
    <3>4. \A u \in Tabs : ts[u] = (IF u = t THEN pg ELSE tabs[u]) BY DEF TypeOK
    <3>5. \A u \in Tabs : Same(tabs[u], tabs[u]) BY DEF Same, MadeInv, Filled
    <3> HIDE DEF ts
    <3>6. \A u \in Tabs : Same(tabs[u], ts[u]) BY <3>1, <3>4, <3>5
    <3>7. \A u \in Tabs : Same(tabs[u], tabs'[u]) BY <3>2, <3>6
    <3> QED BY <1>2, <2>2, <3>7, MadeKept
  <2> QED BY <1>6, <2>3, <2>4
<1>7. CASE (LoginLands(c) \/ RegisterLands(c)) /\ ~calls[c].ok
  <2>1. Ends(c) /\ tabs' = [tabs EXCEPT ![t] = Without(tabs[t], c)]
    BY <1>7 DEF LoginLands, RegisterLands
  <2>2. calls'[c] = NoCall /\ \A d \in Calls : d # c => SameCall(calls[d], calls'[d])
    BY <2>1, EndsAlone DEF Alone, SameCall
  <2>3. \A u \in Tabs : tabs'[u] = (IF u = t THEN Without(tabs[t], c) ELSE tabs[u])
    BY <2>1 DEF TypeOK
  <2> QED BY <1>2, <1>4, <2>2, <2>3, WithoutCleared, MadeReturn
<1>8. CASE OrgsLand(c)
  <2> DEFINE pg == Goto(tabs[t], "dashboard", storage', TRUE)
  <2>1. calls[c].org \in Someone BY StateTypes DEF CallRecord
  <2>2. storage' \in [token : Someone, org : Someone] BY <1>8, <2>1 DEF OrgsLand, TypeOK
  <2>3. t \in Tabs => Elsewhere(tabs[t], pg)
    BY <2>2, StateTypes, GotoTypes DEF Pages, AppPages
  <2>4. /\ tabs' = [tabs EXCEPT ![t] = pg]
        /\ calls' = [Disturbed EXCEPT ![c].at = "going"]
    BY <1>8 DEF OrgsLand
  <2> HIDE DEF pg
  <2>5. \A u \in Tabs : tabs'[u] = (IF u = t THEN pg ELSE tabs[u]) BY <2>4 DEF TypeOK
  <2>6. \A u \in Tabs : Same(tabs[u], tabs[u]) BY DEF Same, MadeInv, Filled
  <2>7. \A u \in Tabs : Same(tabs[u], tabs'[u]) \/ Blanked(tabs[u], tabs'[u])
    BY <2>3, <2>5, <2>6, PagesMade
  <2>8. \A d \in Calls : SameCall(calls[d], calls'[d])
    BY <1>1, <1>3, <1>5, <2>4 DEF SameCall, CallRecord
  <2> QED BY <1>2, <2>7, <2>8, MadeKept
<1> QED BY <1>6, <1>7, <1>8

LEMMA MadeLand ==
    ASSUME TypeOK, MadeInv, NEW c \in Calls,
           LoginEnds(c) \/ RegisterTimer(c) \/ SaveLands(c) \/ MakeLands(c) \/ RevokeLands(c)
    PROVE  MadeInv'
<1> DEFINE t == calls[c].tab
<1>1. Ends(c) /\ UNCHANGED <<things, lost, fills>>
  BY DEF LoginEnds, RegisterTimer, SaveLands, MakeLands, RevokeLands, server
<1>2. calls'[c] = NoCall /\ \A d \in Calls : d # c => SameCall(calls[d], calls'[d])
  BY <1>1, EndsAlone DEF Alone, SameCall
<1>3. ASSUME NEW pg, tabs' = [tabs EXCEPT ![t] = pg], t \in Tabs => Cleared(tabs[t], pg, c)
      PROVE  MadeInv'
  <2>1. \A u \in Tabs : tabs'[u] = (IF u = t THEN pg ELSE tabs[u]) BY <1>3 DEF TypeOK
  <2> QED BY <1>1, <1>2, <1>3, <2>1, MadeReturn
<1>4. ASSUME ~(Runs(calls[c]) /\ calls[c].at = "told" /\ calls[c].ok),
             tabs' = [tabs EXCEPT ![t] = Without(tabs[t], c)]
      PROVE  MadeInv'
  BY <1>3, <1>4, WithoutCleared
<1>5. ASSUME tabs' = [tabs EXCEPT ![t] = Document(tabs[t].page, storage, TRUE)]
      PROVE  MadeInv'
  <2>1. ASSUME t \in Tabs PROVE Cleared(tabs[t], Document(tabs[t].page, storage, TRUE), c)
    <3>1. tabs[t].page \in Places BY <2>1, StateTypes DEF PageRecord, Places
    <3>2. Fresh(Document(tabs[t].page, storage, TRUE), {}) BY <3>1, StateTypes, DocumentTypes
    <3> QED BY <2>1, <3>2, DocumentCleared
  <2> QED BY <1>3, <1>5, <2>1
<1>6. CASE RegisterTimer(c)
  <2>1. ~Runs(calls[c]) BY <1>6 DEF RegisterTimer, Lands, Runs, Making
  <2>2. ASSUME t \in Tabs
        PROVE  Cleared(tabs[t], Goto(Without(tabs[t], c), "login", storage, TRUE), c)
    <3>1. Without(tabs[t], c) \in PageRecord BY <2>2, StateTypes, WithoutTypes
    <3>2. Cleared(tabs[t], Without(tabs[t], c), c) BY <2>1, <2>2, WithoutCleared
    <3>3. Elsewhere(Without(tabs[t], c), Goto(Without(tabs[t], c), "login", storage, TRUE))
      BY <3>1, StateTypes, GotoTypes DEF Pages
    <3> QED BY <2>2, <3>2, <3>3, GotoCleared
  <2> QED BY <1>3, <1>6, <2>2 DEF RegisterTimer
<1>7. CASE SaveLands(c)
  BY <1>4, <1>7 DEF SaveLands, Lands, Runs, Making, Saving
<1>8. CASE RevokeLands(c)
  BY <1>4, <1>5, <1>8 DEF RevokeLands, Lands, Runs, Making
<1>9. CASE MakeLands(c)
  <2>1. CASE calls[c].kind = "agent" BY <1>4, <1>5, <1>9, <2>1 DEF MakeLands
  <2>2. CASE calls[c].kind # "agent"
    <3>1. tabs' = [tabs EXCEPT ![t] = Advanced(tabs[t], c)] BY <1>9, <2>2 DEF MakeLands
    <3>2. Runs(calls[c]) BY <1>9 DEF MakeLands, Lands, Runs
    <3>3. ASSUME t \in Tabs PROVE Cleared(tabs[t], Advanced(tabs[t], c), c)
      <4>1. CASE ~calls[c].ok
        BY <3>3, <4>1, WithoutCleared DEF Advanced
      <4> DEFINE wo == Without(tabs[t], c)
                 next == [wo EXCEPT !.step = NextStep(calls[c].kind), !.fill = 0,
                             !.agent = IF calls[c].kind = "first" THEN calls[c].thing ELSE @]
      <4>2. tabs[t] \in PageRecord /\ wo \in PageRecord BY <3>3, StateTypes, WithoutTypes
      <4>3. /\ wo.own = tabs[t].own \ {c} /\ wo.doc = tabs[t].doc \ {c}
            /\ wo.fill = tabs[t].fill /\ wo.page = tabs[t].page /\ wo.dialog = tabs[t].dialog
        BY <4>2, WithoutFields
      <4>4. \A k \in tabs[t].busy : k \in wo.busy \/ (c \in tabs[t].own /\ k = calls[c].kind)
        <5>1. wo.busy = (IF c \in tabs[t].own THEN tabs[t].busy \ {calls[c].kind} ELSE tabs[t].busy)
          BY <4>2, WithoutFields
        <5> QED BY <5>1
      <4>5. tabs[t].dialog => tabs[t].page = "agents" BY <3>3 DEF MadeInv, Filled
      <4>6. Pair(tabs[t], t, calls[c], c) BY <3>3 DEF MadeInv, Pairs
      <4>7. CASE calls[c].ok /\ c \notin tabs[t].own
        <5>1. Advanced(tabs[t], c) = wo BY <4>7 DEF Advanced
        <5>2. Emptied(tabs[t], wo, c)
          <6> HIDE DEF wo
          <6> QED BY <4>3, <4>4, <4>5 DEF Emptied
        <5>3. tabs[t].fill # calls[c].fill BY <3>2, <4>6, <4>7 DEF Pair
        <5> HIDE DEF wo
        <5> QED BY <4>3, <5>1, <5>2, <5>3 DEF Cleared
      <4>8. CASE calls[c].ok /\ c \in tabs[t].own
        <5>1. Advanced(tabs[t], c) = next BY <4>8 DEF Advanced
        <5> HIDE DEF wo
        <5>2. /\ next.own = wo.own /\ next.doc = wo.doc /\ next.fill = 0 /\ next.page = wo.page
              /\ next.dialog = wo.dialog /\ next.busy = wo.busy
          BY <4>2 DEF PageRecord
        <5> HIDE DEF next
        <5>3. Emptied(tabs[t], next, c) BY <4>3, <4>4, <4>5, <5>2 DEF Emptied
        <5> QED BY <3>2, <4>3, <4>8, <5>1, <5>2, <5>3 DEF Cleared
      <4> QED BY <4>1, <4>7, <4>8
    <3> QED BY <1>3, <3>1, <3>3
  <2> QED BY <2>1, <2>2
<1>10. CASE LoginEnds(c)
  BY <1>4, <1>10 DEF LoginEnds, Lands, Runs, Making
<1> QED BY <1>6, <1>7, <1>8, <1>9, <1>10

LEMMA MadeStep == TypeOK /\ SessionInv /\ MadeInv /\ [Next]_vars => MadeInv'
<1> SUFFICES ASSUME TypeOK, SessionInv, MadeInv, [Next]_vars PROVE MadeInv' OBVIOUS
<1>1. CASE SignsInOut BY <1>1, MadePages, MadeClick DEF SignsInOut
<1>2. CASE Navigates \/ \E t \in Tabs : Shows(t) BY <1>2, MadePages DEF Navigates
<1>3. CASE Clicks BY <1>3, MadeDialog, MadeClick, MadeCreate DEF Clicks
<1>4. CASE \E c \in Calls : Serves(c) BY <1>4, MadeServes, MadeServed DEF Serves
<1>5. CASE \E c \in Calls : Returns(c)
  <2>1. ASSUME NEW c \in Calls, Gone(c) PROVE MadeInv'
    <3>1. Ends(c) /\ UNCHANGED <<tabs, things, lost, fills>> BY <2>1 DEF Gone, server
    <3>2. calls'[c] = NoCall /\ \A d \in Calls : d # c => SameCall(calls[d], calls'[d])
      BY <3>1, EndsAlone DEF Alone, SameCall
    <3>3. calls[c].tab \in Tabs => Cleared(tabs[calls[c].tab], tabs'[calls[c].tab], c)
      BY <2>1, <3>1, OtherCleared DEF Gone
    <3> QED BY <3>1, <3>2, <3>3, MadeReturn
  <2> QED BY <1>5, <2>1, MadeSignLands, MadeLand DEF Returns
<1>6. CASE UNCHANGED vars
  <2>1. UNCHANGED <<tabs, calls, things, lost, fills>> BY <1>6 DEF vars
  <2>2. \A u \in Tabs : Same(tabs[u], tabs'[u]) BY <2>1 DEF Same, MadeInv, Filled
  <2>3. \A d \in Calls : SameCall(calls[d], calls'[d]) BY <2>1 DEF SameCall
  <2> QED BY <2>1, <2>2, <2>3, MadeKept
<1> QED BY <1>1, <1>2, <1>3, <1>4, <1>5, <1>6 DEF Next

\* However often a form is sent, and whatever other tabs do, one filling of it makes one
\* agent, rule or key, unless the answer of an attempt was lost.
THEOREM FillingMadeOnce == Spec => []MadeOnce
<1>1. Init => SessionInv /\ MadeInv
  <2> SUFFICES ASSUME Init PROVE SessionInv /\ MadeInv OBVIOUS
  <2>1. storage.org = storage.token BY DEF Init
  <2>2. \A c \in Calls : calls[c].at = "idle" /\ ~Runs(calls[c]) BY DEF Init, NoCall, Runs
  <2>3. SessionInv BY <2>1, <2>2 DEF SessionInv, SessionMatches, Between
  <2>4. storage \in [token : Someone, org : Someone] BY ConsoleAssumption DEF Init, Someone
  <2>5. Fresh(Framed(Load("dashboard", storage, TRUE), {}, storage, TRUE), {})
    <3>1. Load("dashboard", storage, TRUE) \in LoadRecord
          /\ Load("dashboard", storage, TRUE).page = "dashboard"
      BY <2>4, LoadTypes DEF Places, Pages, AppPages
    <3> QED BY <2>4, <3>1, FramedTypes
  <2>6. \A t \in Tabs : /\ tabs[t].own = {} /\ tabs[t].doc = {} /\ tabs[t].fill = 0
                        /\ ~tabs[t].dialog
    BY <2>5 DEF Init, Fresh
  <2>7. \A i \in Things : things[i].fill = 0 BY DEF Init, Nothing
  <2>8. fills = 0 BY DEF Init
  <2>9. Pairs
    <3> SUFFICES ASSUME NEW t \in Tabs, NEW c \in Calls PROVE Pair(tabs[t], t, calls[c], c)
      BY DEF Pairs
    <3> QED BY <2>2, <2>6 DEF Pair
  <2> QED BY <2>2, <2>3, <2>6, <2>7, <2>8, <2>9
          DEF MadeInv, Filled, Apart, Numbered, Single, Counts, Answered, Pending, MadeOnce
<1>2. MadeInv => MadeOnce BY DEF MadeInv
<1> QED BY <1>1, <1>2, SessionStep, MadeStep, TypeCorrect, PTL DEF Spec
=============================================================================
