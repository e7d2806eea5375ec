-------------------------- MODULE TrustKeys_proofs --------------------------
(***************************************************************************)
(* Proofs about TrustKeys, for any number of keys and functions of the     *)
(* page: its types, and that rotating and activating keys one at a time    *)
(* never leaves an organization without one.  The theorems of whole        *)
(* behaviours are in TrustVerifier_proofs, which composes the keys with    *)
(* their readers.                                                          *)
(***************************************************************************)
EXTENDS TrustKeys, TLAPS

Row    == [made : BOOLEAN, active : BOOLEAN, deadline : BOOLEAN, kms : BOOLEAN, public : BOOLEAN]
Places == {"free", "insert", "mark", "created", "others", "self", "off", "answer", "load", "loaded"}
Fn     == [at : Places, act : {"none", "create", "rotate", "activate", "deactivate"},
           key : 0..MaxKeys, kms : BOOLEAN, public : BOOLEAN, grace : BOOLEAN,
           exclusive : BOOLEAN, ok : BOOLEAN, listed : Listing]

LEMMA KeyFacts ==
    /\ MaxKeys \in Nat /\ MaxKeys > 0 /\ 1 \in Ids /\ 0 \in 0..MaxKeys
    /\ \A k \in Ids : k \in Nat /\ k > 0 /\ k \in 0..MaxKeys
    /\ Ops \subseteq Nat
BY TrustKeysAssumption DEF Ids

LEMMA TypeParts ==
    KeysTypeOK <=> /\ rows \in [Ids -> Row] /\ ops \in [Ops -> Fn]
                   /\ table \in Listing /\ loading \in BOOLEAN /\ error \in BOOLEAN
                   /\ excused \in BOOLEAN /\ revived \subseteq Ids
                   /\ budget \in [Kinds -> Nat] /\ setting \in Settings
BY DEF KeysTypeOK, Row, Fn, Places

\* A function that handles a key has one that exists, and what is listed exists.
Handling == {"mark", "created", "others", "self", "off"}
Known ==
    /\ \A k \in Ids : rows[k].active => rows[k].made
    /\ table.known \subseteq Made
    /\ \A o \in Ops : ops[o].listed.known \subseteq Made
    /\ \A o \in Ops : ops[o].at \in Handling => ops[o].key \in Made

KeysInv == KeysTypeOK /\ Known

LEMMA FreeType == Free \in Fn /\ Free.listed.known = {} /\ Free.at = "free"
BY KeyFacts DEF Free, Fn, Places, Listing

LEMMA GraceType == \A g \in Graces : HasGrace(g) \in BOOLEAN
BY DEF HasGrace

\* Spending leaves a budget a budget.
LEMMA SpendType ==
    ASSUME budget \in [Kinds -> Nat], NEW b \in Kinds, Have(b), Spend(b)
    PROVE  budget' \in [Kinds -> Nat]
<1>1. budget[b] - 1 \in Nat BY DEF Have
<1> QED BY <1>1 DEF Spend

LEMMA FaultType ==
    ASSUME KeysTypeOK, UNCHANGED budget \/ Fault PROVE budget' \in [Kinds -> Nat]
<1>1. "fault" \in Kinds BY DEF Kinds
<1> QED BY <1>1, SpendType DEF Fault, KeysTypeOK

LEMMA InitKeys == KeysInit => KeysInv
<1> SUFFICES ASSUME KeysInit PROVE KeysInv OBVIOUS
<1>0. \A k \in Ids : rows[k] = IF k <= setting.keys
                               THEN [NoRow EXCEPT !.made = TRUE, !.active = TRUE, !.public = TRUE]
                               ELSE NoRow
  BY DEF KeysInit
<1>1. rows \in [Ids -> Row] BY DEF KeysInit, NoRow, Row
<1>2. ops \in [Ops -> Fn] BY FreeType DEF KeysInit
<1>3. table \in Listing BY DEF KeysInit, Listing, Made, Active
<1>4. budget \in [Kinds -> Nat] /\ setting \in Settings BY TrustKeysAssumption DEF KeysInit
<1>5. KeysTypeOK BY <1>1, <1>2, <1>3, <1>4, TypeParts DEF KeysInit
<1>7. ASSUME NEW k \in Ids, rows[k].active PROVE rows[k].made
  <2>1. CASE k <= setting.keys
    <3>1. rows[k] = [NoRow EXCEPT !.made = TRUE, !.active = TRUE, !.public = TRUE] BY <1>0, <2>1
    <3> QED BY <3>1 DEF NoRow
  <2>2. CASE ~(k <= setting.keys)
    <3>1. rows[k] = NoRow BY <1>0, <2>2
    <3> QED BY <1>7, <3>1 DEF NoRow
  <2> QED BY <2>1, <2>2
<1>8. table.known \subseteq Made BY DEF KeysInit
<1>9. \A o \in Ops : ops[o].listed.known \subseteq Made /\ ops[o].at \notin Handling
  BY FreeType DEF KeysInit, Handling
<1> QED BY <1>5, <1>7, <1>8, <1>9 DEF KeysInv, Known

-----------------------------------------------------------------------------
(* What a step of one function does to the functions and to the keys.       *)

\* One function of the page moves, and the keys stay: the invariant only asks
\* what the function has become.
LEMMA OneMoves ==
    ASSUME KeysInv, NEW o \in Ops, NEW f \in Fn, ops' = [ops EXCEPT ![o] = f],
           f.listed.known \subseteq Made, f.at \in Handling => f.key \in Made,
           UNCHANGED <<rows, setting>>, table' \in Listing, table'.known \subseteq Made,
           loading' \in BOOLEAN, error' \in BOOLEAN, excused' \in BOOLEAN, revived' \subseteq Ids,
           budget' \in [Kinds -> Nat]
    PROVE  KeysInv'
<1> USE DEF KeysInv
<1>1. ops' \in [Ops -> Fn] BY TypeParts
<1>2. KeysTypeOK' BY <1>1, TypeParts DEF KeysTypeOK, Row, Fn, Places
<1>3. Made' = Made BY DEF Made
<1>4. \A p \in Ops : ops'[p].listed.known \subseteq Made BY TypeParts DEF Known
<1>5. \A p \in Ops : ops'[p].at \in Handling => ops'[p].key \in Made BY TypeParts DEF Known
<1> QED BY <1>2, <1>3, <1>4, <1>5 DEF Known

\* The keys change and no key disappears.
LEMMA KeysChange ==
    ASSUME KeysInv, rows' \in [Ids -> Row], \A k \in Made : rows'[k].made,
           \A k \in Ids : rows'[k].active => rows'[k].made,
           ops' \in [Ops -> Fn], \A o \in Ops : ops'[o].listed = ops[o].listed,
           \A o \in Ops : ops'[o].at \in Handling => ops'[o].key \in Made',
           UNCHANGED <<pageVars, setting>>, excused' \in BOOLEAN, revived' \subseteq Ids,
           budget' \in [Kinds -> Nat]
    PROVE  KeysInv'
<1> USE DEF KeysInv, pageVars
<1>1. KeysTypeOK' BY TypeParts DEF KeysTypeOK, Row, Fn, Places
<1>2. Made \subseteq Made' BY DEF Made
<1> QED BY <1>1, <1>2 DEF Known

LEMMA ClickKeeps ==
    ASSUME KeysInv, NEW o \in Ops, NEW f \in Fn, Click(o, f), UNCHANGED setting,
           f.listed.known = {}, f.at \in Handling => f.key \in Made
    PROVE  KeysInv'
<1>1. excused' \in BOOLEAN BY DEF Click, KeysInv, KeysTypeOK
<1>2. "click" \in Kinds BY DEF Kinds
<1>3. budget' \in [Kinds -> Nat] BY <1>2, SpendType DEF Click, KeysInv, KeysTypeOK
<1>4. UNCHANGED <<rows, table, loading, error, revived>> BY DEF Click, pageVars
<1>5. ops' = [ops EXCEPT ![o] = f] BY DEF Click
<1>6. table' \in Listing /\ table'.known \subseteq Made /\ loading' \in BOOLEAN /\ error' \in BOOLEAN
      /\ revived' \subseteq Ids
  BY <1>4 DEF KeysInv, Known, KeysTypeOK
<1> QED BY <1>1, <1>3, <1>4, <1>5, <1>6, OneMoves

LEMMA AdministratorKeeps ==
    ASSUME KeysInv, NEW o \in Ops, Administrator(o), UNCHANGED setting PROVE KeysInv'
<1>1. ASSUME NEW kms \in BOOLEAN, NEW public \in BOOLEAN, CreateKey(o, kms, public) PROVE KeysInv'
  <2> DEFINE f == [Free EXCEPT !.at = "insert", !.act = "create", !.kms = kms, !.public = public]
  <2>0. f \in Fn /\ f.listed.known = {} BY KeyFacts DEF Fn, Free, Listing, Places
  <2>1. f \in Fn /\ f.listed.known = {} /\ f.at \notin Handling BY <2>0 DEF Free, Handling
  <2>2. Click(o, f) BY <1>1 DEF CreateKey
  <2> HIDE DEF f
  <2> QED BY <2>1, <2>2, ClickKeeps
<1>2. ASSUME NEW kms \in BOOLEAN, NEW grace \in Graces, RotateKey(o, kms, grace) PROVE KeysInv'
  <2> DEFINE f == [Free EXCEPT !.at = "insert", !.act = "rotate", !.kms = kms, !.public = TRUE,
                               !.grace = HasGrace(grace), !.exclusive = kms]
  <2>0. f \in Fn /\ f.listed.known = {} BY GraceType, KeyFacts DEF Fn, Free, Listing, Places
  <2>1. f \in Fn /\ f.listed.known = {} /\ f.at \notin Handling BY <2>0 DEF Free, Handling
  <2>2. Click(o, f) BY <1>2 DEF RotateKey
  <2> HIDE DEF f
  <2> QED BY <2>1, <2>2, ClickKeeps
<1>3. ASSUME NEW k \in Ids, NEW grace \in Graces, NEW exclusive \in BOOLEAN,
             Activate(o, k, grace, exclusive)
      PROVE  KeysInv'
  <2> DEFINE f == [Free EXCEPT !.at = IF exclusive THEN "others" ELSE "self", !.act = "activate",
                               !.key = k, !.grace = HasGrace(grace), !.exclusive = exclusive]
  <2>1. f \in Fn /\ f.listed.known = {} /\ f.key = k
    BY GraceType, KeyFacts DEF Fn, Free, Listing, Places
  <2>2. Click(o, f) BY <1>3 DEF Activate
  <2>3. k \in Made BY <1>3 DEF Activate, Shown, KeysInv, Known
  <2> HIDE DEF f
  <2> QED BY <2>1, <2>2, <2>3, ClickKeeps
<1>4. ASSUME NEW k \in Ids, Deactivate(o, k) PROVE KeysInv'
  <2> DEFINE f == [Free EXCEPT !.at = "off", !.act = "deactivate", !.key = k]
  <2>1. f \in Fn /\ f.listed.known = {} /\ f.key = k BY KeyFacts DEF Fn, Free, Listing, Places
  <2>2. Click(o, f) BY <1>4 DEF Deactivate
  <2>3. k \in Made BY <1>4 DEF Deactivate, Shown, KeysInv, Known
  <2> HIDE DEF f
  <2> QED BY <2>1, <2>2, <2>3, ClickKeeps
<1>5. CASE Refresh(o)
  <2> DEFINE f == [Free EXCEPT !.at = "load"]
  <2>0. f \in Fn /\ f.listed.known = {} BY KeyFacts DEF Fn, Free, Listing, Places
  <2>1. f \in Fn /\ f.listed.known = {} /\ f.at \notin Handling BY <2>0 DEF Free, Handling
  <2>2. ops' = [ops EXCEPT ![o] = f] BY <1>5 DEF Refresh, StartLoad
  <2> HIDE DEF f
  <2>3. "click" \in Kinds BY DEF Kinds
  <2>4. budget' \in [Kinds -> Nat] BY <1>5, <2>3, SpendType DEF Refresh, KeysInv, KeysTypeOK
  <2>5. UNCHANGED <<rows, table, excused, revived>> /\ loading' \in BOOLEAN /\ error' \in BOOLEAN
    BY <1>5 DEF Refresh, StartLoad
  <2>6. table' \in Listing /\ table'.known \subseteq Made /\ excused' \in BOOLEAN /\ revived' \subseteq Ids
    BY <2>5 DEF KeysInv, Known, KeysTypeOK
  <2> QED BY <2>1, <2>2, <2>4, <2>5, <2>6, OneMoves
<1> QED BY <1>1, <1>2, <1>3, <1>4, <1>5 DEF Administrator

LEMMA PageKeeps == ASSUME KeysInv, NEW o \in Ops, Page(o), UNCHANGED setting PROVE KeysInv'
<1> USE DEF KeysInv
<1>1. ops[o] \in Fn /\ ops[o].listed.known \subseteq Made BY TypeParts DEF Known
<1>2. CASE ActivateCreated(o)
  <2>1. PICK f \in {[ops[o] EXCEPT !.at = "others"], [ops[o] EXCEPT !.at = "answer", !.ok = FALSE]} :
          ops' = [ops EXCEPT ![o] = f]
    BY <1>2 DEF ActivateCreated
  <2>2. f \in Fn /\ f.listed = ops[o].listed /\ f.key = ops[o].key BY <1>1, <2>1 DEF Fn, Places
  <2>3. ops[o].key \in Made BY <1>2 DEF ActivateCreated, Known, Handling
  <2>4. budget' \in [Kinds -> Nat] BY <1>2, FaultType DEF ActivateCreated
  <2>5. UNCHANGED <<rows, table, loading, error, excused, revived>> BY <1>2 DEF ActivateCreated, pageVars
  <2>6. table' \in Listing /\ table'.known \subseteq Made /\ loading' \in BOOLEAN
        /\ error' \in BOOLEAN /\ excused' \in BOOLEAN /\ revived' \subseteq Ids
    BY <2>5 DEF Known, KeysTypeOK
  <2> QED BY <1>1, <2>1, <2>2, <2>3, <2>4, <2>5, <2>6, OneMoves
<1>3. ASSUME NEW f \in Fn, f.listed.known \subseteq Made, f.at \notin Handling,
             ops' = [ops EXCEPT ![o] = f], UNCHANGED <<rows, excused, revived, budget>>,
             table' \in Listing, table'.known \subseteq Made, loading' \in BOOLEAN, error' \in BOOLEAN
      PROVE  KeysInv'
  BY <1>3, OneMoves DEF KeysTypeOK
<1>4. CASE Report(o)
  <2>1. Free \in Fn /\ [Free EXCEPT !.at = "load"] \in Fn /\ Free.listed.known = {}
    BY FreeType DEF Fn, Places
  <2>2. PICK f \in {Free, [Free EXCEPT !.at = "load"]} : ops' = [ops EXCEPT ![o] = f]
    BY <1>4 DEF Report, StartLoad
  <2>3. f \in Fn /\ f.listed.known = {} BY <2>1, <2>2 DEF Fn
  <2>4. f.at \notin Handling BY <2>2 DEF Free, Handling
  <2>5. UNCHANGED <<rows, excused, revived, budget, table>> /\ loading' \in BOOLEAN /\ error' \in BOOLEAN
    BY <1>4 DEF Report, StartLoad, pageVars, KeysTypeOK
  <2>6. table' \in Listing /\ table'.known \subseteq Made BY <2>5 DEF KeysTypeOK, Known
  <2> QED BY <1>3, <2>2, <2>3, <2>4, <2>5, <2>6
<1>5. CASE LoadAll(o)
  <2>1. Free.at \notin Handling BY DEF Free, Handling
  <2>2. ops[o].listed \in Listing BY <1>1 DEF Fn
  <2>3. table' = table \/ table' = ops[o].listed BY <1>5 DEF LoadAll
  <2>4. table' \in Listing /\ table'.known \subseteq Made BY <1>1, <2>2, <2>3 DEF KeysTypeOK, Known
  <2>5. loading' \in BOOLEAN /\ error' \in BOOLEAN BY <1>5 DEF LoadAll, KeysTypeOK
  <2> QED BY <1>3, <1>5, <2>1, <2>4, <2>5, FreeType DEF LoadAll
<1> QED BY <1>2, <1>4, <1>5 DEF Page

-----------------------------------------------------------------------------
(* The handlers.                                                            *)

\* A handler that only moves on to another place.
LEMMA MovesOn ==
    ASSUME KeysInv, NEW o \in Ops, NEW at \in Places, NEW ok \in BOOLEAN,
           at \in Handling => ops[o].at \in Handling
    PROVE  /\ [ops EXCEPT ![o].at = at, ![o].ok = ok] \in [Ops -> Fn]
           /\ [ops EXCEPT ![o].at = at] \in [Ops -> Fn]
           /\ \A p \in Ops : /\ [ops EXCEPT ![o].at = at, ![o].ok = ok][p].listed = ops[p].listed
                             /\ [ops EXCEPT ![o].at = at][p].listed = ops[p].listed
           /\ \A p \in Ops : [ops EXCEPT ![o].at = at, ![o].ok = ok][p].at \in Handling
                                => [ops EXCEPT ![o].at = at, ![o].ok = ok][p].key \in Made
           /\ \A p \in Ops : [ops EXCEPT ![o].at = at][p].at \in Handling
                                => [ops EXCEPT ![o].at = at][p].key \in Made
<1>1. ops \in [Ops -> Fn] BY TypeParts DEF KeysInv
<1>2. /\ [ops[o] EXCEPT !.at = at, !.ok = ok] \in Fn
      /\ [ops[o] EXCEPT !.at = at] \in Fn
  BY <1>1 DEF Fn
<1>3. /\ [ops[o] EXCEPT !.at = at, !.ok = ok].listed = ops[o].listed
      /\ [ops[o] EXCEPT !.at = at].listed = ops[o].listed
      /\ [ops[o] EXCEPT !.at = at, !.ok = ok].key = ops[o].key
      /\ [ops[o] EXCEPT !.at = at].key = ops[o].key
      /\ [ops[o] EXCEPT !.at = at, !.ok = ok].at = at /\ [ops[o] EXCEPT !.at = at].at = at
  BY <1>1 DEF Fn
<1>4. \A p \in Ops : /\ [ops EXCEPT ![o].at = at, ![o].ok = ok][p]
                            = IF p = o THEN [ops[o] EXCEPT !.at = at, !.ok = ok] ELSE ops[p]
                     /\ [ops EXCEPT ![o].at = at][p] = IF p = o THEN [ops[o] EXCEPT !.at = at] ELSE ops[p]
  BY <1>1
<1>5. /\ [ops EXCEPT ![o].at = at, ![o].ok = ok] \in [Ops -> Fn]
      /\ [ops EXCEPT ![o].at = at] \in [Ops -> Fn]
  BY <1>1, <1>2
<1>6. \A p \in Ops : ops[p].at \in Handling => ops[p].key \in Made BY DEF KeysInv, Known
<1> QED BY <1>3, <1>4, <1>5, <1>6

LEMMA LimitedType ==
    ASSUME KeysInv, NEW k
    PROVE  /\ Limited(k) \in [Ids -> Row]
           /\ \A j \in Ids : /\ Limited(k)[j].made = rows[j].made
                             /\ Limited(k)[j].active = rows[j].active
                             /\ j = k => Limited(k)[j].deadline = rows[j].deadline
<1>1. \A j \in Ids : rows[j] \in Row BY TypeParts DEF KeysInv
<1>2. \A j \in Ids : /\ [rows[j] EXCEPT !.deadline = @ \/ (rows[j].active /\ j # k)] \in Row
                     /\ [rows[j] EXCEPT !.deadline = @ \/ (rows[j].active /\ j # k)].made = rows[j].made
                     /\ [rows[j] EXCEPT !.deadline = @ \/ (rows[j].active /\ j # k)].active = rows[j].active
  BY <1>1 DEF Row
<1>3. \A j \in Ids : j = k => [rows[j] EXCEPT !.deadline = @ \/ (rows[j].active /\ j # k)].deadline
                               = rows[j].deadline
  BY <1>1 DEF Row
<1> QED BY <1>2, <1>3 DEF Limited

\* The keys as they are, or with another deadline or state on some of them.
LEMMA SameRows ==
    ASSUME KeysInv, rows' = rows
    PROVE  /\ rows' \in [Ids -> Row] /\ \A k \in Made : rows'[k].made
           /\ \A k \in Ids : rows'[k].active => rows'[k].made
           /\ Made' = Made
BY TypeParts DEF KeysInv, Known, Made

LEMMA MarkKeeps == ASSUME KeysInv, NEW o \in Ops, Mark(o), UNCHANGED setting PROVE KeysInv'
<1>1. rows' = rows \/ rows' = Limited(ops[o].key) BY DEF Mark
<1>2. /\ rows' \in [Ids -> Row] /\ \A k \in Made : rows'[k].made
      /\ \A k \in Ids : rows'[k].active => rows'[k].made
  BY <1>1, LimitedType, SameRows DEF KeysInv, Known, Made
<1>3. Made \subseteq Made' BY <1>2 DEF Made
<1>4. "answer" \in Places /\ "answer" \notin Handling BY DEF Places, Handling
<1>5. ops' = [ops EXCEPT ![o].at = "answer", ![o].ok = TRUE] BY DEF Mark, Answer
<1>6. /\ ops' \in [Ops -> Fn] /\ \A p \in Ops : ops'[p].listed = ops[p].listed
      /\ \A p \in Ops : ops'[p].at \in Handling => ops'[p].key \in Made
  BY <1>4, <1>5, MovesOn
<1>7. budget' \in [Kinds -> Nat] BY FaultType DEF Mark, KeysInv
<1>8. UNCHANGED pageVars /\ excused' \in BOOLEAN /\ revived' \subseteq Ids BY DEF Mark, KeysInv, KeysTypeOK
<1> QED BY <1>2, <1>3, <1>6, <1>7, <1>8, KeysChange

LEMMA OthersKeeps == ASSUME KeysInv, NEW o \in Ops, Others(o), UNCHANGED setting PROVE KeysInv'
<1> DEFINE without == [j \in Ids |-> [rows[j] EXCEPT !.active = @ /\ j = ops[o].key]]
<1>1. rows' = rows \/ rows' = Limited(ops[o].key) \/ rows' = without BY DEF Others
<1>2. /\ without \in [Ids -> Row] /\ \A k \in Ids : without[k].made = rows[k].made
      /\ \A k \in Ids : without[k].active => rows[k].active
  <2>1. \A j \in Ids : rows[j] \in Row BY TypeParts DEF KeysInv
  <2>2. \A j \in Ids : /\ [rows[j] EXCEPT !.active = @ /\ j = ops[o].key] \in Row
                       /\ [rows[j] EXCEPT !.active = @ /\ j = ops[o].key].made = rows[j].made
    BY <2>1 DEF Row
  <2>3. \A j \in Ids : [rows[j] EXCEPT !.active = @ /\ j = ops[o].key].active => rows[j].active
    BY <2>1 DEF Row
  <2> QED BY <2>2, <2>3
<1> HIDE DEF without
<1>3. /\ rows' \in [Ids -> Row] /\ \A k \in Made : rows'[k].made
      /\ \A k \in Ids : rows'[k].active => rows'[k].made
  BY <1>1, <1>2, LimitedType, SameRows DEF KeysInv, Known, Made
<1>4. Made \subseteq Made' BY <1>3 DEF Made
<1>5. ops' = [ops EXCEPT ![o].at = "self"] BY DEF Others, Step
<1>6. "self" \in Places /\ ops[o].at \in Handling BY DEF Places, Others, Handling
<1>7. /\ ops' \in [Ops -> Fn] /\ \A p \in Ops : ops'[p].listed = ops[p].listed
      /\ \A p \in Ops : ops'[p].at \in Handling => ops'[p].key \in Made
  BY <1>5, <1>6, MovesOn
<1>8. budget' \in [Kinds -> Nat] BY FaultType DEF Others, KeysInv
<1>9. UNCHANGED pageVars /\ excused' \in BOOLEAN /\ revived' \subseteq Ids
  BY DEF Others, KeysInv, KeysTypeOK
<1> QED BY <1>3, <1>4, <1>7, <1>8, <1>9, KeysChange

\* A handler that has its answer, or any step that leaves the functions alone.
LEMMA Answered ==
    ASSUME KeysInv, NEW o \in Ops, NEW ok \in BOOLEAN, Answer(o, ok)
    PROVE  /\ ops' \in [Ops -> Fn] /\ \A p \in Ops : ops'[p].listed = ops[p].listed
           /\ \A p \in Ops : ops'[p].at \in Handling => ops'[p].key \in Made
<1>1. "answer" \in Places /\ "answer" \notin Handling BY DEF Places, Handling
<1>2. CASE ok = TRUE
  <2>1. ops' = [ops EXCEPT ![o].at = "answer", ![o].ok = TRUE] BY <1>2 DEF Answer
  <2> QED BY <1>1, <2>1, MovesOn
<1>3. CASE ok = FALSE
  <2>1. ops' = [ops EXCEPT ![o].at = "answer", ![o].ok = FALSE] BY <1>3 DEF Answer
  <2> QED BY <1>1, <2>1, MovesOn
<1> QED BY <1>2, <1>3

\* A key that is switched on or off.
LEMMA Switched ==
    ASSUME KeysInv, NEW k \in Made, NEW b \in BOOLEAN, rows' = [rows EXCEPT ![k].active = b]
    PROVE  /\ rows' \in [Ids -> Row] /\ \A j \in Made : rows'[j].made
           /\ \A j \in Ids : rows'[j].active => rows'[j].made
           /\ \A j \in Ids : rows'[j] = IF j = k THEN [rows[k] EXCEPT !.active = b] ELSE rows[j]
<1>1. rows \in [Ids -> Row] /\ k \in Ids /\ rows[k].made BY TypeParts DEF KeysInv, Made
<1>2. /\ [rows[k] EXCEPT !.active = b] \in Row
      /\ [rows[k] EXCEPT !.active = b].made = rows[k].made
  BY <1>1 DEF Row
<1>3. \A j \in Ids : rows'[j] = IF j = k THEN [rows[k] EXCEPT !.active = b] ELSE rows[j] BY <1>1
<1>4. rows' \in [Ids -> Row] BY <1>1, <1>2
<1>5. \A j \in Made : rows'[j].made BY <1>2, <1>3 DEF Made
<1>6. \A j \in Ids : rows'[j].active => rows'[j].made BY <1>1, <1>2, <1>3 DEF KeysInv, Known
<1> QED BY <1>3, <1>4, <1>5, <1>6

LEMMA SelfKeeps == ASSUME KeysInv, NEW o \in Ops, Self(o), UNCHANGED setting PROVE KeysInv'
<1>1. ops[o].key \in Made BY DEF Self, KeysInv, Known, Handling
<1>2. rows' = rows \/ rows' = [rows EXCEPT ![ops[o].key].active = TRUE] BY DEF Self
<1>3. /\ rows' \in [Ids -> Row] /\ \A k \in Made : rows'[k].made
      /\ \A k \in Ids : rows'[k].active => rows'[k].made
  BY <1>1, <1>2, SameRows, Switched
<1>4. Made \subseteq Made' BY <1>3 DEF Made
<1>5. Answer(o, TRUE) \/ Answer(o, FALSE) BY DEF Self
<1>6. /\ ops' \in [Ops -> Fn] /\ \A p \in Ops : ops'[p].listed = ops[p].listed
      /\ \A p \in Ops : ops'[p].at \in Handling => ops'[p].key \in Made
  BY <1>5, Answered
<1>7. budget' \in [Kinds -> Nat] BY FaultType DEF Self, KeysInv
<1>8. UNCHANGED pageVars /\ excused' \in BOOLEAN BY DEF Self, KeysInv, KeysTypeOK
<1>9. revived' \subseteq Ids BY <1>1 DEF Self, KeysInv, KeysTypeOK, Made
<1> QED BY <1>3, <1>4, <1>6, <1>7, <1>8, <1>9, KeysChange

LEMMA OffKeeps == ASSUME KeysInv, NEW o \in Ops, Off(o), UNCHANGED setting PROVE KeysInv'
<1>0. ops[o].key \in Made BY DEF Off, KeysInv, Known, Handling
<1>1. rows' = rows \/ rows' = [rows EXCEPT ![ops[o].key].active = FALSE] BY DEF Off
<1>2. /\ rows' \in [Ids -> Row] /\ \A k \in Made : rows'[k].made
      /\ \A k \in Ids : rows'[k].active => rows'[k].made
  BY <1>0, <1>1, SameRows, Switched
<1>3. Made \subseteq Made' BY <1>2 DEF Made
<1>4. Answer(o, TRUE) \/ Answer(o, FALSE) BY DEF Off
<1>5. /\ ops' \in [Ops -> Fn] /\ \A p \in Ops : ops'[p].listed = ops[p].listed
      /\ \A p \in Ops : ops'[p].at \in Handling => ops'[p].key \in Made
  BY <1>4, Answered
<1>6. budget' \in [Kinds -> Nat] BY FaultType DEF Off, KeysInv
<1>7. UNCHANGED pageVars /\ excused' \in BOOLEAN /\ revived' \subseteq Ids BY DEF Off, KeysInv, KeysTypeOK
<1> QED BY <1>2, <1>3, <1>5, <1>6, <1>7, KeysChange

\* What an insertion that succeeds adds.
NewRow(f) == [made |-> TRUE, active |-> f.act = "rotate" /\ ~f.kms, deadline |-> FALSE,
              kms |-> f.kms, public |-> f.public]

LEMMA NewRowType == ASSUME KeysInv, NEW o \in Ops PROVE NewRow(ops[o]) \in Row
<1>1. ops[o] \in Fn BY TypeParts DEF KeysInv
<1>2. (ops[o].act = "rotate" /\ ~ops[o].kms) \in BOOLEAN OBVIOUS
<1>3. ops[o].kms \in BOOLEAN /\ ops[o].public \in BOOLEAN BY <1>1 DEF Fn
<1> QED BY <1>2, <1>3 DEF NewRow, Row

LEMMA InsertFacts ==
    ASSUME KeysInv, NEW o \in Ops, Insert(o)
    PROVE  \/ rows' = rows /\ Answer(o, FALSE)
           \/ \E k \in Ids \ Made, at \in {"answer", "created", "mark"} :
                /\ rows' = [rows EXCEPT ![k] = NewRow(ops[o])]
                /\ ops' = [ops EXCEPT ![o].key = k, ![o].at = at]
                /\ at = "mark" => ops[o].act # "create" /\ ~ops[o].kms
<1>1. CASE rows' = rows /\ Answer(o, FALSE) BY <1>1
<1>2. ASSUME NEW k \in Ids \ Made,
             rows' = [rows EXCEPT ![k] = NewRow(ops[o])],
             ops' = [ops EXCEPT ![o].key = k,
                                ![o].at = IF ops[o].act = "create" THEN "answer"
                                          ELSE IF ops[o].kms THEN "created" ELSE "mark"]
      PROVE  \E at \in {"answer", "created", "mark"} :
                /\ ops' = [ops EXCEPT ![o].key = k, ![o].at = at]
                /\ at = "mark" => ops[o].act # "create" /\ ~ops[o].kms
  <2>1. CASE ops[o].act = "create" BY <1>2, <2>1
  <2>2. CASE ops[o].act # "create" /\ ops[o].kms BY <1>2, <2>2
  <2>3. CASE ops[o].act # "create" /\ ~ops[o].kms BY <1>2, <2>3
  <2> QED BY <2>1, <2>2, <2>3
<1> QED BY <1>1, <1>2 DEF Insert, NewRow

LEMMA InsertKeeps == ASSUME KeysInv, NEW o \in Ops, Insert(o), UNCHANGED setting PROVE KeysInv'
<1>1. budget' \in [Kinds -> Nat] BY FaultType DEF Insert, KeysInv
<1>2. UNCHANGED pageVars /\ excused' \in BOOLEAN /\ revived' \subseteq Ids
  BY DEF Insert, KeysInv, KeysTypeOK
<1>3. CASE rows' = rows /\ Answer(o, FALSE) BY <1>1, <1>2, <1>3, Answered, SameRows, KeysChange
<1>4. ASSUME NEW k \in Ids \ Made, NEW at \in {"answer", "created", "mark"},
             rows' = [rows EXCEPT ![k] = NewRow(ops[o])], ops' = [ops EXCEPT ![o].key = k, ![o].at = at]
      PROVE  KeysInv'
  <2>1. NewRow(ops[o]) \in Row /\ NewRow(ops[o]).made BY NewRowType DEF NewRow
  <2>2. rows' \in [Ids -> Row] BY <1>4, <2>1, TypeParts DEF KeysInv
  <2>3. \A j \in Ids : rows'[j] = IF j = k THEN NewRow(ops[o]) ELSE rows[j]
    BY <1>4, TypeParts DEF KeysInv
  <2>4. \A j \in Made : rows'[j].made BY <2>1, <2>3 DEF Made
  <2>5. \A j \in Ids : rows'[j].active => rows'[j].made BY <2>1, <2>3 DEF KeysInv, Known
  <2>6. k \in Made' /\ Made \subseteq Made' BY <2>1, <2>3, <2>4 DEF Made
  <2>7. ops[o] \in Fn BY TypeParts DEF KeysInv
  <2>8. k \in 0..MaxKeys /\ at \in Places BY KeyFacts DEF Places
  <2>9. /\ [ops[o] EXCEPT !.key = k, !.at = at] \in Fn
        /\ [ops[o] EXCEPT !.key = k, !.at = at].listed = ops[o].listed
        /\ [ops[o] EXCEPT !.key = k, !.at = at].key = k
    BY <2>7, <2>8 DEF Fn
  <2>10. \A p \in Ops : ops'[p] = IF p = o THEN [ops[o] EXCEPT !.key = k, !.at = at] ELSE ops[p]
    BY <1>4, TypeParts DEF KeysInv
  <2>11. ops' \in [Ops -> Fn] BY <1>4, <2>9, TypeParts DEF KeysInv
  <2>12. \A p \in Ops : ops'[p].listed = ops[p].listed BY <2>9, <2>10
  <2>13. \A p \in Ops : ops'[p].at \in Handling => ops'[p].key \in Made'
    BY <2>6, <2>9, <2>10 DEF KeysInv, Known
  <2> QED BY <1>1, <1>2, <2>2, <2>4, <2>5, <2>11, <2>12, <2>13, KeysChange
<1> QED BY <1>3, <1>4, InsertFacts

LEMMA ListKeeps == ASSUME KeysInv, NEW o \in Ops, ListTrustKeys(o), UNCHANGED setting PROVE KeysInv'
<1> DEFINE all == [known |-> Made, active |-> Active]
<1>1. ops[o] \in Fn /\ ops[o].listed.known \subseteq Made BY TypeParts DEF KeysInv, Known
<1>2. all \in Listing /\ all.known = Made BY DEF Listing, Made, Active
<1> HIDE DEF all
<1>3. PICK f \in {[ops[o] EXCEPT !.at = "loaded", !.listed = all],
                  [ops[o] EXCEPT !.at = "loaded", !.ok = FALSE]} : ops' = [ops EXCEPT ![o] = f]
  BY DEF ListTrustKeys, all
<1>4. f \in Fn /\ f.listed.known \subseteq Made /\ f.at = "loaded" BY <1>1, <1>2, <1>3 DEF Fn, Places
<1>5. f.at \notin Handling BY <1>4 DEF Handling
<1>6. budget' \in [Kinds -> Nat] BY FaultType DEF ListTrustKeys, KeysInv
<1>7. UNCHANGED <<rows, table, loading, error, excused, revived>> BY DEF ListTrustKeys, pageVars
<1>8. table' \in Listing /\ table'.known \subseteq Made /\ loading' \in BOOLEAN
      /\ error' \in BOOLEAN /\ excused' \in BOOLEAN /\ revived' \subseteq Ids
  BY <1>7 DEF KeysInv, Known, KeysTypeOK
<1> QED BY <1>3, <1>4, <1>5, <1>6, <1>7, <1>8, OneMoves

LEMMA SweepKeeps == ASSUME KeysInv, NEW k \in Ids, Sweep(k), UNCHANGED setting PROVE KeysInv'
<1>1. rows' = [rows EXCEPT ![k].active = FALSE, ![k].deadline = FALSE] BY DEF Sweep
<1>2. rows \in [Ids -> Row] /\ ops \in [Ops -> Fn] BY TypeParts DEF KeysInv
<1>3. /\ [rows[k] EXCEPT !.active = FALSE, !.deadline = FALSE] \in Row
      /\ [rows[k] EXCEPT !.active = FALSE, !.deadline = FALSE].made = rows[k].made
      /\ ~[rows[k] EXCEPT !.active = FALSE, !.deadline = FALSE].active
  BY <1>2 DEF Row
<1>4. \A j \in Ids : rows'[j] = IF j = k THEN [rows[k] EXCEPT !.active = FALSE, !.deadline = FALSE]
                                ELSE rows[j]
  BY <1>1, <1>2
<1>5. rows' \in [Ids -> Row] BY <1>1, <1>2, <1>3
<1>6. \A j \in Made : rows'[j].made BY <1>3, <1>4 DEF Made
<1>7. \A j \in Ids : rows'[j].active => rows'[j].made BY <1>3, <1>4 DEF KeysInv, Known
<1>8. Made \subseteq Made' BY <1>6 DEF Made
<1>9. UNCHANGED <<pageVars, ops, revived, budget>> /\ excused' \in BOOLEAN
  BY DEF Sweep, KeysInv, KeysTypeOK
<1> QED BY <1>2, <1>5, <1>6, <1>7, <1>8, <1>9, KeysChange DEF KeysInv, Known, KeysTypeOK

LEMMA KeysStep == KeysInv /\ KeysNext => KeysInv'
<1> SUFFICES ASSUME KeysInv, KeysNext PROVE KeysInv' OBVIOUS
<1>1. UNCHANGED setting BY DEF KeysNext
<1>2. ASSUME NEW o \in Ops, Serve(o) PROVE KeysInv'
  BY <1>1, <1>2, InsertKeeps, MarkKeeps, OthersKeeps, SelfKeeps, OffKeeps, ListKeeps DEF Serve
<1> QED BY <1>1, <1>2, AdministratorKeeps, PageKeeps, SweepKeeps DEF KeysNext
-----------------------------------------------------------------------------
(***************************************************************************)
(* The organization keeps a key.  KeyKept is not inductive: a sweep could  *)
(* take the last active key.  Unless something excused it, a key stays     *)
(* that no sweep will take, or whose sweep is an excuse, because the one   *)
(* operation that is running spares the key it is about.                   *)
(***************************************************************************)
Stays(k)   == rows[k].active /\ (rows[k].deadline => k \in revived)
Working(o) == ops[o].at \notin {"free", "load", "loaded"}

Alone == excused \/ \A o, p \in Ops : Working(o) /\ Working(p) => o = p
\* The key of a rotation is not among those it gives a deadline to.
NewIsFree ==
    \A o \in Ops : ops[o].at = "mark" =>
        excused \/ (rows[ops[o].key].active /\ ~rows[ops[o].key].deadline)
OneStays == excused \/ (\E k \in Ids : Stays(k)) \/ \E o \in Ops : ops[o].at = "self"
KeptInv  == Alone /\ NewIsFree /\ OneStays

LEMMA InitKept == KeysInit => KeptInv
<1> SUFFICES ASSUME KeysInit PROVE KeptInv OBVIOUS
<1>1. \A o \in Ops : ops[o].at = "free" BY DEF KeysInit, Free
<1>2. Stays(1)
  <2>1. 1 \in Ids /\ 1 <= setting.keys BY KeyFacts, TrustKeysAssumption DEF KeysInit, Settings
  <2>2. rows[1] = [NoRow EXCEPT !.made = TRUE, !.active = TRUE, !.public = TRUE]
    BY <2>1 DEF KeysInit
  <2> QED BY <2>1, <2>2 DEF NoRow, Stays
<1> QED BY <1>1, <1>2, KeyFacts DEF KeptInv, Alone, NewIsFree, OneStays, Working

\* Whatever excused it stays, and with it the invariant.
LEMMA Excused == ASSUME excused' PROVE KeptInv'
BY DEF KeptInv, Alone, NewIsFree, OneStays

\* A click starts an operation; beside a running one it is an excuse.
LEMMA ClickKeepsKey ==
    ASSUME KeysInv, KeptInv, NEW o \in Ops, NEW f, Click(o, f), f.at # "mark" PROVE KeptInv'
<1>1. CASE excused \/ Busy BY <1>1, Excused DEF Click
<1>2. CASE ~excused /\ ~Busy
  <2>1. \A p \in Ops : ~Working(p) BY <1>2 DEF Busy, Working
  <2>2. \A p \in Ops : p # o => ops'[p] = ops[p] BY TypeParts DEF Click, KeysInv
  <2>3. ops'[o] = f BY TypeParts DEF Click, KeysInv
  <2>4. \A p, q \in Ops : Working(p)' /\ Working(q)' => p = q BY <2>1, <2>2 DEF Working
  <2>5. \A p \in Ops : ops'[p].at # "mark" BY <2>1, <2>2, <2>3 DEF Working
  <2>6. \A p \in Ops : ops[p].at # "self" BY <2>1 DEF Working
  <2>7. PICK k \in Ids : Stays(k) BY <1>2, <2>6 DEF KeptInv, OneStays
  <2>8. Stays(k)' BY <2>7 DEF Click, Stays
  <2> QED BY <2>4, <2>5, <2>8 DEF KeptInv, Alone, NewIsFree, OneStays
<1> QED BY <1>1, <1>2

\* A step of one function that leaves every key that stays as it is.
LEMMA OneWorks ==
    ASSUME KeysInv, KeptInv, NEW o \in Ops, excused => excused',
           \A p \in Ops \ {o} : ops'[p] = ops[p],
           Working(o)' => Working(o), ops'[o].at = "mark" => excused',
           rows' = rows \/ Working(o),
           excused' \/ (\E k \in Ids : Stays(k)') \/ ops'[o].at = "self"
             \/ \E p \in Ops \ {o} : ops[p].at = "self"
    PROVE  KeptInv'
<1>1. CASE excused' BY <1>1, Excused
<1>2. CASE ~excused'
  <2>1. \A p, q \in Ops : Working(p)' /\ Working(q)' => p = q BY <1>2 DEF KeptInv, Alone, Working
  <2>2. ASSUME NEW p \in Ops, ops'[p].at = "mark"
        PROVE  rows'[ops'[p].key].active /\ ~rows'[ops'[p].key].deadline
    <3>1. p # o /\ ops'[p] = ops[p] BY <1>2, <2>2
    <3>2. Working(p) BY <2>2, <3>1 DEF Working
    <3>3. ~Working(o) BY <1>2, <3>1, <3>2 DEF KeptInv, Alone
    <3> QED BY <1>2, <2>2, <3>1, <3>3 DEF KeptInv, NewIsFree
  <2>3. (\E k \in Ids : Stays(k)') \/ \E p \in Ops : ops'[p].at = "self" BY <1>2
  <2> QED BY <2>1, <2>2, <2>3 DEF KeptInv, Alone, NewIsFree, OneStays
<1> QED BY <1>1, <1>2

\* The same when the function was not between the two statements of an
\* activation, and the keys are not touched.
LEMMA OneRests ==
    ASSUME KeysInv, KeptInv, NEW o \in Ops, excused => excused', UNCHANGED <<rows, revived>>,
           \A p \in Ops \ {o} : ops'[p] = ops[p], Working(o)' => Working(o), ops'[o].at # "mark",
           ops[o].at = "self" => excused'
    PROVE  KeptInv'
<1>1. \A k \in Ids : Stays(k) => Stays(k)' BY DEF Stays
<1> QED BY <1>1, OneWorks DEF KeptInv, OneStays

LEMMA PageKeepsKey == ASSUME KeysInv, KeptInv, NEW o \in Ops, Page(o) PROVE KeptInv'
<1>1. ops \in [Ops -> Fn] BY TypeParts DEF KeysInv
<1>2. UNCHANGED <<rows, revived, excused>> BY DEF Page, ActivateCreated, Report, LoadAll
<1>3. \A p \in Ops \ {o} : ops'[p] = ops[p]
  BY <1>1 DEF Page, ActivateCreated, Report, StartLoad, LoadAll
<1>4. CASE ActivateCreated(o)
  <2>1. ops'[o].at \in {"others", "answer"} BY <1>1, <1>4 DEF ActivateCreated, Fn
  <2>2. Working(o) /\ ops[o].at # "self" BY <1>4 DEF ActivateCreated, Working
  <2> QED BY <1>2, <1>3, <2>1, <2>2, OneRests
<1>5. CASE Report(o)
  <2>1. ops'[o].at \in {"load", "free"} BY <1>1, <1>5 DEF Report, StartLoad, Free
  <2>2. ~Working(o)' /\ ops[o].at # "self" BY <1>5, <2>1 DEF Report, Working
  <2> QED BY <1>2, <1>3, <2>1, <2>2, OneRests
<1>6. CASE LoadAll(o)
  <2>1. ops'[o].at = "free" BY <1>1, <1>6 DEF LoadAll, Free
  <2>2. ~Working(o)' /\ ops[o].at # "self" BY <1>6, <2>1 DEF LoadAll, Working
  <2> QED BY <1>2, <1>3, <2>1, <2>2, OneRests
<1> QED BY <1>4, <1>5, <1>6 DEF Page

LEMMA AdministratorKeepsKey == ASSUME KeysInv, KeptInv, NEW o \in Ops, Administrator(o) PROVE KeptInv'
<1>1. CASE Refresh(o)
  <2>1. ops \in [Ops -> Fn] BY TypeParts DEF KeysInv
  <2>2. ops'[o].at = "load" /\ \A p \in Ops \ {o} : ops'[p] = ops[p]
    BY <1>1, <2>1 DEF Refresh, StartLoad, Free
  <2>3. ops[o].at = "free" BY <1>1 DEF Refresh, Idle
  <2>4. UNCHANGED <<rows, excused, revived>> BY <1>1 DEF Refresh
  <2> QED BY <2>2, <2>3, <2>4, OneRests DEF Working
<1>2. ASSUME NEW f, Click(o, f), f.at # "mark" PROVE KeptInv' BY <1>2, ClickKeepsKey
<1>3. ASSUME NEW kms \in BOOLEAN, NEW public \in BOOLEAN, CreateKey(o, kms, public) PROVE KeptInv'
  <2> DEFINE f == [Free EXCEPT !.at = "insert", !.act = "create", !.kms = kms, !.public = public]
  <2>1. f.at # "mark" BY DEF Free
  <2>2. Click(o, f) BY <1>3 DEF CreateKey
  <2> HIDE DEF f
  <2> QED BY <1>2, <2>1, <2>2
<1>4. ASSUME NEW kms \in BOOLEAN, NEW grace \in Graces, RotateKey(o, kms, grace) PROVE KeptInv'
  <2> DEFINE f == [Free EXCEPT !.at = "insert", !.act = "rotate", !.kms = kms, !.public = TRUE,
                               !.grace = HasGrace(grace), !.exclusive = kms]
  <2>1. f.at # "mark" BY DEF Free
  <2>2. Click(o, f) BY <1>4 DEF RotateKey
  <2> HIDE DEF f
  <2> QED BY <1>2, <2>1, <2>2
<1>5. ASSUME NEW k \in Ids, NEW grace \in Graces, NEW exclusive \in BOOLEAN,
             Activate(o, k, grace, exclusive)
      PROVE  KeptInv'
  <2> DEFINE f == [Free EXCEPT !.at = IF exclusive THEN "others" ELSE "self", !.act = "activate",
                               !.key = k, !.grace = HasGrace(grace), !.exclusive = exclusive]
  <2>1. f.at # "mark" BY DEF Free
  <2>2. Click(o, f) BY <1>5 DEF Activate
  <2> HIDE DEF f
  <2> QED BY <1>2, <2>1, <2>2
<1>6. ASSUME NEW k \in Ids, Deactivate(o, k) PROVE KeptInv'
  <2> DEFINE f == [Free EXCEPT !.at = "off", !.act = "deactivate", !.key = k]
  <2>1. f.at # "mark" BY DEF Free
  <2>2. Click(o, f) BY <1>6 DEF Deactivate
  <2> HIDE DEF f
  <2> QED BY <1>2, <2>1, <2>2
<1> QED BY <1>1, <1>3, <1>4, <1>5, <1>6 DEF Administrator

-----------------------------------------------------------------------------
\* Only a creation or a rotation inserts a key.
Purpose == \A o \in Ops : ops[o].at = "insert" => ops[o].act \in {"create", "rotate"}

LEMMA InitPurpose == KeysInit => Purpose
BY DEF KeysInit, Free, Purpose

\* An answer leaves the other functions as they are.
LEMMA AnswerFacts ==
    ASSUME KeysInv, NEW o \in Ops, Answer(o, TRUE) \/ Answer(o, FALSE)
    PROVE  ops'[o].at = "answer" /\ \A p \in Ops \ {o} : ops'[p] = ops[p]
<1>1. ops \in [Ops -> Fn] BY TypeParts DEF KeysInv
<1> QED BY <1>1 DEF Answer, Fn

LEMMA PurposeStep == ASSUME KeysInv, Purpose, KeysNext PROVE Purpose'
<1>1. ops \in [Ops -> Fn] BY TypeParts DEF KeysInv
<1>2. ASSUME NEW o \in Ops, NEW f, ops' = [ops EXCEPT ![o] = f],
             f.at = "insert" => f.act \in {"create", "rotate"}
      PROVE  Purpose'
  BY <1>1, <1>2 DEF Purpose
<1>3. ASSUME NEW o \in Ops, Administrator(o) PROVE Purpose'
  <2>1. ASSUME NEW kms \in BOOLEAN, NEW public \in BOOLEAN, CreateKey(o, kms, public) PROVE Purpose'
    <3> DEFINE f == [Free EXCEPT !.at = "insert", !.act = "create", !.kms = kms, !.public = public]
    <3>1. f.act = "create" BY DEF Free
    <3>2. ops' = [ops EXCEPT ![o] = f] BY <2>1 DEF CreateKey, Click
    <3> HIDE DEF f
    <3> QED BY <1>2, <3>1, <3>2
  <2>2. ASSUME NEW kms \in BOOLEAN, NEW grace \in Graces, RotateKey(o, kms, grace) PROVE Purpose'
    <3> DEFINE f == [Free EXCEPT !.at = "insert", !.act = "rotate", !.kms = kms, !.public = TRUE,
                                 !.grace = HasGrace(grace), !.exclusive = kms]
    <3>1. f.act = "rotate" BY DEF Free
    <3>2. ops' = [ops EXCEPT ![o] = f] BY <2>2 DEF RotateKey, Click
    <3> HIDE DEF f
    <3> QED BY <1>2, <3>1, <3>2
  <2>3. ASSUME NEW k \in Ids, NEW grace \in Graces, NEW exclusive \in BOOLEAN,
               Activate(o, k, grace, exclusive)
        PROVE  Purpose'
    <3> DEFINE f == [Free EXCEPT !.at = IF exclusive THEN "others" ELSE "self", !.act = "activate",
                                 !.key = k, !.grace = HasGrace(grace), !.exclusive = exclusive]
    <3>1. f.at # "insert" BY DEF Free
    <3>2. ops' = [ops EXCEPT ![o] = f] BY <2>3 DEF Activate, Click
    <3> HIDE DEF f
    <3> QED BY <1>2, <3>1, <3>2
  <2>4. ASSUME NEW k \in Ids, Deactivate(o, k) PROVE Purpose'
    <3> DEFINE f == [Free EXCEPT !.at = "off", !.act = "deactivate", !.key = k]
    <3>1. f.at # "insert" BY DEF Free
    <3>2. ops' = [ops EXCEPT ![o] = f] BY <2>4 DEF Deactivate, Click
    <3> HIDE DEF f
    <3> QED BY <1>2, <3>1, <3>2
  <2>5. CASE Refresh(o) BY <1>2, <2>5 DEF Refresh, StartLoad, Free
  <2> QED BY <1>3, <2>1, <2>2, <2>3, <2>4, <2>5 DEF Administrator
<1>4. ASSUME NEW o \in Ops, Page(o) \/ Serve(o) PROVE Purpose'
  <2> DEFINE Moves == ops'[o].at # "insert" /\ \A p \in Ops \ {o} : ops'[p] = ops[p]
  <2>1. ASSUME Moves PROVE Purpose' BY <2>1 DEF Purpose
  <2>2. CASE ActivateCreated(o)
    <3>1. Moves BY <1>1, <2>2 DEF ActivateCreated, Fn
    <3> QED BY <2>1, <3>1
  <2>3. CASE Report(o)
    <3>1. Moves BY <1>1, <2>3 DEF Report, StartLoad, Free
    <3> QED BY <2>1, <3>1
  <2>4. CASE LoadAll(o)
    <3>1. Moves BY <1>1, <2>4 DEF LoadAll, Free
    <3> QED BY <2>1, <3>1
  <2>5. CASE Insert(o)
    <3>1. CASE Answer(o, FALSE) BY <2>1, <3>1, AnswerFacts
    <3>2. ASSUME NEW k \in Ids, NEW at \in {"answer", "created", "mark"},
                 ops' = [ops EXCEPT ![o].key = k, ![o].at = at]
          PROVE  Moves
      BY <1>1, <3>2 DEF Fn
    <3> HIDE DEF Moves
    <3> QED BY <2>1, <2>5, <3>1, <3>2, InsertFacts
  <2>6. CASE Mark(o) BY <2>1, <2>6, AnswerFacts DEF Mark
  <2>7. CASE Others(o)
    <3>1. Moves BY <1>1, <2>7 DEF Others, Step, Fn
    <3> QED BY <2>1, <3>1
  <2>8. CASE Self(o)
    <3>1. Answer(o, TRUE) \/ Answer(o, FALSE) BY <2>8 DEF Self
    <3> QED BY <2>1, <3>1, AnswerFacts
  <2>9. CASE Off(o) BY <2>1, <2>9, AnswerFacts DEF Off
  <2>10. CASE ListTrustKeys(o)
    <3>1. Moves BY <1>1, <2>10 DEF ListTrustKeys, Fn
    <3> QED BY <2>1, <3>1
  <2> QED BY <1>4, <2>2, <2>3, <2>4, <2>5, <2>6, <2>7, <2>8, <2>9, <2>10 DEF Page, Serve
<1>5. ASSUME NEW k \in Ids, Sweep(k) PROVE Purpose' BY <1>5 DEF Sweep, Purpose
<1> QED BY <1>3, <1>4, <1>5 DEF KeysNext

-----------------------------------------------------------------------------
(* The handlers, of a database that takes several active keys.              *)

LEMMA InsertKeepsKey == ASSUME KeysInv, KeptInv, Purpose, NEW o \in Ops, Insert(o) PROVE KeptInv'
<1>1. Working(o) /\ ops[o].at # "self" BY DEF Insert, Working
<1>2. UNCHANGED <<excused, revived>> BY DEF Insert
<1>3. CASE rows' = rows /\ Answer(o, FALSE) BY <1>1, <1>2, <1>3, AnswerFacts, OneRests
<1>4. ASSUME NEW k \in Ids \ Made, NEW at \in {"answer", "created", "mark"},
             rows' = [rows EXCEPT ![k] = NewRow(ops[o])], ops' = [ops EXCEPT ![o].key = k, ![o].at = at],
             at = "mark" => ops[o].act # "create" /\ ~ops[o].kms
      PROVE  KeptInv'
  <2>1. ops \in [Ops -> Fn] /\ rows \in [Ids -> Row] BY TypeParts DEF KeysInv
  <2>2. ops'[o].at = at /\ ops'[o].key = k /\ \A p \in Ops \ {o} : ops'[p] = ops[p]
    BY <1>4, <2>1 DEF Fn
  <2>3. \A j \in Ids : j # k => rows'[j] = rows[j] BY <1>4, <2>1
  <2>4. \A j \in Ids : Stays(j) => Stays(j)'
    <3>1. ~rows[k].active BY DEF KeysInv, Known, Made
    <3> QED BY <1>2, <2>3, <3>1 DEF Stays
  <2>5. excused' \/ (\E j \in Ids : Stays(j)') \/ \E p \in Ops \ {o} : ops[p].at = "self"
    BY <1>1, <1>2, <2>4 DEF KeptInv, OneStays
  <2>6. CASE at # "mark" \/ excused BY <1>1, <1>2, <2>2, <2>5, <2>6, OneWorks
  <2>7. CASE at = "mark" /\ ~excused
    <3>1. ops[o].at = "insert" BY DEF Insert
    <3>2. ops[o].act = "rotate" /\ ~ops[o].kms BY <1>4, <2>7, <3>1 DEF Purpose
    <3>3. rows'[k] = NewRow(ops[o]) BY <1>4, <2>1
    <3>4. rows'[k].active /\ ~rows'[k].deadline
      <4>1. NewRow(ops[o]).active = (ops[o].act = "rotate" /\ ~ops[o].kms) BY DEF NewRow
      <4>2. NewRow(ops[o]).deadline = FALSE BY DEF NewRow
      <4> QED BY <3>2, <3>3, <4>1, <4>2
    <3>5. \A p, q \in Ops : Working(p)' /\ Working(q)' => p = q
      BY <1>1, <2>2, <2>7 DEF KeptInv, Alone, Working
    <3>6. \A p \in Ops : ops'[p].at = "mark" => p = o BY <2>2, <3>5 DEF Working
    <3>7. Stays(k)' BY <3>4 DEF Stays
    <3> QED BY <2>2, <3>4, <3>5, <3>6, <3>7 DEF KeptInv, Alone, NewIsFree, OneStays
  <2> QED BY <2>6, <2>7
<1> QED BY <1>3, <1>4, InsertFacts

\* Giving the other active keys a deadline spares the one that is new.
LEMMA MarkKeepsKey == ASSUME KeysInv, KeptInv, NEW o \in Ops, Mark(o) PROVE KeptInv'
<1>1. Working(o) /\ ops[o].at = "mark" BY DEF Mark, Working
<1>2. UNCHANGED <<excused, revived>> BY DEF Mark
<1>3. ops'[o].at = "answer" /\ \A p \in Ops \ {o} : ops'[p] = ops[p] BY AnswerFacts DEF Mark
<1>4. ops[o].key \in Ids BY <1>1 DEF KeysInv, Known, Handling, Made
<1>5. CASE excused BY <1>2, <1>5, Excused
<1>6. CASE ~excused
  <2>1. rows[ops[o].key].active /\ ~rows[ops[o].key].deadline BY <1>1, <1>6 DEF KeptInv, NewIsFree
  <2>2. rows' = rows \/ rows' = Limited(ops[o].key) BY DEF Mark
  <2>3. rows'[ops[o].key].active /\ ~rows'[ops[o].key].deadline
    BY <1>4, <2>1, <2>2, LimitedType
  <2>4. PICK k \in Ids : k = ops[o].key BY <1>4
  <2>5. Stays(k)' BY <2>3, <2>4 DEF Stays
  <2> QED BY <1>1, <1>2, <1>3, <2>5, OneWorks
<1> QED BY <1>5, <1>6

LEMMA OthersKeepsKey == ASSUME KeysInv, KeptInv, NEW o \in Ops, Others(o) PROVE KeptInv'
<1>1. ops \in [Ops -> Fn] BY TypeParts DEF KeysInv
<1>2. ops'[o].at = "self" /\ \A p \in Ops \ {o} : ops'[p] = ops[p] BY <1>1 DEF Others, Step, Fn
<1>3. Working(o) /\ UNCHANGED excused BY DEF Others, Working
<1> QED BY <1>2, <1>3, OneWorks

LEMMA SelfKeepsKey ==
    ASSUME KeysInv, KeptInv, ~setting.oneActive, NEW o \in Ops, Self(o) PROVE KeptInv'
<1> DEFINE k == ops[o].key
<1>1. Working(o) BY DEF Self, Working
<1>2. ops'[o].at = "answer" /\ \A p \in Ops \ {o} : ops'[p] = ops[p] BY AnswerFacts DEF Self
<1>3. Allowed(k) BY DEF Allowed
<1>4. k \in Made /\ k \in Ids BY DEF Self, KeysInv, Known, Handling, Made
<1>5. CASE excused' BY <1>5, Excused
<1>6. CASE ~excused'
  <2>1. /\ rows' = [rows EXCEPT ![k].active = TRUE] /\ excused' = excused
        /\ revived' = IF rows[k].deadline THEN revived \cup {k} ELSE revived
    BY <1>3, <1>6 DEF Self
  <2>2. rows'[k] = [rows[k] EXCEPT !.active = TRUE] BY <1>4, <2>1, Switched
  <2>3. rows[k] \in Row BY <1>4, TypeParts DEF KeysInv
  <2>4. rows'[k].active /\ rows'[k].deadline = rows[k].deadline BY <2>2, <2>3 DEF Row
  <2>5. \E j \in Ids : Stays(j)' BY <1>4, <2>1, <2>4 DEF Stays
  <2> HIDE DEF k
  <2> QED BY <1>1, <1>2, <2>1, <2>5, OneWorks
<1> QED BY <1>5, <1>6

LEMMA OffKeepsKey == ASSUME KeysInv, KeptInv, NEW o \in Ops, Off(o) PROVE KeptInv'
<1>1. Working(o) /\ ops[o].at # "self" BY DEF Off, Working
<1>2. ops'[o].at = "answer" /\ \A p \in Ops \ {o} : ops'[p] = ops[p] BY AnswerFacts DEF Off
<1>3. excused' \/ UNCHANGED <<rows, revived, excused>> BY DEF Off
<1> QED BY <1>1, <1>2, <1>3, Excused, OneRests

LEMMA ListKeepsKey == ASSUME KeysInv, KeptInv, NEW o \in Ops, ListTrustKeys(o) PROVE KeptInv'
<1>1. ops \in [Ops -> Fn] BY TypeParts DEF KeysInv
<1>2. ops'[o].at = "loaded" /\ \A p \in Ops \ {o} : ops'[p] = ops[p]
  BY <1>1 DEF ListTrustKeys, Fn
<1>3. ops[o].at # "self" /\ UNCHANGED <<rows, revived, excused>> BY DEF ListTrustKeys
<1> QED BY <1>2, <1>3, OneRests DEF Working

\* The sweep of a key that stays is an excuse.
LEMMA SweepKeepsKey == ASSUME KeysInv, KeptInv, NEW k \in Ids, Sweep(k) PROVE KeptInv'
<1>1. CASE excused' BY <1>1, Excused
<1>2. CASE ~excused'
  <2>1. ~excused /\ k \notin revived /\ rows[k].deadline /\ UNCHANGED <<ops, revived>>
    BY <1>2 DEF Sweep
  <2>2. \A j \in Ids : j # k => rows'[j] = rows[j] BY TypeParts DEF Sweep, KeysInv
  <2>3. \A j \in Ids : Stays(j) => Stays(j)' BY <2>1, <2>2 DEF Stays
  <2>4. ASSUME NEW o \in Ops, ops[o].at = "mark"
        PROVE  rows'[ops[o].key].active /\ ~rows'[ops[o].key].deadline
    <3>1. ops[o].key \in Ids BY <2>4 DEF KeysInv, Known, Handling, Made
    <3>2. rows[ops[o].key].active /\ ~rows[ops[o].key].deadline
      BY <2>1, <2>4 DEF KeptInv, NewIsFree
    <3> QED BY <2>1, <2>2, <3>1, <3>2
  <2>5. Alone' BY <2>1 DEF KeptInv, Alone, Working
  <2>6. NewIsFree' BY <2>1, <2>4 DEF NewIsFree
  <2>7. OneStays' BY <2>1, <2>3 DEF KeptInv, OneStays
  <2> QED BY <2>5, <2>6, <2>7 DEF KeptInv
<1> QED BY <1>1, <1>2

LEMMA KeptStep == KeysInv /\ Purpose /\ KeptInv /\ ~setting.oneActive /\ KeysNext => KeptInv'
<1> SUFFICES ASSUME KeysInv, Purpose, KeptInv, ~setting.oneActive, KeysNext PROVE KeptInv' OBVIOUS
<1>1. ASSUME NEW o \in Ops, Serve(o) PROVE KeptInv'
  BY <1>1, InsertKeepsKey, MarkKeepsKey, OthersKeepsKey, SelfKeepsKey, OffKeepsKey, ListKeepsKey DEF Serve
<1> QED BY <1>1, AdministratorKeepsKey, PageKeepsKey, SweepKeepsKey DEF KeysNext

\* A key that stays is active.
LEMMA KeptImplies == KeptInv => KeyKept
BY DEF KeptInv, OneStays, Stays, KeyKept, Active
=============================================================================
