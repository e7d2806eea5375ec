------------------------ MODULE TrustVerifier_proofs ------------------------
(***************************************************************************)
(* Proofs about TrustVerifier, for any number of keys, functions of the    *)
(* page and verifications: its types, and that rotating and activating     *)
(* keys one at a time keeps a signing key.  What the keys do alone is in   *)
(* TrustKeys_proofs.                                                       *)
(***************************************************************************)
EXTENDS TrustVerifier, TrustKeys_proofs

KeySet == [cached : BOOLEAN, keys : SUBSET Ids]
Held   == [ok : BOOLEAN, fresh : BOOLEAN, keys : SUBSET Ids]
Call   == [at : {"idle", "ask", "store", "answered", "look", "judge"}, forCache : BOOLEAN,
           spare : BOOLEAN, keys : SUBSET Ids]

-----------------------------------------------------------------------------
(***************************************************************************)
(* Types.                                                                  *)
(***************************************************************************)
ReaderTypes ==
    /\ published \in KeySet /\ held \in Held /\ (held.fresh => held.ok)
    /\ reqs \in [Requests -> Call]
TypeInv == KeysInv /\ ReaderTypes

LEMMA TypeImplies == TypeInv => TypeOK
BY DEF TypeInv, KeysInv, ReaderTypes, TypeOK, KeySet, Held, Call

LEMMA NoReqType == NoReq \in Call
BY DEF NoReq, Call

LEMMA PublicType == \A n : NewestPublic(n) \in SUBSET Ids
BY DEF NewestPublic, Active

LEMMA InitTypes == Init => TypeInv
<1> SUFFICES ASSUME Init PROVE TypeInv OBVIOUS
<1>1. KeysInv BY InitKeys DEF Init
<1>2. published \in KeySet
  <2>1. setting.cached \in BOOLEAN BY <1>1 DEF KeysInv, KeysTypeOK, Settings
  <2>2. Current \in SUBSET Ids BY PublicType DEF Current
  <2> QED BY <2>1, <2>2 DEF Init, KeySet
<1>3. held \in Held /\ ~held.fresh BY DEF Init, Held
<1>4. reqs \in [Requests -> Call] BY NoReqType DEF Init
<1> QED BY <1>1, <1>2, <1>3, <1>4 DEF TypeInv, ReaderTypes

\* A step outside the keys only spends.
LEMMA SameRest ==
    ASSUME KeysInv, UNCHANGED keyVars, UNCHANGED budget \/ Fault PROVE KeysInv'
<1>1. budget' \in [Kinds -> Nat] BY FaultType DEF KeysInv
<1> QED BY <1>1 DEF KeysInv, KeysTypeOK, Known, Made, keyVars, pageVars

\* One verification moves.
LEMMA OneCall ==
    ASSUME TypeInv, NEW v \in Requests, NEW f \in Call, Becomes(v, f),
           UNCHANGED keyVars, UNCHANGED budget \/ Fault,
           published' \in KeySet, held' \in Held, held'.fresh => held'.ok
    PROVE  TypeInv'
<1>1. KeysInv' BY SameRest DEF TypeInv
<1>2. reqs' \in [Requests -> Call] BY DEF TypeInv, ReaderTypes, Becomes
<1> QED BY <1>1, <1>2 DEF TypeInv, ReaderTypes

LEMMA StartTypes ==
    ASSUME TypeInv, NEW v \in Requests, VerifyCached(v) \/ Verify(v) PROVE TypeInv'
<1>1. held \in Held /\ published \in KeySet /\ (held.fresh => held.ok) BY DEF TypeInv, ReaderTypes
<1>2. UNCHANGED <<keyVars, published, held, budget>> BY DEF VerifyCached, Verify
<1>3. CASE VerifyCached(v)
  <2> DEFINE f == [NoReq EXCEPT !.at = IF held.fresh THEN "look" ELSE "ask", !.forCache = ~held.fresh,
                                !.spare = ~held.fresh /\ held.ok, !.keys = held.keys]
  <2>1. (~held.fresh) \in BOOLEAN /\ (~held.fresh /\ held.ok) \in BOOLEAN OBVIOUS
  <2>2. held.keys \in SUBSET Ids BY <1>1 DEF Held
  <2>3. f \in Call BY <2>1, <2>2 DEF NoReq, Call
  <2>4. Becomes(v, f) BY <1>3 DEF VerifyCached
  <2> HIDE DEF f
  <2> QED BY <1>1, <1>2, <2>3, <2>4, OneCall
<1>4. CASE Verify(v)
  <2> DEFINE f == [NoReq EXCEPT !.at = "ask"]
  <2>1. f \in Call BY DEF NoReq, Call
  <2>2. Becomes(v, f) BY <1>4 DEF Verify
  <2> HIDE DEF f
  <2> QED BY <1>1, <1>2, <2>1, <2>2, OneCall
<1> QED BY <1>3, <1>4

LEMMA OrgJWKSTypes == ASSUME TypeInv, NEW v \in Requests, OrgJWKS(v) PROVE TypeInv'
<1>1. reqs[v] \in Call /\ published \in KeySet /\ held \in Held /\ (held.fresh => held.ok)
  BY DEF TypeInv, ReaderTypes
<1>2. UNCHANGED <<keyVars, published, held>> /\ (UNCHANGED budget \/ Fault) BY DEF OrgJWKS
<1>3. \/ FromRedis(v) \/ QueryFails(v) \/ FetchFails(v)
      \/ \E n \in Nat : FromRows(v, n)
  BY TrustVerifierAssumption DEF OrgJWKS
<1>4. PICK K \in SUBSET Ids : \/ Becomes(v, [reqs[v] EXCEPT !.at = "answered", !.keys = K])
                             \/ Becomes(v, [reqs[v] EXCEPT !.at = "store", !.keys = K])
                             \/ Becomes(v, [reqs[v] EXCEPT !.at = "look"])
                             \/ Becomes(v, NoReq)
  BY <1>1, <1>3, PublicType DEF FromRedis, QueryFails, FetchFails, FromRows, KeySet
<1>5. PICK f \in {[reqs[v] EXCEPT !.at = "answered", !.keys = K],
                  [reqs[v] EXCEPT !.at = "store", !.keys = K],
                  [reqs[v] EXCEPT !.at = "look"], NoReq} : Becomes(v, f)
  BY <1>4
<1>6. f \in Call BY <1>1, <1>5, NoReqType DEF Call
<1> QED BY <1>1, <1>2, <1>5, <1>6, OneCall

LEMMA StoreJWKSTypes == ASSUME TypeInv, NEW v \in Requests, StoreJWKS(v) PROVE TypeInv'
<1> DEFINE f == [reqs[v] EXCEPT !.at = "answered"]
<1>1. reqs[v] \in Call /\ published \in KeySet /\ held \in Held /\ (held.fresh => held.ok)
  BY DEF TypeInv, ReaderTypes
<1>2. f \in Call BY <1>1 DEF Call
<1>3. Becomes(v, f) /\ UNCHANGED <<keyVars, held>> /\ (UNCHANGED budget \/ Fault) BY DEF StoreJWKS
<1>4. published' \in KeySet
  <2>1. reqs[v].keys \in SUBSET Ids BY <1>1 DEF Call
  <2>2. published' = [cached |-> TRUE, keys |-> reqs[v].keys] \/ UNCHANGED published BY DEF StoreJWKS
  <2>3. [cached |-> TRUE, keys |-> reqs[v].keys] \in KeySet BY <2>1 DEF KeySet
  <2> QED BY <1>1, <2>2, <2>3
<1> HIDE DEF f
<1> QED BY <1>1, <1>2, <1>3, <1>4, OneCall

LEMMA FetchedTypes == ASSUME TypeInv, NEW v \in Requests, Fetched(v) PROVE TypeInv'
<1>1. reqs[v] \in Call /\ published \in KeySet /\ held \in Held /\ (held.fresh => held.ok)
  BY DEF TypeInv, ReaderTypes
<1>2. PICK f \in {[reqs[v] EXCEPT !.at = "look"], [reqs[v] EXCEPT !.at = "judge"]} : Becomes(v, f)
  BY DEF Fetched
<1>3. f \in Call BY <1>1, <1>2 DEF Call
<1>4. reqs[v].keys \in SUBSET Ids BY <1>1 DEF Call
<1>5. held' = [ok |-> TRUE, fresh |-> TRUE, keys |-> reqs[v].keys] \/ UNCHANGED held BY DEF Fetched
<1>6. held' \in Held /\ (held'.fresh => held'.ok)
  <2> DEFINE h == [ok |-> TRUE, fresh |-> TRUE, keys |-> reqs[v].keys]
  <2>1. h \in Held /\ h.ok BY <1>4 DEF Held
  <2> HIDE DEF h
  <2>2. held' = h \/ held' = held BY <1>5 DEF h
  <2> QED BY <1>1, <2>1, <2>2
<1>7. UNCHANGED <<keyVars, published, budget>> BY DEF Fetched
<1> QED BY <1>1, <1>2, <1>3, <1>6, <1>7, OneCall

LEMMA LookTypes == ASSUME TypeInv, NEW v \in Requests, LookUp(v) \/ Judge(v) PROVE TypeInv'
<1>1. published \in KeySet /\ held \in Held /\ (held.fresh => held.ok) BY DEF TypeInv, ReaderTypes
<1>2. PICK f \in {NoReq, [NoReq EXCEPT !.at = "ask"]} : Becomes(v, f) BY DEF LookUp, Judge
<1>3. f \in Call
  <2>1. [NoReq EXCEPT !.at = "ask"] \in Call BY DEF NoReq, Call
  <2> QED BY <1>2, <2>1, NoReqType
<1>4. UNCHANGED <<keyVars, published, held, budget>> BY DEF LookUp, Judge
<1> QED BY <1>1, <1>2, <1>3, <1>4, OneCall

LEMMA ExpireTypes == ASSUME TypeInv, ExpirePublished \/ ExpireHeld PROVE TypeInv'
<1>1. KeysInv' BY SameRest DEF ExpirePublished, ExpireHeld, TypeInv
<1>2. held \in Held /\ (held.fresh => held.ok) BY DEF TypeInv, ReaderTypes
<1>3. published' \in KeySet
  <2>1. [cached |-> FALSE, keys |-> {}] \in KeySet BY DEF KeySet
  <2> QED BY <2>1 DEF ExpirePublished, ExpireHeld, TypeInv, ReaderTypes
<1>4. held' \in Held /\ (held'.fresh => held'.ok)
  <2>1. held' = [held EXCEPT !.fresh = FALSE] \/ UNCHANGED held BY DEF ExpirePublished, ExpireHeld
  <2> QED BY <1>2, <2>1 DEF Held
<1>5. UNCHANGED reqs BY DEF ExpirePublished, ExpireHeld
<1> QED BY <1>1, <1>3, <1>4, <1>5 DEF TypeInv, ReaderTypes

LEMMA TypesStep == ASSUME TypeInv, [Next]_vars PROVE TypeInv'
<1>1. CASE KeysNext /\ UNCHANGED verifierVars BY <1>1, KeysStep DEF verifierVars, TypeInv, ReaderTypes
<1>2. CASE UNCHANGED vars
  <2>1. KeysInv' BY <1>2, SameRest DEF vars, TypeInv
  <2> QED BY <1>2, <2>1 DEF vars, verifierVars, TypeInv, ReaderTypes
<1>3. ASSUME NEW v \in Requests, Run(v) PROVE TypeInv'
  BY <1>3, OrgJWKSTypes, StoreJWKSTypes, FetchedTypes, LookTypes DEF Run
<1> QED BY <1>1, <1>2, <1>3, StartTypes, ExpireTypes DEF Next

\* Every variable has the type TypeOK gives it; in particular the TrustCache never
\* takes a key set for fresh that it does not hold.
THEOREM TypeCorrect == Spec => []TypeOK
<1>1. Spec => []TypeInv BY InitTypes, TypesStep, PTL DEF Spec
<1> QED BY <1>1, TypeImplies, PTL

-----------------------------------------------------------------------------
(***************************************************************************)
(* The signing key.  The readers of the keys leave them alone, so what     *)
(* TrustKeys_proofs shows of a step of the keys holds of every step.       *)
(***************************************************************************)
KeptWhere == Purpose /\ (~setting.oneActive => KeptInv)

LEMMA KeysAlone == Next => (KeysNext /\ UNCHANGED verifierVars) \/ UNCHANGED keyVars
BY DEF Next, VerifyCached, Verify, Run, OrgJWKS, StoreJWKS, Fetched, LookUp, Judge, ExpirePublished,
       ExpireHeld

\* Publishing and verifying do to the keys nothing that the page, its handlers and
\* the sweeper could not do alone: every behaviour of the composition is one of
\* the keys, as OrgJWKS only reads them.
THEOREM KeysImplemented == Spec => KeysInit /\ [][KeysNext]_keyVars
<1>1. Init => KeysInit BY DEF Init
<1>2. [Next]_vars => [KeysNext]_keyVars BY KeysAlone DEF vars
<1> QED BY <1>1, <1>2, PTL DEF Spec

\* However rotations, activations, loads of the page and sweeps interleave, an
\* organization whose database takes several active keys is left without one
\* only for the reasons KeyKept names (RotateTrustKey, ActivateTrustKey and the
\* sweeper of main.go).
THEOREM KeyStays == Spec => []SigningKeyKept
<1>1. Init => KeptWhere BY InitPurpose, InitKept DEF Init, KeptWhere
<1>2. TypeInv /\ KeptWhere /\ [Next]_vars => KeptWhere'
  <2> SUFFICES ASSUME TypeInv, KeptWhere, [Next]_vars PROVE KeptWhere' OBVIOUS
  <2>1. CASE KeysNext
    <3>1. UNCHANGED setting BY <2>1 DEF KeysNext
    <3>2. Purpose' BY <2>1, PurposeStep DEF TypeInv, KeptWhere
    <3> QED BY <2>1, <3>1, <3>2, KeptStep DEF TypeInv, KeptWhere
  <2>2. CASE UNCHANGED keyVars
    BY <2>2 DEF keyVars, KeptWhere, Purpose, KeptInv, Alone, NewIsFree, OneStays, Stays, Working
  <2> QED BY <2>1, <2>2, KeysAlone DEF vars
<1>3. KeptWhere => SigningKeyKept BY KeptImplies DEF KeptWhere, SigningKeyKept
<1>4. Spec => []TypeInv BY InitTypes, TypesStep, PTL DEF Spec
<1> QED BY <1>1, <1>2, <1>3, <1>4, PTL DEF Spec

=============================================================================
