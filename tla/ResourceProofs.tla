-------------------------- MODULE ResourceProofs --------------------------
(***************************************************************************)
(* Theorems about module Resource, for every value of its constants.       *)
(***************************************************************************)
EXTENDS Resource, TLAPS

USE DEF Uids, Gens, Ids

-----------------------------------------------------------------------------
(* Type correctness.                                                       *)

LEMMA SpendType ==
    ASSUME TypeOK, NEW d \in Disturbances, Spend(d)
    PROVE  left' \in [Disturbances -> Nat]
<1>1. left \in [Disturbances -> Nat]
  BY DEF TypeOK
<1>2. left[d] \in Nat /\ left[d] > 0
  BY <1>1 DEF Spend
<1>. QED BY <1>1, <1>2 DEF Spend

LEMMA CallType ==
    ASSUME TypeOK, Answered \/ Failed
    PROVE  left' \in [Disturbances -> Nat]
BY SpendType DEF Answered, Failed, Disturbances, TypeOK

LEMMA NewMetaType ==
    ASSUME NEW c \in CRs PROVE NewMeta(c) \in Metas
BY DEF NewMeta, Imported, Reclaim, Metas, CRs

LEMMA FilledType ==
    ASSUME NEW s \in Specs, NEW a \in Addresses PROVE Filled(s, a) \in Specs
BY DEF Filled, Specs

LEMMA AddressOfType ==
    ASSUME NEW o \in Contents \union {NoObj} PROVE AddressOf(o) \in Addresses
BY DEF AddressOf, Contents, Specs, Addresses

LEMMA WantedType ==
    ASSUME TypeOK, m.meta \in Metas PROVE Wanted \in Specs /\ Known \in Addresses
<1>1. m.meta.spec \in Specs
  BY DEF Metas
<1>2. AddressOf(m.obj) \in Addresses
  BY AddressOfType DEF TypeOK, MTypeOK
<1>3. Wanted \in Specs
  BY <1>1, <1>2, FilledType DEF Wanted
<1>. QED BY <1>2, <1>3 DEF Known, Specs

LEMMA XGotoType ==
    ASSUME TypeOK, x.pc # "idle",
           NEW pc \in {"deleteMeta", "release", "failed"}, XGoto(pc)
    PROVE  XTypeOK'
BY DEF TypeOK, XTypeOK, XGoto

LEMMA XIdleType == ASSUME x' = XIdle PROVE XTypeOK'
BY DEF XTypeOK, XIdle

LEMMA MVerdictType ==
    ASSUME TypeOK, m.pc # "idle", NEW v \in {"Success", "Failure"}, MVerdict(v)
    PROVE  MTypeOK'
BY DEF TypeOK, MTypeOK, MVerdict, MIdle, Addresses

LEMMA MProvisionedType ==
    ASSUME TypeOK, m.pc # "idle", NEW a \in Addresses, MProvisioned(a)
    PROVE  MTypeOK'
<1>1. CASE m.cr.spec.addr = "none" /\ a # "none"
  <2>1. m' = [pc |-> "writeBack", uid |-> m.uid, cr |-> m.cr, meta |-> NoMeta,
              obj |-> NoObj, id |-> 0, addr |-> a, verdict |-> "none"]
    BY <1>1 DEF MProvisioned, MIdle
  <2>2. m.uid \in Uids /\ m.cr \in CRs \union {NoCR} /\ m.cr # NoCR
    BY DEF TypeOK, MTypeOK
  <2>. QED BY <1>1, <2>1, <2>2 DEF MTypeOK
<1>2. CASE ~(m.cr.spec.addr = "none" /\ a # "none")
  BY <1>2, MVerdictType DEF MProvisioned
<1>. QED BY <1>1, <1>2

LEMMA MIdleType == ASSUME m' = MIdle PROVE MTypeOK'
BY DEF MTypeOK, MIdle, Addresses

LEMMA InitType == Init => TypeOK
<1>. SUFFICES ASSUME Init PROVE TypeOK
  OBVIOUS
<1>1. XTypeOK
  BY DEF Init, XTypeOK, XIdle
<1>2. MTypeOK
  BY DEF Init, MTypeOK, MIdle, Addresses
<1>3. netris \in [Ids -> Contents \union {NoObj}]
  BY DEF Init, Contents
<1>4. scenario \in ScenarioType /\ (scenario.preexisting => MaxId > 0)
  BY ScenarioAssumption DEF Init
<1>5. left \in [Disturbances -> Nat]
  BY <1>4 DEF Init, ScenarioType
<1>6. nextUid \in 1 .. MaxUid + 1 /\ nextId \in 1 .. MaxId + 1
  BY <1>4, BoundAssumption DEF Init
<1>. QED BY <1>1, <1>2, <1>3, <1>4, <1>5, <1>6 DEF Init, TypeOK

\* What the user's steps make of a CR.
LEMMA NewCR == ASSUME TypeOK, UserCreate PROVE cr' \in CRs /\ cr'.uid = nextUid
<1>1. PICK a \in scenario.annotations, addr \in scenario.addresses[1] :
        cr' = [uid |-> nextUid, gen |-> 1, spec |-> [edit |-> 1, addr |-> addr], ann |-> a,
               fin |-> FALSE, del |-> FALSE, status |-> "none"]
  BY DEF UserCreate
<1>2. [edit |-> 1, addr |-> addr] \in Specs
  <2>1. scenario.addresses \in [1 .. MaxEdit -> SUBSET {"none", "given"}]
    BY DEF TypeOK, ScenarioType
  <2>. QED BY <2>1, BoundAssumption DEF Specs, Addresses
<1>3. nextUid \in Uids /\ a \in Annotations \union {NilMap}
  <2>1. scenario.annotations \in SUBSET (Annotations \union {NilMap})
    BY DEF TypeOK, ScenarioType
  <2>. QED BY <2>1, BoundAssumption DEF UserCreate, TypeOK
<1>. QED BY <1>1, <1>2, <1>3 DEF CRs

LEMMA EditedCR ==
    ASSUME TypeOK, cr \in CRs, UserEdit
    PROVE  /\ cr' \in CRs /\ cr'.uid = cr.uid /\ cr'.fin = cr.fin
           /\ cr'.spec.edit = cr.spec.edit + 1
<1>1. cr.spec.edit \in 1 .. MaxEdit /\ cr.spec.edit + 1 \in 1 .. MaxEdit /\ cr.gen + 1 \in Gens
  BY BoundAssumption DEF UserEdit, CRs, Specs
<1>2. PICK addr \in scenario.addresses[cr.spec.edit + 1] :
        cr' = [cr EXCEPT !.gen = cr.gen + 1,
                         !.spec = [edit |-> cr.spec.edit + 1, addr |-> addr]]
  BY DEF UserEdit, CRs
<1>3. [edit |-> cr.spec.edit + 1, addr |-> addr] \in Specs
  <2>1. scenario.addresses \in [1 .. MaxEdit -> SUBSET {"none", "given"}]
    BY DEF TypeOK, ScenarioType
  <2>. QED BY <1>1, <2>1 DEF Specs, Addresses
<1>. QED BY <1>1, <1>2, <1>3 DEF CRs

LEMMA FilledInCR ==
    ASSUME NEW c \in CRs, NEW a \in Addresses, c = cr,
           cr' = [c EXCEPT !.gen = cr.gen + 1, !.spec.addr = a]
    PROVE  /\ cr' \in CRs /\ cr'.uid = cr.uid /\ cr'.fin = cr.fin
           /\ cr'.spec.edit = cr.spec.edit
<1>1. [c.spec EXCEPT !.addr = a] \in Specs /\ [c.spec EXCEPT !.addr = a].edit = c.spec.edit
  BY DEF CRs, Specs
<1>2. cr' = [c EXCEPT !.gen = cr.gen + 1, !.spec = [c.spec EXCEPT !.addr = a]]
  BY DEF CRs
<1>3. cr.gen + 1 \in Gens
  BY DEF CRs
<1>. QED BY <1>1, <1>2, <1>3 DEF CRs

LEMMA UserType ==
    ASSUME TypeOK, User PROVE TypeOK'
<1>0. XTypeOK' /\ MTypeOK'
  BY DEF TypeOK, User, UserCreate, UserEdit, UserAnnotate, UserDelete, XTypeOK, MTypeOK
<1>1. CASE UserCreate
  <2>1. cr' \in CRs
    BY <1>1, NewCR
  <2>2. nextUid' \in 1 .. MaxUid + 1
    BY <1>1, BoundAssumption DEF UserCreate, TypeOK
  <2>. QED BY <1>0, <1>1, <2>1, <2>2 DEF UserCreate, TypeOK, caches, netrisVars
<1>2. CASE UserEdit
  <2>1. cr \in CRs
    BY <1>2 DEF UserEdit, TypeOK
  <2>3. cr' \in CRs
    BY <1>2, <2>1, EditedCR
  <2>. QED BY <1>0, <1>2, <2>3 DEF UserEdit, TypeOK, caches, netrisVars
<1>3. CASE UserAnnotate
  <2>1. cr' \in CRs
    BY <1>3 DEF UserAnnotate, TypeOK, CRs
  <2>2. left' \in [Disturbances -> Nat]
    BY <1>3, SpendType DEF UserAnnotate, Disturbances
  <2>. QED BY <1>0, <1>3, <2>1, <2>2 DEF UserAnnotate, TypeOK, caches, netrisVars
<1>4. CASE UserDelete
  <2>1. cr' \in CRs \union {NoCR}
    BY <1>4 DEF UserDelete, TypeOK, CRs
  <2>. QED BY <1>0, <1>4, <2>1 DEF UserDelete, TypeOK, caches, netrisVars
<1>. QED BY <1>1, <1>2, <1>3, <1>4 DEF User

\* The steps of the surroundings: drift in Netris, informers, downloads, restarts.
LEMMA SurroundingsType ==
    ASSUME TypeOK,
           \/ NetrisDrift \/ SyncCR \/ (\E u \in Uids : SyncMeta(u))
           \/ DownloadWithInterval \/ Crash
    PROVE  TypeOK'
<1>1. CASE NetrisDrift
  <2>1. netris' \in [Ids -> Contents \union {NoObj}]
    BY <1>1 DEF NetrisDrift, TypeOK, Contents
  <2>2. left' \in [Disturbances -> Nat]
    BY <1>1, SpendType DEF NetrisDrift, Disturbances
  <2>. QED BY <1>1, <2>1, <2>2
       DEF NetrisDrift, TypeOK, XTypeOK, MTypeOK, crVars, caches
<1>2. CASE SyncCR
  BY <1>2 DEF SyncCR, TypeOK, XTypeOK, MTypeOK, crVars, netrisVars
<1>3. ASSUME NEW u \in Uids, SyncMeta(u) PROVE TypeOK'
  <2>1. metaCache' \in [Uids -> Metas \union {NoMeta}] /\ mQueue' \subseteq Uids
    BY <1>3 DEF SyncMeta, TypeOK
  <2>. QED BY <1>3, <2>1 DEF SyncMeta, TypeOK, XTypeOK, MTypeOK, crVars, netrisVars
<1>4. CASE DownloadWithInterval
  BY <1>4 DEF DownloadWithInterval, TypeOK, XTypeOK, MTypeOK, crVars, caches, netrisVars
<1>5. CASE Crash
  <2>1. XTypeOK' /\ MTypeOK'
    BY <1>5, XIdleType, MIdleType DEF Crash, Restart
  <2>2. left' \in [Disturbances -> Nat]
    BY <1>5, SpendType DEF Crash, Disturbances
  <2>. QED BY <1>5, <2>1, <2>2 DEF Crash, Restart, TypeOK, crVars, netrisVars
<1>. QED BY <1>1, <1>2, <1>3, <1>4, <1>5

LEMMA XPatchCRType ==
    ASSUME TypeOK, NEW c \in CRs, XPatchCR(c) PROVE TypeOK'
<1>1. XTypeOK'
  BY XIdleType DEF XPatchCR, XDone
<1>2. left' \in [Disturbances -> Nat]
  BY CallType DEF XPatchCR
<1>3. cr' \in CRs \union {NoCR} /\ xQueued' \in BOOLEAN
  BY DEF XPatchCR, XRequeue, TypeOK
<1>4. UNCHANGED <<scenario, meta, nextUid, crCache, metaCache, netris, nextId, storage, m, mQueue>>
  BY DEF XPatchCR, caches, netrisVars
<1>5. MTypeOK'
  BY <1>4 DEF TypeOK, MTypeOK
<1>. QED BY <1>1, <1>2, <1>3, <1>4, <1>5 DEF TypeOK

\* The steps of the CR reconciler's worker.
LEMMA XType ==
    ASSUME TypeOK, XLoad \/ XStep PROVE TypeOK'
<1>1. CASE XLoad
  <2>1. XTypeOK'
    BY <1>1 DEF XLoad, TypeOK, XTypeOK, CRs
  <2>2. left' \in [Disturbances -> Nat]
    BY <1>1, SpendType DEF XLoad, Disturbances, TypeOK
  <2>3. MTypeOK'
    BY <1>1 DEF XLoad, TypeOK, MTypeOK
  <2>. QED BY <1>1, <2>1, <2>2, <2>3 DEF XLoad, TypeOK, crVars, caches, netrisVars
<1>2. CASE XDeleteNetris
  <2>1. XTypeOK' /\ left' \in [Disturbances -> Nat]
    BY <1>2, XGotoType, CallType DEF XDeleteNetris, XLoaded
  <2>2. netris' \in [Ids -> Contents \union {NoObj}]
    BY <1>2 DEF XDeleteNetris, TypeOK
  <2>. QED BY <1>2, <2>1, <2>2 DEF XDeleteNetris, TypeOK, MTypeOK, crVars, caches
<1>3. CASE XDeleteMeta
  <2>1. XTypeOK' /\ left' \in [Disturbances -> Nat]
    BY <1>3, XGotoType, CallType DEF XDeleteMeta, XLoaded
  <2>2. meta' \in [Uids -> Metas \union {NoMeta}]
    BY <1>3 DEF XDeleteMeta, TypeOK
  <2>. QED BY <1>3, <2>1, <2>2 DEF XDeleteMeta, TypeOK, MTypeOK, crVars, caches, netrisVars
<1>4. CASE XRelease
  <2>1. XTypeOK' /\ left' \in [Disturbances -> Nat]
    BY <1>4, XGotoType, XIdleType, CallType DEF XRelease, XLoaded, XDone
  <2>. QED BY <1>4, <2>1 DEF XRelease, TypeOK, MTypeOK, caches, netrisVars
<1>5. CASE XFail
  <2>1. XTypeOK' /\ left' \in [Disturbances -> Nat]
    BY <1>5, XIdleType, CallType DEF XFail, XDone
  <2>2. cr' \in CRs \union {NoCR}
    BY <1>5 DEF XFail, TypeOK, XTypeOK, CRs
  <2>. QED BY <1>5, <2>1, <2>2 DEF XFail, XRequeue, TypeOK, MTypeOK, caches, netrisVars
<1>6. ASSUME NEW c \in CRs, XPatchCR(c) PROVE TypeOK'
  BY <1>6, XPatchCRType
<1>7. CASE XSetAnnotations
  <2>1. x.cr \in CRs
    BY <1>7 DEF XSetAnnotations, XLoaded, TypeOK, XTypeOK
  <2>2. DefaultAnnotations(x.cr.ann) \in Annotations
    BY DEF DefaultAnnotations, Annotations
  <2>3. [x.cr EXCEPT !.ann = DefaultAnnotations(@)] \in CRs
    BY <2>1, <2>2 DEF CRs
  <2>. QED BY <1>6, <1>7, <2>3 DEF XSetAnnotations
<1>8. CASE XPanic
  BY <1>8, XIdleType, MIdleType DEF XPanic, Restart, TypeOK, crVars, netrisVars
<1>9. CASE XReject
  <2>1. XTypeOK'
    BY <1>9, XGotoType DEF XReject, XAnnotated, XLoaded
  <2>. QED BY <1>9, <2>1 DEF XReject, TypeOK, MTypeOK, crVars, caches, netrisVars
<1>10. CASE XTranslateFails
  <2>1. XTypeOK' /\ left' \in [Disturbances -> Nat]
    BY <1>10, XGotoType, CallType DEF XTranslateFails, XAccepted, XAnnotated, XLoaded
  <2>. QED BY <1>10, <2>1 DEF XTranslateFails, TypeOK, MTypeOK, crVars, caches, netrisVars
<1>11. CASE XSetFinalizer
  <2>1. [x.cr EXCEPT !.fin = TRUE] \in CRs
    BY <1>11 DEF XSetFinalizer, XAccepted, XAnnotated, XLoaded, TypeOK, XTypeOK, CRs
  <2>. QED BY <1>6, <1>11, <2>1 DEF XSetFinalizer
<1>12. ASSUME NEW a \in BOOLEAN, NEW mt \in Metas, XWriteMeta(a, mt) PROVE TypeOK'
  <2>1. XTypeOK' /\ left' \in [Disturbances -> Nat]
    BY <1>12, XIdleType, CallType DEF XWriteMeta, XDone
  <2>2. meta' \in [Uids -> Metas \union {NoMeta}]
    BY <1>12 DEF XWriteMeta, TypeOK
  <2>. QED BY <1>12, <2>1, <2>2
       DEF XWriteMeta, XRequeue, TypeOK, MTypeOK, crVars, caches, netrisVars
<1>13. CASE XCreateMeta
  <2>1. NewMeta(x.cr) \in Metas
    BY <1>13, NewMetaType DEF XCreateMeta, XAccepted, XAnnotated, XLoaded, TypeOK, XTypeOK
  <2>. QED BY <1>12, <1>13, <2>1 DEF XCreateMeta
<1>14. CASE XUpdateMeta
  <2>1. RefreshedMeta(x.cr, x.meta) \in Metas
    BY <1>14, NewMetaType
    DEF XUpdateMeta, XAccepted, XAnnotated, XLoaded, TypeOK, XTypeOK, RefreshedMeta, Metas
  <2>. QED BY <1>12, <1>14, <2>1 DEF XUpdateMeta
<1>15. CASE XNothingToDo
  <2>1. XTypeOK'
    BY <1>15, XIdleType DEF XNothingToDo, XDone
  <2>. QED BY <1>15, <2>1 DEF XNothingToDo, XRequeue, TypeOK, MTypeOK, crVars, caches, netrisVars
<1>. QED BY <1>1, <1>2, <1>3, <1>4, <1>5, <1>7, <1>8, <1>9, <1>10, <1>11, <1>13, <1>14, <1>15
     DEF XStep

\* The steps of the meta reconciler's worker.
LEMMA MType ==
    ASSUME TypeOK, (\E u \in Uids : MLoad(u)) \/ MStep PROVE TypeOK'
<1>1. ASSUME NEW u \in Uids, MLoad(u) PROVE TypeOK'
  <2>1. MTypeOK'
    <3>1. CASE m' = m
      BY <3>1 DEF TypeOK, MTypeOK
    <3>2. CASE /\ metaCache[u] # NoMeta /\ crCache # NoCR
               /\ m' = [m EXCEPT !.pc = "loaded", !.uid = u, !.cr = crCache, !.meta = metaCache[u]]
      <4>1. u # 0 /\ u \in Uids
        OBVIOUS
      <4>2. metaCache[u] \in Metas /\ crCache \in CRs
        BY <3>2 DEF TypeOK
      <4>. QED BY <3>2, <4>1, <4>2, SentinelAssumption DEF TypeOK, MTypeOK
    <3>. QED BY <1>1, <3>1, <3>2 DEF MLoad, NothingFound
  <2>2. left' \in [Disturbances -> Nat]
    BY <1>1, SpendType DEF MLoad, Disturbances, TypeOK
  <2>. QED BY <1>1, <2>1, <2>2 DEF MLoad, TypeOK, XTypeOK, crVars, caches, netrisVars
<1>2. ASSUME NEW i \in Ids, NEW a \in Addresses, NEW done, MPatchID(i, a, done),
             m.pc \in {"loaded", "import", "patchID"}
      PROVE  /\ meta' \in [Uids -> Metas \union {NoMeta}]
             /\ left' \in [Disturbances -> Nat]
             /\ done \/ (MTypeOK' /\ UNCHANGED mQueue)
  <2>1. m.uid \in Uids /\ m.meta \in Metas
    BY <1>2 DEF TypeOK, MTypeOK
  <2>2. [m.meta EXCEPT !.id = i, !.spec.addr = a] \in Metas
    BY <2>1 DEF Metas, Specs
  <2>3. meta' \in [Uids -> Metas \union {NoMeta}]
    BY <1>2, <2>1, <2>2 DEF MPatchID, TypeOK
  <2>. QED BY <1>2, <2>3, CallType, MVerdictType DEF MPatchID
<1>3. CASE MImport
  <2>1. PICK i \in Ids : MPatchID(i, Adopted(i), m' = MIdle /\ mQueue' = mQueue \union {m.uid})
    BY <1>3 DEF MImport
  <2>5. Adopted(i) \in Addresses
    BY <1>3, AddressOfType DEF Adopted, MImport, MUnrecorded, TypeOK, MTypeOK, Metas, Specs
  <2>2. m.uid \in Uids
    BY <1>3 DEF MImport, MUnrecorded, TypeOK, MTypeOK
  <2>3. /\ meta' \in [Uids -> Metas \union {NoMeta}]
        /\ left' \in [Disturbances -> Nat]
        /\ (m' = MIdle /\ mQueue' = mQueue \union {m.uid}) \/ (MTypeOK' /\ UNCHANGED mQueue)
    BY <1>2, <1>3, <2>1, <2>5 DEF MImport, MUnrecorded
  <2>4. MTypeOK' /\ mQueue' \subseteq Uids
    BY <2>2, <2>3, MIdleType DEF TypeOK
  <2>. QED BY <1>3, <2>3, <2>4 DEF MImport, TypeOK, XTypeOK, crVars, caches, netrisVars
<1>11. CASE MRefreshByName
  <2>1. left' \in [Disturbances -> Nat]
    BY <1>11, CallType DEF MRefreshByName
  <2>2. MTypeOK'
    <3>1. m.pc = "loaded"
      BY <1>11 DEF MRefreshByName, MUnrecorded
    <3>2. CASE m' = [m EXCEPT !.pc = "create"]
      BY <3>1, <3>2 DEF TypeOK, MTypeOK
    <3>3. ASSUME NEW i \in Ids, m' = [m EXCEPT !.pc = "import", !.id = i] PROVE MTypeOK'
      <4>1. i # 0 /\ MTypeOK
        BY DEF TypeOK
      <4>. QED BY <3>1, <3>3, <4>1 DEF MTypeOK
    <3>4. \/ \E i \in Ids : m' = [m EXCEPT !.pc = "import", !.id = i]
          \/ m' = [m EXCEPT !.pc = "create"]
      BY <1>11 DEF MRefreshByName
    <3>. QED BY <3>2, <3>3, <3>4
  <2>. QED BY <1>11, <2>1, <2>2 DEF MRefreshByName, TypeOK, XTypeOK, crVars, caches, netrisVars
<1>4. CASE MGetByID
  <2>1. MTypeOK' /\ left' \in [Disturbances -> Nat]
    BY <1>4, CallType DEF MGetByID, TypeOK, MTypeOK, Metas
  <2>. QED BY <1>4, <2>1 DEF MGetByID, TypeOK, XTypeOK, crVars, caches, netrisVars
<1>5. CASE MFindByID
  <2>1. MTypeOK' /\ left' \in [Disturbances -> Nat]
    BY <1>5, CallType DEF MFindByID, TypeOK, MTypeOK, Metas
  <2>. QED BY <1>5, <2>1 DEF MFindByID, TypeOK, XTypeOK, crVars, caches, netrisVars
<1>6. CASE MCreate
  <2>1. left' \in [Disturbances -> Nat]
    BY <1>6, CallType DEF MCreate
  <2>7. m.meta \in Metas /\ m.uid \in Uids
    BY <1>6 DEF MCreate, MUnrecorded, TypeOK, MTypeOK
  <2>2. Content(m.uid, m.meta.spec, "chosen") \in Contents
    BY <2>7, FilledType DEF Metas, Content, Contents, Addresses
  <2>3. \/ /\ nextId <= MaxId
           /\ netris' = [netris EXCEPT ![nextId] = Content(m.uid, m.meta.spec, "chosen")]
           /\ nextId' = nextId + 1
        \/ netris' = netris /\ nextId' = nextId
    BY <1>6 DEF MCreate, netrisVars
  <2>5. netris' \in [Ids -> Contents \union {NoObj}]
    BY <2>2, <2>3 DEF TypeOK
  <2>6. nextId' \in 1 .. MaxId + 1
    BY <2>3, BoundAssumption DEF TypeOK
  <2>4. MTypeOK'
    <3>1. CASE MVerdict("Failure")
      BY <1>6, <3>1, MVerdictType DEF MCreate, MUnrecorded
    <3>2. CASE m' = [m EXCEPT !.pc = "patchID", !.id = nextId] /\ nextId <= MaxId
      <4>1. nextId \in Ids /\ nextId # 0
        BY <3>2, BoundAssumption DEF TypeOK
      <4>2. m.pc \notin {"idle", "writeBack", "status"}
        BY <1>6 DEF MCreate, MUnrecorded
      <4>. QED BY <3>2, <4>1, <4>2 DEF TypeOK, MTypeOK
    <3>. QED BY <1>6, <3>1, <3>2 DEF MCreate
  <2>. QED BY <1>6, <2>1, <2>4, <2>5, <2>6 DEF MCreate, TypeOK, XTypeOK, crVars, caches
<1>7. CASE MRecordID
  <2>1. m.meta \in Metas /\ m.pc = "patchID"
    BY <1>7 DEF MRecordID, TypeOK, MTypeOK
  <2>2. m.meta.spec.addr \in Addresses
    BY <2>1 DEF Metas, Specs
  <2>3. /\ m.id \in Ids
        /\ MPatchID(m.id, m.meta.spec.addr, MProvisioned(m.meta.spec.addr) /\ UNCHANGED mQueue)
    BY <1>7 DEF MRecordID, TypeOK, MTypeOK
  <2>4. MTypeOK' /\ mQueue' \subseteq Uids
    BY <1>2, <2>1, <2>2, <2>3, MProvisionedType DEF TypeOK
  <2>5. meta' \in [Uids -> Metas \union {NoMeta}] /\ left' \in [Disturbances -> Nat]
    BY <1>2, <2>1, <2>2, <2>3
  <2>. QED BY <1>7, <2>4, <2>5
       DEF MRecordID, TypeOK, XTypeOK, crVars, caches, netrisVars
<1>12. m.pc = "compare" => m.meta \in Metas /\ m.uid \in Uids /\ m.meta.id \in Ids
  BY DEF TypeOK, MTypeOK, Metas
<1>8. CASE MNothingChanged
  <2>1. MTypeOK'
    BY <1>8, <1>12, WantedType, MProvisionedType DEF MNothingChanged
  <2>. QED BY <1>8, <2>1 DEF MNothingChanged, TypeOK, XTypeOK, crVars, caches, netrisVars
<1>9. CASE MUpdate
  <2>1. m.pc = "compare"
    BY <1>9 DEF MUpdate
  <2>2. MProvisioned(Known) \/ MVerdict("Failure")
    BY <1>9 DEF MUpdate
  <2>3. MTypeOK'
    BY <1>12, <2>1, <2>2, WantedType, MProvisionedType, MVerdictType
  <2>4. left' \in [Disturbances -> Nat]
    BY <1>9, CallType DEF MUpdate
  <2>5. AddressOf(netris[m.meta.id]) \in Addresses
    BY <1>12, <2>1, AddressOfType DEF TypeOK
  <2>6. Content(m.uid, Wanted, AddressOf(netris[m.meta.id])) \in Contents
    BY <1>12, <2>1, <2>5, WantedType, FilledType DEF Content, Contents
  <2>7. netris' \in [Ids -> Contents \union {NoObj}]
    BY <1>9, <2>6 DEF MUpdate, TypeOK
  <2>. QED BY <1>9, <2>3, <2>4, <2>7 DEF MUpdate, TypeOK, XTypeOK, crVars, caches
<1>13. CASE MWriteBack
  <2>1. MTypeOK' /\ left' \in [Disturbances -> Nat]
    BY <1>13, MVerdictType, CallType DEF MWriteBack
  <2>2. cr' = cr \/ (cr = m.cr /\ cr' = [m.cr EXCEPT !.gen = cr.gen + 1, !.spec.addr = m.addr])
    BY <1>13 DEF MWriteBack, CRPatchAccepted
  <2>3. m.cr \in CRs /\ m.addr \in Addresses
    BY <1>13 DEF MWriteBack, TypeOK, MTypeOK
  <2>4. cr' \in CRs \union {NoCR}
    BY <2>2, <2>3, FilledInCR DEF TypeOK
  <2>. QED BY <1>13, <2>1, <2>4 DEF MWriteBack, TypeOK, XTypeOK, caches, netrisVars
<1>10. CASE MStatus
  <2>1. MTypeOK' /\ left' \in [Disturbances -> Nat]
    BY <1>10, MIdleType, CallType DEF MStatus
  <2>2. cr' \in CRs \union {NoCR}
    BY <1>10 DEF MStatus, TypeOK, MTypeOK, CRs
  <2>3. mQueue' \subseteq Uids
    BY <1>10 DEF MStatus, TypeOK, MTypeOK
  <2>. QED BY <1>10, <2>1, <2>2, <2>3 DEF MStatus, TypeOK, XTypeOK, caches, netrisVars
<1>. QED BY <1>1, <1>3, <1>4, <1>5, <1>6, <1>7, <1>8, <1>9, <1>10, <1>11, <1>13 DEF MStep

\* Type correctness: every variable keeps the values its Go counterpart can have.
THEOREM TypeCorrect == Spec => []TypeOK
<1>1. TypeOK /\ [Next]_vars => TypeOK'
  <2>1. CASE UNCHANGED vars
    BY <2>1 DEF vars, TypeOK, XTypeOK, MTypeOK
  <2>. QED BY <2>1, UserType, SurroundingsType, XType, MType DEF Next
<1>. QED BY <1>1, InitType, PTL DEF Spec

-----------------------------------------------------------------------------
(* No meta without a finalizer, no id forgotten.                           *)
(*                                                                         *)
(* MetaRequiresFinalizer is not inductive: x makes the meta from a copy of *)
(* the CR read earlier.  What makes it so is that a copy with a finalizer  *)
(* is a copy of a CR that still has it, and that no copy and no meta       *)
(* belongs to a CR that is yet to be created.                              *)

\* c is the CR as it once was.
Copied(c) ==
    c # NoCR => c.uid < nextUid /\ (Alive(c.uid) /\ c.fin => cr.fin)

FinalizerInv ==
    /\ cr # NoCR => cr.uid < nextUid
    /\ \A u \in Uids : meta[u] # NoMeta => u < nextUid
    /\ Copied(crCache)
    /\ Copied(x.cr)
    /\ MetaRequiresFinalizer

CRKept ==
    /\ cr # NoCR /\ cr' # NoCR
    /\ cr'.uid = cr.uid
    /\ cr.fin => cr'.fin
    /\ nextUid' = nextUid
    /\ \/ cr'.spec = cr.spec
       \/ cr'.spec.edit = cr.spec.edit + 1
       \/ cr.spec.addr = "none" /\ cr'.spec.edit = cr.spec.edit

CRGone == cr' = NoCR /\ nextUid' = nextUid

CRBorn == cr = NoCR /\ cr' # NoCR /\ cr'.uid = nextUid /\ nextUid' = nextUid + 1

LEMMA CRUnchanged == ASSUME UNCHANGED <<cr, nextUid>> PROVE CRKept \/ CRGone
BY DEF CRKept, CRGone

LEMMA CRPatched ==
    ASSUME TypeOK, NEW c \in CRs, XPatchCR(c), x.cr # NoCR,
           c.uid = x.cr.uid, c.spec = x.cr.spec, x.cr.fin => c.fin
    PROVE  CRKept \/ CRGone
<1>1. c # NoCR
  BY SentinelAssumption
<1>2. nextUid' = nextUid /\ (cr' = cr \/ (cr = x.cr /\ cr' = c))
  BY DEF XPatchCR
<1>. QED BY <1>1, <1>2 DEF CRKept, CRGone

LEMMA CRStatus ==
    ASSUME TypeOK, NEW v \in {"Success", "Failure"}, cr # NoCR,
           cr' = [cr EXCEPT !.status = v], nextUid' = nextUid
    PROVE  CRKept
<1>1. cr \in CRs /\ cr' \in CRs
  BY DEF TypeOK, CRs
<1>. QED BY <1>1, SentinelAssumption DEF CRKept, CRs

\* What a step does to the CR: it is created, it goes, or it keeps UID and finalizer.
LEMMA CRStep ==
    ASSUME TypeOK, [Next]_vars PROVE CRKept \/ CRGone \/ CRBorn
<1>1. CASE UserCreate
  <2>1. cr' \in CRs /\ cr'.uid = nextUid
    BY <1>1, NewCR
  <2>2. cr = NoCR /\ nextUid' = nextUid + 1
    BY <1>1 DEF UserCreate
  <2>. QED BY <2>1, <2>2, SentinelAssumption DEF CRBorn
<1>2. CASE UserEdit
  <2>1. cr \in CRs
    BY <1>2 DEF UserEdit, TypeOK
  <2>2. cr' \in CRs
    BY <1>2, <2>1, EditedCR
  <2>3. cr' # NoCR /\ cr'.uid = cr.uid /\ cr'.fin = cr.fin /\ cr'.spec.edit = cr.spec.edit + 1
    BY <1>2, <2>1, <2>2, EditedCR, SentinelAssumption
  <2>. QED BY <1>2, <2>1, <2>3, SentinelAssumption DEF UserEdit, CRKept
<1>3. CASE UserAnnotate
  <2>1. cr \in CRs
    BY <1>3 DEF UserAnnotate, TypeOK
  <2>2. cr' \in CRs /\ cr'.uid = cr.uid /\ cr'.fin = cr.fin /\ cr'.spec = cr.spec
    BY <1>3, <2>1 DEF UserAnnotate, CRs
  <2>. QED BY <1>3, <2>1, <2>2, SentinelAssumption DEF UserAnnotate, CRKept
<1>4. CASE UserDelete
  <2>1. cr \in CRs
    BY <1>4 DEF UserDelete, TypeOK
  <2>2. CASE ~cr.fin
    BY <1>4, <2>2 DEF UserDelete, CRGone
  <2>3. CASE cr.fin
    <3>1. cr' \in CRs /\ cr'.uid = cr.uid /\ cr'.fin = cr.fin /\ cr'.spec = cr.spec
      BY <1>4, <2>1, <2>3 DEF UserDelete, CRs
    <3>. QED BY <1>4, <2>1, <3>1, SentinelAssumption DEF UserDelete, CRKept
  <2>. QED BY <2>2, <2>3
<1>5. CASE XRelease
  <2>1. nextUid' = nextUid /\ (cr' = cr \/ cr' = NoCR)
    BY <1>5 DEF XRelease
  <2>. QED BY <2>1, CRUnchanged DEF CRGone
<1>6. CASE XFail \/ MStatus
  <2>1. \/ UNCHANGED <<cr, nextUid>>
        \/ /\ cr = x.cr /\ x.pc # "idle" /\ cr' = [cr EXCEPT !.status = "Failure"]
           /\ nextUid' = nextUid
        \/ /\ cr = m.cr /\ m.pc = "status" /\ cr' = [cr EXCEPT !.status = m.verdict]
           /\ nextUid' = nextUid
    BY <1>6 DEF XFail, MStatus
  <2>2. x.pc # "idle" => x.cr # NoCR
    BY DEF TypeOK, XTypeOK
  <2>3. m.pc = "status" => m.cr # NoCR /\ m.verdict \in {"Success", "Failure"}
    BY DEF TypeOK, MTypeOK
  <2>. QED BY <2>1, <2>2, <2>3, CRUnchanged, CRStatus
<1>7. CASE XSetAnnotations \/ XSetFinalizer
  <2>1. x.cr \in CRs /\ x.cr # NoCR
    BY <1>7, SentinelAssumption
    DEF XSetAnnotations, XSetFinalizer, XAccepted, XAnnotated, XLoaded, TypeOK, XTypeOK
  <2>2. PICK c \in CRs : XPatchCR(c) /\ c.uid = x.cr.uid /\ c.spec = x.cr.spec
                           /\ (x.cr.fin => c.fin)
    <3>1. CASE XSetAnnotations
      <4>. DEFINE c == [x.cr EXCEPT !.ann = DefaultAnnotations(@)]
      <4>1. DefaultAnnotations(x.cr.ann) \in Annotations
        BY DEF DefaultAnnotations, Annotations
      <4>2. c \in CRs /\ c.uid = x.cr.uid /\ c.spec = x.cr.spec /\ c.fin = x.cr.fin
        BY <2>1, <4>1 DEF CRs
      <4>3. XPatchCR(c)
        BY <3>1 DEF XSetAnnotations
      <4>. QED BY <4>2, <4>3
    <3>2. CASE XSetFinalizer
      <4>. DEFINE c == [x.cr EXCEPT !.fin = TRUE]
      <4>1. c \in CRs /\ c.uid = x.cr.uid /\ c.spec = x.cr.spec /\ c.fin
        BY <2>1 DEF CRs
      <4>2. XPatchCR(c)
        BY <3>2 DEF XSetFinalizer
      <4>. QED BY <4>1, <4>2
    <3>. QED BY <1>7, <3>1, <3>2
  <2>. QED BY <2>1, <2>2, CRPatched
<1>8. CASE XDeleteNetris \/ XDeleteMeta \/ XReject \/ XTranslateFails \/ XCreateMeta
           \/ XUpdateMeta \/ XNothingToDo \/ XPanic \/ XLoad
  BY <1>8, CRUnchanged
  DEF XDeleteNetris, XDeleteMeta, XReject, XTranslateFails, XCreateMeta, XUpdateMeta,
      XWriteMeta, XNothingToDo, XPanic, XLoad, crVars
<1>9. CASE MImport \/ MRefreshByName \/ MGetByID \/ MFindByID \/ MCreate \/ MRecordID
           \/ MNothingChanged \/ MUpdate \/ (\E u \in Uids : MLoad(u))
  BY <1>9, CRUnchanged
  DEF MImport, MRefreshByName, MGetByID, MFindByID, MCreate, MRecordID,
      MNothingChanged, MUpdate, MLoad, crVars
<1>10. CASE NetrisDrift \/ SyncCR \/ (\E u \in Uids : SyncMeta(u)) \/ DownloadWithInterval
            \/ Crash \/ UNCHANGED vars
  BY <1>10, CRUnchanged
  DEF NetrisDrift, SyncCR, SyncMeta, DownloadWithInterval, Crash, vars, crVars
<1>11. CASE MWriteBack
  <2>1. \/ UNCHANGED <<cr, nextUid>>
        \/ /\ cr = m.cr /\ cr' = [m.cr EXCEPT !.gen = cr.gen + 1, !.spec.addr = m.addr]
           /\ nextUid' = nextUid
    BY <1>11 DEF MWriteBack, CRPatchAccepted
  <2>2. m.cr \in CRs /\ m.addr \in Addresses /\ m.cr.spec.addr = "none"
    BY <1>11 DEF MWriteBack, TypeOK, MTypeOK
  <2>3. CASE UNCHANGED <<cr, nextUid>>
    BY <2>3, CRUnchanged
  <2>4. CASE ~UNCHANGED <<cr, nextUid>>
    <3>1. /\ cr' \in CRs /\ cr'.uid = cr.uid /\ cr'.fin = cr.fin
          /\ cr'.spec.edit = cr.spec.edit /\ cr.spec.addr = "none"
      BY <2>1, <2>2, <2>4, FilledInCR
    <3>. QED BY <2>1, <2>2, <2>4, <3>1, SentinelAssumption DEF CRKept
  <2>. QED BY <2>3, <2>4
<1>. QED BY <1>1, <1>2, <1>3, <1>4, <1>5, <1>6, <1>7, <1>8, <1>9, <1>10, <1>11
     DEF Next, User, XStep, MStep

\* The copies a step leaves: those that were there, or the CR as it was before.
LEMMA CopyStep ==
    ASSUME TypeOK, [Next]_vars
    PROVE  /\ crCache' \in {crCache, cr}
           /\ x'.cr \in {x.cr, crCache, NoCR}
<1>1. CASE XStep
  <2>1. CASE XPanic
    BY <2>1 DEF XPanic, Restart, XIdle
  <2>2. CASE ~XPanic
    <3>1. crCache' = crCache
      BY <1>1, <2>2
      DEF XStep, XDeleteNetris, XDeleteMeta, XRelease, XFail, XSetAnnotations, XReject,
          XTranslateFails, XSetFinalizer, XCreateMeta, XUpdateMeta, XNothingToDo,
          XPatchCR, XWriteMeta, caches
    <3>2. x' = XIdle \/ \E pc \in {"deleteMeta", "release", "failed"} : XGoto(pc)
      BY <1>1, <2>2
      DEF XStep, XDeleteNetris, XDeleteMeta, XRelease, XFail, XSetAnnotations, XReject,
          XTranslateFails, XSetFinalizer, XCreateMeta, XUpdateMeta, XNothingToDo,
          XPatchCR, XWriteMeta, XDone
    <3>3. ASSUME NEW pc \in {"deleteMeta", "release", "failed"}, XGoto(pc)
          PROVE  x'.cr = x.cr
      <4>1. x \in [pc : {"idle", "loaded", "deleteMeta", "release", "failed"},
                   cr : CRs \union {NoCR}, meta : Metas \union {NoMeta}]
        BY DEF TypeOK, XTypeOK
      <4>. QED BY <3>3, <4>1 DEF XGoto
    <3>4. x' = XIdle => x'.cr = NoCR
      BY DEF XIdle
    <3>. QED BY <3>1, <3>2, <3>3, <3>4
  <2>. QED BY <2>1, <2>2
<1>2. CASE XLoad
  BY <1>2 DEF XLoad, caches
<1>3. CASE SyncCR \/ Crash
  BY <1>3 DEF SyncCR, Crash, Restart, XIdle
<1>4. CASE UserCreate \/ UserEdit \/ UserAnnotate \/ UserDelete \/ NetrisDrift
           \/ (\E u \in Uids : SyncMeta(u)) \/ DownloadWithInterval \/ UNCHANGED vars
  BY <1>4 DEF UserCreate, UserEdit, UserAnnotate, UserDelete, NetrisDrift, SyncMeta,
              DownloadWithInterval, vars, caches
<1>5. CASE MStep \/ (\E u \in Uids : MLoad(u))
  BY <1>5
  DEF MStep, MImport, MRefreshByName, MGetByID, MFindByID, MCreate, MRecordID,
      MNothingChanged, MUpdate, MWriteBack, MStatus, MLoad, caches
<1>. QED BY <1>1, <1>2, <1>3, <1>4, <1>5 DEF Next, User

\* What a step does to a meta: it goes, it stays, it is made by x from a copy of the
\* CR that has the finalizer, or it is rewritten and keeps the id if it has one.
LEMMA MetaStep ==
    ASSUME TypeOK, [Next]_vars, NEW u \in Uids
    PROVE  \/ meta'[u] \in {meta[u], NoMeta}
           \/ meta[u] = NoMeta /\ x.cr # NoCR /\ u = x.cr.uid /\ HasFinalizer(x.cr)
           \/ meta[u] # NoMeta /\ (meta[u].id # 0 => meta'[u].id # 0)
<1>0. meta \in [Uids -> Metas \union {NoMeta}]
  BY DEF TypeOK
<1>1. CASE XDeleteMeta
  BY <1>0, <1>1 DEF XDeleteMeta
<1>2. CASE XCreateMeta
  <2>1. x.cr # NoCR /\ HasFinalizer(x.cr)
    BY <1>2 DEF XCreateMeta, XAccepted, XAnnotated, XLoaded, TypeOK, XTypeOK
  <2>2. meta' = meta \/ (meta[x.cr.uid] = NoMeta /\ \E mt : meta' = [meta EXCEPT ![x.cr.uid] = mt])
    BY <1>2 DEF XCreateMeta, XWriteMeta
  <2>. QED BY <1>0, <2>1, <2>2
<1>3. CASE XUpdateMeta
  <2>1. x.meta \in Metas /\ x.meta # NoMeta
    BY <1>3 DEF XUpdateMeta, TypeOK, XTypeOK
  <2>2. RefreshedMeta(x.cr, x.meta).id = x.meta.id
    BY DEF RefreshedMeta, NewMeta
  <2>3. \/ meta' = meta
        \/ /\ meta[x.cr.uid] = x.meta
           /\ meta' = [meta EXCEPT ![x.cr.uid] = RefreshedMeta(x.cr, x.meta)]
    BY <1>3 DEF XUpdateMeta, XWriteMeta
  <2>. QED BY <1>0, <2>1, <2>2, <2>3
<1>4. ASSUME NEW i \in Ids, NEW a, NEW done, MPatchID(i, a, done),
             m.pc \in {"loaded", "import", "patchID"}
      PROVE  \/ meta'[u] \in {meta[u], NoMeta}
             \/ meta[u] # NoMeta /\ (meta[u].id # 0 => meta'[u].id # 0)
  <2>1. m.meta \in Metas /\ m.meta # NoMeta
    BY <1>4 DEF TypeOK, MTypeOK
  <2>2. i # 0 /\ [m.meta EXCEPT !.id = i, !.spec.addr = a].id = i
    BY <2>1 DEF Metas
  <2>3. \/ meta' = meta
        \/ /\ meta[m.uid] = m.meta
           /\ meta' = [meta EXCEPT ![m.uid] = [m.meta EXCEPT !.id = i, !.spec.addr = a]]
    BY <1>4 DEF MPatchID, PatchAccepted
  <2>. QED BY <1>0, <2>1, <2>2, <2>3
<1>5. CASE MImport
  BY <1>4, <1>5 DEF MImport, MUnrecorded
<1>6. CASE MRecordID
  <2>1. m.id \in Ids
    BY <1>6 DEF MRecordID, TypeOK, MTypeOK
  <2>. QED BY <1>4, <1>6, <2>1 DEF MRecordID
<1>7. CASE \/ XDeleteNetris \/ XRelease \/ XFail \/ XSetAnnotations \/ XReject \/ XTranslateFails
           \/ XSetFinalizer \/ XNothingToDo \/ XPanic \/ XLoad
  BY <1>7 DEF XDeleteNetris, XRelease, XFail, XSetAnnotations, XReject, XTranslateFails,
              XSetFinalizer, XNothingToDo, XPanic, XLoad, XPatchCR
<1>8. CASE MRefreshByName \/ MGetByID \/ MFindByID \/ MCreate \/ MNothingChanged \/ MUpdate
           \/ MWriteBack \/ MStatus \/ (\E v \in Uids : MLoad(v))
  BY <1>8 DEF MRefreshByName, MGetByID, MFindByID, MCreate, MNothingChanged, MUpdate,
              MWriteBack, MStatus, MLoad
<1>9. CASE User \/ NetrisDrift \/ SyncCR \/ (\E v \in Uids : SyncMeta(v))
           \/ DownloadWithInterval \/ Crash \/ UNCHANGED vars
  BY <1>9 DEF User, UserCreate, UserEdit, UserAnnotate, UserDelete, NetrisDrift, SyncCR,
              SyncMeta, DownloadWithInterval, Crash, vars
<1>. QED BY <1>1, <1>2, <1>3, <1>5, <1>6, <1>7, <1>8, <1>9 DEF Next, XStep, MStep

\* The invariant, that a CR whose meta exists carries the finalizer.
THEOREM FinalizerRequired == Spec => []MetaRequiresFinalizer
<1>1. Init => FinalizerInv
  BY DEF Init, FinalizerInv, Copied, MetaRequiresFinalizer, XIdle
<1>2. TypeOK /\ TypeOK' /\ FinalizerInv /\ [Next]_vars => FinalizerInv'
  <2>. SUFFICES ASSUME TypeOK, TypeOK', FinalizerInv, [Next]_vars PROVE FinalizerInv'
    OBVIOUS
  <2>1. nextUid \in Nat /\ nextUid' \in Nat /\ nextUid <= nextUid'
    BY CRStep, BoundAssumption DEF TypeOK, CRKept, CRGone, CRBorn
  <2>2. (cr # NoCR => cr.uid < nextUid)'
    BY CRStep, <2>1 DEF FinalizerInv, CRKept, CRGone, CRBorn
  <2>3. ASSUME NEW c, c # NoCR => c.uid \in Nat, Copied(c)
        PROVE  c # NoCR => c.uid < nextUid' /\ (Alive(c.uid)' /\ c.fin => cr'.fin)
    BY <2>1, <2>3, CRStep DEF Copied, Alive, CRKept, CRGone, CRBorn
  <2>4. Copied(cr)
    BY DEF Copied, Alive, FinalizerInv
  <2>5. Copied(crCache)' /\ Copied(x.cr)'
    BY <2>3, <2>4, CopyStep DEF FinalizerInv, Copied, TypeOK, XTypeOK, CRs
  <2>6. ASSUME NEW u \in Uids, meta'[u] # NoMeta
        PROVE  u < nextUid' /\ (Alive(u)' => cr'.fin)
    <3>1. CASE meta[u] # NoMeta
      BY <2>1, <2>6, <3>1, CRStep
      DEF FinalizerInv, MetaRequiresFinalizer, Alive, CRKept, CRGone, CRBorn
    <3>2. CASE meta[u] = NoMeta
      <4>1. x.cr # NoCR /\ u = x.cr.uid /\ x.cr.fin
        BY <2>6, <3>2, MetaStep DEF HasFinalizer
      <4>. QED BY <2>3, <4>1 DEF FinalizerInv
    <3>. QED BY <3>1, <3>2
  <2>. QED BY <2>2, <2>5, <2>6 DEF FinalizerInv, MetaRequiresFinalizer
<1>3. FinalizerInv => MetaRequiresFinalizer
  BY DEF FinalizerInv
<1>. QED BY <1>1, <1>2, <1>3, TypeCorrect, PTL DEF Spec

\* The action property, that no write forgets the id of a Netris object.
THEOREM IDKept == Spec => IDNeverLost
<1>1. TypeOK /\ [Next]_vars =>
        [\A u \in Uids :
            meta[u] # NoMeta /\ meta'[u] # NoMeta /\ meta[u].id # 0 => meta'[u].id # 0]_vars
  BY MetaStep
<1>. QED BY <1>1, TypeCorrect, PTL DEF Spec, IDNeverLost

-----------------------------------------------------------------------------
(* No edit taken back.                                                     *)

\* The action property, that all the operator changes of a CR's spec is to fill in an
\* address that is open.
THEOREM EditsSafe == Spec => EditsKept
<1>1. TypeOK /\ [Next]_vars =>
        [cr # NoCR /\ cr' # NoCR /\ cr'.uid = cr.uid /\ cr'.spec # cr.spec
            => \/ cr'.spec.edit = cr.spec.edit + 1
               \/ cr.spec.addr = "none" /\ cr'.spec.edit = cr.spec.edit]_vars
  BY CRStep DEF CRKept, CRGone, CRBorn
<1>. QED BY <1>1, TypeCorrect, PTL DEF Spec, EditsKept

=============================================================================
