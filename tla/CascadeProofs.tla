-------------------------- MODULE CascadeProofs --------------------------
(***************************************************************************)
(* Theorems about module Cascade, for every value of its constants.        *)
(***************************************************************************)
EXTENDS Cascade, TLAPS

USE DEF Gens, Ids

-----------------------------------------------------------------------------
(* Type correctness.                                                       *)

LEMMA SpendType ==
    ASSUME TypeOK, NEW d \in Disturbances, Spend(d)
    PROVE  left' \in [Disturbances -> Nat]
<1>1. left \in [Disturbances -> Nat]
  BY DEF TypeOK
<1>2. left[d] \in Nat /\ left[d] > 0
  BY <1>1 DEF Spend
<1> QED
  BY <1>1, <1>2 DEF Spend

LEMMA CallType ==
    ASSUME TypeOK, Answered \/ Failed
    PROVE  left' \in [Disturbances -> Nat]
BY SpendType DEF Answered, Failed, Disturbances, TypeOK

LEMMA WishType ==
    ASSUME TypeOK
    PROVE  /\ wish.addr \in Addresses /\ wish.policy \in Policies /\ wish.open \in BOOLEAN
           /\ kind \in {"L4LB", "Site"}
BY DEF TypeOK, Wishes, wish, kind

LEMMA ForeignType == Foreign \in Objects
BY BoundAssumption DEF Foreign, Objects, Addresses

LEMMA NewMetaType ==
    ASSUME NEW c \in CRs PROVE NewMeta(c) \in Metas
BY DEF NewMeta, Metas, CRs

LEMMA RefreshedMetaType ==
    ASSUME NEW c \in CRs, NEW old \in Metas PROVE RefreshedMeta(c, old) \in Metas
<1>1. NewMeta(c) \in Metas
  BY NewMetaType
<1> QED
  BY <1>1 DEF RefreshedMeta, Metas

LEMMA WrittenType ==
    ASSUME NEW c \in CRs, NEW mt \in Metas, NEW o \in Objects \union {NoObj}
    PROVE  /\ Written(c, mt, o) \in CRs
           /\ Written(c, mt, o).fin = c.fin /\ Written(c, mt, o).del = c.del
<1> DEFINE a   == IF o = NoObj THEN mt.addr ELSE o.addr
           new == [c EXCEPT !.addr = IF a = "none" THEN c.addr ELSE a,
                            !.open = c.open /\ o = NoObj]
<1>1. c.gen + 1 \in Gens /\ c.addr \in Addresses /\ a \in Addresses /\ c.open \in BOOLEAN
  BY DEF CRs, Metas, Objects
<1>2. new \in CRs /\ new.fin = c.fin /\ new.del = c.del
  <2> HIDE DEF a
  <2> QED
    BY <1>1 DEF CRs
<1>3. [new EXCEPT !.gen = c.gen + 1] \in CRs
  <2> HIDE DEF new
  <2> QED
    BY <1>1, <1>2 DEF CRs
<1>4. LET raised == [new EXCEPT !.gen = c.gen + 1]
      IN  raised.fin = new.fin /\ raised.del = new.del
  <2> HIDE DEF new
  <2> QED
    BY <1>2 DEF CRs
<1> QED
  BY <1>2, <1>3, <1>4 DEF Written

LEMMA XIdleType == ASSUME x' = XIdle PROVE XTypeOK'
BY DEF XTypeOK, XIdle

LEMMA MIdleType == ASSUME m' = MIdle PROVE MTypeOK'
BY DEF MTypeOK, MIdle

LEMMA MVerdictType ==
    ASSUME TypeOK, m.pc \notin {"idle", "deleting", "release"},
           NEW v \in {"Success", "Failure"}, MVerdict(v)
    PROVE  MTypeOK'
BY DEF TypeOK, MTypeOK, MVerdict, MIdle

LEMMA InitType == Init => TypeOK
<1> SUFFICES ASSUME Init PROVE TypeOK
  OBVIOUS
<1>1. XTypeOK
  BY DEF Init, XTypeOK, XIdle
<1>2. MTypeOK
  BY DEF Init, MTypeOK, MIdle
<1>3. netris \in [Ids -> Objects \union {NoObj}]
  BY ForeignType DEF Init
<1>4. nextId \in 1 .. MaxId + 1
  BY BoundAssumption DEF Init
<1>5. /\ scenario \in [wish : Wishes, left : [Disturbances -> Nat]]
      /\ left \in [Disturbances -> Nat]
  BY InputAssumption DEF Init
<1> QED
  BY <1>1, <1>2, <1>3, <1>4, <1>5 DEF Init, TypeOK

LEMMA EditedCR ==
    ASSUME TypeOK, UserEdit \/ UserAnnotate
    PROVE  cr \in CRs /\ cr' \in CRs /\ cr'.fin = cr.fin /\ cr'.del = cr.del
<1>1. cr \in CRs
  BY DEF UserEdit, UserAnnotate, TypeOK
<1>2. CASE UserEdit
  <2>1. cr.edit < MaxEdit
    BY <1>2 DEF UserEdit
  <2>2. cr.edit + 1 \in 1 .. MaxEdit /\ cr.gen + 1 \in Gens
    BY <1>1, <2>1, BoundAssumption DEF CRs
  <2>3. PICK a \in Addresses :
            cr' = [cr EXCEPT !.gen = cr.gen + 1, !.edit = cr.edit + 1, !.addr = a]
    BY <1>1, <1>2, InputAssumption DEF UserEdit, CRs
  <2> QED
    BY <1>1, <2>2, <2>3 DEF CRs
<1>3. CASE UserAnnotate
  BY <1>1, <1>3, InputAssumption DEF UserAnnotate, CRs
<1> QED
  BY <1>2, <1>3

LEMMA UserType ==
    ASSUME TypeOK, UserCreate \/ UserEdit \/ UserAnnotate \/ UserDelete PROVE TypeOK'
<1>1. /\ UNCHANGED <<scenario, meta, crCache, metaCache, netris, nextId, storage>>
      /\ UNCHANGED <<x, xQueued, xTimer, m, mQueued>>
  BY DEF UserCreate, UserEdit, UserAnnotate, UserDelete, OfUser, caches, remote, xVars, mVars
<1>2. XTypeOK' /\ MTypeOK'
  BY <1>1 DEF TypeOK, XTypeOK, MTypeOK
<1>3. born' \in BOOLEAN
  BY DEF UserCreate, UserEdit, UserAnnotate, UserDelete, TypeOK
<1>4. left' \in [Disturbances -> Nat]
  BY SpendType DEF UserCreate, UserEdit, UserAnnotate, UserDelete, Disturbances, TypeOK
<1>5. cr' \in CRs \union {NoCR}
  <2>1. CASE UserCreate
    <3>1. cr' = [gen |-> 1, edit |-> 1, addr |-> wish.addr, open |-> wish.open,
                 policy |-> wish.policy, fin |-> FALSE, del |-> FALSE, status |-> "none"]
      BY <2>1 DEF UserCreate
    <3> QED
      BY <3>1, WishType, BoundAssumption DEF CRs
  <2>2. CASE UserEdit \/ UserAnnotate
    BY <2>2, EditedCR
  <2>3. CASE UserDelete
    BY <2>3 DEF UserDelete, TypeOK, CRs
  <2> QED
    BY <2>1, <2>2, <2>3
<1> QED
  BY <1>1, <1>2, <1>3, <1>4, <1>5 DEF TypeOK

\* Drift, informers, downloads, timers, and the process.
LEMMA SurroundingsType ==
    ASSUME TypeOK,
           \/ NetrisDrift \/ SyncCR \/ SyncMeta \/ DownloadWithInterval
           \/ XTimer \/ Resync \/ Crash
    PROVE  TypeOK'
<1>1. UNCHANGED <<scenario, cr, meta, born, nextId>>
  BY DEF NetrisDrift, SyncCR, SyncMeta, DownloadWithInterval, XTimer, Resync, Crash, api, remote
<1>2. XTypeOK'
  BY XIdleType DEF NetrisDrift, SyncCR, SyncMeta, DownloadWithInterval, XTimer, Resync, Crash,
                   xVars, TypeOK, XTypeOK
<1>3. MTypeOK'
  BY MIdleType DEF NetrisDrift, SyncCR, SyncMeta, DownloadWithInterval, XTimer, Resync, Crash,
                   mVars, TypeOK, MTypeOK
<1>4. left' \in [Disturbances -> Nat]
  BY SpendType DEF NetrisDrift, SyncCR, SyncMeta, DownloadWithInterval, XTimer, Resync, Crash,
                   Disturbances, TypeOK
<1>5. /\ crCache' \in CRs \union {NoCR} /\ metaCache' \in Metas \union {NoMeta}
      /\ storage' \in [Ids -> Objects \union {NoObj}]
  BY DEF NetrisDrift, SyncCR, SyncMeta, DownloadWithInterval, XTimer, Resync, Crash,
         caches, remote, TypeOK
<1>6. netris' \in [Ids -> Objects \union {NoObj}]
  BY ForeignType
  DEF NetrisDrift, SyncCR, SyncMeta, DownloadWithInterval, XTimer, Resync, Crash, remote, TypeOK
<1>7. xQueued' \in BOOLEAN /\ mQueued' \in BOOLEAN /\ xTimer' \in BOOLEAN
  BY DEF NetrisDrift, SyncCR, SyncMeta, DownloadWithInterval, XTimer, Resync, Crash,
         xVars, mVars, TypeOK
<1> QED
  BY <1>1, <1>2, <1>3, <1>4, <1>5, <1>6, <1>7 DEF TypeOK

LEMMA XLoadType == ASSUME TypeOK, XLoad PROVE TypeOK'
<1>1. XTypeOK'
  BY DEF XLoad, TypeOK, XTypeOK
<1>2. left' \in [Disturbances -> Nat]
  BY SpendType DEF XLoad, Disturbances, TypeOK
<1>3. MTypeOK'
  BY DEF XLoad, mVars, TypeOK, MTypeOK
<1> QED
  BY <1>1, <1>2, <1>3 DEF XLoad, api, caches, remote, mVars, TypeOK

\* What a step of x may do: it goes on to "failed" or ends its round.
LEMMA XEnds ==
    ASSUME TypeOK, x.pc # "idle",
           XGoto("failed") \/ XDone \/ RequeueAfter
    PROVE  XTypeOK' /\ xTimer' \in BOOLEAN
<1>1. CASE XGoto("failed")
  BY <1>1 DEF XGoto, TypeOK, XTypeOK
<1>2. CASE XDone \/ RequeueAfter
  BY <1>2, XIdleType DEF XDone, RequeueAfter, TypeOK
<1> QED
  BY <1>1, <1>2

LEMMA XPatches ==
    ASSUME TypeOK, x.pc # "idle", NEW c \in CRs, XPatchCR(c)
    PROVE  /\ OfX /\ (Answered \/ Failed)
           /\ XGoto("failed") \/ XDone \/ RequeueAfter
           /\ cr' \in CRs \union {NoCR} /\ meta' \in Metas \union {NoMeta}
BY DEF XPatchCR, TypeOK

LEMMA XType == ASSUME TypeOK, XStep PROVE TypeOK'
<1>1. x.pc # "idle" /\ x.cr \in CRs /\ x.meta \in Metas \union {NoMeta}
  BY DEF XStep, XDeleteMeta, XRelease, XFail, XSetAnnotations, XSetFinalizer, XTranslateFails,
         XWriteMeta, XNothingToDo, XAnnotated, XLoaded, TypeOK, XTypeOK
<1>2. /\ OfX /\ (Answered \/ Failed)
      /\ XGoto("failed") \/ XDone \/ RequeueAfter
      /\ cr' \in CRs \union {NoCR} /\ meta' \in Metas \union {NoMeta}
  <2>1. CASE XDeleteMeta
    <3>1. /\ OfX /\ (Answered \/ Failed)
          /\ XGoto("failed") \/ XDone \/ RequeueAfter
      BY <2>1 DEF XDeleteMeta
    <3>2. UNCHANGED meta \/ (meta # NoMeta /\ meta' = [meta EXCEPT !.del = TRUE])
      BY <2>1 DEF XDeleteMeta
    <3>3. meta' \in Metas \union {NoMeta}
      BY <3>2 DEF TypeOK, Metas
    <3> QED
      BY <2>1, <3>1, <3>3 DEF XDeleteMeta, TypeOK
  <2>2. CASE XRelease
    BY <2>2 DEF XRelease, TypeOK
  <2>3. CASE XFail
    <3>0. cr' = cr \/ (cr = x.cr /\ cr' = [x.cr EXCEPT !.status = "Failure"])
      BY <2>3 DEF XFail
    <3>1. cr' \in CRs \union {NoCR}
      BY <1>1, <3>0 DEF TypeOK, CRs
    <3> QED
      BY <2>3, <3>1 DEF XFail, TypeOK
  <2>4. CASE XSetAnnotations
    <3>1. [x.cr EXCEPT !.policy = "plain"] \in CRs
      BY <1>1 DEF CRs, Policies
    <3> QED
      BY <1>1, <2>4, <3>1, XPatches DEF XSetAnnotations
  <2>5. CASE XSetFinalizer
    <3>1. [x.cr EXCEPT !.fin = TRUE] \in CRs
      BY <1>1 DEF CRs
    <3> QED
      BY <1>1, <2>5, <3>1, XPatches DEF XSetFinalizer
  <2>6. CASE XTranslateFails
    BY <2>6 DEF XTranslateFails, TypeOK
  <2>7. CASE XWriteMeta
    <3>1. NewMeta(x.cr) \in Metas /\ (x.meta # NoMeta => RefreshedMeta(x.cr, x.meta) \in Metas)
      BY <1>1, NewMetaType, RefreshedMetaType
    <3>2. \/ UNCHANGED meta
          \/ meta' = IF x.meta = NoMeta THEN NewMeta(x.cr) ELSE RefreshedMeta(x.cr, x.meta)
      BY <2>7 DEF XWriteMeta
    <3>3. meta' \in Metas \union {NoMeta}
      BY <3>1, <3>2 DEF TypeOK
    <3>4. OfX /\ (Answered \/ Failed) /\ RequeueAfter /\ UNCHANGED cr
      BY <2>7 DEF XWriteMeta
    <3> QED
      BY <3>3, <3>4 DEF TypeOK
  <2>8. CASE XNothingToDo
    BY <2>8 DEF XNothingToDo, Answered, TypeOK
  <2> QED
    BY <2>1, <2>2, <2>3, <2>4, <2>5, <2>6, <2>7, <2>8 DEF XStep
<1>3. XTypeOK' /\ xTimer' \in BOOLEAN
  BY <1>1, <1>2, XEnds
<1>4. left' \in [Disturbances -> Nat]
  BY <1>2, CallType
<1>5. UNCHANGED <<scenario, born, crCache, metaCache, netris, nextId, storage, xQueued, m, mQueued>>
  BY <1>2 DEF OfX, caches, remote, mVars
<1>6. MTypeOK'
  BY <1>5 DEF TypeOK, MTypeOK
<1> QED
  BY <1>2, <1>3, <1>4, <1>5, <1>6 DEF TypeOK

LEMMA MLoadType == ASSUME TypeOK, MLoad PROVE TypeOK'
<1>1. MTypeOK'
  <2>1. CASE m' = m
    BY <2>1 DEF TypeOK, MTypeOK
  <2>2. CASE /\ metaCache # NoMeta /\ (metaCache.del \/ crCache # NoCR)
             /\ m' = [m EXCEPT !.pc = IF metaCache.del THEN "deleting" ELSE "loaded",
                               !.cr = crCache, !.meta = metaCache]
    BY <2>2 DEF TypeOK, MTypeOK
  <2> QED
    BY <2>1, <2>2 DEF MLoad
<1>2. left' \in [Disturbances -> Nat]
  BY SpendType DEF MLoad, Disturbances, TypeOK
<1>3. XTypeOK'
  BY DEF MLoad, xVars, TypeOK, XTypeOK
<1> QED
  BY <1>1, <1>2, <1>3 DEF MLoad, api, caches, remote, xVars, TypeOK

LEMMA MProvisionedType ==
    ASSUME TypeOK, m.pc \notin {"idle", "deleting", "release"},
           NEW mt \in Metas, mt.id # 0, MProvisioned(mt)
    PROVE  MTypeOK' /\ mQueued' \in BOOLEAN
<1>1. CASE kind = "Site"
  <2>1. MVerdict("Success")
    BY <1>1 DEF MProvisioned
  <2> QED
    BY <2>1, MVerdictType DEF MVerdict, TypeOK
<1>2. CASE kind # "Site"
  <2>1. /\ m' = [m EXCEPT !.pc = IF mt.addr = "none" \/ m.cr.open THEN "fill" ELSE "writeBack",
                       !.meta = mt, !.obj = NoObj]
        /\ mQueued' = mQueued
    BY <1>2 DEF MProvisioned
  <2>2. mt # NoMeta
    BY SentinelAssumption
  <2> QED
    BY <2>1, <2>2 DEF TypeOK, MTypeOK
<1> QED
  BY <1>1, <1>2

\* A patch of the meta's id is done, or the round fails.
LEMMA MPatches ==
    ASSUME TypeOK, m.pc \in {"loaded", "patchID"},
           NEW i \in Ids, NEW a \in Addresses, NEW done, MPatchID(i, a, done)
    PROVE  /\ Answered \/ Failed
           /\ meta' \in Metas \union {NoMeta}
           /\ done \/ (MTypeOK' /\ mQueued' \in BOOLEAN)
<1>1. m.meta \in Metas
  BY DEF TypeOK, MTypeOK
<1>2. [m.meta EXCEPT !.id = i, !.addr = a] \in Metas
  BY <1>1 DEF Metas
<1>3. meta' = meta \/ meta' = [m.meta EXCEPT !.id = i, !.addr = a]
  BY DEF MPatchID
<1>4. done \/ MVerdict("Failure")
  BY DEF MPatchID
<1>5. done \/ (MTypeOK' /\ mQueued' \in BOOLEAN)
  BY <1>4, MVerdictType DEF MVerdict, TypeOK
<1> QED
  BY <1>2, <1>3, <1>5 DEF MPatchID, TypeOK

LEMMA MRetries == ASSUME MRetry PROVE MTypeOK' /\ mQueued' \in BOOLEAN
BY MIdleType DEF MRetry

LEMMA MEnds ==
    ASSUME TypeOK, m.pc \notin {"idle", "deleting", "release"},
           NEW v \in {"Success", "Failure"}, MVerdict(v)
    PROVE  MTypeOK' /\ mQueued' \in BOOLEAN
BY MVerdictType DEF MVerdict, TypeOK

LEMMA MType == ASSUME TypeOK, MStep PROVE TypeOK'
<1>1. UNCHANGED <<scenario, born, crCache, metaCache, x, xQueued, xTimer>>
  BY DEF MStep, MDeleteNetris, MRelease, MImport, MFindByID, MCreate, MRecordID, MVPCFails,
         MNothingChanged, MUpdate, MFill, MWriteBack, MStatus, OfM, caches, xVars
<1>2. XTypeOK'
  BY <1>1 DEF TypeOK, XTypeOK
<1>3. SUFFICES /\ cr' \in CRs \union {NoCR} /\ meta' \in Metas \union {NoMeta}
               /\ netris' \in [Ids -> Objects \union {NoObj}]
               /\ storage' \in [Ids -> Objects \union {NoObj}]
               /\ nextId' \in 1 .. MaxId + 1
               /\ left' \in [Disturbances -> Nat]
               /\ MTypeOK' /\ mQueued' \in BOOLEAN
  BY <1>1, <1>2 DEF TypeOK
<1>5. CASE MDeleteNetris
  <2>1. m.meta \in Metas /\ m.meta.id \in Ids /\ m.meta.id # 0
    BY <1>5 DEF MDeleteNetris, MustDeleteInNetris, TypeOK, MTypeOK, Metas
  <2>2. MTypeOK' /\ mQueued' \in BOOLEAN
    BY <1>5, <2>1, MRetries DEF MDeleteNetris, MDeleteFailed, MGoto, TypeOK, MTypeOK
  <2>3. netris' \in [Ids -> Objects \union {NoObj}]
    BY <1>5 DEF MDeleteNetris, TypeOK
  <2>4. Answered \/ Failed
    BY <1>5 DEF MDeleteNetris
  <2> QED
    BY <1>5, <2>2, <2>3, <2>4, CallType DEF MDeleteNetris, TypeOK
<1>6. CASE MRelease
  <2>1. MTypeOK' /\ mQueued' \in BOOLEAN
    BY <1>6, MRetries, MIdleType DEF MRelease, MDone, TypeOK
  <2>2. Answered \/ Failed
    BY <1>6 DEF MRelease
  <2> QED
    BY <1>6, <2>1, <2>2, CallType DEF MRelease, remote, TypeOK
<1>7. CASE MImport
  <2>1. PICK i \in FindByName : MPatchID(i, storage[i].addr, MRetry)
    BY <1>7 DEF MImport
  <2>2. i \in Ids /\ storage[i].addr \in Addresses
    BY DEF FindByName, TypeOK, Objects
  <2>3. /\ Answered \/ Failed
        /\ meta' \in Metas \union {NoMeta}
        /\ MRetry \/ (MTypeOK' /\ mQueued' \in BOOLEAN)
    BY <1>7, <2>1, <2>2, MPatches DEF MImport, MUnrecorded
  <2> QED
    BY <1>7, <2>3, MRetries, CallType DEF MImport, remote, TypeOK
<1>8. CASE MFindByID
  <2>1. m.pc = "loaded" /\ m.meta \in Metas /\ m.meta.id \in Ids
    BY <1>8 DEF MFindByID, TypeOK, MTypeOK, Metas
  <2>2. PICK o \in Objects \union {NoObj} :
            m' = [m EXCEPT !.pc = IF o = NoObj THEN "create" ELSE "compare", !.obj = o]
    BY <1>8, <2>1 DEF MFindByID, TypeOK
  <2>3. MTypeOK'
    BY <1>8, <2>1, <2>2 DEF MFindByID, TypeOK, MTypeOK
  <2>4. Answered \/ Failed
    BY <1>8 DEF MFindByID
  <2> QED
    BY <1>8, <2>3, <2>4, CallType DEF MFindByID, TypeOK
<1>9. CASE MCreate
  <2>1. m.pc \in {"loaded", "create"} /\ m.meta \in Metas
    BY <1>9 DEF MCreate, MUnrecorded, TypeOK, MTypeOK
  <2> DEFINE o == [edit |-> m.meta.edit,
                   addr |-> IF m.meta.auto THEN "chosen" ELSE m.meta.addr,
                   auto |-> m.meta.auto]
  <2>2. o \in Objects
    BY <2>1 DEF Metas, Objects, Addresses
  <2>3. \/ nextId <= MaxId /\ netris' = [netris EXCEPT ![nextId] = o] /\ nextId' = nextId + 1
        \/ UNCHANGED <<netris, nextId>>
    BY <1>9 DEF MCreate
  <2>4. \/ /\ nextId <= MaxId
           /\ m' = [m EXCEPT !.pc = "patchID", !.id = nextId, !.obj = o]
           /\ mQueued' = mQueued
        \/ MVerdict("Failure")
    BY <1>9 DEF MCreate
  <2>5. netris' \in [Ids -> Objects \union {NoObj}] /\ nextId' \in 1 .. MaxId + 1
    <3> HIDE DEF o
    <3>1. nextId \in Nat /\ nextId <= MaxId + 1 /\ MaxId \in Nat
      BY BoundAssumption DEF TypeOK
    <3>2. nextId' \in 1 .. MaxId + 1
      BY <2>3, <3>1 DEF TypeOK
    <3> QED
      BY <2>2, <2>3, <3>2 DEF TypeOK
  <2>6. MTypeOK' /\ mQueued' \in BOOLEAN
    <3>1. CASE MVerdict("Failure")
      BY <2>1, <3>1, MEnds
    <3>2. CASE /\ nextId <= MaxId
               /\ m' = [m EXCEPT !.pc = "patchID", !.id = nextId, !.obj = o]
               /\ mQueued' = mQueued
      <4>1. nextId \in Ids /\ nextId # 0
        BY <3>2, BoundAssumption DEF TypeOK
      <4> QED
        BY <2>1, <2>2, <3>2, <4>1, SentinelAssumption DEF TypeOK, MTypeOK
    <3> QED
      BY <2>4, <3>1, <3>2
  <2>7. Answered \/ Failed
    BY <1>9 DEF MCreate
  <2> QED
    BY <1>9, <2>5, <2>6, <2>7, CallType DEF MCreate, TypeOK
<1>10. CASE MRecordID
  <2>1. /\ m.pc = "patchID" /\ m.meta \in Metas /\ m.id \in Ids /\ m.id # 0
        /\ m.obj.addr \in Addresses
    BY <1>10 DEF MRecordID, TypeOK, MTypeOK, Objects
  <2> DEFINE mt == [m.meta EXCEPT !.id = m.id, !.addr = m.obj.addr]
  <2>2. mt \in Metas /\ mt.id # 0
    BY <2>1 DEF Metas
  <2>3. /\ Answered \/ Failed
        /\ meta' \in Metas \union {NoMeta}
        /\ MProvisioned(mt) \/ (MTypeOK' /\ mQueued' \in BOOLEAN)
    BY <1>10, <2>1, MPatches DEF MRecordID
  <2>4. MTypeOK' /\ mQueued' \in BOOLEAN
    <3> HIDE DEF mt
    <3> QED
      BY <2>1, <2>2, <2>3, MProvisionedType
  <2> QED
    BY <1>10, <2>3, <2>4, CallType DEF MRecordID, remote, TypeOK
<1>11. m.pc = "compare" => m.meta \in Metas /\ m.meta.id \in Ids /\ m.meta.id # 0
  BY DEF TypeOK, MTypeOK, Metas
<1>12. CASE MNothingChanged
  <2>1. m.pc = "compare" /\ MProvisioned(m.meta)
    BY <1>12 DEF MNothingChanged
  <2> QED
    BY <1>11, <1>12, <2>1, MProvisionedType DEF MNothingChanged, remote, TypeOK
<1>13. CASE MUpdate
  <2>1. m.pc = "compare" /\ (MProvisioned(m.meta) \/ MVerdict("Failure"))
    BY <1>13 DEF MUpdate
  <2>2. MTypeOK' /\ mQueued' \in BOOLEAN
    BY <1>11, <2>1, MProvisionedType, MEnds
  <2>3. \/ netris' = netris
        \/ /\ netris[m.meta.id] # NoObj
           /\ netris' = [netris EXCEPT ![m.meta.id] =
                             [edit |-> m.meta.edit,
                              addr |-> Given(m.meta, netris[m.meta.id].addr),
                              auto |-> m.meta.auto]]
    BY <1>11, <1>13, <2>1 DEF MUpdate, TypeOK
  <2>4. netris' \in [Ids -> Objects \union {NoObj}]
    BY <1>11, <2>1, <2>3 DEF Given, Metas, Objects, TypeOK
  <2>5. Answered \/ Failed
    BY <1>13 DEF MUpdate
  <2> QED
    BY <1>13, <2>2, <2>4, <2>5, CallType DEF MUpdate, TypeOK
<1>14. CASE MFill
  <2>1. m.pc = "fill" /\ m.meta \in Metas /\ m.meta.id \in Ids
    BY <1>14 DEF MFill, TypeOK, MTypeOK, Metas
  <2>2. PICK o \in Objects \union {NoObj} : m' = [m EXCEPT !.pc = "writeBack", !.obj = o]
    BY <1>14, <2>1 DEF MFill, TypeOK
  <2>5. MTypeOK'
    BY <2>1, <2>2 DEF TypeOK, MTypeOK
  <2>6. Answered \/ Failed
    BY <1>14 DEF MFill
  <2> QED
    BY <1>14, <2>5, <2>6, CallType DEF MFill, TypeOK
<1>15. CASE MWriteBack
  <2>1. /\ m.pc = "writeBack" /\ MVerdict("Success") /\ (Answered \/ Failed)
        /\ cr' = cr \/ (cr = m.cr /\ cr' = Written(m.cr, m.meta, m.obj))
    BY <1>15 DEF MWriteBack
  <2>2. m.cr \in CRs /\ m.meta \in Metas /\ m.obj \in Objects \union {NoObj}
    BY <2>1 DEF TypeOK, MTypeOK
  <2>3. cr' \in CRs \union {NoCR}
    BY <2>1, <2>2, WrittenType DEF TypeOK
  <2> QED
    BY <1>15, <2>1, <2>3, MEnds, CallType DEF MWriteBack, remote, TypeOK
<1>16. CASE MStatus
  <2>1. /\ MRetry /\ (Answered \/ Failed)
        /\ cr' = cr \/ (cr = m.cr /\ cr' = [m.cr EXCEPT !.status = m.verdict])
        /\ m.pc = "status"
    BY <1>16 DEF MStatus
  <2>2. m.cr \in CRs /\ m.verdict \in {"none", "Success", "Failure"}
    BY <2>1 DEF TypeOK, MTypeOK
  <2>3. [m.cr EXCEPT !.status = m.verdict] \in CRs
    BY <2>2 DEF CRs
  <2>4. cr' \in CRs \union {NoCR}
    BY <2>1, <2>3 DEF TypeOK
  <2> QED
    BY <1>16, <2>1, <2>4, MRetries, CallType DEF MStatus, remote, TypeOK
<1>17. CASE MVPCFails
  BY <1>17, MEnds, CallType DEF MVPCFails, remote, TypeOK
<1> QED
  BY <1>5, <1>6, <1>7, <1>8, <1>9, <1>10, <1>12, <1>13, <1>14, <1>15, <1>16, <1>17 DEF MStep

LEMMA StepType == TypeOK /\ [Next]_vars => TypeOK'
<1>1. CASE UNCHANGED vars
  BY <1>1 DEF vars, TypeOK, XTypeOK, MTypeOK
<1> QED
  BY <1>1, UserType, SurroundingsType, XLoadType, XType, MLoadType, MType DEF Next

\* Type correctness: every variable keeps the values its Go counterpart can have, and a
\* worker holds what its next call to the API server or to Netris needs.
THEOREM TypeCorrect == Spec => []TypeOK
<1> QED
  BY InitType, StepType, PTL DEF Spec

-----------------------------------------------------------------------------
(* No meta goes before its object.                                         *)
(*                                                                         *)
(* What m knows when it lets the meta go is the delete it has made one     *)
(* call earlier; what makes it still true then is that nothing puts an     *)
(* object back under an id that has been deleted.                          *)

\* The object that m has deleted is gone.
Deleted == m.pc = "release" => netris[m.meta.id] = NoObj

\* Of m's steps only the delete leads to a release, and only a load to a deletion.
LEMMA MSteps ==
    ASSUME TypeOK, MStep, m'.pc \in {"deleting", "release"}
    PROVE  /\ MDeleteNetris
           /\ m.pc = "deleting" /\ m'.pc = "release" /\ m'.meta = m.meta
<1>1. ~MRetry /\ ~MDone /\ ~MVerdict("Success") /\ ~MVerdict("Failure")
  <2>1. ~MRetry /\ ~MDone
    BY DEF MRetry, MDone, MIdle
  <2>2. MVerdict("Success") \/ MVerdict("Failure") => m'.pc = "status"
    BY DEF MVerdict, MIdle
  <2> QED
    BY <2>1, <2>2
<1>2. ASSUME NEW mt, MProvisioned(mt), m.pc # "idle" PROVE FALSE
  BY <1>1, <1>2 DEF MProvisioned, TypeOK, MTypeOK
<1>3. ~MFindByID /\ ~MFill
  BY DEF MFindByID, MFill, TypeOK, MTypeOK
<1>4. ~MCreate
  BY <1>1 DEF MCreate, TypeOK, MTypeOK
<1>5. ~MVPCFails /\ ~MNothingChanged /\ ~MUpdate
  BY <1>1, <1>2 DEF MVPCFails, MNothingChanged, MUpdate
<1>6. ASSUME NEW i, NEW a, NEW done, MPatchID(i, a, done), ~done PROVE FALSE
  BY <1>1, <1>6 DEF MPatchID
<1>7. ~MImport
  BY <1>1, <1>6 DEF MImport
<1>8. ~MRecordID
  BY <1>2, <1>6 DEF MRecordID
<1>9. ~MRelease /\ ~MWriteBack /\ ~MStatus
  BY <1>1 DEF MRelease, MWriteBack, MStatus
<1>10. MDeleteNetris
  BY <1>3, <1>4, <1>5, <1>7, <1>8, <1>9 DEF MStep
<1> QED
  BY <1>1, <1>10 DEF MDeleteNetris, MDeleteFailed, MGoto, TypeOK, MTypeOK

LEMMA DeletedStep == TypeOK /\ Deleted /\ [Next]_vars => Deleted'
<1> SUFFICES ASSUME TypeOK, Deleted, [Next]_vars, m'.pc = "release"
             PROVE  netris'[m'.meta.id] = NoObj
  BY DEF Deleted
<1>1. netris \in [Ids -> Objects \union {NoObj}]
  BY DEF TypeOK
<1>2. CASE MDeleteNetris
  <2>1. m.meta.id \in Ids
    BY <1>2 DEF MDeleteNetris, MustDeleteInNetris, TypeOK, MTypeOK, Metas
  <2>2. m' = [m EXCEPT !.pc = "release"] /\ netris' = [netris EXCEPT ![m.meta.id] = NoObj]
    BY <1>2 DEF MDeleteNetris, MDeleteFailed, MRetry, MIdle, MGoto
  <2>3. m'.meta = m.meta
    BY <2>2 DEF TypeOK, MTypeOK
  <2> QED
    BY <1>1, <2>1, <2>2, <2>3
<1>3. CASE ~MDeleteNetris
  <2>1. m' = m
    <3>1. CASE MLoad
      BY <3>1 DEF MLoad, TypeOK, MTypeOK
    <3>2. CASE MStep
      BY <1>3, <3>2, MSteps
    <3>3. CASE Crash
      BY <3>3 DEF Crash, MIdle
    <3>4. CASE XLoad \/ XStep
      BY <3>4 DEF XLoad, XStep, XDeleteMeta, XRelease, XFail, XSetAnnotations, XSetFinalizer,
                  XPatchCR, XTranslateFails, XWriteMeta, XNothingToDo, OfX, mVars
    <3> QED
      BY <3>1, <3>2, <3>3, <3>4
      DEF Next, vars, UserCreate, UserEdit, UserAnnotate, UserDelete, OfUser, NetrisDrift,
          SyncCR, SyncMeta, DownloadWithInterval, XTimer, Resync, mVars
  <2>2. m.meta.id \in Ids
    BY <2>1 DEF TypeOK, MTypeOK, Metas
  <2>3. netris'[m.meta.id] = netris[m.meta.id] \/ netris[m.meta.id] # NoObj
    <3>1. CASE NetrisDrift
      BY <1>1, <2>2, <3>1 DEF NetrisDrift
    <3>2. CASE MStep
      BY <1>3, <2>1, <3>2
      DEF MStep, MRelease, MImport, MFindByID, MCreate, MUnrecorded, MRecordID, MVPCFails,
          MNothingChanged, MUpdate, MFill, MWriteBack, MStatus, remote
    <3>3. CASE XLoad \/ XStep
      BY <3>3 DEF XLoad, XStep, XDeleteMeta, XRelease, XFail, XSetAnnotations, XSetFinalizer,
                  XPatchCR, XTranslateFails, XWriteMeta, XNothingToDo, OfX, remote
    <3> QED
      BY <3>1, <3>2, <3>3
      DEF Next, vars, UserCreate, UserEdit, UserAnnotate, UserDelete, OfUser,
          SyncCR, SyncMeta, DownloadWithInterval, XTimer, Resync, Crash, MLoad, remote
  <2> QED
    BY <2>1, <2>3 DEF Deleted
<1> QED
  BY <1>2, <1>3

\* A meta that holds the id of its object goes after the object and not before.
THEOREM ObjectGoesFirst == Spec => ObjectFirst
<1>1. Init => Deleted
  BY DEF Init, MIdle, Deleted
<1>2. /\ TypeOK /\ Deleted /\ [Next]_vars
      => [meta # NoMeta /\ meta' = NoMeta /\ meta.id # 0 /\ meta.policy # "retain"
             => netris[meta.id] = NoObj]_vars
  <2> SUFFICES ASSUME TypeOK, Deleted, Next, meta # NoMeta, meta' = NoMeta,
                      meta.id # 0, meta.policy # "retain"
               PROVE  netris[meta.id] = NoObj
    OBVIOUS
  <2>1. meta \in Metas
    BY DEF TypeOK
  <2>2. MRelease
    <3>1. ASSUME MImport \/ MRecordID PROVE FALSE
      <4>1. meta' \in Metas
        BY <3>1, <2>1 DEF TypeOK, MTypeOK, Metas, MImport, MRecordID, MPatchID, MUnrecorded, FindByName, Objects
      <4> QED
        BY <4>1, SentinelAssumption
    <3>2. ASSUME XDeleteMeta \/ XWriteMeta PROVE FALSE
      <4>1. x.cr \in CRs /\ x.meta \in Metas \union {NoMeta}
        BY <3>2 DEF TypeOK, XTypeOK, XDeleteMeta, XWriteMeta, XAnnotated, XLoaded
      <4>2. NewMeta(x.cr) \in Metas /\ (x.meta # NoMeta => RefreshedMeta(x.cr, x.meta) \in Metas)
        BY <4>1, NewMetaType, RefreshedMetaType
      <4>3. meta' \in Metas
        BY <3>2, <2>1, <4>2 DEF XDeleteMeta, XWriteMeta, Metas
      <4> QED
        BY <4>3, SentinelAssumption
    <3> QED
      BY <3>1, <3>2
      DEF Next, XStep, MStep, UserCreate, UserEdit, UserAnnotate, UserDelete, OfUser, NetrisDrift,
          SyncCR, SyncMeta, DownloadWithInterval, XTimer, Resync, Crash, XLoad, MLoad, api,
          XRelease, XFail, XSetAnnotations, XSetFinalizer, XPatchCR, XTranslateFails, XNothingToDo,
          MDeleteNetris, MFindByID, MCreate, MVPCFails, MNothingChanged, MUpdate, MFill, MWriteBack, MStatus
  <2>3. meta = m.meta
    BY <2>2 DEF MRelease
  <2>4. ~MustDeleteInNetris(m.meta) => FALSE
    BY <2>1, <2>3 DEF MustDeleteInNetris, Metas
  <2> QED
    BY <2>2, <2>3, <2>4 DEF MRelease, Deleted
<1> QED
  BY <1>1, <1>2, DeletedStep, TypeCorrect, PTL DEF Spec, ObjectFirst

-----------------------------------------------------------------------------
(* The cascade implements the ledger.                                      *)
(*                                                                         *)
(* Both reconcilers work on copies.  A copy that has the finalizer and is  *)
(* not being deleted is a copy of a CR that still has it; a copy, and a    *)
(* meta, that is being deleted comes of a CR that is, or was.              *)

Lost == born /\ (cr = NoCR \/ cr.del)

Copied(c) == c # NoCR => born /\ (c.del => Lost) /\ (c.fin /\ ~c.del => cr # NoCR /\ cr.fin)

LedgerInv ==
    /\ cr # NoCR => born
    /\ Copied(crCache)
    /\ Copied(x.cr)
    /\ x.cr # NoCR /\ x.cr.del => crCache = NoCR \/ crCache.del
    /\ meta # NoMeta /\ meta.del => Lost
    /\ metaCache # NoMeta /\ metaCache.del => Lost
    /\ m.pc \in {"deleting", "release"} => m.meta.del /\ Lost

\* What a step leaves of the CR, as far as the ledger goes.
CRSame == (cr = NoCR /\ cr' = NoCR) \/ (cr # NoCR /\ cr' # NoCR /\ cr'.fin = cr.fin /\ cr'.del = cr.del)

CRMoves ==
    \/ CRSame /\ born' = born
    \/ ~born /\ born' /\ cr' # NoCR /\ ~cr'.fin /\ ~cr'.del
    \/ /\ born' = born /\ cr # NoCR
       /\ \/ ~cr.del /\ ~cr.fin /\ cr' = NoCR
          \/ ~cr.del /\ cr.fin /\ cr' # NoCR /\ cr'.fin /\ cr'.del
          \/ ~cr.del /\ ~cr.fin /\ cr' # NoCR /\ cr'.fin /\ ~cr'.del
          \/ cr.del /\ x.cr # NoCR /\ x.cr.del /\ cr' = NoCR

LEMMA UserMoves ==
    ASSUME TypeOK, LedgerInv, UserCreate \/ UserEdit \/ UserAnnotate \/ UserDelete
    PROVE  CRMoves
<1>1. CASE UserCreate
  <2>1. cr' \in CRs
    BY <1>1, WishType, BoundAssumption DEF UserCreate, CRs
  <2> QED
    BY <1>1, <2>1, SentinelAssumption DEF UserCreate, CRMoves
<1>2. CASE UserEdit \/ UserAnnotate
  BY <1>2, EditedCR, SentinelAssumption DEF UserEdit, UserAnnotate, CRMoves, CRSame
<1>3. CASE UserDelete
  <2>1. cr \in CRs /\ (cr.fin => [cr EXCEPT !.del = TRUE] \in CRs)
    BY <1>3 DEF UserDelete, TypeOK, CRs
  <2> QED
    BY <1>3, <2>1, SentinelAssumption DEF UserDelete, CRMoves, CRs
<1> QED
  BY <1>1, <1>2, <1>3

LEMMA XMoves == ASSUME TypeOK, LedgerInv, XStep PROVE CRMoves /\ born' = born
<1>1. x.pc # "idle" /\ x.cr \in CRs
  BY DEF XStep, XDeleteMeta, XRelease, XFail, XSetAnnotations, XSetFinalizer, XTranslateFails,
         XWriteMeta, XNothingToDo, XAnnotated, XLoaded, TypeOK, XTypeOK
<1>2. born' = born
  BY DEF XStep, XDeleteMeta, XRelease, XFail, XSetAnnotations, XSetFinalizer, XPatchCR,
         XTranslateFails, XWriteMeta, XNothingToDo, OfX
<1>3. CASE cr' = cr
  BY <1>2, <1>3 DEF CRMoves, CRSame
<1>4. CASE cr = x.cr /\ x.cr.del /\ cr' = NoCR
  BY <1>1, <1>2, <1>4, SentinelAssumption DEF CRMoves
<1>5. CASE cr = x.cr /\ cr' = [x.cr EXCEPT !.status = "Failure"]
  BY <1>1, <1>2, <1>5, SentinelAssumption DEF CRMoves, CRSame, CRs
<1>6. CASE cr = x.cr /\ cr' = [x.cr EXCEPT !.policy = "plain"]
  <2>1. cr' \in CRs /\ cr'.fin = cr.fin /\ cr'.del = cr.del
    BY <1>1, <1>6 DEF CRs, Policies
  <2> QED
    BY <1>1, <1>2, <1>6, <2>1, SentinelAssumption DEF CRMoves, CRSame
<1>7. CASE cr = x.cr /\ ~x.cr.fin /\ ~x.cr.del /\ cr' = [x.cr EXCEPT !.fin = TRUE]
  BY <1>1, <1>2, <1>7, SentinelAssumption DEF CRMoves, CRs
<1>8. CASE XRelease
  BY <1>3, <1>4, <1>8 DEF XRelease, XLoaded
<1>9. CASE XFail
  <2>1. cr' = cr \/ (cr = x.cr /\ cr' = [x.cr EXCEPT !.status = "Failure"])
    BY <1>9 DEF XFail
  <2> QED
    BY <1>3, <1>5, <2>1
<1>10. CASE XSetAnnotations
  BY <1>3, <1>6, <1>10 DEF XSetAnnotations, XPatchCR
<1>11. CASE XSetFinalizer
  <2>1. ~x.cr.fin /\ ~x.cr.del
    BY <1>1, <1>11 DEF XSetFinalizer, XAnnotated, XLoaded, CRs
  <2> QED
    BY <1>3, <1>7, <1>11, <2>1 DEF XSetFinalizer, XPatchCR
<1>12. CASE XDeleteMeta \/ XTranslateFails \/ XWriteMeta \/ XNothingToDo
  BY <1>3, <1>12 DEF XDeleteMeta, XTranslateFails, XWriteMeta, XNothingToDo
<1> QED
  BY <1>2, <1>8, <1>9, <1>10, <1>11, <1>12 DEF XStep

LEMMA MMoves == ASSUME TypeOK, LedgerInv, MStep PROVE CRSame /\ born' = born
<1>1. born' = born
  BY DEF MStep, MDeleteNetris, MRelease, MImport, MFindByID, MCreate, MRecordID, MVPCFails,
         MNothingChanged, MUpdate, MFill, MWriteBack, MStatus, OfM
<1>2. CASE MWriteBack
  <2>1. m.cr \in CRs /\ m.meta \in Metas /\ m.obj \in Objects \union {NoObj}
    BY <1>2 DEF MWriteBack, TypeOK, MTypeOK
  <2>2. LET new == Written(m.cr, m.meta, m.obj)
        IN  new \in CRs /\ new.fin = m.cr.fin /\ new.del = m.cr.del
    BY <2>1, WrittenType
  <2>3. cr' = cr \/ (cr = m.cr /\ cr' = Written(m.cr, m.meta, m.obj))
    BY <1>2 DEF MWriteBack
  <2> QED
    BY <1>1, <2>1, <2>2, <2>3, SentinelAssumption DEF CRSame
<1>3. CASE MStatus
  <2>1. m.cr \in CRs
    BY <1>3 DEF MStatus, TypeOK, MTypeOK
  <2>2. cr' = cr \/ (cr = m.cr /\ cr' = [m.cr EXCEPT !.status = m.verdict])
    BY <1>3 DEF MStatus
  <2>3. m.verdict \in {"none", "Success", "Failure"}
    BY DEF TypeOK, MTypeOK
  <2>4. LET c == [m.cr EXCEPT !.status = m.verdict]
        IN  c \in CRs /\ c.fin = m.cr.fin /\ c.del = m.cr.del
    BY <2>1, <2>3 DEF CRs
  <2> QED
    BY <1>1, <2>1, <2>2, <2>4, SentinelAssumption DEF CRSame
<1>4. CASE cr' = cr
  BY <1>1, <1>4 DEF CRSame
<1> QED
  BY <1>2, <1>3, <1>4
  DEF MStep, MDeleteNetris, MRelease, MImport, MFindByID, MCreate, MRecordID, MVPCFails,
      MNothingChanged, MUpdate, MFill

LEMMA Moves == TypeOK /\ LedgerInv /\ [Next]_vars => CRMoves
<1> SUFFICES ASSUME TypeOK, LedgerInv, [Next]_vars PROVE CRMoves
  OBVIOUS
<1>1. CASE cr' = cr /\ born' = born
  BY <1>1 DEF CRMoves, CRSame
<1>2. CASE MStep
  BY <1>2, MMoves DEF CRMoves
<1> QED
  BY <1>1, <1>2, UserMoves, XMoves
  DEF Next, vars, NetrisDrift, SyncCR, SyncMeta, DownloadWithInterval, XTimer, Resync, Crash,
      XLoad, MLoad, api

\* What a step leaves of the meta.
MetaMoves ==
    \/ meta' = meta
    \/ /\ cr' = cr /\ born' = born
       /\ \/ /\ meta = NoMeta /\ meta' # NoMeta
             /\ meta'.id = 0 /\ ~meta'.del /\ cr # NoCR /\ cr.fin
          \/ /\ meta # NoMeta /\ meta' # NoMeta
             /\ meta'.id = meta.id \/ meta'.id \in Ids
             /\ meta'.del => meta.del \/ Lost
          \/ meta # NoMeta /\ meta' = NoMeta /\ Lost

LEMMA XMetaMoves == ASSUME TypeOK, LedgerInv, XStep PROVE MetaMoves
<1>1. CASE XDeleteMeta
  <2>1. cr' = cr /\ born' = born /\ Lost
    BY <1>1 DEF XDeleteMeta, XLoaded, OfX, TypeOK, XTypeOK, LedgerInv, Copied
  <2>2. meta' = meta \/ (meta # NoMeta /\ meta' = [meta EXCEPT !.del = TRUE])
    BY <1>1 DEF XDeleteMeta
  <2>3. meta # NoMeta => [meta EXCEPT !.del = TRUE] \in Metas
    BY DEF TypeOK, Metas
  <2>4. meta # NoMeta => [meta EXCEPT !.del = TRUE].id = meta.id
    BY DEF TypeOK, Metas
  <2> QED
    BY <2>1, <2>2, <2>3, <2>4, SentinelAssumption DEF MetaMoves
<1>2. CASE XWriteMeta
  <2>1. /\ cr' = cr /\ born' = born /\ x.cr \in CRs /\ ~x.cr.del
        /\ x.meta \in Metas \union {NoMeta}
    BY <1>2 DEF XWriteMeta, XAnnotated, XLoaded, OfX, TypeOK, XTypeOK
  <2>2. meta' = meta \/ meta = x.meta
    BY <1>2 DEF XWriteMeta
  <2>3. CASE x.meta = NoMeta
    <3>1. x.cr.fin /\ (meta' = meta \/ meta' = NewMeta(x.cr))
      BY <1>2, <2>3 DEF XWriteMeta, MustWriteMeta
    <3>2. cr # NoCR /\ cr.fin
      BY <2>1, <3>1, SentinelAssumption DEF LedgerInv, Copied
    <3>3. NewMeta(x.cr) \in Metas /\ NewMeta(x.cr).id = 0 /\ ~NewMeta(x.cr).del
      BY <2>1, NewMetaType DEF NewMeta
    <3> QED
      BY <2>1, <2>2, <2>3, <3>1, <3>2, <3>3, SentinelAssumption DEF MetaMoves
  <2>4. CASE x.meta # NoMeta
    <3>1. meta' = meta \/ meta' = RefreshedMeta(x.cr, x.meta)
      BY <1>2, <2>4 DEF XWriteMeta
    <3>2. LET new == RefreshedMeta(x.cr, x.meta)
          IN  new \in Metas /\ new.id = x.meta.id /\ new.del = x.meta.del
      BY <2>1, <2>4, RefreshedMetaType DEF RefreshedMeta, NewMeta
    <3> QED
      BY <2>1, <2>2, <2>4, <3>1, <3>2, SentinelAssumption DEF MetaMoves
  <2> QED
    BY <2>3, <2>4
<1> QED
  BY <1>1, <1>2
  DEF MetaMoves, XStep, XRelease, XFail, XSetAnnotations, XSetFinalizer, XPatchCR,
      XTranslateFails, XNothingToDo

LEMMA MMetaMoves == ASSUME TypeOK, LedgerInv, MStep PROVE MetaMoves
<1>1. CASE MRelease
  BY <1>1 DEF MRelease, OfM, LedgerInv, TypeOK, MTypeOK, MetaMoves
<1>2. ASSUME NEW i \in Ids, NEW a \in Addresses, NEW done, MPatchID(i, a, done),
             m.pc \in {"loaded", "patchID"}, cr' = cr, born' = born
      PROVE  MetaMoves
  <2>1. m.meta \in Metas
    BY <1>2 DEF TypeOK, MTypeOK
  <2>2. meta' = meta \/ (meta = m.meta /\ meta' = [m.meta EXCEPT !.id = i, !.addr = a])
    BY <1>2 DEF MPatchID
  <2>3. LET new == [m.meta EXCEPT !.id = i, !.addr = a]
        IN  new \in Metas /\ new.id = i /\ new.del = m.meta.del
    BY <2>1 DEF Metas
  <2> QED
    BY <1>2, <2>1, <2>2, <2>3, SentinelAssumption DEF MetaMoves
<1>3. CASE MImport
  <2>1. PICK i \in FindByName : MPatchID(i, storage[i].addr, MRetry)
    BY <1>3 DEF MImport
  <2>2. i \in Ids /\ storage[i].addr \in Addresses
    BY DEF FindByName, TypeOK, Objects
  <2> QED
    BY <1>2, <1>3, <2>1, <2>2 DEF MImport, MUnrecorded, OfM
<1>4. CASE MRecordID
  <2>1. m.pc = "patchID" /\ m.id \in Ids /\ m.obj.addr \in Addresses
    BY <1>4 DEF MRecordID, TypeOK, MTypeOK, Objects
  <2> QED
    BY <1>2, <1>4, <2>1 DEF MRecordID, OfM
<1> QED
  BY <1>1, <1>3, <1>4
  DEF MetaMoves, MStep, MDeleteNetris, MFindByID, MCreate, MVPCFails, MNothingChanged, MUpdate, MFill,
      MWriteBack, MStatus

LEMMA MetaMovesStep == TypeOK /\ LedgerInv /\ [Next]_vars => MetaMoves
BY XMetaMoves, MMetaMoves
DEF Next, vars, UserCreate, UserEdit, UserAnnotate, UserDelete, OfUser, NetrisDrift, SyncCR,
    SyncMeta, DownloadWithInterval, XTimer, Resync, Crash, XLoad, MLoad, api, MetaMoves

\* What a step leaves of the copies.
CopiesMove ==
    /\ crCache' = crCache \/ (crCache' = cr /\ cr' = cr)
    /\ metaCache' = metaCache \/ (metaCache' = meta /\ meta' = meta)
    /\ \/ x'.cr \in {x.cr, NoCR}
       \/ x'.cr = crCache /\ crCache' = crCache /\ cr' = cr
    /\ m'.pc \in {"deleting", "release"} =>
          \/ m.pc \in {"deleting", "release"} /\ m'.meta = m.meta
          \/ metaCache # NoMeta /\ metaCache.del /\ m'.meta = metaCache

LEMMA CopiesStep == TypeOK /\ [Next]_vars => CopiesMove
<1> SUFFICES ASSUME TypeOK, [Next]_vars PROVE CopiesMove
  OBVIOUS
<1>1. /\ crCache' = crCache \/ (crCache' = cr /\ cr' = cr)
      /\ metaCache' = metaCache \/ (metaCache' = meta /\ meta' = meta)
  BY DEF Next, vars, UserCreate, UserEdit, UserAnnotate, UserDelete, OfUser, NetrisDrift, SyncCR,
         SyncMeta, DownloadWithInterval, XTimer, Resync, Crash, XLoad, MLoad, api, caches,
         XStep, XDeleteMeta, XRelease, XFail, XSetAnnotations, XSetFinalizer, XPatchCR,
         XTranslateFails, XWriteMeta, XNothingToDo, OfX,
         MStep, MDeleteNetris, MRelease, MImport, MFindByID, MCreate, MRecordID, MVPCFails,
         MNothingChanged, MUpdate, MFill, MWriteBack, MStatus, OfM
<1>2. \/ x'.cr \in {x.cr, NoCR}
      \/ x'.cr = crCache /\ crCache' = crCache /\ cr' = cr
  <2>1. CASE XLoad
    BY <2>1 DEF XLoad, api, caches
  <2>2. CASE XStep
    <3>1. XGoto("failed") \/ XDone \/ RequeueAfter
      BY <2>2 DEF XStep, XDeleteMeta, XRelease, XFail, XSetAnnotations, XSetFinalizer, XPatchCR,
                  XTranslateFails, XWriteMeta, XNothingToDo
    <3> QED
      BY <3>1 DEF XGoto, XDone, RequeueAfter, XIdle, TypeOK, XTypeOK
  <2>3. CASE Crash
    BY <2>3 DEF Crash, XIdle
  <2>4. CASE x' = x
    BY <2>4
  <2> QED
    BY <2>1, <2>2, <2>3, <2>4
    DEF Next, vars, UserCreate, UserEdit, UserAnnotate, UserDelete, OfUser, NetrisDrift, SyncCR,
        SyncMeta, DownloadWithInterval, XTimer, Resync, MLoad, xVars,
        MStep, MDeleteNetris, MRelease, MImport, MFindByID, MCreate, MRecordID, MVPCFails,
        MNothingChanged, MUpdate, MFill, MWriteBack, MStatus, OfM
<1>3. m'.pc \in {"deleting", "release"} =>
          \/ m.pc \in {"deleting", "release"} /\ m'.meta = m.meta
          \/ metaCache # NoMeta /\ metaCache.del /\ m'.meta = metaCache
  <2>1. CASE MLoad
    BY <2>1 DEF MLoad, TypeOK, MTypeOK
  <2>2. CASE MStep
    BY <2>2, MSteps
  <2>3. CASE Crash
    BY <2>3 DEF Crash, MIdle
  <2>4. CASE m' = m
    BY <2>4
  <2> QED
    BY <2>1, <2>2, <2>3, <2>4
    DEF Next, vars, UserCreate, UserEdit, UserAnnotate, UserDelete, OfUser, NetrisDrift, SyncCR,
        SyncMeta, DownloadWithInterval, XTimer, Resync, XLoad, mVars,
        XStep, XDeleteMeta, XRelease, XFail, XSetAnnotations, XSetFinalizer, XPatchCR,
        XTranslateFails, XWriteMeta, XNothingToDo, OfX
<1> QED
  BY <1>1, <1>2, <1>3 DEF CopiesMove

LEMMA LedgerInit == Init => LedgerInv
BY DEF Init, LedgerInv, Copied, XIdle, MIdle

LEMMA LedgerStep == TypeOK /\ LedgerInv /\ [Next]_vars => LedgerInv'
<1> SUFFICES ASSUME TypeOK, LedgerInv, [Next]_vars PROVE LedgerInv'
  OBVIOUS
<1>1. CRMoves /\ MetaMoves /\ CopiesMove
  BY Moves, MetaMovesStep, CopiesStep
<1>2. Lost => Lost'
  BY <1>1 DEF CRMoves, CRSame, Lost, LedgerInv
<1>3. cr' # NoCR => born'
  BY <1>1 DEF CRMoves, CRSame, LedgerInv
\* A copy that is kept stays a copy, unless the CR is let go, which is done on a copy that
\* is being deleted.
<1>4. ASSUME NEW c, Copied(c), c # NoCR /\ x.cr # NoCR /\ x.cr.del => c.del
      PROVE  c # NoCR => /\ born' /\ (c.del => Lost')
                         /\ (c.fin /\ ~c.del => cr' # NoCR /\ cr'.fin)
  BY <1>1, <1>2, <1>4 DEF CRMoves, CRSame, Copied
<1>5. Copied(crCache)'
  <2>1. CASE crCache' = crCache
    BY <1>4, <2>1 DEF LedgerInv, Copied
  <2>2. CASE crCache' = cr /\ cr' = cr
    BY <1>3, <2>2 DEF Copied, Lost
  <2> QED
    BY <1>1, <2>1, <2>2 DEF CopiesMove
<1>6. Copied(x.cr)'
  <2>1. CASE x'.cr \in {x.cr, NoCR}
    BY <1>4, <2>1 DEF LedgerInv, Copied
  <2>2. CASE x'.cr = crCache /\ crCache' = crCache
    BY <1>5, <2>2 DEF Copied
  <2> QED
    BY <1>1, <2>1, <2>2 DEF CopiesMove
<1>7. x'.cr # NoCR /\ x'.cr.del => crCache' = NoCR \/ crCache'.del
  BY <1>1 DEF CopiesMove, LedgerInv, Copied, Lost
<1>8. meta' # NoMeta /\ meta'.del => Lost'
  BY <1>1, <1>2 DEF MetaMoves, LedgerInv
<1>9. metaCache' # NoMeta /\ metaCache'.del => Lost'
  BY <1>1, <1>2, <1>8 DEF CopiesMove, LedgerInv
<1>10. m'.pc \in {"deleting", "release"} => m'.meta.del /\ Lost'
  BY <1>1, <1>2 DEF CopiesMove, LedgerInv
<1> QED
  BY <1>3, <1>5, <1>6, <1>7, <1>8, <1>9, <1>10 DEF LedgerInv

LEMMA Becomes ==
    ASSUME Entry' = Entry, NEW from, NEW to, Life = from, Life' = to
    PROVE  L!Become(1, from, to)
BY DEF L!Become

LEMMA Writes == ASSUME Life' = Life, NEW e, Entry' = e PROVE L!Write(1, e)
BY DEF L!Write

LEMMA RefineInit == Init => L!Init
<1> SUFFICES ASSUME Init PROVE L!Init
  OBVIOUS
<1>1. Life = "unborn" /\ Entry = NoMeta
  BY DEF Init, Life, Entry
<1> QED
  BY <1>1 DEF L!Init

LEMMA RefineStep == TypeOK /\ LedgerInv /\ [Next]_vars => [L!Next]_(L!vars)
<1> SUFFICES ASSUME TypeOK, LedgerInv, [Next]_vars PROVE [L!Next]_(L!vars)
  OBVIOUS
<1>1. CRMoves /\ MetaMoves /\ TypeOK' /\ LedgerInv'
  BY Moves, MetaMovesStep, StepType, LedgerStep
<1>2. /\ Life = IF ~born THEN "unborn" ELSE IF cr = NoCR THEN "gone"
                ELSE IF cr.del THEN "doomed" ELSE IF cr.fin THEN "protected" ELSE "open"
      /\ Life' = IF ~born' THEN "unborn" ELSE IF cr' = NoCR THEN "gone"
                 ELSE IF cr'.del THEN "doomed" ELSE IF cr'.fin THEN "protected" ELSE "open"
  <2>1. /\ born \in BOOLEAN /\ (cr # NoCR => born /\ cr.del \in BOOLEAN /\ cr.fin \in BOOLEAN)
        /\ born' \in BOOLEAN
        /\ cr' # NoCR => born' /\ cr'.del \in BOOLEAN /\ cr'.fin \in BOOLEAN
    BY <1>1 DEF TypeOK, LedgerInv, CRs
  <2> QED
    BY <2>1 DEF Life
<1>3. /\ meta = NoMeta => Entry = NoMeta
      /\ meta # NoMeta => Entry = meta.id /\ Entry # NoMeta
      /\ meta' = NoMeta => Entry' = NoMeta
      /\ meta' # NoMeta => Entry' = meta'.id
  BY <1>1, SentinelAssumption DEF Entry, TypeOK, Metas
<1>4. CASE meta' = meta
  <2>1. Entry' = Entry
    BY <1>4 DEF Entry
  <2>2. \/ Life' = Life
        \/ Life = "unborn" /\ Life' = "open"
        \/ Life = "open" /\ Life' \in {"gone", "protected"}
        \/ Life = "protected" /\ Life' = "doomed"
        \/ Life = "doomed" /\ Life' = "gone"
    BY <1>1, <1>2 DEF CRMoves, CRSame, LedgerInv
  <2>3. CASE Life' = Life
    BY <2>1, <2>3 DEF L!vars
  <2>4. CASE Life' # Life
    <3>1. \/ L!Create(1) \/ L!Abandon(1) \/ L!Protect(1) \/ L!Doom(1) \/ L!Release(1)
      BY <2>1, <2>2, <2>4, Becomes DEF L!Create, L!Abandon, L!Protect, L!Doom, L!Release
    <3> QED
      BY <3>1 DEF L!Next
  <2> QED
    BY <2>3, <2>4
<1>5. CASE meta' # meta
  <2>1. Life' = Life
    BY <1>1, <1>2, <1>5 DEF MetaMoves
  <2>2. CASE meta = NoMeta /\ meta' # NoMeta /\ meta'.id = 0 /\ cr # NoCR /\ cr.fin
    <3>1. Life \in {"protected", "doomed"} /\ Entry = NoMeta /\ Entry' = 0
      BY <1>2, <1>3, <2>2 DEF LedgerInv
    <3>2. L!Register(1)
      BY <2>1, <3>1, Writes DEF L!Register
    <3> QED
      BY <3>2 DEF L!Next
  <2>3. CASE meta # NoMeta /\ meta' # NoMeta /\ meta'.id = meta.id
    <3>1. Entry' = Entry
      BY <1>3, <2>3
    <3> QED
      BY <2>1, <3>1 DEF L!vars
  <2>4. CASE meta # NoMeta /\ meta' # NoMeta /\ meta'.id \in Ids
    <3>1. Entry # NoMeta /\ Entry' = meta'.id
      BY <1>3, <2>4
    <3>2. L!Record(1, meta'.id)
      BY <2>1, <3>1, Writes DEF L!Record
    <3> QED
      BY <2>4, <3>2 DEF L!Next
  <2>5. CASE meta # NoMeta /\ meta' = NoMeta /\ Lost
    <3>1. Life \in {"doomed", "gone"} /\ Entry' = NoMeta
      BY <1>2, <1>3, <2>5 DEF Lost
    <3>2. L!Erase(1)
      BY <2>1, <3>1, Writes DEF L!Erase
    <3> QED
      BY <3>2 DEF L!Next
  <2> QED
    BY <1>1, <1>5, <2>2, <2>3, <2>4, <2>5 DEF MetaMoves
<1> QED
  BY <1>4, <1>5

\* The cascade implements the ledger: a meta is made under the finalizer only, keeps its id,
\* and goes only for a CR that the user has deleted.
THEOREM ImplementsLedger == Spec => KeepsLedger
<1>1. TypeOK /\ LedgerInv /\ [Next]_vars => [L!Next]_(L!vars)
  BY RefineStep
<1> QED
  BY <1>1, RefineInit, LedgerInit, LedgerStep, TypeCorrect, PTL DEF Spec, KeepsLedger, L!Spec

=============================================================================
