---------------------------- MODULE LinkProofs ----------------------------
(***************************************************************************)
(* Theorems about module Link, for every value of its constants.           *)
(***************************************************************************)
EXTENDS Link, TLAPS

USE DEF Gens

-----------------------------------------------------------------------------
(* Type correctness.                                                       *)

LEMMA SpendType ==
    ASSUME TypeOK, NEW d \in Disturbances, Spend(d)
    PROVE  left' \in [Disturbances -> Nat]
<1>1. left \in [Disturbances -> Nat]
  BY DEF TypeOK
<1>2. left[d] \in Nat /\ left[d] > 0
  BY <1>1 DEF Spend
<1> QED
  BY <1>1, <1>2 DEF Spend

LEMMA CallType ==
    ASSUME TypeOK, Answered \/ Failed
    PROVE  left' \in [Disturbances -> Nat]
BY SpendType DEF Answered, Failed, Disturbances, TypeOK

LEMMA WishType ==
    ASSUME TypeOK
    PROVE  /\ scenario.pair \in Pairs /\ scenario.policy \in Policies
           /\ scenario.edits \subseteq Pairs
BY DEF TypeOK, ScenarioType

LEMMA NewMetaType == ASSUME NEW c \in CRs PROVE NewMeta(c) \in Metas
BY DEF NewMeta, Metas, CRs

LEMMA RefreshedMetaType ==
    ASSUME NEW c \in CRs, NEW old \in Metas PROVE RefreshedMeta(c, old) \in Metas
BY NewMetaType DEF RefreshedMeta, Metas

LEMMA XIdleType == ASSUME x' = XIdle PROVE XTypeOK'
BY DEF XTypeOK, XIdle

LEMMA MIdleType == ASSUME m' = MIdle PROVE MTypeOK'
BY DEF MTypeOK, MIdle

\* The links: netris, and what the properties remember of them
LinksType == netris \subseteq Pairs /\ lost \subseteq made /\ made \subseteq netris

LEMMA InitType == Init => TypeOK
<1> SUFFICES ASSUME Init PROVE TypeOK
  OBVIOUS
<1>1. XTypeOK
  BY DEF Init, XTypeOK, XIdle
<1>2. MTypeOK
  BY DEF Init, MTypeOK, MIdle
<1>3. scenario \in ScenarioType
  BY ScenarioAssumption DEF Init
<1>4. netris \subseteq Pairs /\ storage \subseteq Pairs /\ left \in [Disturbances -> Nat]
  BY <1>3 DEF Init, ScenarioType
<1> QED
  BY <1>1, <1>2, <1>3, <1>4 DEF Init, TypeOK

LEMMA EditedCR ==
    ASSUME TypeOK, UserEdit \/ UserAnnotate
    PROVE  cr \in CRs /\ cr' \in CRs /\ cr'.fin = cr.fin /\ cr'.del = cr.del
<1>1. cr \in CRs
  BY DEF UserEdit, UserAnnotate, TypeOK
<1>2. CASE UserEdit
  <2>1. PICK p \in Pairs : cr' = [cr EXCEPT !.gen = cr.gen + 1, !.pair = p]
    BY <1>1, <1>2, WishType DEF UserEdit, CRs
  <2>2. cr.gen + 1 \in Gens
    BY <1>1 DEF CRs
  <2> QED
    BY <1>1, <2>1, <2>2 DEF CRs
<1>3. CASE UserAnnotate
  BY <1>1, <1>3 DEF UserAnnotate, CRs, Policies
<1> QED
  BY <1>2, <1>3

LEMMA UserType ==
    ASSUME TypeOK, UserCreate \/ UserEdit \/ UserAnnotate \/ UserDelete PROVE TypeOK'
<1>1. /\ UNCHANGED <<scenario, meta, crCache, metaCache, netris, made, lost, storage>>
      /\ UNCHANGED <<x, xQueued, m, mQueued>>
  BY DEF UserCreate, UserEdit, UserAnnotate, UserDelete, OfUser, caches, remote, history,
         xVars, mVars
<1>2. XTypeOK' /\ MTypeOK'
  BY <1>1 DEF TypeOK, XTypeOK, MTypeOK
<1>3. born' \in BOOLEAN
  BY DEF UserCreate, UserEdit, UserAnnotate, UserDelete, TypeOK
<1>4. left' \in [Disturbances -> Nat]
  BY SpendType DEF UserCreate, UserEdit, UserAnnotate, UserDelete, Disturbances, TypeOK
<1>5. cr' \in CRs \union {NoCR}
  <2>1. CASE UserCreate
    BY <2>1, WishType DEF UserCreate, CRs
  <2>2. CASE UserEdit \/ UserAnnotate
    BY <2>2, EditedCR
  <2>3. CASE UserDelete
    BY <2>3 DEF UserDelete, TypeOK, CRs
  <2> QED
    BY <2>1, <2>2, <2>3
<1> QED
  BY <1>1, <1>2, <1>3, <1>4, <1>5 DEF TypeOK

\* Drift, informers, downloads, and the process.
LEMMA SurroundingsType ==
    ASSUME TypeOK, NetrisDrift \/ SyncCR \/ SyncMeta \/ DownloadWithInterval \/ Crash
    PROVE  TypeOK'
<1>1. UNCHANGED <<scenario, cr, meta, born>>
  BY DEF NetrisDrift, SyncCR, SyncMeta, DownloadWithInterval, Crash, api
<1>2. XTypeOK'
  BY XIdleType
  DEF NetrisDrift, SyncCR, SyncMeta, DownloadWithInterval, Crash, xVars, TypeOK, XTypeOK
<1>3. MTypeOK'
  BY MIdleType
  DEF NetrisDrift, SyncCR, SyncMeta, DownloadWithInterval, Crash, mVars, TypeOK, MTypeOK
<1>4. left' \in [Disturbances -> Nat]
  BY SpendType
  DEF NetrisDrift, SyncCR, SyncMeta, DownloadWithInterval, Crash, Disturbances, TypeOK
<1>5. /\ crCache' \in CRs \union {NoCR} /\ metaCache' \in Metas \union {NoMeta}
      /\ storage' \subseteq Pairs
  BY DEF NetrisDrift, SyncCR, SyncMeta, DownloadWithInterval, Crash, caches, TypeOK
<1>6. LinksType'
  <2>1. CASE NetrisDrift
    BY <2>1 DEF NetrisDrift, Removed, history, LinksType, TypeOK
  <2>2. CASE Crash
    BY <2>2 DEF Crash, LinksType, TypeOK
  <2> QED
    BY <2>1, <2>2 DEF SyncCR, SyncMeta, DownloadWithInterval, remote, history, LinksType, TypeOK
<1>7. xQueued' \in BOOLEAN /\ mQueued' \in BOOLEAN
  BY DEF NetrisDrift, SyncCR, SyncMeta, DownloadWithInterval, Crash, xVars, mVars, TypeOK
<1> QED
  BY <1>1, <1>2, <1>3, <1>4, <1>5, <1>6, <1>7 DEF TypeOK, LinksType

LEMMA XLoadType == ASSUME TypeOK, XLoad PROVE TypeOK'
<1>1. XTypeOK'
  BY DEF XLoad, TypeOK, XTypeOK
<1>2. left' \in [Disturbances -> Nat]
  BY SpendType DEF XLoad, Disturbances, TypeOK
<1>3. MTypeOK'
  BY DEF XLoad, mVars, TypeOK, MTypeOK
<1> QED
  BY <1>1, <1>2, <1>3 DEF XLoad, api, caches, remote, history, mVars, TypeOK

\* What a step of x may do: it goes on in its round or ends it.
XContinues == XGoto("deleteMeta") \/ XGoto("release") \/ XGoto("failed") \/ XDone \/ XRequeue

LEMMA XEnds ==
    ASSUME TypeOK, x.pc # "idle", XContinues PROVE XTypeOK' /\ xQueued' \in BOOLEAN
<1>1. CASE XGoto("deleteMeta") \/ XGoto("release") \/ XGoto("failed")
  BY <1>1 DEF XGoto, TypeOK, XTypeOK
<1>2. CASE XDone \/ XRequeue
  BY <1>2, XIdleType DEF XDone, XRequeue, TypeOK
<1> QED
  BY <1>1, <1>2 DEF XContinues

LEMMA XPatches ==
    ASSUME TypeOK, x.pc # "idle", NEW c \in CRs, XPatchCR(c)
    PROVE  /\ OfX /\ (Answered \/ Failed) /\ XContinues
           /\ cr' \in CRs \union {NoCR} /\ meta' \in Metas \union {NoMeta}
           /\ LinksType'
BY DEF XPatchCR, XContinues, LinksType, remote, history, TypeOK

LEMMA XType == ASSUME TypeOK, XStep PROVE TypeOK'
<1>1. x.pc # "idle" /\ x.cr \in CRs /\ x.meta \in Metas \union {NoMeta}
  BY DEF XStep, XDeleteNetris, XDeleteMeta, XRelease, XFail, XSetAnnotations, XSetFinalizer,
         XTranslateFails, XWriteMeta, XNothingToDo, MustWriteMeta, XAnnotated, XLoaded,
         TypeOK, XTypeOK
<1>2. /\ OfX /\ (Answered \/ Failed) /\ XContinues
      /\ cr' \in CRs \union {NoCR} /\ meta' \in Metas \union {NoMeta}
      /\ LinksType'
  <2>1. CASE XDeleteNetris
    <3>1. UNCHANGED remote \/ Removed(x.meta.pair)
      BY <2>1 DEF XDeleteNetris
    <3>2. LinksType'
      BY <3>1 DEF Removed, remote, history, LinksType, TypeOK
    <3> QED
      BY <2>1, <3>2 DEF XDeleteNetris, XContinues, TypeOK
  <2>2. CASE XDeleteMeta
    <3>1. /\ lost' \subseteq lost \union made /\ UNCHANGED <<cr, netris, made>>
          /\ meta' \in {meta, NoMeta}
      BY <2>2 DEF XDeleteMeta
    <3>2. OfX /\ (Answered \/ Failed) /\ XContinues
      BY <2>2 DEF XDeleteMeta, XContinues
    <3> QED
      BY <3>1, <3>2 DEF LinksType, TypeOK
  <2>3. CASE XRelease
    BY <2>3 DEF XRelease, XContinues, LinksType, remote, history, TypeOK
  <2>4. CASE XFail
    <3>1. cr' = cr \/ (cr = x.cr /\ cr' = [x.cr EXCEPT !.status = "Failure"])
      BY <2>4 DEF XFail
    <3>2. cr' \in CRs \union {NoCR}
      BY <1>1, <3>1 DEF TypeOK, CRs
    <3> QED
      BY <2>4, <3>2 DEF XFail, XContinues, LinksType, remote, history, TypeOK
  <2>5. CASE XSetAnnotations
    <3>1. [x.cr EXCEPT !.policy = "plain"] \in CRs
      BY <1>1 DEF CRs, Policies
    <3> QED
      BY <1>1, <2>5, <3>1, XPatches DEF XSetAnnotations
  <2>6. CASE XSetFinalizer
    <3>1. [x.cr EXCEPT !.fin = TRUE] \in CRs
      BY <1>1 DEF CRs
    <3> QED
      BY <1>1, <2>6, <3>1, XPatches DEF XSetFinalizer
  <2>7. CASE XTranslateFails \/ XNothingToDo
    BY <2>7 DEF XTranslateFails, XNothingToDo, Answered, XContinues, LinksType, remote, history,
                TypeOK
  <2>8. CASE XWriteMeta
    <3>1. NewMeta(x.cr) \in Metas /\ (x.meta # NoMeta => RefreshedMeta(x.cr, x.meta) \in Metas)
      BY <1>1, NewMetaType, RefreshedMetaType
    <3>2. \/ UNCHANGED meta
          \/ meta' = IF x.meta = NoMeta THEN NewMeta(x.cr) ELSE RefreshedMeta(x.cr, x.meta)
      BY <2>8 DEF XWriteMeta
    <3>3. meta' \in Metas \union {NoMeta}
      BY <3>1, <3>2 DEF TypeOK
    <3>4. OfX /\ (Answered \/ Failed) /\ XRequeue /\ UNCHANGED <<cr, remote>>
      BY <2>8 DEF XWriteMeta
    <3> QED
      BY <3>3, <3>4 DEF XContinues, LinksType, remote, history, TypeOK
  <2> QED
    BY <2>1, <2>2, <2>3, <2>4, <2>5, <2>6, <2>7, <2>8 DEF XStep
<1>3. XTypeOK' /\ xQueued' \in BOOLEAN
  BY <1>1, <1>2, XEnds
<1>4. left' \in [Disturbances -> Nat]
  BY <1>2, CallType
<1>5. UNCHANGED <<scenario, born, crCache, metaCache, storage, m, mQueued>>
  BY <1>2 DEF OfX, caches, mVars
<1>6. MTypeOK'
  BY <1>5 DEF TypeOK, MTypeOK
<1> QED
  BY <1>2, <1>3, <1>4, <1>5, <1>6 DEF TypeOK, LinksType

LEMMA MLoadType == ASSUME TypeOK, MLoad PROVE TypeOK'
<1>1. MTypeOK'
  BY DEF MLoad, BothFound, TypeOK, MTypeOK
<1>2. left' \in [Disturbances -> Nat]
  BY SpendType DEF MLoad, Disturbances, TypeOK
<1>3. XTypeOK'
  BY DEF MLoad, xVars, TypeOK, XTypeOK
<1> QED
  BY <1>1, <1>2, <1>3 DEF MLoad, api, caches, remote, history, xVars, TypeOK

\* m goes to a step that needs nothing but the meta, or ends its round.
MContinues ==
    \/ \E pc \in {"import", "create", "patchID"} : MGoto(pc)
    \/ \E v \in {"OK", "Failure"} : MVerdict(v)
    \/ MRetry

LEMMA MEnds ==
    ASSUME TypeOK, m.pc # "idle", m.pc # "status" \/ MRetry, MContinues
    PROVE  MTypeOK' /\ mQueued' \in BOOLEAN
<1>1. CASE MRetry
  BY <1>1, MIdleType DEF MRetry
<1>2. CASE m.pc # "status" /\ \E pc \in {"import", "create", "patchID"} : MGoto(pc)
  BY <1>2 DEF MGoto, TypeOK, MTypeOK
<1>3. CASE \E v \in {"OK", "Failure"} : MVerdict(v)
  BY <1>3 DEF MVerdict, MIdle, TypeOK, MTypeOK
<1> QED
  BY <1>1, <1>2, <1>3 DEF MContinues

\* A patch of the meta's ID, accepted or not
LEMMA PatchedType ==
    ASSUME TypeOK, m.pc \in {"import", "patchID", "forget"}, NEW i \in Pairs \union {NoPair},
           meta' = meta \/ meta' = [m.meta EXCEPT !.id = i]
    PROVE  meta' \in Metas \union {NoMeta}
<1>1. m.meta \in Metas
  BY DEF TypeOK, MTypeOK
<1>2. [m.meta EXCEPT !.id = i] \in Metas
  BY <1>1 DEF Metas
<1> QED
  BY <1>2 DEF TypeOK

LEMMA MFinds ==
    ASSUME TypeOK, NEW p, NEW found, NEW missing, Find(p, found, missing)
    PROVE  (Answered \/ Failed) /\ storage' \subseteq Pairs /\ (found \/ missing)
BY DEF Find, TypeOK

LEMMA MType == ASSUME TypeOK, MStep PROVE TypeOK'
<1>1. UNCHANGED <<scenario, born, crCache, metaCache, x, xQueued>>
  BY DEF MStep, MFindForImport, MImport, MFindByID, MCreate, MRecordID, MPortMissing,
         MNothingChanged, MDeleteOld, MForget, MStatus, OfM, caches, xVars
<1>2. XTypeOK'
  BY <1>1 DEF TypeOK, XTypeOK
<1>3. SUFFICES /\ cr' \in CRs \union {NoCR} /\ meta' \in Metas \union {NoMeta}
               /\ storage' \subseteq Pairs /\ LinksType'
               /\ left' \in [Disturbances -> Nat]
               /\ MTypeOK' /\ mQueued' \in BOOLEAN
  BY <1>1, <1>2 DEF TypeOK, LinksType
<1>4. m.pc \notin {"idle", "status"} => m.meta \in Metas /\ m.meta.pair \in Pairs
  BY DEF TypeOK, MTypeOK, Metas
<1>5. CASE MFindForImport
  <2>1. Find(m.meta.pair, MGoto("import"), MGoto("create")) /\ m.pc = "loaded"
    BY <1>5 DEF MFindForImport, MUnrecorded
  <2>2. (Answered \/ Failed) /\ storage' \subseteq Pairs /\ (MGoto("import") \/ MGoto("create"))
    BY <2>1, MFinds
  <2> QED
    BY <1>5, <2>1, <2>2, MEnds, CallType
    DEF MFindForImport, MContinues, remote, history, LinksType, TypeOK
<1>6. CASE MImport
  <2>1. /\ m.pc = "import"
        /\ Answered \/ Failed
        /\ MRetry \/ MVerdict("Failure")
        /\ meta' = meta \/ meta' = [m.meta EXCEPT !.id = m.meta.pair]
        /\ UNCHANGED <<cr, netris, storage, scenario, x, xQueued>>
    BY <1>6 DEF MImport, MPatchID, OfM, xVars
  <2>2. meta' \in Metas \union {NoMeta}
    BY <1>4, <2>1, PatchedType
  <2>3. LinksType'
    BY <1>6 DEF MImport, MPatchID, history, LinksType, TypeOK
  <2> QED
    BY <2>1, <2>2, <2>3, MEnds, CallType DEF MContinues, TypeOK
<1>7. CASE MFindByID
  <2>1. /\ Find(m.meta.id, MGoto("compare"), MGoto("create"))
        /\ m.pc = "loaded" /\ m.meta.id # NoPair
    BY <1>7 DEF MFindByID
  <2>2. (Answered \/ Failed) /\ storage' \subseteq Pairs /\ (MGoto("compare") \/ MGoto("create"))
    BY <2>1, MFinds
  <2>3. MTypeOK' /\ mQueued' \in BOOLEAN
    BY <2>1, <2>2 DEF MGoto, TypeOK, MTypeOK
  <2> QED
    BY <1>7, <2>2, <2>3, CallType DEF MFindByID, remote, history, LinksType, TypeOK
<1>8. CASE MCreate
  <2>1. m.pc \in {"loaded", "create"}
    BY <1>8 DEF MCreate, MUnrecorded
  <2>2. /\ (Answered \/ Failed) /\ MContinues
        /\ OfM /\ UNCHANGED <<cr, meta, storage>>
    BY <1>8 DEF MCreate, MContinues
  <2>3. \/ UNCHANGED remote
        \/ /\ netris' = netris \union {m.meta.pair} /\ made' = made \union {m.meta.pair}
           /\ lost' = lost \/ lost' = lost \union {m.meta.pair}
    BY <1>8 DEF MCreate
  <2>4. LinksType'
    BY <1>4, <2>1, <2>3 DEF remote, history, LinksType, TypeOK
  <2> QED
    BY <2>1, <2>2, <2>4, MEnds, CallType DEF TypeOK
<1>9. CASE MRecordID
  <2>1. /\ m.pc = "patchID"
        /\ Answered \/ Failed
        /\ MVerdict("OK") \/ MVerdict("Failure")
        /\ meta' = meta \/ meta' = [m.meta EXCEPT !.id = m.meta.pair]
        /\ UNCHANGED <<cr, netris, made, storage>>
    BY <1>9 DEF MRecordID, MPatchID
  <2>2. meta' \in Metas \union {NoMeta}
    BY <1>4, <2>1, PatchedType
  <2>3. LinksType'
    BY <1>9 DEF MRecordID, MPatchID, LinksType, TypeOK
  <2> QED
    BY <2>1, <2>2, <2>3, MEnds, CallType DEF MContinues, TypeOK
<1>10. CASE MPortMissing \/ MNothingChanged
  <2>1. m.pc = "compare" /\ MContinues /\ left' = left /\ UNCHANGED <<cr, meta, remote, storage>>
    BY <1>10 DEF MPortMissing, MNothingChanged, MContinues
  <2> QED
    BY <2>1, MEnds DEF remote, history, LinksType, TypeOK
<1>11. CASE MDeleteOld
  <2>1. /\ m.pc = "compare" /\ (Answered \/ Failed)
        /\ MGoto("forget") \/ MRetry
        /\ UNCHANGED remote \/ Removed(m.meta.id)
    BY <1>11 DEF MDeleteOld
  <2>2. MTypeOK' /\ mQueued' \in BOOLEAN
    BY <2>1, MIdleType DEF MGoto, MRetry, TypeOK, MTypeOK
  <2>3. LinksType'
    BY <2>1 DEF Removed, remote, history, LinksType, TypeOK
  <2> QED
    BY <1>11, <2>1, <2>2, <2>3, CallType DEF MDeleteOld, TypeOK
<1>12. CASE MForget
  <2>1. /\ m.pc = "forget"
        /\ Answered \/ Failed
        /\ MVerdict("OK") \/ MVerdict("Failure")
        /\ meta' = meta \/ meta' = [m.meta EXCEPT !.id = NoPair]
        /\ UNCHANGED <<cr, netris, made, lost, storage>>
    BY <1>12 DEF MForget, MPatchID, history
  <2>2. meta' \in Metas \union {NoMeta}
    BY <2>1, PatchedType
  <2> QED
    BY <2>1, <2>2, MEnds, CallType DEF MContinues, LinksType, TypeOK
<1>13. CASE MStatus
  <2>1. /\ MRetry /\ (Answered \/ Failed)
        /\ cr' = cr \/ (cr = m.cr /\ cr' = [m.cr EXCEPT !.status = m.verdict])
        /\ m.pc = "status"
    BY <1>13 DEF MStatus
  <2>2. m.cr \in CRs /\ m.verdict \in {"none", "OK", "Failure"}
    BY <2>1 DEF TypeOK, MTypeOK
  <2>3. [m.cr EXCEPT !.status = m.verdict] \in CRs
    BY <2>2 DEF CRs
  <2>4. cr' \in CRs \union {NoCR}
    BY <2>1, <2>3 DEF TypeOK
  <2>5. MTypeOK' /\ mQueued' \in BOOLEAN
    BY <2>1, MIdleType DEF MRetry
  <2> QED
    BY <1>13, <2>1, <2>4, <2>5, CallType DEF MStatus, remote, history, LinksType, TypeOK
<1> QED
  BY <1>5, <1>6, <1>7, <1>8, <1>9, <1>10, <1>11, <1>12, <1>13 DEF MStep

LEMMA StepType == TypeOK /\ [Next]_vars => TypeOK'
<1>1. CASE UNCHANGED vars
  BY <1>1 DEF vars, TypeOK, XTypeOK, MTypeOK
<1> QED
  BY <1>1, UserType, SurroundingsType, XLoadType, XType, MLoadType, MType DEF Next

\* Type correctness: every variable keeps the values its Go counterpart can have, and a
\* worker holds what its next call to the API server or to Netris needs.
THEOREM TypeCorrect == Spec => []TypeOK
<1> QED
  BY InitType, StepType, PTL DEF Spec

-----------------------------------------------------------------------------
(* Link implements the ledger.                                             *)
(*                                                                         *)
(* The reconciler of the CR works on copies.  A copy that has the          *)
(* finalizer and is not being deleted is a copy of a CR that still has it; *)
(* a copy that is being deleted comes of a CR that is, or was.             *)

Lost == born /\ (cr = NoCR \/ cr.del)

Copied(c) == c # NoCR => born /\ (c.del => Lost) /\ (c.fin /\ ~c.del => cr # NoCR /\ cr.fin)

LedgerInv ==
    /\ cr # NoCR => born
    /\ Copied(crCache)
    /\ Copied(x.cr)
    /\ x.cr # NoCR /\ x.cr.del => crCache = NoCR \/ crCache.del
    /\ x.pc \in {"deleteMeta", "release"} => x.cr.del

\* What a step leaves of the CR, as far as the ledger goes.
CRSame == (cr = NoCR /\ cr' = NoCR) \/ (cr # NoCR /\ cr' # NoCR /\ cr'.fin = cr.fin /\ cr'.del = cr.del)

CRMoves ==
    \/ CRSame /\ born' = born
    \/ ~born /\ born' /\ cr' # NoCR /\ ~cr'.fin /\ ~cr'.del
    \/ /\ born' = born /\ cr # NoCR
       /\ \/ ~cr.del /\ ~cr.fin /\ cr' = NoCR
          \/ ~cr.del /\ cr.fin /\ cr' # NoCR /\ cr'.fin /\ cr'.del
          \/ ~cr.del /\ ~cr.fin /\ cr' # NoCR /\ cr'.fin /\ ~cr'.del
          \/ cr.del /\ x.cr # NoCR /\ x.cr.del /\ cr' = NoCR

LEMMA UserMoves ==
    ASSUME TypeOK, LedgerInv, UserCreate \/ UserEdit \/ UserAnnotate \/ UserDelete
    PROVE  CRMoves
<1>1. CASE UserCreate
  <2>1. cr' \in CRs
    BY <1>1, WishType DEF UserCreate, CRs
  <2> QED
    BY <1>1, <2>1, SentinelAssumption DEF UserCreate, CRMoves
<1>2. CASE UserEdit \/ UserAnnotate
  BY <1>2, EditedCR, SentinelAssumption DEF UserEdit, UserAnnotate, CRMoves, CRSame
<1>3. CASE UserDelete
  <2>1. cr \in CRs /\ (cr.fin => [cr EXCEPT !.del = TRUE] \in CRs)
    BY <1>3 DEF UserDelete, TypeOK, CRs
  <2> QED
    BY <1>3, <2>1, SentinelAssumption DEF UserDelete, CRMoves, CRs
<1> QED
  BY <1>1, <1>2, <1>3

LEMMA XMoves == ASSUME TypeOK, LedgerInv, XStep PROVE CRMoves /\ born' = born
<1>1. x.pc # "idle" /\ x.cr \in CRs
  BY DEF XStep, XDeleteNetris, XDeleteMeta, XRelease, XFail, XSetAnnotations, XSetFinalizer,
         XTranslateFails, XWriteMeta, XNothingToDo, MustWriteMeta, XAnnotated, XLoaded, TypeOK,
         XTypeOK
<1>2. born' = born
  BY DEF XStep, XDeleteNetris, XDeleteMeta, XRelease, XFail, XSetAnnotations, XSetFinalizer,
         XPatchCR, XTranslateFails, XWriteMeta, XNothingToDo, OfX
<1>3. CASE cr' = cr
  BY <1>2, <1>3 DEF CRMoves, CRSame
<1>4. CASE cr = x.cr /\ x.cr.del /\ cr' = NoCR
  BY <1>1, <1>2, <1>4, SentinelAssumption DEF CRMoves
<1>5. CASE cr = x.cr /\ cr' = [x.cr EXCEPT !.status = "Failure"]
  BY <1>1, <1>2, <1>5, SentinelAssumption DEF CRMoves, CRSame, CRs
<1>6. CASE cr = x.cr /\ cr' = [x.cr EXCEPT !.policy = "plain"]
  <2>1. cr' \in CRs /\ cr'.fin = cr.fin /\ cr'.del = cr.del
    BY <1>1, <1>6 DEF CRs, Policies
  <2> QED
    BY <1>1, <1>2, <1>6, <2>1, SentinelAssumption DEF CRMoves, CRSame
<1>7. CASE cr = x.cr /\ ~x.cr.fin /\ ~x.cr.del /\ cr' = [x.cr EXCEPT !.fin = TRUE]
  BY <1>1, <1>2, <1>7, SentinelAssumption DEF CRMoves, CRs
<1>8. CASE XRelease
  <2>1. x.cr.del
    BY <1>8 DEF XRelease, XLoaded, LedgerInv
  <2> QED
    BY <1>3, <1>4, <1>8, <2>1 DEF XRelease
<1>9. CASE XFail
  <2>1. cr' = cr \/ (cr = x.cr /\ cr' = [x.cr EXCEPT !.status = "Failure"])
    BY <1>9 DEF XFail
  <2> QED
    BY <1>3, <1>5, <2>1
<1>10. CASE XSetAnnotations
  BY <1>3, <1>6, <1>10 DEF XSetAnnotations, XPatchCR
<1>11. CASE XSetFinalizer
  <2>1. ~x.cr.fin /\ ~x.cr.del
    BY <1>1, <1>11 DEF XSetFinalizer, XAnnotated, XLoaded, HasFinalizer, CRs
  <2> QED
    BY <1>3, <1>7, <1>11, <2>1 DEF XSetFinalizer, XPatchCR
<1>12. CASE XDeleteNetris \/ XDeleteMeta \/ XTranslateFails \/ XWriteMeta \/ XNothingToDo
  BY <1>3, <1>12 DEF XDeleteNetris, XDeleteMeta, XTranslateFails, XWriteMeta, XNothingToDo
<1> QED
  BY <1>2, <1>8, <1>9, <1>10, <1>11, <1>12 DEF XStep

LEMMA MMoves == ASSUME TypeOK, LedgerInv, MStep PROVE CRSame /\ born' = born
<1>1. born' = born
  BY DEF MStep, MFindForImport, MImport, MFindByID, MCreate, MRecordID, MPortMissing,
         MNothingChanged, MDeleteOld, MForget, MStatus, OfM
<1>2. CASE MStatus
  <2>1. m.cr \in CRs /\ m.verdict \in {"none", "OK", "Failure"}
    BY <1>2 DEF MStatus, TypeOK, MTypeOK
  <2>2. cr' = cr \/ (cr = m.cr /\ cr' = [m.cr EXCEPT !.status = m.verdict])
    BY <1>2 DEF MStatus
  <2>3. LET c == [m.cr EXCEPT !.status = m.verdict]
        IN  c \in CRs /\ c.fin = m.cr.fin /\ c.del = m.cr.del
    BY <2>1 DEF CRs
  <2> QED
    BY <1>1, <2>1, <2>2, <2>3, SentinelAssumption DEF CRSame
<1>3. CASE cr' = cr
  BY <1>1, <1>3 DEF CRSame
<1> QED
  BY <1>2, <1>3
  DEF MStep, MFindForImport, MImport, MFindByID, MCreate, MRecordID, MPortMissing,
      MNothingChanged, MDeleteOld, MForget

LEMMA Moves == TypeOK /\ LedgerInv /\ [Next]_vars => CRMoves
<1> SUFFICES ASSUME TypeOK, LedgerInv, [Next]_vars PROVE CRMoves
  OBVIOUS
<1>1. CASE cr' = cr /\ born' = born
  BY <1>1 DEF CRMoves, CRSame
<1>2. CASE MStep
  BY <1>2, MMoves DEF CRMoves
<1> QED
  BY <1>1, <1>2, UserMoves, XMoves
  DEF Next, vars, NetrisDrift, SyncCR, SyncMeta, DownloadWithInterval, Crash, XLoad, MLoad, api

\* What a step leaves of the meta.
MetaMoves ==
    \/ meta' = meta
    \/ /\ cr' = cr /\ born' = born
       /\ \/ meta = NoMeta /\ meta' # NoMeta /\ cr # NoCR /\ cr.fin
          \/ meta # NoMeta /\ meta' # NoMeta
          \/ meta # NoMeta /\ meta' = NoMeta /\ Lost

LEMMA XMetaMoves == ASSUME TypeOK, LedgerInv, XStep PROVE MetaMoves
<1>1. CASE XDeleteMeta
  <2>1. x.cr # NoCR /\ x.cr.del
    BY <1>1 DEF XDeleteMeta, XLoaded, TypeOK, XTypeOK, LedgerInv
  <2>2. cr' = cr /\ born' = born /\ Lost
    BY <1>1, <2>1 DEF XDeleteMeta, OfX, LedgerInv, Copied
  <2>3. meta' = meta \/ meta' = NoMeta
    BY <1>1 DEF XDeleteMeta
  <2> QED
    BY <2>2, <2>3 DEF MetaMoves
<1>2. CASE XWriteMeta
  <2>1. /\ cr' = cr /\ born' = born /\ x.cr \in CRs /\ ~x.cr.del
        /\ x.meta \in Metas \union {NoMeta}
    BY <1>2 DEF XWriteMeta, MustWriteMeta, XAnnotated, XLoaded, OfX, TypeOK, XTypeOK
  <2>2. meta' = meta \/ meta = x.meta
    BY <1>2 DEF XWriteMeta
  <2>3. CASE x.meta = NoMeta
    <3>1. x.cr.fin /\ (meta' = meta \/ meta' = NewMeta(x.cr))
      BY <1>2, <2>3 DEF XWriteMeta, MustWriteMeta, HasFinalizer
    <3>2. cr # NoCR /\ cr.fin
      BY <2>1, <3>1, SentinelAssumption DEF LedgerInv, Copied
    <3>3. NewMeta(x.cr) \in Metas
      BY <2>1, NewMetaType
    <3> QED
      BY <2>1, <2>2, <2>3, <3>1, <3>2, <3>3, SentinelAssumption DEF MetaMoves
  <2>4. CASE x.meta # NoMeta
    <3>1. meta' = meta \/ meta' = RefreshedMeta(x.cr, x.meta)
      BY <1>2, <2>4 DEF XWriteMeta
    <3>2. RefreshedMeta(x.cr, x.meta) \in Metas
      BY <2>1, <2>4, RefreshedMetaType
    <3> QED
      BY <2>1, <2>2, <2>4, <3>1, <3>2, SentinelAssumption DEF MetaMoves
  <2> QED
    BY <2>3, <2>4
<1> QED
  BY <1>1, <1>2
  DEF MetaMoves, XStep, XDeleteNetris, XRelease, XFail, XSetAnnotations, XSetFinalizer, XPatchCR,
      XTranslateFails, XNothingToDo

LEMMA MMetaMoves == ASSUME TypeOK, LedgerInv, MStep PROVE MetaMoves
<1>1. ASSUME NEW i \in Pairs \union {NoPair}, m.pc \in {"import", "patchID", "forget"},
             cr' = cr, born' = born,
             meta' = meta \/ (meta = m.meta /\ meta' = [m.meta EXCEPT !.id = i])
      PROVE  MetaMoves
  <2>1. m.meta \in Metas /\ [m.meta EXCEPT !.id = i] \in Metas
    BY <1>1 DEF TypeOK, MTypeOK, Metas
  <2> QED
    BY <1>1, <2>1, SentinelAssumption DEF MetaMoves
<1>2. CASE MImport \/ MRecordID
  <2>1. /\ m.pc \in {"import", "patchID"} /\ cr' = cr /\ born' = born
        /\ meta' = meta \/ (meta = m.meta /\ meta' = [m.meta EXCEPT !.id = m.meta.pair])
    BY <1>2 DEF MImport, MRecordID, MPatchID, OfM
  <2>2. m.meta.pair \in Pairs
    BY <2>1 DEF TypeOK, MTypeOK, Metas
  <2> QED
    BY <1>1, <2>1, <2>2
<1>3. CASE MForget
  <2>1. /\ m.pc = "forget" /\ cr' = cr /\ born' = born
        /\ meta' = meta \/ (meta = m.meta /\ meta' = [m.meta EXCEPT !.id = NoPair])
    BY <1>3 DEF MForget, MPatchID, OfM
  <2> QED
    BY <1>1, <2>1
<1> QED
  BY <1>2, <1>3
  DEF MetaMoves, MStep, MFindForImport, MFindByID, MCreate, MPortMissing, MNothingChanged,
      MDeleteOld, MStatus

LEMMA MetaMovesStep == TypeOK /\ LedgerInv /\ [Next]_vars => MetaMoves
BY XMetaMoves, MMetaMoves
DEF Next, vars, UserCreate, UserEdit, UserAnnotate, UserDelete, OfUser, NetrisDrift, SyncCR,
    SyncMeta, DownloadWithInterval, Crash, XLoad, MLoad, api, MetaMoves

\* What a step leaves of the copies of the CR.
CopiesMove ==
    /\ crCache' = crCache \/ (crCache' = cr /\ cr' = cr)
    /\ \/ x'.cr \in {x.cr, NoCR}
       \/ x'.cr = crCache /\ crCache' = crCache /\ cr' = cr
    /\ x'.pc \in {"deleteMeta", "release"} =>
          x'.cr = x.cr /\ (x.pc \in {"deleteMeta", "release"} \/ x.cr.del)

LEMMA CopiesStep == TypeOK /\ [Next]_vars => CopiesMove
<1> SUFFICES ASSUME TypeOK, [Next]_vars PROVE CopiesMove
  OBVIOUS
<1>1. crCache' = crCache \/ (crCache' = cr /\ cr' = cr)
  BY DEF Next, vars, UserCreate, UserEdit, UserAnnotate, UserDelete, OfUser, NetrisDrift, SyncCR,
         SyncMeta, DownloadWithInterval, Crash, XLoad, MLoad, api, caches,
         XStep, XDeleteNetris, XDeleteMeta, XRelease, XFail, XSetAnnotations, XSetFinalizer,
         XPatchCR, XTranslateFails, XWriteMeta, XNothingToDo, OfX,
         MStep, MFindForImport, MImport, MFindByID, MCreate, MRecordID, MPortMissing,
         MNothingChanged, MDeleteOld, MForget, MStatus, OfM
<1>2. CASE XLoad
  BY <1>1, <1>2 DEF XLoad, api, caches, CopiesMove, TypeOK, XTypeOK
<1>3. CASE XStep
  <2>1. \/ x.cr.del /\ (XGoto("deleteMeta") \/ XGoto("failed"))
        \/ (x.cr.del \/ x.pc = "deleteMeta") /\ (XGoto("release") \/ XGoto("failed"))
        \/ XGoto("failed") \/ XDone \/ XRequeue
    BY <1>3 DEF XStep, XDeleteNetris, XDeleteMeta, XRelease, XFail, XSetAnnotations,
                XSetFinalizer, XPatchCR, XTranslateFails, XWriteMeta, XNothingToDo, XLoaded
  <2> QED
    BY <1>1, <2>1 DEF XGoto, XDone, XRequeue, XIdle, CopiesMove, TypeOK, XTypeOK
<1>4. CASE Crash
  BY <1>1, <1>4 DEF Crash, XIdle, CopiesMove
<1>5. CASE x' = x
  BY <1>1, <1>5 DEF CopiesMove
<1> QED
  BY <1>2, <1>3, <1>4, <1>5
  DEF Next, vars, UserCreate, UserEdit, UserAnnotate, UserDelete, OfUser, NetrisDrift, SyncCR,
      SyncMeta, DownloadWithInterval, MLoad, xVars,
      MStep, MFindForImport, MImport, MFindByID, MCreate, MRecordID, MPortMissing,
      MNothingChanged, MDeleteOld, MForget, MStatus, OfM

LEMMA LedgerInit == Init => LedgerInv
BY DEF Init, LedgerInv, Copied, XIdle

LEMMA LedgerStep == TypeOK /\ LedgerInv /\ [Next]_vars => LedgerInv'
<1> SUFFICES ASSUME TypeOK, LedgerInv, [Next]_vars PROVE LedgerInv'
  OBVIOUS
<1>1. CRMoves /\ CopiesMove
  BY Moves, CopiesStep
<1>2. Lost => Lost'
  BY <1>1 DEF CRMoves, CRSame, Lost, LedgerInv
<1>3. cr' # NoCR => born'
  BY <1>1 DEF CRMoves, CRSame, LedgerInv
\* A copy that is kept stays a copy, unless the CR is let go, which is done on a copy that
\* is being deleted.
<1>4. ASSUME NEW c, Copied(c), c # NoCR /\ x.cr # NoCR /\ x.cr.del => c.del
      PROVE  c # NoCR => /\ born' /\ (c.del => Lost')
                         /\ (c.fin /\ ~c.del => cr' # NoCR /\ cr'.fin)
  BY <1>1, <1>2, <1>4 DEF CRMoves, CRSame, Copied
<1>5. Copied(crCache)'
  <2>1. CASE crCache' = crCache
    BY <1>4, <2>1 DEF LedgerInv, Copied
  <2>2. CASE crCache' = cr /\ cr' = cr
    BY <1>3, <2>2 DEF Copied, Lost
  <2> QED
    BY <1>1, <2>1, <2>2 DEF CopiesMove
<1>6. Copied(x.cr)'
  <2>1. CASE x'.cr \in {x.cr, NoCR}
    BY <1>4, <2>1 DEF LedgerInv, Copied
  <2>2. CASE x'.cr = crCache /\ crCache' = crCache
    BY <1>5, <2>2 DEF Copied
  <2> QED
    BY <1>1, <2>1, <2>2 DEF CopiesMove
<1>7. x'.cr # NoCR /\ x'.cr.del => crCache' = NoCR \/ crCache'.del
  BY <1>1 DEF CopiesMove, LedgerInv, Copied, Lost
<1>8. x'.pc \in {"deleteMeta", "release"} => x'.cr.del
  BY <1>1 DEF CopiesMove, LedgerInv
<1> QED
  BY <1>3, <1>5, <1>6, <1>7, <1>8 DEF LedgerInv

LEMMA Becomes ==
    ASSUME Entry' = Entry, NEW from, NEW to, Life = from, Life' = to
    PROVE  L!Become(1, from, to)
BY DEF L!Become

LEMMA Writes == ASSUME Life' = Life, NEW e, Entry' = e PROVE L!Write(1, e)
BY DEF L!Write

LEMMA RefineInit == Init => L!Init
<1> SUFFICES ASSUME Init PROVE L!Init
  OBVIOUS
<1>1. Life = "unborn" /\ Entry = NoMeta
  BY DEF Init, Life, Entry
<1> QED
  BY <1>1 DEF L!Init

LEMMA RefineStep == TypeOK /\ LedgerInv /\ [Next]_vars => [L!Next]_(L!vars)
<1> SUFFICES ASSUME TypeOK, LedgerInv, [Next]_vars PROVE [L!Next]_(L!vars)
  OBVIOUS
<1>1. CRMoves /\ MetaMoves /\ TypeOK' /\ LedgerInv'
  BY Moves, MetaMovesStep, StepType, LedgerStep
<1>2. /\ Life = IF ~born THEN "unborn" ELSE IF cr = NoCR THEN "gone"
                ELSE IF cr.del THEN "doomed" ELSE IF cr.fin THEN "protected" ELSE "open"
      /\ Life' = IF ~born' THEN "unborn" ELSE IF cr' = NoCR THEN "gone"
                 ELSE IF cr'.del THEN "doomed" ELSE IF cr'.fin THEN "protected" ELSE "open"
  <2>1. /\ born \in BOOLEAN /\ (cr # NoCR => born /\ cr.del \in BOOLEAN /\ cr.fin \in BOOLEAN)
        /\ born' \in BOOLEAN
        /\ cr' # NoCR => born' /\ cr'.del \in BOOLEAN /\ cr'.fin \in BOOLEAN
    BY <1>1 DEF TypeOK, LedgerInv, CRs
  <2> QED
    BY <2>1 DEF Life
<1>3. /\ Entry = IF meta = NoMeta THEN NoMeta ELSE 0
      /\ Entry' = IF meta' = NoMeta THEN NoMeta ELSE 0
      /\ NoMeta # 0
  BY SentinelAssumption DEF Entry
<1>4. CASE meta' = meta
  <2>1. Entry' = Entry
    BY <1>4 DEF Entry
  <2>2. \/ Life' = Life
        \/ Life = "unborn" /\ Life' = "open"
        \/ Life = "open" /\ Life' \in {"gone", "protected"}
        \/ Life = "protected" /\ Life' = "doomed"
        \/ Life = "doomed" /\ Life' = "gone"
    BY <1>1, <1>2 DEF CRMoves, CRSame, LedgerInv
  <2>3. CASE Life' = Life
    BY <2>1, <2>3 DEF L!vars
  <2>4. CASE Life' # Life
    <3>1. \/ L!Create(1) \/ L!Abandon(1) \/ L!Protect(1) \/ L!Doom(1) \/ L!Release(1)
      BY <2>1, <2>2, <2>4, Becomes DEF L!Create, L!Abandon, L!Protect, L!Doom, L!Release
    <3> QED
      BY <3>1 DEF L!Next
  <2> QED
    BY <2>3, <2>4
<1>5. CASE meta' # meta
  <2>1. Life' = Life
    BY <1>1, <1>2, <1>5 DEF MetaMoves
  <2>2. CASE meta = NoMeta /\ meta' # NoMeta /\ cr # NoCR /\ cr.fin
    <3>1. Life \in {"protected", "doomed"} /\ Entry = NoMeta /\ Entry' = 0
      BY <1>2, <1>3, <2>2 DEF LedgerInv
    <3>2. L!Register(1)
      BY <2>1, <3>1, Writes DEF L!Register
    <3> QED
      BY <3>2 DEF L!Next
  <2>3. CASE meta # NoMeta /\ meta' # NoMeta
    <3>1. Entry' = Entry
      BY <1>3, <2>3
    <3> QED
      BY <2>1, <3>1 DEF L!vars
  <2>4. CASE meta # NoMeta /\ meta' = NoMeta /\ Lost
    <3>1. Life \in {"doomed", "gone"} /\ Entry' = NoMeta
      BY <1>2, <1>3, <2>4 DEF Lost
    <3>2. L!Erase(1)
      BY <2>1, <3>1, Writes DEF L!Erase
    <3> QED
      BY <3>2 DEF L!Next
  <2> QED
    BY <1>1, <1>5, <2>2, <2>3, <2>4 DEF MetaMoves
<1> QED
  BY <1>4, <1>5

\* Link implements the ledger: a meta is made under the finalizer only, and goes only for a CR
\* that the user has deleted.
THEOREM ImplementsLedger == Spec => KeepsLedger
<1>1. TypeOK /\ LedgerInv /\ [Next]_vars => [L!Next]_(L!vars)
  BY RefineStep
<1> QED
  BY <1>1, RefineInit, LedgerInit, LedgerStep, TypeCorrect, PTL DEF Spec, KeepsLedger, L!Spec

-----------------------------------------------------------------------------
(* What a deleted Link leaves in Netris.                                   *)
(*                                                                         *)
(* Whether a link is the operator's is known from the meta only, and the   *)
(* three calls of a deletion - the link, the meta, the CR - are decided by *)
(* the copies x has loaded.  The invariant says where the link can be      *)
(* known from as long as it is there, and that x lets the CR go only when  *)
(* there is no meta that could still know of a link.                       *)

LeftInv == \A d \in Disturbances : left[d] <= scenario.left[d]

LEMMA SpendLeft ==
    ASSUME TypeOK, NEW d \in Disturbances, Spend(d)
    PROVE  left'[d] < left[d] /\ \A e \in Disturbances : left'[e] <= left[e]
BY DEF TypeOK, Spend

LEMMA LeftStep ==
    ASSUME TypeOK, [Next]_vars
    PROVE  scenario' = scenario /\ \A d \in Disturbances : left'[d] <= left[d]
<1>1. (\E d \in Disturbances : Spend(d)) \/ left' = left
  BY DEF Next, vars, UserCreate, UserEdit, UserAnnotate, UserDelete, NetrisDrift, SyncCR,
         SyncMeta, DownloadWithInterval, Crash, XLoad, MLoad, Answered, Failed, Disturbances,
         XStep, XDeleteNetris, XDeleteMeta, XRelease, XFail, XSetAnnotations, XSetFinalizer,
         XPatchCR, XTranslateFails, XWriteMeta, XNothingToDo,
         MStep, MFindForImport, MImport, MFindByID, MCreate, MRecordID, MPortMissing,
         MNothingChanged, MDeleteOld, MForget, MStatus, MPatchID, Find
<1>2. scenario' = scenario
  BY DEF Next, vars, UserCreate, UserEdit, UserAnnotate, UserDelete, OfUser, NetrisDrift, SyncCR,
         SyncMeta, DownloadWithInterval, Crash, XLoad, MLoad,
         XStep, XDeleteNetris, XDeleteMeta, XRelease, XFail, XSetAnnotations, XSetFinalizer,
         XPatchCR, XTranslateFails, XWriteMeta, XNothingToDo, OfX,
         MStep, MFindForImport, MImport, MFindByID, MCreate, MRecordID, MPortMissing,
         MNothingChanged, MDeleteOld, MForget, MStatus, OfM
<1>3. left' = left => \A d \in Disturbances : left'[d] <= left[d]
  BY DEF TypeOK
<1> QED
  BY <1>1, <1>2, <1>3, SpendLeft

\* A disturbance that has occurred has occurred for good.
LEMMA SpentStays ==
    ASSUME TypeOK, TypeOK', LeftInv, [Next]_vars
    PROVE  /\ LeftInv'
           /\ \A d \in Disturbances : /\ Spent(d) => Spent(d)'
                                      /\ Spend(d) => Spent(d)'
<1>1. scenario' = scenario /\ \A d \in Disturbances : left'[d] <= left[d]
  BY LeftStep
<1>2. \A d \in Disturbances : left[d] \in Nat /\ left'[d] \in Nat /\ scenario.left[d] \in Nat
  BY DEF TypeOK, ScenarioType
<1>3. \A d \in Disturbances : Spend(d) => left'[d] < left[d]
  BY SpendLeft
<1> QED
  BY <1>1, <1>2, <1>3 DEF LeftInv, Spent

\* The copies a step leaves, and where they come from
LEMMA CopiesFrom ==
    ASSUME TypeOK, [Next]_vars
    PROVE  /\ crCache' \in {crCache, cr} /\ metaCache' \in {metaCache, meta}
           /\ x'.cr \in {x.cr, crCache, NoCR} /\ x'.meta \in {x.meta, metaCache, NoMeta}
           /\ m'.cr \in {m.cr, crCache, NoCR} /\ m'.meta \in {m.meta, metaCache, NoMeta}
<1>1. metaCache' \in {metaCache, meta}
  BY DEF Next, vars, UserCreate, UserEdit, UserAnnotate, UserDelete, OfUser, NetrisDrift, SyncCR,
         SyncMeta, DownloadWithInterval, Crash, XLoad, MLoad, caches,
         XStep, XDeleteNetris, XDeleteMeta, XRelease, XFail, XSetAnnotations, XSetFinalizer,
         XPatchCR, XTranslateFails, XWriteMeta, XNothingToDo, OfX,
         MStep, MFindForImport, MImport, MFindByID, MCreate, MRecordID, MPortMissing,
         MNothingChanged, MDeleteOld, MForget, MStatus, OfM
<1>2. crCache' \in {crCache, cr} /\ x'.cr \in {x.cr, crCache, NoCR}
  BY CopiesStep DEF CopiesMove
<1>3. x'.meta \in {x.meta, metaCache, NoMeta}
  <2>1. CASE x' = x \/ x' = XIdle
    BY <2>1 DEF XIdle
  <2>2. CASE XLoad
    BY <2>2 DEF XLoad
  <2>3. CASE XStep
    <3>1. XContinues
      BY <2>3 DEF XStep, XDeleteNetris, XDeleteMeta, XRelease, XFail, XSetAnnotations,
                  XSetFinalizer, XPatchCR, XTranslateFails, XWriteMeta, XNothingToDo, XContinues
    <3> QED
      BY <3>1 DEF XContinues, XGoto, XDone, XRequeue, XIdle, TypeOK, XTypeOK
  <2> QED
    BY <2>1, <2>2, <2>3
    DEF Next, vars, UserCreate, UserEdit, UserAnnotate, UserDelete, OfUser, NetrisDrift, SyncCR,
        SyncMeta, DownloadWithInterval, Crash, MLoad, xVars,
        MStep, MFindForImport, MImport, MFindByID, MCreate, MRecordID, MPortMissing,
        MNothingChanged, MDeleteOld, MForget, MStatus, OfM
<1>4. m'.cr \in {m.cr, crCache, NoCR} /\ m'.meta \in {m.meta, metaCache, NoMeta}
  <2>1. CASE m' = m \/ m' = MIdle
    BY <2>1 DEF MIdle
  <2>2. CASE MLoad
    BY <2>2 DEF MLoad, TypeOK, MTypeOK
  <2>3. CASE MStep
    <3>1. \/ \E pc \in {"import", "create", "patchID", "compare", "forget"} : MGoto(pc)
          \/ \E v \in {"OK", "Failure"} : MVerdict(v)
          \/ MRetry
      <4>1. CASE MFindForImport \/ MFindByID
        BY <4>1 DEF MFindForImport, MFindByID, Find
      <4>2. CASE MImport \/ MRecordID \/ MForget
        BY <4>2 DEF MImport, MRecordID, MForget, MPatchID
      <4>3. CASE MCreate \/ MPortMissing \/ MNothingChanged \/ MDeleteOld \/ MStatus
        BY <4>3 DEF MCreate, MPortMissing, MNothingChanged, MDeleteOld, MStatus
      <4> QED
        BY <2>3, <4>1, <4>2, <4>3 DEF MStep
    <3>2. ASSUME NEW pc, MGoto(pc) PROVE m'.cr = m.cr /\ m'.meta = m.meta
      BY <3>2 DEF MGoto, TypeOK, MTypeOK
    <3>3. ASSUME NEW v, MVerdict(v) PROVE m'.cr = m.cr /\ m'.meta = NoMeta
      BY <3>3 DEF MVerdict, MIdle
    <3>4. MRetry => m'.cr = NoCR /\ m'.meta = NoMeta
      BY DEF MRetry, MIdle
    <3> QED
      BY <3>1, <3>2, <3>3, <3>4
  <2> QED
    BY <2>1, <2>2, <2>3
    DEF Next, vars, UserCreate, UserEdit, UserAnnotate, UserDelete, OfUser, NetrisDrift, SyncCR,
        SyncMeta, DownloadWithInterval, Crash, XLoad, mVars,
        XStep, XDeleteNetris, XDeleteMeta, XRelease, XFail, XSetAnnotations, XSetFinalizer,
        XPatchCR, XTranslateFails, XWriteMeta, XNothingToDo, OfX
<1> QED
  BY <1>1, <1>2, <1>3, <1>4

\* What NothingLeft is conditional on, and no edit.
Undisturbed ==
    /\ scenario.policy # "retain"
    /\ ~Spent("edit") /\ ~Spent("annotate") /\ ~Spent("stale")

\* Nobody asks for another link than the one the CR was made with, or wants it kept.
Wished(c) == c # NoCR => c.pair = scenario.pair /\ c.policy # "retain"

Meant(mt) ==
    mt # NoMeta =>
        mt.pair = scenario.pair /\ mt.policy # "retain" /\ mt.id \in {scenario.pair, NoPair}

OnlyWished ==
    /\ Wished(cr) /\ Wished(crCache) /\ Wished(x.cr) /\ Wished(m.cr)
    /\ Meant(meta) /\ Meant(metaCache) /\ Meant(x.meta) /\ Meant(m.meta)
    /\ made \subseteq {scenario.pair}
    /\ m.pc # "forget"

\* x goes past a step of the deletion only when what the step is for is done.
LetGoClean ==
    /\ meta # NoMeta => cr # NoCR /\ cr.fin
    /\ x.pc = "release" => meta = NoMeta
    /\ x.pc = "loaded" /\ x.cr.del /\ x.meta = NoMeta => meta = NoMeta
    /\ x.pc = "deleteMeta" => x.meta # NoMeta

\* The link that the deletion has to know of is about to be recorded, or is recorded.
Recorded ==
    scenario.pair \in made \ lost =>
        m.pc = "patchID" \/ (meta # NoMeta /\ meta.id = scenario.pair)

CleanInv == LeftInv /\ (Undisturbed => OnlyWished /\ LetGoClean /\ Recorded)

LEMMA UndisturbedBefore ==
    ASSUME TypeOK, TypeOK', LeftInv, [Next]_vars, Undisturbed'
    PROVE  /\ Undisturbed /\ scenario' = scenario
           /\ ~Spend("edit") /\ ~Spend("annotate") /\ ~Spend("stale")
BY LeftStep, SpentStays DEF Undisturbed, Disturbances

LEMMA WishedCR ==
    ASSUME TypeOK, [Next]_vars, Undisturbed, OnlyWished, scenario' = scenario,
           ~Spend("edit"), ~Spend("annotate")
    PROVE  Wished(cr')
<1>1. CASE UserCreate
  BY <1>1 DEF UserCreate, Wished, Undisturbed
<1>2. ~UserEdit /\ ~UserAnnotate
  BY DEF UserEdit, UserAnnotate
<1>3. ASSUME NEW c \in CRs, Wished(c), NEW d,
             \/ \E v : d = [c EXCEPT !.status = v]
             \/ d = [c EXCEPT !.del = TRUE] \/ d = [c EXCEPT !.fin = TRUE]
             \/ d = [c EXCEPT !.policy = "plain"]
      PROVE  Wished(d)
  <2>1. c # NoCR /\ d.pair = c.pair /\ d.policy \in {c.policy, "plain"}
    BY <1>3, SentinelAssumption DEF CRs
  <2> QED
    BY <1>3, <2>1 DEF Wished
<1>4. CASE UserDelete
  <2>1. cr \in CRs /\ (cr' = NoCR \/ cr' = [cr EXCEPT !.del = TRUE])
    BY <1>4 DEF UserDelete, TypeOK
  <2>2. Wished(cr)
    BY DEF OnlyWished
  <2>3. CASE cr' = NoCR
    BY <2>3 DEF Wished
  <2>4. CASE cr' = [cr EXCEPT !.del = TRUE]
    BY <1>3, <2>1, <2>2, <2>4
  <2> QED
    BY <2>1, <2>3, <2>4
<1>5. CASE cr' = cr \/ cr' = NoCR
  BY <1>5 DEF OnlyWished, Wished
<1>6. CASE XFail \/ XSetAnnotations \/ XSetFinalizer
  <2>1. /\ x.cr \in CRs
        /\ \/ cr' = cr
           \/ \E v : cr' = [x.cr EXCEPT !.status = v]
           \/ cr' = [x.cr EXCEPT !.fin = TRUE]
           \/ cr' = [x.cr EXCEPT !.policy = "plain"]
    BY <1>6 DEF XFail, XSetAnnotations, XSetFinalizer, XAnnotated, XLoaded, XPatchCR, TypeOK,
                XTypeOK
  <2>2. Wished(x.cr)
    BY DEF OnlyWished
  <2> QED
    BY <1>3, <1>5, <2>1, <2>2
<1>7. CASE MStatus
  <2>1. m.cr \in CRs /\ (cr' = cr \/ \E v : cr' = [m.cr EXCEPT !.status = v])
    BY <1>7 DEF MStatus, TypeOK, MTypeOK
  <2>2. Wished(m.cr)
    BY DEF OnlyWished
  <2> QED
    BY <1>3, <1>5, <2>1, <2>2
<1>8. CASE XRelease
  BY <1>5, <1>8 DEF XRelease
<1>9. CASE XDeleteNetris \/ XDeleteMeta \/ XTranslateFails \/ XWriteMeta \/ XNothingToDo
  BY <1>5, <1>9 DEF XDeleteNetris, XDeleteMeta, XTranslateFails, XWriteMeta, XNothingToDo
<1>10. CASE MFindForImport \/ MImport \/ MFindByID \/ MCreate \/ MRecordID \/ MPortMissing
            \/ MNothingChanged \/ MDeleteOld \/ MForget
  BY <1>5, <1>10 DEF MFindForImport, MImport, MFindByID, MCreate, MRecordID, MPortMissing,
                     MNothingChanged, MDeleteOld, MForget
<1>11. CASE NetrisDrift \/ SyncCR \/ SyncMeta \/ DownloadWithInterval \/ Crash \/ XLoad \/ MLoad
            \/ UNCHANGED vars
  BY <1>5, <1>11 DEF NetrisDrift, SyncCR, SyncMeta, DownloadWithInterval, Crash, XLoad, MLoad, api,
                     vars
<1> QED
  BY <1>1, <1>2, <1>4, <1>6, <1>7, <1>8, <1>9, <1>10, <1>11 DEF Next, XStep, MStep

\* m never finds the recorded link to be another than the CR asks for, and moves nothing.
LEMMA NoMove ==
    ASSUME TypeOK, OnlyWished
    PROVE  ~MDeleteOld /\ ~MForget
<1>1. ~MForget
  BY DEF MForget, OnlyWished
<1>2. ASSUME MDeleteOld PROVE FALSE
  <2>1. m.cr # NoCR /\ m.meta # NoMeta /\ m.meta.id # NoPair /\ m.cr.pair # m.meta.id
    BY <1>2 DEF MDeleteOld, Same, TypeOK, MTypeOK
  <2> QED
    BY <2>1 DEF OnlyWished, Wished, Meant
<1> QED
  BY <1>1, <1>2

\* What a step does to the meta: x makes it or writes it anew, m records the link, x
\* deletes it.
MetaWrites ==
    \/ meta' = meta
    \/ XWriteMeta /\ meta = x.meta
       /\ meta' = (IF x.meta = NoMeta THEN NewMeta(x.cr) ELSE RefreshedMeta(x.cr, x.meta))
    \/ (MImport \/ MRecordID) /\ meta = m.meta /\ m.meta # NoMeta
       /\ meta' = [m.meta EXCEPT !.id = m.meta.pair]
    \/ XDeleteMeta /\ meta' = NoMeta

LEMMA MetaWritten == ASSUME TypeOK, OnlyWished, [Next]_vars PROVE MetaWrites
<1>1. CASE MImport \/ MRecordID
  <2>1. m.meta # NoMeta
    BY <1>1 DEF MImport, MRecordID, TypeOK, MTypeOK
  <2> QED
    BY <1>1, <2>1 DEF MImport, MRecordID, MPatchID, MetaWrites
<1>2. CASE XWriteMeta
  BY <1>2 DEF XWriteMeta, MetaWrites
<1>3. CASE XDeleteMeta
  BY <1>3 DEF XDeleteMeta, MetaWrites
<1> QED
  BY <1>1, <1>2, <1>3, NoMove
  DEF Next, vars, UserCreate, UserEdit, UserAnnotate, UserDelete, OfUser, NetrisDrift, SyncCR,
      SyncMeta, DownloadWithInterval, Crash, XLoad, MLoad, api, MetaWrites,
      XStep, XDeleteNetris, XRelease, XFail, XSetAnnotations, XSetFinalizer, XPatchCR,
      XTranslateFails, XNothingToDo,
      MStep, MFindForImport, MFindByID, MCreate, MPortMissing, MNothingChanged, MStatus

LEMMA MeantMeta ==
    ASSUME TypeOK, [Next]_vars, OnlyWished
    PROVE  Meant(meta')
<1>1. MetaWrites
  BY MetaWritten
<1>2. CASE meta' = meta \/ meta' = NoMeta
  BY <1>2 DEF OnlyWished, Meant
<1>3. ASSUME XWriteMeta, meta = x.meta,
             meta' = (IF x.meta = NoMeta THEN NewMeta(x.cr) ELSE RefreshedMeta(x.cr, x.meta))
      PROVE  Meant(meta')
  <2>1. x.cr # NoCR
    BY <1>3 DEF XWriteMeta, MustWriteMeta, XAnnotated, XLoaded, TypeOK, XTypeOK
  <2>2. x.cr.pair = scenario.pair /\ x.cr.policy # "retain"
    BY <2>1 DEF OnlyWished, Wished
  <2> QED
    BY <1>3, <2>2 DEF OnlyWished, Meant, NewMeta, RefreshedMeta
<1>4. ASSUME m.meta # NoMeta, meta' = [m.meta EXCEPT !.id = m.meta.pair]
      PROVE  Meant(meta')
  <2>1. m.meta \in Metas
    BY <1>4 DEF TypeOK, MTypeOK
  <2>2. meta'.id = m.meta.pair /\ meta'.pair = m.meta.pair /\ meta'.policy = m.meta.policy
    BY <1>4, <2>1 DEF Metas
  <2> QED
    BY <1>4, <2>2 DEF OnlyWished, Meant
<1> QED
  BY <1>1, <1>2, <1>3, <1>4 DEF MetaWrites

LEMMA OnlyWishedStep ==
    ASSUME TypeOK, TypeOK', [Next]_vars, Undisturbed, OnlyWished, scenario' = scenario,
           ~Spend("edit"), ~Spend("annotate")
    PROVE  OnlyWished'
<1>1. Wished(cr) /\ Wished(crCache) /\ Wished(NoCR) /\ Meant(metaCache) /\ Meant(NoMeta)
  BY DEF OnlyWished, Wished, Meant
<1>2. (Wished(cr) /\ Wished(crCache) /\ Wished(x.cr) /\ Wished(m.cr))'
  BY <1>1, WishedCR, CopiesFrom DEF OnlyWished, Wished
<1>3. (Meant(meta) /\ Meant(metaCache) /\ Meant(x.meta) /\ Meant(m.meta))'
  BY <1>1, MeantMeta, CopiesFrom DEF OnlyWished, Meant
<1>4. made' \subseteq made \union {scenario.pair}
  <2>1. CASE MCreate \/ MImport
    <3>1. m.meta # NoMeta
      BY <2>1 DEF MCreate, MImport, MUnrecorded, TypeOK, MTypeOK
    <3>2. m.meta.pair = scenario.pair
      BY <3>1 DEF OnlyWished, Meant
    <3> QED
      BY <2>1, <3>2 DEF MCreate, MImport, MPatchID, remote, history
  <2>2. CASE NetrisDrift \/ XDeleteNetris \/ MDeleteOld
    BY <2>2 DEF NetrisDrift, XDeleteNetris, MDeleteOld, Removed, remote, history
  <2> QED
    BY <2>1, <2>2
    DEF Next, vars, UserCreate, UserEdit, UserAnnotate, UserDelete, OfUser, SyncCR,
        SyncMeta, DownloadWithInterval, Crash, XLoad, MLoad, remote, history,
        XStep, XDeleteMeta, XRelease, XFail, XSetAnnotations, XSetFinalizer,
        XPatchCR, XTranslateFails, XWriteMeta, XNothingToDo,
        MStep, MFindForImport, MFindByID, MRecordID, MPortMissing,
        MNothingChanged, MForget, MStatus, MPatchID
<1>5. m'.pc # "forget"
  <2>0. m.pc # "forget" /\ MIdle.pc = "idle"
    BY DEF OnlyWished, MIdle
  <2>1. ASSUME NEW pc \in {"import", "create", "patchID", "compare"}, MGoto(pc)
        PROVE  m'.pc # "forget"
    BY <2>1 DEF MGoto, TypeOK, MTypeOK
  <2>2. ASSUME NEW v, MVerdict(v) PROVE m'.pc # "forget"
    BY <2>2 DEF MVerdict, MIdle
  <2>3. ~MRetry \/ m'.pc # "forget"
    BY <2>0 DEF MRetry
  <2>4. CASE MFindForImport \/ MFindByID
    BY <2>1, <2>4 DEF MFindForImport, MFindByID, Find
  <2>5. CASE MImport \/ MRecordID
    BY <2>2, <2>3, <2>5 DEF MImport, MRecordID, MPatchID
  <2>6. CASE MCreate \/ MPortMissing \/ MNothingChanged \/ MStatus
    BY <2>1, <2>2, <2>3, <2>6 DEF MCreate, MPortMissing, MNothingChanged, MStatus
  <2>7. CASE MLoad
    BY <2>0, <2>7 DEF MLoad, TypeOK, MTypeOK
  <2> QED
    BY <2>0, <2>4, <2>5, <2>6, <2>7, NoMove
    DEF Next, vars, UserCreate, UserEdit, UserAnnotate, UserDelete, OfUser, NetrisDrift, SyncCR,
        SyncMeta, DownloadWithInterval, Crash, XLoad, mVars, MStep,
        XStep, XDeleteNetris, XDeleteMeta, XRelease, XFail, XSetAnnotations, XSetFinalizer,
        XPatchCR, XTranslateFails, XWriteMeta, XNothingToDo, OfX
<1> QED
  BY <1>2, <1>3, <1>4, <1>5 DEF OnlyWished

\* Where a step of x, or of the meta, leaves the deletion
XMovesOn ==
    \/ x' = x \/ x'.pc \in {"idle", "failed"}
    \/ XLoad /\ x'.pc = "loaded" /\ x'.meta = metaCache
    \/ XDeleteNetris /\ x.meta # NoMeta /\ x'.pc = "deleteMeta" /\ x'.meta = x.meta
    \/ XDeleteMeta /\ meta' = NoMeta /\ x'.pc = "release"

LEMMA XMovesOnStep == ASSUME TypeOK, [Next]_vars PROVE XMovesOn
<1>1. CASE XLoad
  BY <1>1 DEF XLoad, XMovesOn, TypeOK, XTypeOK
<1>2. CASE XDeleteNetris
  <2>1. x.meta # NoMeta
    BY <1>2 DEF XDeleteNetris, MustDeleteInNetris
  <2> QED
    BY <1>2, <2>1 DEF XDeleteNetris, XGoto, XMovesOn, TypeOK, XTypeOK
<1>3. CASE XDeleteMeta
  BY <1>3 DEF XDeleteMeta, XGoto, XMovesOn, TypeOK, XTypeOK
<1>4. CASE XRelease \/ XFail \/ XSetAnnotations \/ XSetFinalizer \/ XTranslateFails
           \/ XWriteMeta \/ XNothingToDo
  <2>1. XGoto("failed") \/ XDone \/ XRequeue
    BY <1>4 DEF XRelease, XFail, XSetAnnotations, XSetFinalizer, XPatchCR, XTranslateFails,
                XWriteMeta, XNothingToDo
  <2> QED
    BY <2>1 DEF XGoto, XDone, XRequeue, XIdle, XMovesOn, TypeOK, XTypeOK
<1>5. CASE Crash
  BY <1>5 DEF Crash, XIdle, XMovesOn
<1> QED
  BY <1>1, <1>2, <1>3, <1>4, <1>5
  DEF Next, vars, UserCreate, UserEdit, UserAnnotate, UserDelete, OfUser, NetrisDrift, SyncCR,
      SyncMeta, DownloadWithInterval, MLoad, xVars, XMovesOn, XStep,
      MStep, MFindForImport, MImport, MFindByID, MCreate, MRecordID, MPortMissing,
      MNothingChanged, MDeleteOld, MForget, MStatus, OfM

\* A meta is made by x only, whose round ends with it.
LEMMA MetaAppears ==
    ASSUME TypeOK, OnlyWished, [Next]_vars, meta = NoMeta, meta' # NoMeta
    PROVE  x.pc = "loaded" /\ x'.pc = "idle"
<1>1. XWriteMeta
  BY MetaWritten DEF MetaWrites
<1> QED
  BY <1>1 DEF XWriteMeta, MustWriteMeta, XAnnotated, XLoaded, XRequeue, XIdle

\* A CR with its finalizer is let go by x only, when there is no meta any more.
LEMMA LetGo ==
    ASSUME TypeOK, LedgerInv, LetGoClean, [Next]_vars, cr # NoCR, cr.fin, cr' = NoCR
    PROVE  meta = NoMeta
<1>1. CASE XRelease
  BY <1>1 DEF XRelease, XLoaded, LetGoClean
<1>2. ~UserCreate /\ ~UserDelete /\ ~UserEdit /\ ~UserAnnotate
  <2>1. ~UserEdit /\ ~UserAnnotate
    BY EditedCR, SentinelAssumption
  <2>2. cr \in CRs /\ [cr EXCEPT !.del = TRUE] \in CRs
    BY DEF TypeOK, CRs
  <2>3. ~UserDelete /\ ~UserCreate
    BY <2>2, SentinelAssumption DEF UserDelete, UserCreate, LedgerInv
  <2> QED
    BY <2>1, <2>3
<1>3. ~MStep
  BY MMoves DEF CRSame
<1>4. ASSUME x.cr \in CRs,
             \/ cr' = cr
             \/ cr' = [x.cr EXCEPT !.fin = TRUE]
             \/ cr' = [x.cr EXCEPT !.policy = "plain"]
             \/ cr = x.cr /\ cr' = [cr EXCEPT !.status = "Failure"]
      PROVE  FALSE
  <2>1. CASE cr' = cr
    BY <2>1
  <2>2. CASE cr' = [x.cr EXCEPT !.fin = TRUE] \/ cr' = [x.cr EXCEPT !.policy = "plain"]
    <3>1. cr' \in CRs
      BY <1>4, <2>2 DEF CRs, Policies
    <3> QED
      BY <3>1, SentinelAssumption
  <2>3. CASE cr = x.cr /\ cr' = [x.cr EXCEPT !.status = "Failure"]
    <3>1. cr' \in CRs
      BY <1>4, <2>3 DEF CRs
    <3> QED
      BY <3>1, SentinelAssumption
  <2> QED
    BY <1>4, <2>1, <2>2, <2>3
<1>5. ~XFail /\ ~XSetAnnotations /\ ~XSetFinalizer
  BY <1>4 DEF XFail, XSetAnnotations, XSetFinalizer, XAnnotated, XLoaded, XPatchCR, TypeOK, XTypeOK
<1> QED
  BY <1>1, <1>2, <1>3, <1>5
  DEF Next, vars, NetrisDrift, SyncCR, SyncMeta, DownloadWithInterval, Crash, XLoad, MLoad, api,
      XStep, XDeleteNetris, XDeleteMeta, XTranslateFails, XWriteMeta, XNothingToDo

LEMMA LetGoCleanStep ==
    ASSUME TypeOK, TypeOK', LedgerInv, [Next]_vars, OnlyWished, LetGoClean, ~Spend("stale")
    PROVE  LetGoClean'
<1>1. XMovesOn /\ MetaMoves /\ CRMoves
  BY XMovesOnStep, MetaMovesStep, Moves
<1>2. meta' # NoMeta => cr' # NoCR /\ cr'.fin
  <2>1. CASE meta' # meta
    BY <1>1, <2>1 DEF MetaMoves, LetGoClean
  <2>2. CASE meta' = meta /\ meta # NoMeta
    <3>1. cr # NoCR /\ cr.fin /\ born
      BY <2>2 DEF LetGoClean, LedgerInv
    <3>2. cr' # NoCR
      BY <2>2, <3>1, LetGo
    <3> QED
      BY <1>1, <3>1, <3>2 DEF CRMoves, CRSame
  <2> QED
    BY <2>1, <2>2
<1>3. x'.pc \in {"loaded", "release"} /\ x' = x => (meta = NoMeta => meta' = NoMeta)
  BY MetaAppears DEF LetGoClean
<1>4. x'.pc = "release" => meta' = NoMeta
  BY <1>1, <1>3 DEF XMovesOn, LetGoClean
<1>5. x'.pc = "loaded" /\ x'.cr.del /\ x'.meta = NoMeta => meta' = NoMeta
  <2>1. XLoad => metaCache = meta /\ meta' = meta
    BY DEF XLoad, XCurrent, api
  <2> QED
    BY <1>1, <1>3, <2>1 DEF XMovesOn, LetGoClean
<1>6. x'.pc = "deleteMeta" => x'.meta # NoMeta
  BY <1>1 DEF XMovesOn, LetGoClean
<1> QED
  BY <1>2, <1>4, <1>5, <1>6 DEF LetGoClean

\* Of a link that is recorded, or is about to be, the record goes with the link only, or
\* together with the knowledge of it.
LEMMA RecordStays ==
    ASSUME TypeOK, [Next]_vars, OnlyWished, LetGoClean, m.pc # "patchID",
           meta # NoMeta, meta.id = scenario.pair, scenario.pair \in made'
    PROVE  (meta' # NoMeta /\ meta'.id = scenario.pair) \/ scenario.pair \in lost'
<1>1. CASE meta' = meta
  BY <1>1
<1>2. ASSUME XWriteMeta, meta = x.meta, meta' = RefreshedMeta(x.cr, x.meta)
      PROVE  meta' # NoMeta /\ meta'.id = scenario.pair
  <2>1. x.cr \in CRs /\ x.meta \in Metas
    BY <1>2 DEF XWriteMeta, MustWriteMeta, XAnnotated, XLoaded, TypeOK, XTypeOK
  <2>2. meta' \in Metas
    BY <1>2, <2>1, RefreshedMetaType
  <2> QED
    BY <1>2, <2>2, SentinelAssumption DEF RefreshedMeta, NewMeta
<1>3. ASSUME m.meta # NoMeta, meta' = [m.meta EXCEPT !.id = m.meta.pair]
      PROVE  meta' # NoMeta /\ meta'.id = scenario.pair
  <2>1. m.meta \in Metas /\ m.meta.pair = scenario.pair
    BY <1>3 DEF TypeOK, MTypeOK, OnlyWished, Meant
  <2>2. meta' \in Metas /\ meta'.id = m.meta.pair
    BY <1>3, <2>1 DEF Metas
  <2> QED
    BY <2>1, <2>2, SentinelAssumption
<1>4. ASSUME XDeleteMeta, meta' = NoMeta PROVE scenario.pair \in lost'
  <2>1. scenario.pair # NoPair
    BY PairAssumption DEF TypeOK, ScenarioType
  <2>2. OutOfSight
    <3>1. x.pc = "deleteMeta" => OutOfSight
      BY DEF LetGoClean, OnlyWished, Meant, OutOfSight
    <3>2. x.meta # NoMeta /\ ~MustDeleteInNetris(x.meta) => OutOfSight
      BY <2>1 DEF MustDeleteInNetris, OnlyWished, Meant, OutOfSight
    <3> QED
      BY <1>4, <3>1, <3>2 DEF XDeleteMeta
  <2> QED
    BY <1>4, <2>2 DEF XDeleteMeta
<1> QED
  BY <1>1, <1>2, <1>3, <1>4, MetaWritten DEF MetaWrites

\* A link that is about to be recorded is recorded, unless the process, the API server or
\* another writer prevents it.
LEMMA PatchEnds ==
    ASSUME TypeOK, [Next]_vars, OnlyWished, m.pc = "patchID", m'.pc # "patchID",
           scenario.pair \in made'
    PROVE  (meta' # NoMeta /\ meta'.id = scenario.pair) \/ scenario.pair \in lost'
<1>1. m.meta \in Metas /\ m.meta.pair = scenario.pair
  BY DEF TypeOK, MTypeOK, OnlyWished, Meant
<1>2. CASE Crash
  BY <1>1, <1>2 DEF Crash
<1>3. CASE MRecordID
  <2>1. made' = made
    BY <1>3 DEF MRecordID
  <2>2. CASE meta' = [m.meta EXCEPT !.id = m.meta.pair]
    <3>1. meta' \in Metas /\ meta'.id = m.meta.pair
      BY <1>1, <2>2 DEF Metas
    <3> QED
      BY <1>1, <3>1, SentinelAssumption
  <2>3. CASE lost' = lost \union ({m.meta.pair} \intersect made)
    BY <1>1, <2>1, <2>3
  <2> QED
    BY <1>3, <2>2, <2>3 DEF MRecordID, MPatchID
<1>4. m' # m
  OBVIOUS
<1> QED
  BY <1>2, <1>3, <1>4
  DEF Next, vars, UserCreate, UserEdit, UserAnnotate, UserDelete, OfUser, NetrisDrift, SyncCR,
      SyncMeta, DownloadWithInterval, XLoad, MLoad, mVars, MStep,
      XStep, XDeleteNetris, XDeleteMeta, XRelease, XFail, XSetAnnotations, XSetFinalizer,
      XPatchCR, XTranslateFails, XWriteMeta, XNothingToDo, OfX,
      MFindForImport, MImport, MFindByID, MCreate, MPortMissing, MNothingChanged, MDeleteOld,
      MForget, MStatus, MUnrecorded

\* A link that becomes the operator's is about to be recorded, or is recorded.
LEMMA MadeKnown ==
    ASSUME TypeOK, [Next]_vars, OnlyWished, m.pc # "patchID",
           scenario.pair \notin made \ lost, scenario.pair \in made' \ lost'
    PROVE  m'.pc = "patchID" \/ (meta' # NoMeta /\ meta'.id = scenario.pair)
<1>1. CASE MCreate
  <2>1. m.meta # NoMeta
    BY <1>1 DEF MCreate, MUnrecorded, TypeOK, MTypeOK
  <2>2. m.meta.pair = scenario.pair
    BY <2>1 DEF OnlyWished, Meant
  <2>3. MGoto("patchID") => m'.pc = "patchID"
    BY DEF MGoto, TypeOK, MTypeOK
  <2> QED
    BY <1>1, <2>2, <2>3 DEF MCreate, remote, history
<1>2. CASE MImport
  <2>1. m.meta \in Metas
    BY <1>2 DEF MImport, TypeOK, MTypeOK
  <2>2. m.meta.pair = scenario.pair
    BY <2>1, SentinelAssumption DEF OnlyWished, Meant
  <2>3. meta' = [m.meta EXCEPT !.id = m.meta.pair]
    BY <1>2 DEF MImport, MPatchID, history
  <2>4. meta' \in Metas /\ meta'.id = m.meta.pair
    BY <2>1, <2>3 DEF Metas
  <2> QED
    BY <2>2, <2>4, SentinelAssumption
<1>3. ~NetrisDrift /\ ~XDeleteNetris
  BY DEF NetrisDrift, XDeleteNetris, Removed, remote, history
<1>4. ~Crash /\ ~XDeleteMeta /\ ~MRecordID
  BY DEF Crash, XDeleteMeta, MRecordID
<1> QED
  BY <1>1, <1>2, <1>3, <1>4, NoMove
  DEF Next, vars, UserCreate, UserEdit, UserAnnotate, UserDelete, OfUser, SyncCR,
      SyncMeta, DownloadWithInterval, XLoad, MLoad, remote, history, MStep,
      XStep, XRelease, XFail, XSetAnnotations, XSetFinalizer,
      XPatchCR, XTranslateFails, XWriteMeta, XNothingToDo,
      MFindForImport, MFindByID, MPortMissing, MNothingChanged, MStatus

LEMMA CleanInit == Init => CleanInv
<1> SUFFICES ASSUME Init PROVE CleanInv
  OBVIOUS
<1>1. scenario \in ScenarioType
  BY ScenarioAssumption DEF Init
<1>2. LeftInv
  BY <1>1 DEF Init, LeftInv, ScenarioType
<1> QED
  BY <1>2 DEF Init, CleanInv, OnlyWished, Wished, Meant, LetGoClean, Recorded, XIdle, MIdle

LEMMA CleanStep == TypeOK /\ TypeOK' /\ LedgerInv /\ CleanInv /\ [Next]_vars => CleanInv'
<1> SUFFICES ASSUME TypeOK, TypeOK', LedgerInv, CleanInv, [Next]_vars PROVE CleanInv'
  OBVIOUS
<1>1. LeftInv'
  BY SpentStays DEF CleanInv
<1>2. ASSUME Undisturbed' PROVE OnlyWished' /\ LetGoClean' /\ Recorded'
  <2>1. /\ Undisturbed /\ scenario' = scenario
        /\ ~Spend("edit") /\ ~Spend("annotate") /\ ~Spend("stale")
    BY <1>2, UndisturbedBefore DEF CleanInv
  <2>2. OnlyWished /\ LetGoClean /\ Recorded
    BY <2>1 DEF CleanInv
  <2>3. OnlyWished' /\ LetGoClean'
    BY <2>1, <2>2, OnlyWishedStep, LetGoCleanStep
  <2>4. Recorded'
    <3>1. CASE m.pc = "patchID"
      BY <2>1, <2>2, <3>1, PatchEnds DEF Recorded
    <3>2. CASE m.pc # "patchID" /\ scenario.pair \in made \ lost
      BY <2>1, <2>2, <3>2, RecordStays DEF Recorded
    <3>3. CASE m.pc # "patchID" /\ scenario.pair \notin made \ lost
      BY <2>1, <2>2, <3>3, MadeKnown DEF Recorded
    <3> QED
      BY <3>1, <3>2, <3>3
  <2> QED
    BY <2>3, <2>4
<1> QED
  BY <1>1, <1>2 DEF CleanInv

\* reclaimPolicy "delete": when a Link whose ports were never edited is gone, it has left no
\* link in Netris but one that its deletion could not know of, whatever call failed, process
\* restarted, or link was removed or made by somebody else on the way.
THEOREM UneditedLeavesNothing == Spec => [](~Spent("edit") => NothingLeft)
<1>1. TypeOK /\ CleanInv /\ ~Spent("edit") => NothingLeft
  <2> SUFFICES ASSUME TypeOK, CleanInv, ~Spent("edit"), cr = NoCR, scenario.policy # "retain",
                      ~Spent("annotate"), ~Spent("stale")
               PROVE  Known = {}
    BY DEF NothingLeft
  <2>1. OnlyWished /\ LetGoClean /\ Recorded
    BY DEF CleanInv, Undisturbed
  <2>2. m.pc = "patchID" => m.meta.pair = scenario.pair
    BY <2>1 DEF OnlyWished, Meant, TypeOK, MTypeOK
  <2>3. meta = NoMeta
    BY <2>1 DEF LetGoClean
  <2>4. made \subseteq {scenario.pair}
    BY <2>1 DEF OnlyWished
  <2> QED
    BY <2>1, <2>2, <2>3, <2>4 DEF Recorded, Known
<1>2. TypeOK /\ TypeOK' /\ LedgerInv /\ [Next]_vars => LedgerInv'
  BY LedgerStep
<1> QED
  BY <1>1, <1>2, TypeCorrect, LedgerInit, CleanInit, CleanStep, PTL DEF Spec

=============================================================================
