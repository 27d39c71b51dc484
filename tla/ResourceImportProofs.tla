----------------------- MODULE ResourceImportProofs -----------------------
(***************************************************************************)
(* The reconciler of module Resource does not make a second object of a    *)
(* name, as far as it can tell, for every value of the constants.          *)
(*                                                                         *)
(* Both theorems are about a decision that is several calls old when it    *)
(* takes effect: the object is created because the copies that were read   *)
(* had none.  The first invariant follows the object that Netris held at   *)
(* first through every copy; the second keeps a name free between the      *)
(* answer that it is, and the create.                                      *)
(***************************************************************************)
EXTENDS ResourceProofs

USE DEF Uids, Gens, Ids

-----------------------------------------------------------------------------
(* What a step does to the disturbances, to Netris and to the copies.      *)

LEMMA SpendLeft ==
    ASSUME TypeOK, NEW d \in Disturbances, Spend(d)
    PROVE  left'[d] < left[d] /\ \A e \in Disturbances : left'[e] <= left[e]
BY DEF TypeOK, Spend

\* A scenario never changes, and no disturbance comes back.
LEMMA LeftStep ==
    ASSUME TypeOK, [Next]_vars
    PROVE  scenario' = scenario /\ \A d \in Disturbances : left'[d] <= left[d]
<1>1. (\E d \in Disturbances : Spend(d)) \/ left' = left
  BY DEF Next, User, UserCreate, UserEdit, UserAnnotate, UserDelete, NetrisDrift, SyncCR, SyncMeta,
         DownloadWithInterval, Crash, XLoad, XStep, XDeleteNetris, XDeleteMeta, XRelease, XFail,
         XSetAnnotations, XPanic, XReject, XTranslateFails, XSetFinalizer, XCreateMeta,
         XUpdateMeta, XNothingToDo, XPatchCR, XWriteMeta, MLoad, MStep, MImport, MPatchID,
         MRefreshByName, MGetByID, MFindByID, MCreate, MRecordID, MNothingChanged, MUpdate,
         MWriteBack, MStatus, Answered, Failed, Disturbances, vars
<1>2. scenario' = scenario
  BY DEF Next, User, UserCreate, UserEdit, UserAnnotate, UserDelete, NetrisDrift, SyncCR, SyncMeta,
         DownloadWithInterval, Crash, XLoad, XStep, XDeleteNetris, XDeleteMeta, XRelease, XFail,
         XSetAnnotations, XPanic, XReject, XTranslateFails, XSetFinalizer, XCreateMeta,
         XUpdateMeta, XNothingToDo, XPatchCR, XWriteMeta, MLoad, MStep, MImport,
         MRefreshByName, MGetByID, MFindByID, MCreate, MRecordID, MNothingChanged, MUpdate,
         MWriteBack, MStatus, crVars, vars
<1>3. left' = left => \A d \in Disturbances : left'[d] <= left[d]
  BY DEF TypeOK
<1> QED
  BY <1>1, <1>2, <1>3, SpendLeft

LeftInv == \A d \in Disturbances : left[d] <= scenario.left[d]

LEMMA InitLeft == Init => LeftInv
<1> SUFFICES ASSUME Init PROVE LeftInv
  OBVIOUS
<1>1. \A d \in Disturbances : scenario.left[d] \in Nat
  BY ScenarioAssumption DEF Init, ScenarioType
<1> QED
  BY <1>1 DEF Init, LeftInv

\* A disturbance that has occurred has occurred for good.
LEMMA SpentStays ==
    ASSUME TypeOK, TypeOK', LeftInv, [Next]_vars
    PROVE  /\ LeftInv'
           /\ \A d \in Disturbances : Spent(d) => Spent(d)'
<1>1. scenario' = scenario /\ \A d \in Disturbances : left'[d] <= left[d]
  BY LeftStep
<1>2. \A d \in Disturbances : left[d] \in Nat /\ left'[d] \in Nat /\ scenario.left[d] \in Nat
  BY DEF TypeOK, ScenarioType
<1> QED
  BY <1>1, <1>2 DEF LeftInv, Spent

LEMMA SpendSpent ==
    ASSUME TypeOK, TypeOK', LeftInv, NEW d \in Disturbances, Spend(d), scenario' = scenario
    PROVE  Spent(d)'
<1>1. left'[d] < left[d]
  BY SpendLeft
<1>2. left[d] \in Nat /\ left'[d] \in Nat /\ scenario.left[d] \in Nat
  BY DEF TypeOK, ScenarioType
<1> QED
  BY <1>1, <1>2 DEF LeftInv, Spent

\* An object appears in Netris by a create only, under the next id.
LEMMA NetrisStep ==
    ASSUME TypeOK, [Next]_vars
    PROVE  /\ \/ nextId' = nextId /\ \A i \in Ids : netris[i] = NoObj => netris'[i] = NoObj
              \/ /\ MCreate /\ nextId \in Ids /\ nextId' = nextId + 1
                 /\ \A i \in Ids \ {nextId} : netris'[i] = netris[i]
           /\ \A i \in Ids : storage'[i] \in {storage[i], netris[i]}
<1>0. netris \in [Ids -> Contents \union {NoObj}] /\ nextId \in 1 .. MaxId + 1 /\ MaxId \in Nat
  BY BoundAssumption DEF TypeOK
<1>1. CASE NetrisDrift \/ XDeleteNetris \/ MUpdate
  BY <1>0, <1>1 DEF NetrisDrift, XDeleteNetris, MUpdate
<1>2. CASE MCreate
  <2>1. \/ UNCHANGED <<netris, nextId>>
        \/ /\ nextId <= MaxId /\ nextId' = nextId + 1
           /\ netris' = [netris EXCEPT ![nextId] = Content(m.uid, m.meta.spec, "chosen")]
    BY <1>2 DEF MCreate, netrisVars
  <2>2. storage' = storage
    BY <1>2 DEF MCreate
  <2> QED
    BY <1>0, <1>2, <2>1, <2>2
<1>3. CASE DownloadWithInterval \/ Crash \/ XPanic \/ MRefreshByName \/ MFindByID
  BY <1>3 DEF DownloadWithInterval, Crash, XPanic, Restart, MRefreshByName, MFindByID, netrisVars
<1>4. CASE User \/ SyncCR \/ (\E u \in Uids : SyncMeta(u)) \/ XLoad
           \/ (\E u \in Uids : MLoad(u)) \/ UNCHANGED vars
  BY <1>4 DEF User, UserCreate, UserEdit, UserAnnotate, UserDelete, SyncCR, SyncMeta, XLoad,
              MLoad, netrisVars, vars
<1>5. CASE XDeleteMeta \/ XRelease \/ XFail \/ XSetAnnotations \/ XReject \/ XTranslateFails
           \/ XSetFinalizer \/ XCreateMeta \/ XUpdateMeta \/ XNothingToDo
  BY <1>5 DEF XDeleteMeta, XRelease, XFail, XSetAnnotations, XReject, XTranslateFails,
              XSetFinalizer, XCreateMeta, XUpdateMeta, XNothingToDo, XPatchCR, XWriteMeta,
              netrisVars
<1>6. CASE MImport \/ MGetByID \/ MRecordID \/ MNothingChanged \/ MWriteBack \/ MStatus
  BY <1>6 DEF MImport, MGetByID, MRecordID, MNothingChanged, MWriteBack, MStatus, netrisVars
<1> QED
  BY <1>1, <1>2, <1>3, <1>4, <1>5, <1>6 DEF Next, XStep, MStep

Metas0 == {NoMeta} \union {metaCache[u] : u \in Uids}

LEMMA MCopyStep ==
    ASSUME TypeOK, [Next]_vars
    PROVE  m'.meta \in {m.meta} \union Metas0
<1>1. XIdle.meta = NoMeta /\ MIdle.meta = NoMeta
  BY DEF XIdle, MIdle
<1>2. ASSUME NEW v, MVerdict(v) PROVE m'.meta = NoMeta
  BY <1>2 DEF MVerdict, MIdle
<1>3. ASSUME NEW a, MProvisioned(a) PROVE m'.meta = NoMeta
  BY <1>2, <1>3 DEF MProvisioned, MIdle
<1>4. CASE MImport \/ MRecordID
  BY <1>1, <1>2, <1>3, <1>4 DEF Metas0, MImport, MRecordID, MPatchID
<1>5. CASE MRefreshByName \/ MGetByID \/ MFindByID
  BY <1>5 DEF MRefreshByName, MGetByID, MFindByID, TypeOK, MTypeOK
<1>6. CASE MCreate
  BY <1>2, <1>6 DEF Metas0, MCreate, TypeOK, MTypeOK
<1>7. CASE MNothingChanged \/ MUpdate \/ MWriteBack \/ MStatus
  BY <1>1, <1>2, <1>3, <1>7 DEF Metas0, MNothingChanged, MUpdate, MWriteBack, MStatus
<1>8. CASE \E u \in Uids : MLoad(u)
  BY <1>8 DEF MLoad, TypeOK, MTypeOK, Metas0
<1>9. CASE XStep
  BY <1>1, <1>9 DEF Metas0, XStep, XDeleteNetris, XDeleteMeta, XRelease, XFail, XSetAnnotations,
            XPanic, XReject, XTranslateFails, XSetFinalizer, XCreateMeta, XUpdateMeta, XNothingToDo,
            XPatchCR, XWriteMeta, Restart
<1>10. CASE User \/ NetrisDrift \/ SyncCR \/ (\E u \in Uids : SyncMeta(u))
            \/ DownloadWithInterval \/ Crash \/ XLoad \/ UNCHANGED vars
  BY <1>1, <1>10 DEF Metas0, User, UserCreate, UserEdit, UserAnnotate, UserDelete, NetrisDrift,
            SyncCR, SyncMeta, DownloadWithInterval, Crash, Restart, XLoad, vars
<1> QED
  BY <1>4, <1>5, <1>6, <1>7, <1>8, <1>9, <1>10 DEF Next, MStep

\* The copies of a meta that a step leaves are older ones, or come from the API server
\* through the cache.
LEMMA MetaCopyStep ==
    ASSUME TypeOK, [Next]_vars
    PROVE  /\ \A u \in Uids : metaCache'[u] \in {metaCache[u], meta[u]}
           /\ x'.meta \in {x.meta} \union Metas0
           /\ m'.meta \in {m.meta} \union Metas0
<1>0. /\ metaCache \in [Uids -> Metas \union {NoMeta}]
      /\ x \in [pc : {"idle", "loaded", "deleteMeta", "release", "failed"},
                cr : CRs \union {NoCR}, meta : Metas \union {NoMeta}]
      /\ crCache # NoCR => crCache.uid \in Uids
      /\ XIdle.meta = NoMeta
      /\ m'.meta \in {m.meta} \union Metas0
  BY MCopyStep DEF TypeOK, XTypeOK, XIdle, CRs
<1>1. CASE XStep
  <2>1. CASE XPanic
    BY <1>0, <2>1 DEF XPanic, Restart, Metas0
  <2>2. CASE ~XPanic
    <3>1. metaCache' = metaCache
      BY <1>1, <2>2
      DEF XStep, XDeleteNetris, XDeleteMeta, XRelease, XFail, XSetAnnotations, XReject,
          XTranslateFails, XSetFinalizer, XCreateMeta, XUpdateMeta, XNothingToDo,
          XPatchCR, XWriteMeta, caches
    <3>2. x' = XIdle \/ \E pc \in {"deleteMeta", "release", "failed"} : XGoto(pc)
      BY <1>1, <2>2
      DEF XStep, XDeleteNetris, XDeleteMeta, XRelease, XFail, XSetAnnotations, XReject,
          XTranslateFails, XSetFinalizer, XCreateMeta, XUpdateMeta, XNothingToDo,
          XPatchCR, XWriteMeta, XDone
    <3>3. ASSUME NEW pc \in {"deleteMeta", "release", "failed"}, XGoto(pc)
          PROVE  x'.meta = NoMeta
      BY <1>0, <3>3 DEF XGoto
    <3> QED
      BY <1>0, <3>1, <3>2, <3>3 DEF Metas0
  <2> QED
    BY <2>1, <2>2
<1>2. CASE XLoad
  <2>1. x' = x \/ (crCache # NoCR /\ x'.meta = metaCache[crCache.uid])
    BY <1>2 DEF XLoad
  <2>2. metaCache' = metaCache
    BY <1>2 DEF XLoad, caches
  <2> QED
    BY <1>0, <2>1, <2>2 DEF Metas0
<1>3. CASE (\E u \in Uids : SyncMeta(u)) \/ Crash
  BY <1>0, <1>3 DEF SyncMeta, Crash, Restart, Metas0
<1>4. CASE User \/ NetrisDrift \/ SyncCR \/ DownloadWithInterval \/ UNCHANGED vars
  BY <1>0, <1>4 DEF User, UserCreate, UserEdit, UserAnnotate, UserDelete, NetrisDrift, SyncCR,
                    DownloadWithInterval, Metas0, caches, vars
<1>5. CASE MStep \/ (\E u \in Uids : MLoad(u))
  <2>1. x' = x /\ metaCache' = metaCache
    BY <1>5
    DEF MStep, MImport, MRefreshByName, MGetByID, MFindByID, MCreate, MRecordID,
        MNothingChanged, MUpdate, MWriteBack, MStatus, MLoad, caches
  <2> QED
    BY <1>0, <2>1 DEF Metas0
<1> QED
  BY <1>1, <1>2, <1>3, <1>4, <1>5 DEF Next

-----------------------------------------------------------------------------
(* The object that Netris held at first.                                   *)

\* What ImportAdopts is conditional on
Sure ==
    /\ scenario.preexisting /\ AllImport
    /\ netris[1] # NoObj
    /\ Kind.lookup = "api" => ~Spent("fault")

Importing(c) == c # NoCR => Imported(c)

\* The meta is to import, and the only id it may hold is that of the first object.
Adopting(mt) == mt # NoMeta => mt.imported /\ mt.id \in {0, 1}

CopiesImport ==
    /\ Importing(cr) /\ Importing(crCache) /\ Importing(x.cr)
    /\ \A u \in Uids : Adopting(meta[u]) /\ Adopting(metaCache[u])
    /\ Adopting(x.meta) /\ Adopting(m.meta)

FirstOnly ==
    /\ nextId = 2
    /\ storage[1] # NoObj
    /\ \A i \in Ids \ {1} : netris[i] = NoObj /\ storage[i] = NoObj
    /\ m.pc \notin {"import", "create", "patchID"}

ImportInv ==
    /\ LeftInv
    /\ scenario.preexisting => nextId >= 2
    /\ Sure => CopiesImport /\ FirstOnly

\* What is sure after a step was sure before it: a disturbance is not taken back, and the
\* first object, once gone, does not return.
LEMMA SureBefore ==
    ASSUME TypeOK, TypeOK', ImportInv, [Next]_vars, Sure'
    PROVE  Sure
<1>1. scenario' = scenario
  BY LeftStep
<1>2. AllImport
  BY <1>1, SpentStays DEF Sure, AllImport, ImportInv, Disturbances
<1>3. Kind.lookup = "api" => ~Spent("fault")
  BY <1>1, SpentStays DEF Sure, Kind, ImportInv, Disturbances
<1>4. 1 \in Ids
  BY <1>1, BoundAssumption DEF TypeOK, Sure, ImportInv
<1>5. netris[1] # NoObj
  BY <1>1, <1>4, NetrisStep DEF Sure, ImportInv, TypeOK
<1> QED
  BY <1>1, <1>2, <1>3, <1>5 DEF Sure

\* No step takes the wish to import out of a CR.
LEMMA ImportKept ==
    ASSUME TypeOK, TypeOK', ImportInv, [Next]_vars, Sure, Sure', CopiesImport
    PROVE  Importing(cr')
<1>1. CASE UserCreate
  <2>1. PICK a \in scenario.annotations, addr \in scenario.addresses[1] :
          cr' = [uid |-> nextUid, gen |-> 1, spec |-> [edit |-> 1, addr |-> addr], ann |-> a,
                 fin |-> FALSE, del |-> FALSE, status |-> "none"]
    BY <1>1 DEF UserCreate
  <2> QED
    BY <2>1 DEF Sure, AllImport, Importing, Imported
<1>2. CASE UserAnnotate
  <2>1. Spend("annotate") /\ scenario' = scenario
    BY <1>2 DEF UserAnnotate
  <2> QED
    BY <2>1, SpendSpent DEF Sure, AllImport, ImportInv, Disturbances
<1>3. CASE UserEdit \/ UserDelete
  BY <1>3 DEF UserEdit, UserDelete, TypeOK, CRs, CopiesImport, Importing, Imported
<1>4. CASE XRelease \/ XFail \/ MStatus
  <2>1. \/ cr' \in {cr, NoCR}
        \/ cr # NoCR /\ \E v : cr' = [cr EXCEPT !.status = v]
    BY <1>4 DEF XRelease, XFail, MStatus, TypeOK, XTypeOK, MTypeOK
  <2>2. ASSUME NEW v, cr # NoCR PROVE [cr EXCEPT !.status = v].ann = cr.ann
    BY <2>2 DEF TypeOK, CRs
  <2> QED
    BY <2>1, <2>2 DEF CopiesImport, Importing, Imported
<1>5. ASSUME NEW c, XPatchCR(c), Imported(c)
      PROVE  Importing(cr')
  BY <1>5 DEF XPatchCR, CopiesImport, Importing
<1>6. CASE XSetAnnotations
  <2>1. x.cr \in CRs /\ x.cr # NoCR /\ Imported(x.cr)
    BY <1>6, SentinelAssumption
    DEF XSetAnnotations, XLoaded, TypeOK, XTypeOK, CopiesImport, Importing
  <2> DEFINE c == [x.cr EXCEPT !.ann = DefaultAnnotations(@)]
  <2>2. c.ann = DefaultAnnotations(x.cr.ann)
    BY <2>1 DEF CRs
  <2>3. DefaultAnnotations(x.cr.ann).import = "true"
    BY <2>1 DEF DefaultAnnotations, Imported
  <2>4. DefaultAnnotations(x.cr.ann) # NilMap
    BY SentinelAssumption DEF DefaultAnnotations, Annotations
  <2>5. Imported(c)
    BY <2>2, <2>3, <2>4 DEF Imported
  <2> HIDE DEF c
  <2> QED
    BY <1>5, <1>6, <2>5 DEF XSetAnnotations, c
<1>7. CASE XSetFinalizer
  <2>1. x.cr \in CRs /\ x.cr # NoCR /\ Imported(x.cr)
    BY <1>7, SentinelAssumption
    DEF XSetFinalizer, XAccepted, XAnnotated, XLoaded, TypeOK, XTypeOK, CopiesImport, Importing
  <2>2. Imported([x.cr EXCEPT !.fin = TRUE])
    BY <2>1 DEF Imported, CRs
  <2> QED
    BY <1>5, <1>7, <2>2 DEF XSetFinalizer
<1>8. CASE MWriteBack
  <2>1. cr' = cr \/ (cr = m.cr /\ cr' = [m.cr EXCEPT !.gen = cr.gen + 1, !.spec.addr = m.addr])
    BY <1>8 DEF MWriteBack, CRPatchAccepted
  <2>2. m.cr \in CRs /\ m.cr # NoCR
    BY <1>8, SentinelAssumption DEF MWriteBack, TypeOK, MTypeOK
  <2> QED
    BY <2>1, <2>2 DEF CopiesImport, Importing, Imported, CRs
<1>9. CASE UNCHANGED cr
  BY <1>9 DEF CopiesImport
<1>10. CASE XDeleteNetris \/ XDeleteMeta \/ XReject \/ XTranslateFails \/ XCreateMeta
            \/ XUpdateMeta \/ XNothingToDo \/ XPanic
  BY <1>9, <1>10
  DEF XDeleteNetris, XDeleteMeta, XReject, XTranslateFails, XCreateMeta, XUpdateMeta,
      XWriteMeta, XNothingToDo, XPanic, crVars
<1>11. CASE MImport \/ MRefreshByName \/ MGetByID \/ MFindByID \/ MCreate \/ MRecordID
            \/ MNothingChanged \/ MUpdate
  BY <1>9, <1>11
  DEF MImport, MRefreshByName, MGetByID, MFindByID, MCreate, MRecordID, MNothingChanged, MUpdate,
      crVars
<1> QED
  BY <1>1, <1>2, <1>3, <1>4, <1>6, <1>7, <1>8, <1>9, <1>10, <1>11
  DEF Next, User, XStep, MStep, vars, NetrisDrift, SyncCR, SyncMeta, DownloadWithInterval, Crash,
      XLoad, MLoad, crVars

\* No write puts another id into a meta than that of the first object.
LEMMA AdoptingKept ==
    ASSUME TypeOK, TypeOK', ImportInv, [Next]_vars, Sure, CopiesImport, FirstOnly
    PROVE  \A u \in Uids : Adopting(meta'[u])
<1>0. meta \in [Uids -> Metas \union {NoMeta}] /\ \A u \in Uids : Adopting(meta[u])
  BY DEF TypeOK, CopiesImport
<1>1. ASSUME NEW v, NEW mt, meta' = meta \/ meta' = [meta EXCEPT ![v] = mt], Adopting(mt)
      PROVE  \A u \in Uids : Adopting(meta'[u])
  BY <1>0, <1>1
<1>2. ASSUME NEW i \in {0, 1}, NEW a, NEW done, MPatchID(i, a, done), m.meta # NoMeta
      PROVE  \A u \in Uids : Adopting(meta'[u])
  <2> DEFINE new == [m.meta EXCEPT !.id = i, !.spec.addr = a]
  <2>1. m.meta \in Metas /\ m.meta.imported
    BY <1>2 DEF TypeOK, MTypeOK, CopiesImport, Adopting
  <2>2. new.imported /\ new.id = i
    BY <2>1 DEF Metas
  <2>3. Adopting(new)
    BY <2>2 DEF Adopting
  <2>4. meta' = meta \/ meta' = [meta EXCEPT ![m.uid] = new]
    BY <1>2 DEF MPatchID
  <2> QED
    BY <1>1, <2>3, <2>4
<1>3. CASE XCreateMeta
  <2>1. x.cr # NoCR /\ Imported(x.cr)
    BY <1>3 DEF XCreateMeta, XAccepted, XAnnotated, XLoaded, TypeOK, XTypeOK, CopiesImport,
                Importing
  <2>2. Adopting(NewMeta(x.cr))
    BY <2>1 DEF Adopting, NewMeta
  <2> QED
    BY <1>1, <1>3, <2>2 DEF XCreateMeta, XWriteMeta
<1>4. CASE XUpdateMeta
  <2>1. x.cr # NoCR /\ Imported(x.cr) /\ x.meta.id \in {0, 1}
    BY <1>4 DEF XUpdateMeta, XAccepted, XAnnotated, XLoaded, TypeOK, XTypeOK, CopiesImport,
                Importing, Adopting
  <2>2. Adopting(RefreshedMeta(x.cr, x.meta))
    BY <2>1 DEF Adopting, RefreshedMeta, NewMeta
  <2> QED
    BY <1>1, <1>4, <2>2 DEF XUpdateMeta, XWriteMeta
<1>5. CASE XDeleteMeta
  <2>1. Adopting(NoMeta)
    BY DEF Adopting
  <2> QED
    BY <1>1, <1>5, <2>1 DEF XDeleteMeta
<1>6. CASE MImport
  <2>1. PICK i \in Ids : i \in FindByName /\ MPatchID(i, Adopted(i),
                             m' = MIdle /\ mQueue' = mQueue \union {m.uid})
    BY <1>6 DEF MImport, FirstOnly
  <2>2. i = 1 /\ m.meta # NoMeta
    BY <1>6, <2>1 DEF FindByName, FirstOnly, MImport, MUnrecorded, TypeOK, MTypeOK
  <2> QED
    BY <1>2, <2>1, <2>2
<1>7. CASE meta' = meta
  BY <1>0, <1>7
<1>8. CASE \/ XDeleteNetris \/ XRelease \/ XFail \/ XSetAnnotations \/ XReject \/ XTranslateFails
           \/ XSetFinalizer \/ XNothingToDo \/ XPanic \/ XLoad
  BY <1>7, <1>8 DEF XDeleteNetris, XRelease, XFail, XSetAnnotations, XReject, XTranslateFails,
              XSetFinalizer, XNothingToDo, XPanic, XLoad, XPatchCR
<1>9. CASE MRefreshByName \/ MGetByID \/ MFindByID \/ MCreate \/ MNothingChanged \/ MUpdate
           \/ MWriteBack \/ MStatus \/ (\E v \in Uids : MLoad(v))
  BY <1>7, <1>9 DEF MRefreshByName, MGetByID, MFindByID, MCreate, MNothingChanged, MUpdate,
              MWriteBack, MStatus, MLoad
<1>10. CASE User \/ NetrisDrift \/ SyncCR \/ (\E v \in Uids : SyncMeta(v))
           \/ DownloadWithInterval \/ Crash \/ UNCHANGED vars
  BY <1>7, <1>10 DEF User, UserCreate, UserEdit, UserAnnotate, UserDelete, NetrisDrift, SyncCR,
              SyncMeta, DownloadWithInterval, Crash, vars
<1>11. ~MRecordID
  BY DEF MRecordID, FirstOnly
<1> QED
  BY <1>3, <1>4, <1>5, <1>6, <1>8, <1>9, <1>10, <1>11 DEF Next, XStep, MStep

\* No miss leads to a create: the copy that is looked in has the object, and a call that
\* could miss it has not failed.
LEMMA NoCreate ==
    ASSUME TypeOK, ImportInv, Sure, CopiesImport, FirstOnly
    PROVE  ~MCreate
<1>1. ~MUnrecorded(FALSE)
  <2>1. m.pc = "loaded" => m.meta \in Metas /\ m.meta # NoMeta
    BY DEF TypeOK, MTypeOK
  <2> QED
    BY <2>1 DEF MUnrecorded, CopiesImport, Adopting
<1>2. 1 \in FindByName
  BY BoundAssumption DEF FindByName, FirstOnly, TypeOK
<1> QED
  BY <1>1, <1>2 DEF MCreate, FirstOnly

LEMMA FirstOnlyKept ==
    ASSUME TypeOK, TypeOK', ImportInv, [Next]_vars, Sure, Sure', CopiesImport, FirstOnly
    PROVE  FirstOnly'
<1>0. 1 \in Ids
  BY BoundAssumption DEF TypeOK, FirstOnly
<1>1. nextId' = 2 /\ \A i \in Ids \ {1} : netris'[i] = NoObj /\ storage'[i] = NoObj
  BY NetrisStep, NoCreate DEF FirstOnly
<1>2. storage'[1] # NoObj
  BY <1>0, NetrisStep DEF FirstOnly, Sure
<1>3. m'.pc \notin {"import", "create", "patchID"}
  <2>1. m \in [pc : {"idle", "loaded", "import", "create", "patchID", "compare", "writeBack",
                     "status"},
              uid : Uids \union {0}, cr : CRs \union {NoCR}, meta : Metas \union {NoMeta},
              obj : Contents \union {NoObj}, id : Ids \union {0}, addr : Addresses,
              verdict : {"none", "Success", "Failure"}]
    BY DEF TypeOK, MTypeOK
  <2>2. MIdle.pc = "idle"
    BY DEF MIdle
  <2>3. ASSUME NEW v, MVerdict(v) PROVE m'.pc = "status"
    BY <2>3 DEF MVerdict, MIdle
  <2>4. ASSUME NEW a, MProvisioned(a) PROVE m'.pc \in {"writeBack", "status"}
    BY <2>3, <2>4 DEF MProvisioned, MIdle
  <2>5. CASE MImport
    BY <2>2, <2>3, <2>5 DEF MImport, MPatchID
  <2>6. ~MRefreshByName /\ ~MCreate /\ ~MRecordID
    BY <1>0, NoCreate DEF MRefreshByName, MRecordID, FindByName, FirstOnly
  <2>7. m.pc = "loaded" /\ m.meta.id # 0 => m.meta.id = 1
    BY DEF CopiesImport, Adopting, TypeOK, MTypeOK
  <2>8. CASE MGetByID
    <3>1. scenario' = scenario /\ (Failed => Spent("fault")')
      BY LeftStep, SpendSpent DEF Failed, ImportInv, Disturbances
    <3>2. ~Failed
      BY <2>8, <3>1 DEF MGetByID, Sure, Kind
    <3> QED
      BY <2>1, <2>7, <2>8, <3>2 DEF MGetByID, Sure
  <2>9. CASE MFindByID
    BY <2>1, <2>7, <2>9 DEF MFindByID, FirstOnly
  <2>10. CASE MNothingChanged \/ MUpdate \/ MWriteBack \/ MStatus
    BY <2>2, <2>3, <2>4, <2>10 DEF MNothingChanged, MUpdate, MWriteBack, MStatus
  <2>11. CASE \E u \in Uids : MLoad(u)
    BY <2>1, <2>11 DEF MLoad, FirstOnly
  <2>12. CASE XStep
    BY <2>2, <2>12 DEF XStep, XDeleteNetris, XDeleteMeta, XRelease, XFail, XSetAnnotations,
              XPanic, XReject, XTranslateFails, XSetFinalizer, XCreateMeta, XUpdateMeta,
              XNothingToDo, XPatchCR, XWriteMeta, Restart, FirstOnly
  <2>13. CASE User \/ NetrisDrift \/ SyncCR \/ (\E u \in Uids : SyncMeta(u))
              \/ DownloadWithInterval \/ Crash \/ XLoad \/ UNCHANGED vars
    BY <2>2, <2>13 DEF User, UserCreate, UserEdit, UserAnnotate, UserDelete, NetrisDrift, SyncCR,
              SyncMeta, DownloadWithInterval, Crash, Restart, XLoad, FirstOnly, vars
  <2> QED
    BY <2>5, <2>6, <2>8, <2>9, <2>10, <2>11, <2>12, <2>13 DEF Next, MStep
<1> QED
  BY <1>1, <1>2, <1>3 DEF FirstOnly

\* An importing CR whose object netrisstorage has had from its first download adopts it, and as
\* long as it is there creates no second one: whatever edits, crashes, outdated reads and drift
\* come between, and for the kinds that do not ask Netris for the name, failed calls too.
THEOREM ImportSafe == Spec => []ImportAdopts
<1>1. Init => ImportInv
  <2> SUFFICES ASSUME Init PROVE ImportInv
    OBVIOUS
  <2>1. CopiesImport
    BY DEF Init, CopiesImport, Importing, Adopting, XIdle, MIdle
  <2>2. scenario.preexisting => nextId = 2
    BY DEF Init
  <2>3. Sure => FirstOnly
    BY <2>2, BoundAssumption, ScenarioAssumption DEF Init, Sure, FirstOnly, MIdle
  <2> QED
    BY <2>1, <2>2, <2>3, InitLeft DEF ImportInv
<1>2. TypeOK /\ TypeOK' /\ ImportInv /\ [Next]_vars => ImportInv'
  <2> SUFFICES ASSUME TypeOK, TypeOK', ImportInv, [Next]_vars PROVE ImportInv'
    OBVIOUS
  <2>1. LeftInv' /\ scenario' = scenario
    BY SpentStays, LeftStep DEF ImportInv
  <2>2. (scenario.preexisting => nextId >= 2)'
    BY <2>1, NetrisStep, BoundAssumption DEF ImportInv, TypeOK
  <2>3. ASSUME Sure' PROVE CopiesImport' /\ FirstOnly'
    <3>1. Sure /\ CopiesImport /\ FirstOnly
      BY <2>3, SureBefore DEF ImportInv
    <3>2. Importing(cr)'
      BY <2>3, <3>1, ImportKept DEF Importing, Imported
    <3>3. (Importing(crCache) /\ Importing(x.cr))'
      BY <3>1, CopyStep DEF CopiesImport, Importing, Imported
    <3>4. (\A u \in Uids : Adopting(meta[u]))'
      BY <3>1, AdoptingKept DEF Adopting
    <3>5. (\A u \in Uids : Adopting(metaCache[u]))'
      BY <3>1, MetaCopyStep DEF CopiesImport, Adopting
    <3>6. (Adopting(x.meta) /\ Adopting(m.meta))'
      BY <3>1, MetaCopyStep DEF CopiesImport, Adopting, Metas0
    <3>7. FirstOnly'
      BY <2>3, <3>1, FirstOnlyKept
    <3> QED
      BY <3>2, <3>3, <3>4, <3>5, <3>6, <3>7 DEF CopiesImport
  <2> QED
    BY <2>1, <2>2, <2>3 DEF ImportInv
<1>3. ImportInv => ImportAdopts
  BY DEF ImportInv, ImportAdopts, Sure, FirstOnly
<1> QED
  BY <1>1, <1>2, <1>3, TypeCorrect, PTL DEF Spec

-----------------------------------------------------------------------------
(* A name that Netris said is free.                                        *)

\* Since the reconciler was told that the name is free, nobody has taken it.
NameFree ==
    Kind.refresh /\ m.pc = "create" /\ m.meta.id = 0 /\ m.meta.imported /\ ~Spent("fault")
        => \A i \in Ids : netris[i] = NoObj

RetryInv == LeftInv /\ NameFree

LEMMA CreateDone == ASSUME TypeOK, MCreate PROVE m'.pc \in {"patchID", "status"}
BY DEF MCreate, MVerdict, MIdle, TypeOK, MTypeOK

\* How the reconciler of the metas comes to create: it was told that the name is free, or
\* it misses an object whose id it has, or a call has failed; or it was creating before.
LEMMA CreateStep ==
    ASSUME TypeOK, [Next]_vars, m'.pc = "create"
    PROVE  \/ m' = m
           \/ m'.meta = m.meta /\ m.meta.id # 0
           \/ m'.meta = m.meta /\ Failed
           \/ m'.meta = m.meta /\ netris' = netris /\ \A i \in Ids : netris[i] = NoObj
<1>1. m \in [pc : {"idle", "loaded", "import", "create", "patchID", "compare", "writeBack",
                   "status"},
            uid : Uids \union {0}, cr : CRs \union {NoCR}, meta : Metas \union {NoMeta},
            obj : Contents \union {NoObj}, id : Ids \union {0}, addr : Addresses,
            verdict : {"none", "Success", "Failure"}]
  BY DEF TypeOK, MTypeOK
<1>2. MIdle.pc = "idle"
  BY DEF MIdle
<1>3. ASSUME NEW v, MVerdict(v) PROVE m'.pc = "status"
  BY <1>3 DEF MVerdict, MIdle
<1>4. ASSUME NEW a, MProvisioned(a) PROVE m'.pc \in {"writeBack", "status"}
  BY <1>3, <1>4 DEF MProvisioned, MIdle
<1>5. ~MImport /\ ~MRecordID
  BY <1>2, <1>3, <1>4 DEF MImport, MRecordID, MPatchID
<1>6. CASE MRefreshByName
  <2>1. netris' = netris /\ m'.pc # "import"
    BY <1>6 DEF MRefreshByName, netrisVars
  <2>2. ASSUME NEW i, m' = [m EXCEPT !.pc = "import", !.id = i] PROVE FALSE
    BY <1>1, <2>1, <2>2
  <2>3. /\ Failed \/ \A i \in Ids : netris[i] = NoObj
        /\ m' = [m EXCEPT !.pc = "create"]
    BY <1>6, <2>2 DEF MRefreshByName
  <2>4. m'.meta = m.meta
    BY <1>1, <2>3
  <2> QED
    BY <2>1, <2>3, <2>4
<1>7. CASE MGetByID \/ MFindByID
  <2>1. m.meta.id # 0
    BY <1>7 DEF MGetByID, MFindByID
  <2>2. m'.meta = m.meta
    BY <1>1, <1>7 DEF MGetByID, MFindByID
  <2> QED
    BY <2>1, <2>2
<1>8. ~MCreate
  BY CreateDone
<1>9. ~MNothingChanged /\ ~MUpdate /\ ~MWriteBack /\ ~MStatus
  BY <1>2, <1>3, <1>4 DEF MNothingChanged, MUpdate, MWriteBack, MStatus
<1>10. CASE \E u \in Uids : MLoad(u)
  BY <1>1, <1>10 DEF MLoad
<1>11. CASE XStep
  BY <1>2, <1>11 DEF XStep, XDeleteNetris, XDeleteMeta, XRelease, XFail, XSetAnnotations,
            XPanic, XReject, XTranslateFails, XSetFinalizer, XCreateMeta, XUpdateMeta, XNothingToDo,
            XPatchCR, XWriteMeta, Restart
<1>12. CASE User \/ NetrisDrift \/ SyncCR \/ (\E u \in Uids : SyncMeta(u))
            \/ DownloadWithInterval \/ Crash \/ XLoad \/ UNCHANGED vars
  BY <1>2, <1>12 DEF User, UserCreate, UserEdit, UserAnnotate, UserDelete, NetrisDrift, SyncCR,
            SyncMeta, DownloadWithInterval, Crash, Restart, XLoad, vars
<1> QED
  BY <1>5, <1>6, <1>7, <1>8, <1>9, <1>10, <1>11, <1>12 DEF Next, MStep

\* An importing CR of a kind whose look-up by name downloads the list on a miss creates no object
\* while there is one in Netris, also after a crash between the create and the patch of the id,
\* as long as no call has failed.
THEOREM RetrySafe == Spec => RetryAdopts
<1>1. Init => RetryInv
  BY InitLeft DEF Init, RetryInv, NameFree, MIdle
<1>2. TypeOK /\ TypeOK' /\ RetryInv /\ [Next]_vars => RetryInv'
  <2> SUFFICES ASSUME TypeOK, TypeOK', RetryInv, [Next]_vars PROVE RetryInv'
    OBVIOUS
  <2>1. LeftInv' /\ scenario' = scenario /\ (Spent("fault") => Spent("fault")')
    BY SpentStays, LeftStep DEF RetryInv, Disturbances
  <2>2. ASSUME Kind.refresh', m'.pc = "create", m'.meta.id = 0, m'.meta.imported, ~Spent("fault")'
        PROVE  \A i \in Ids : netris'[i] = NoObj
    <3>1. ~Failed /\ ~Spent("fault") /\ Kind.refresh
      BY <2>1, <2>2, SpendSpent DEF Failed, RetryInv, Disturbances, Kind
    <3>2. CASE m' = m
      <4>1. m.pc = "create" /\ \A i \in Ids : netris[i] = NoObj
        BY <2>2, <3>1, <3>2 DEF RetryInv, NameFree
      <4>2. ~MCreate
        BY <2>2, CreateDone
      <4> QED
        BY <4>1, <4>2, NetrisStep
    <3> QED
      BY <2>2, <3>1, <3>2, CreateStep
  <2> QED
    BY <2>1, <2>2 DEF RetryInv, NameFree
<1>3. TypeOK /\ RetryInv /\ [Next]_vars =>
        [Kind.refresh /\ ~Spent("fault") /\ nextId' # nextId /\ m.meta.imported /\ m.meta.id = 0
            => \A i \in Ids : netris[i] = NoObj]_vars
  <2> SUFFICES ASSUME TypeOK, RetryInv, [Next]_vars, Kind.refresh, ~Spent("fault"),
                      nextId' # nextId, m.meta.imported, m.meta.id = 0
               PROVE  \A i \in Ids : netris[i] = NoObj
    OBVIOUS
  <2>1. MCreate
    BY NetrisStep
  <2>2. ~MUnrecorded(FALSE)
    BY DEF MUnrecorded
  <2> QED
    BY <2>1, <2>2 DEF MCreate, RetryInv, NameFree
<1> QED
  BY <1>1, <1>2, <1>3, TypeCorrect, PTL DEF Spec, RetryAdopts

=============================================================================
