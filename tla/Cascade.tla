------------------------------ MODULE Cascade ------------------------------
(***************************************************************************)
(* The reconcilers of L4LB and Site, whose metas have a finalizer of their *)
(* own: a deletion goes from the CR to the meta, from there to Netris, and *)
(* all the way back.                                                       *)
(*                                                                         *)
(*   x  the reconciler of the CR    (l4lb_controller.go, site_controller.go)         *)
(*   m  the reconciler of the meta  (l4lbmeta_controller.go, sitemeta_controller.go) *)
(*                                                                         *)
(* As in module Resource, every call to the API server or to Netris is a   *)
(* step, the caches lag behind, and a write that carries the version that  *)
(* was read is accepted exactly when the object still is what was read.    *)
(* Unlike there, a RequeueAfter is a timer of its own: whether one is set  *)
(* is what the two kinds differ in.  There is one CR; what happens when it *)
(* is made again, or has no annotations at all, is Resource's subject.     *)
(*                                                                         *)
(* The address of an L4LB's frontend may be left open, and so may its      *)
(* tenant or its site; a Site has none of these.                           *)
(*                                                                         *)
(* A definition MutF is F with a plausible mistake in it.  No definition   *)
(* uses it; the properties are checked to notice F being replaced by it.   *)
(***************************************************************************)
EXTENDS Naturals

CONSTANTS
    Scenarios,      \* what the user wishes for, with how often each disturbance occurs
    EditAddresses,  \* the addresses that an edit may write; it may also leave them
    EditPolicies,   \* the annotations a change of them may leave
    MaxEdit,        \* bound: the specs that the user gives the CR
    MaxId,          \* bound: the ids Netris hands out
    Preexisting,    \* BOOLEAN: Netris holds an object of this name at first
    NoCR, NoMeta, NoObj

Disturbances == {"edit", "annotate", "fault", "crash", "drift", "stale"}

\* The two annotations: to be completed, the defaults, import, or reclaimPolicy retain.
Policies == {"partial", "plain", "import", "retain"}

\* "none" is an address left open, "chosen" one that Netris chose.
Addresses == {"none", "given", "other", "chosen"}

\* The kind of the CR, the address and the annotations that it is made with, and whether the
\* tenant or the site is left open
Wishes ==
    {w \in [kind : {"L4LB", "Site"}, addr : Addresses, open : BOOLEAN, policy : Policies] :
        w.kind = "Site" => w.addr = "none" /\ ~w.open}

ASSUME InputAssumption ==
    /\ Scenarios \subseteq [wish : Wishes, left : [Disturbances -> Nat]]
    /\ EditAddresses \subseteq Addresses /\ EditPolicies \subseteq Policies
ASSUME BoundAssumption ==
    /\ MaxEdit \in Nat \ {0} /\ MaxId \in Nat
    /\ Preexisting \in BOOLEAN /\ (Preexisting => MaxId > 0)

Ids  == 1 .. MaxId
Gens == Nat \ {0}

CRs == [gen : Gens, edit : 1 .. MaxEdit, addr : Addresses, open : BOOLEAN, policy : Policies,
        fin : BOOLEAN, del : BOOLEAN, status : {"none", "Success", "Failure"}]

\* auto is the L4LB's Automatic: the address was open when the meta was made.
Metas == [gen : Gens, edit : 1 .. MaxEdit, addr : Addresses, auto : BOOLEAN,
          policy : Policies, id : Ids \union {0}, del : BOOLEAN]

\* An object of Netris; the edit 0 is somebody else's.
Objects == [edit : 0 .. MaxEdit, addr : Addresses, auto : BOOLEAN]

ASSUME SentinelAssumption ==
    NoCR \notin CRs /\ NoMeta \notin Metas \union Ids \union {0} /\ NoObj \notin Objects

VARIABLES
    scenario,   \* the scenario of this behaviour; it never changes
    cr, meta,   \* the CR and its meta in the API server
    born,       \* the user has made the CR
    crCache, metaCache,
    netris,     \* the objects of the Netris controller that bear the CR's name
    nextId,
    storage,    \* netrisstorage's copy of netris
    x, m,       \* the two workers and what they have read
    xQueued, mQueued, \* the CR, the meta is in the workqueue
    xTimer,     \* a RequeueAfter of the CR is running
    left        \* the disturbances left

vars == <<scenario, cr, meta, born, crCache, metaCache, netris, nextId, storage, x, m,
          xQueued, mQueued, xTimer, left>>

wish == scenario.wish
kind == wish.kind

api    == <<cr, meta, born>>
caches == <<crCache, metaCache>>
remote == <<netris, nextId, storage>>
xVars  == <<x, xQueued, xTimer>>
mVars  == <<m, mQueued>>

XIdle == [pc |-> "idle", cr |-> NoCR, meta |-> NoMeta]
MIdle == [pc |-> "idle", cr |-> NoCR, meta |-> NoMeta, obj |-> NoObj, id |-> 0,
          verdict |-> "none"]

Foreign == [edit |-> 0, addr |-> IF kind = "L4LB" THEN "chosen" ELSE "none", auto |-> FALSE]

Init ==
    /\ scenario \in Scenarios /\ left = scenario.left
    /\ cr = NoCR /\ meta = NoMeta /\ born = FALSE
    /\ crCache = NoCR /\ metaCache = NoMeta
    /\ netris = [i \in Ids |-> IF Preexisting /\ i = 1 THEN Foreign ELSE NoObj]
    /\ nextId = IF Preexisting THEN 2 ELSE 1
    /\ storage = netris
    /\ x = XIdle /\ m = MIdle
    /\ xQueued = FALSE /\ mQueued = FALSE /\ xTimer = FALSE

Spend(d) == left[d] > 0 /\ left' = [left EXCEPT ![d] = @ - 1]
Spent(d) == left[d] < scenario.left[d]
Answered == UNCHANGED left
Failed   == Spend("fault")

-----------------------------------------------------------------------------
(* The user, Netris, the informers, and the process.                       *)

OfUser == UNCHANGED <<scenario, meta, caches, remote, xVars, mVars>>

UserCreate ==
    /\ ~born
    /\ cr' = [gen |-> 1, edit |-> 1, addr |-> wish.addr, open |-> wish.open,
              policy |-> wish.policy, fin |-> FALSE, del |-> FALSE, status |-> "none"]
    /\ born' = TRUE
    /\ OfUser /\ UNCHANGED left

UserEdit ==
    /\ cr # NoCR
    /\ cr.edit < MaxEdit
    /\ \E a \in {cr.addr} \union IF kind = "L4LB" THEN EditAddresses ELSE {} :
          cr' = [cr EXCEPT !.gen = @ + 1, !.edit = @ + 1, !.addr = a]
    /\ Spend("edit")
    /\ OfUser /\ UNCHANGED born

UserAnnotate ==
    /\ cr # NoCR /\ ~cr.del
    /\ \E p \in EditPolicies : cr' = [cr EXCEPT !.policy = p]
    /\ Spend("annotate")
    /\ OfUser /\ UNCHANGED born

UserDelete ==
    /\ cr # NoCR /\ ~cr.del
    /\ cr' = IF cr.fin THEN [cr EXCEPT !.del = TRUE] ELSE NoCR
    /\ OfUser /\ UNCHANGED <<born, left>>

\* Somebody edits or removes an object in Netris directly.
NetrisDrift ==
    /\ \E i \in Ids, o \in {NoObj, Foreign} :
          netris[i] # NoObj /\ netris' = [netris EXCEPT ![i] = o]
    /\ Spend("drift")
    /\ UNCHANGED <<scenario, api, caches, nextId, storage, xVars, mVars>>

SyncCR ==
    /\ crCache # cr
    /\ crCache' = cr
    /\ xQueued' = TRUE
    /\ UNCHANGED <<scenario, api, metaCache, remote, x, xTimer, mVars, left>>

SyncMeta ==
    /\ metaCache # meta
    /\ metaCache' = meta
    /\ mQueued' = TRUE
    /\ UNCHANGED <<scenario, api, crCache, remote, xVars, m, left>>

DownloadWithInterval ==
    /\ storage # netris
    /\ storage' = netris
    /\ UNCHANGED <<scenario, api, caches, netris, nextId, xVars, mVars, left>>

XTimer ==
    /\ xTimer
    /\ xTimer' = FALSE
    /\ xQueued' = TRUE
    /\ UNCHANGED <<scenario, api, caches, remote, x, mVars, left>>

\* Every ten hours the informers report again all they have.
Resync ==
    /\ xQueued' = (xQueued \/ crCache # NoCR)
    /\ mQueued' = (mQueued \/ metaCache # NoMeta)
    /\ UNCHANGED <<scenario, api, caches, remote, x, xTimer, m, left>>

Crash ==
    /\ Spend("crash")
    /\ crCache' = cr /\ metaCache' = meta /\ storage' = netris
    /\ x' = XIdle /\ m' = MIdle
    /\ xQueued' = (cr # NoCR) /\ mQueued' = (meta # NoMeta) /\ xTimer' = FALSE
    /\ UNCHANGED <<scenario, api, netris, nextId>>

-----------------------------------------------------------------------------
(* The CR reconciler.                                                      *)

OfX == UNCHANGED <<scenario, born, caches, remote, xQueued, mVars>>

XGoto(pc)    == x' = [x EXCEPT !.pc = pc] /\ UNCHANGED xTimer
XDone        == x' = XIdle /\ UNCHANGED xTimer
RequeueAfter == x' = XIdle /\ xTimer' = TRUE

NewMeta(c) ==
    [gen |-> c.gen, edit |-> c.edit, addr |-> c.addr,
     auto |-> (kind = "L4LB" /\ c.addr = "none"), policy |-> c.policy, id |-> 0, del |-> FALSE]

MutRefreshedMeta(c, old) == [NewMeta(c) EXCEPT !.del = old.del]

RefreshedMeta(c, old) == [NewMeta(c) EXCEPT !.id = old.id, !.del = old.del]

\* l4lbCompareFieldsForNewMeta, siteCompareFieldsForNewMeta: the generation, import and
\* reclaim
CompareFieldsForNewMeta(c, mt) == c.gen # mt.gen \/ c.policy # mt.policy

XCurrent == crCache = cr /\ metaCache = meta

\* x may load copies that are out of date, as often as left.stale says.
XLoad ==
    /\ x.pc = "idle"
    /\ xQueued
    /\ xQueued' = FALSE
    /\ x' = IF crCache = NoCR THEN x
            ELSE [pc |-> "loaded", cr |-> crCache, meta |-> metaCache]
    /\ IF XCurrent THEN UNCHANGED left ELSE Spend("stale")
    /\ UNCHANGED <<scenario, api, caches, remote, xTimer, mVars>>

XLoaded(deleting) == x.pc = "loaded" /\ x.cr.del = deleting

MutRequeuesDeletion == FALSE

\* deleteCRs asks for another round in both kinds, but Site's Reconcile does not pass on
\* what it returns.
RequeuesDeletion == kind = "L4LB"

\* deleteL4LBMetaCR: the meta's finalizer holds it, so that the delete marks it.
XDeleteMeta ==
    /\ XLoaded(TRUE)
    /\ x.meta # NoMeta
    /\ LET marked == meta # NoMeta /\ meta' = [meta EXCEPT !.del = TRUE]
       IN  \/ Answered /\ marked /\ IF RequeuesDeletion THEN RequeueAfter ELSE XDone
           \/ Answered /\ meta = NoMeta /\ UNCHANGED meta /\ XGoto("failed")
           \/ Failed /\ (marked \/ UNCHANGED meta) /\ XGoto("failed")
    /\ OfX /\ UNCHANGED cr

\* deleteL4LBCR: once there is no meta, the CR is let go.
XRelease ==
    /\ XLoaded(TRUE)
    /\ x.meta = NoMeta
    /\ \/ Answered /\ cr = x.cr /\ cr' = NoCR /\ XDone
       \/ Answered /\ cr # x.cr /\ UNCHANGED cr /\ XGoto("failed")
       \/ Failed /\ (UNCHANGED cr \/ (cr = x.cr /\ cr' = NoCR)) /\ XGoto("failed")
    /\ OfX /\ UNCHANGED meta

\* patchL4LBStatus("Failure"): its own error is only logged.
XFail ==
    /\ x.pc = "failed"
    /\ \/ Answered /\ cr' = IF cr = x.cr THEN [cr EXCEPT !.status = "Failure"] ELSE cr
       \/ Failed /\ UNCHANGED cr
    /\ RequeueAfter
    /\ OfX /\ UNCHANGED meta

\* A patch of the CR, requeued only when it fails: an accepted patch brings an event.
XPatchCR(new) ==
    /\ \/ Answered /\ cr = x.cr /\ cr' = new /\ XDone
       \/ Answered /\ cr # x.cr /\ UNCHANGED cr /\ RequeueAfter
       \/ Failed /\ (UNCHANGED cr \/ (cr = x.cr /\ cr' = new)) /\ RequeueAfter
    /\ OfX /\ UNCHANGED meta

XSetAnnotations ==
    /\ XLoaded(FALSE)
    /\ x.cr.policy = "partial"
    /\ XPatchCR([x.cr EXCEPT !.policy = "plain"])

XAnnotated == XLoaded(FALSE) /\ x.cr.policy # "partial"

XSetFinalizer ==
    /\ XAnnotated
    /\ x.meta = NoMeta
    /\ ~x.cr.fin
    /\ XPatchCR([x.cr EXCEPT !.fin = TRUE])

MustWriteMeta ==
    IF x.meta = NoMeta THEN x.cr.fin ELSE CompareFieldsForNewMeta(x.cr, x.meta)

\* L4LBToL4LBMeta asks Netris and the storage for site, tenant and VPC; SiteToSiteMeta
\* needs nothing.
XTranslateFails ==
    /\ XAnnotated
    /\ MustWriteMeta
    /\ kind = "L4LB"
    /\ Failed
    /\ XGoto("failed")
    /\ OfX /\ UNCHANGED <<cr, meta>>

XWriteMeta ==
    /\ XAnnotated
    /\ MustWriteMeta
    /\ LET new     == IF x.meta = NoMeta THEN NewMeta(x.cr) ELSE RefreshedMeta(x.cr, x.meta)
           written == meta = x.meta /\ meta' = new
       IN  \/ Answered /\ (written \/ (meta # x.meta /\ UNCHANGED meta))
           \/ Failed /\ (written \/ UNCHANGED meta)
    /\ RequeueAfter
    /\ OfX /\ UNCHANGED cr

XNothingToDo ==
    /\ XAnnotated
    /\ x.meta # NoMeta
    /\ ~CompareFieldsForNewMeta(x.cr, x.meta)
    /\ RequeueAfter
    /\ OfX /\ UNCHANGED <<cr, meta, left>>

XStep ==
    \/ XDeleteMeta \/ XRelease \/ XFail \/ XSetAnnotations \/ XSetFinalizer
    \/ XTranslateFails \/ XWriteMeta \/ XNothingToDo

-----------------------------------------------------------------------------
(* The meta reconciler.                                                    *)

OfM == UNCHANGED <<scenario, born, caches, xVars>>

MDone       == m' = MIdle /\ UNCHANGED mQueued
MRetry      == m' = MIdle /\ mQueued' = TRUE
MGoto(pc)   == m' = [m EXCEPT !.pc = pc] /\ UNCHANGED mQueued
MVerdict(v) == m' = [MIdle EXCEPT !.pc = "status", !.cr = m.cr, !.verdict = v]
               /\ UNCHANGED mQueued

\* A meta that is being deleted is all that its deletion reads; otherwise the CR is read,
\* by the name the meta holds.
MLoad ==
    /\ m.pc = "idle"
    /\ mQueued
    /\ mQueued' = FALSE
    /\ m' = IF metaCache = NoMeta \/ (~metaCache.del /\ crCache = NoCR) THEN m
            ELSE [m EXCEPT !.pc = IF metaCache.del THEN "deleting" ELSE "loaded",
                           !.cr = crCache, !.meta = metaCache]
    /\ IF metaCache = meta THEN UNCHANGED left ELSE Spend("stale")
    /\ UNCHANGED <<scenario, api, caches, remote, xVars>>

MutMustDeleteInNetris(mt) == mt.policy # "retain"

MustDeleteInNetris(mt) == mt.id > 0 /\ mt.policy # "retain"

MutMDeleteFailed == MGoto("release")

\* The error is returned, and the workqueue brings the meta back.
MDeleteFailed == MRetry

\* An object that is not there counts as deleted.
MDeleteNetris ==
    /\ m.pc = "deleting"
    /\ MustDeleteInNetris(m.meta)
    /\ LET gone == netris' = [netris EXCEPT ![m.meta.id] = NoObj]
       IN  \/ Answered /\ gone /\ MGoto("release")
           \/ Failed /\ (gone \/ UNCHANGED netris) /\ MDeleteFailed
    /\ OfM /\ UNCHANGED <<cr, meta, nextId, storage>>

\* The update that clears the finalizers lets the meta go; one that is gone is fine.
MRelease ==
    /\ \/ m.pc = "release"
       \/ m.pc = "deleting" /\ ~MustDeleteInNetris(m.meta)
    /\ LET released == meta = m.meta /\ meta' = NoMeta
       IN  \/ Answered /\ (released \/ (meta = NoMeta /\ UNCHANGED meta)) /\ MDone
           \/ Answered /\ meta \notin {m.meta, NoMeta} /\ UNCHANGED meta /\ MRetry
           \/ Failed /\ (released \/ UNCHANGED meta) /\ MRetry
    /\ OfM /\ UNCHANGED <<cr, remote>>

\* What storage has by this name
FindByName == {i \in Ids : storage[i] # NoObj}

MUnrecorded == m.pc = "loaded" /\ m.meta.id = 0

Importable == m.meta.policy = "import" /\ FindByName # {}

\* A patch that writes an id and an address into the meta; done is what follows an
\* accepted one.
MPatchID(id, addr, done) ==
    LET new     == [m.meta EXCEPT !.id = id, !.addr = addr]
        written == meta = m.meta /\ meta' = new
    IN  \/ Answered /\ written /\ done
        \/ Answered /\ meta # m.meta /\ UNCHANGED meta /\ MVerdict("Failure")
        \/ Failed /\ (written \/ UNCHANGED meta) /\ MVerdict("Failure")

\* An import takes over the object's address too.
MImport ==
    /\ MUnrecorded
    /\ Importable
    /\ \E i \in FindByName : MPatchID(i, storage[i].addr, MRetry)
    /\ OfM /\ UNCHANGED <<cr, remote>>

\* FindByID: a miss downloads the list; a failed download leaves the miss.
MFindByID ==
    /\ m.pc = "loaded"
    /\ m.meta.id # 0
    /\ LET i == m.meta.id
           found(o) == /\ m' = [m EXCEPT !.pc = IF o = NoObj THEN "create" ELSE "compare",
                                         !.obj = o]
                       /\ UNCHANGED mQueued
       IN  \/ storage[i] # NoObj /\ Answered /\ found(storage[i]) /\ UNCHANGED storage
           \/ storage[i] = NoObj /\ Answered /\ storage' = netris /\ found(netris[i])
           \/ storage[i] = NoObj /\ Failed /\ UNCHANGED storage /\ found(NoObj)
    /\ OfM /\ UNCHANGED <<cr, meta, netris, nextId>>

\* The address an object gets: one that is asked for, else the one it has
Given(mt, has) == IF mt.auto /\ mt.addr = "none" THEN has ELSE mt.addr

\* populateMetaVPC, and createL4LB up to the reply, which carries the new id, and the
\* address if that was left to Netris
MCreate ==
    /\ m.pc = "create" \/ (MUnrecorded /\ ~Importable)
    /\ LET addr  == IF m.meta.auto THEN "chosen" ELSE m.meta.addr
           added == /\ nextId <= MaxId
                    /\ netris' = [netris EXCEPT ![nextId] =
                                      [edit |-> m.meta.edit, addr |-> addr, auto |-> m.meta.auto]]
                    /\ nextId' = nextId + 1
       IN  \/ /\ Answered /\ added
              /\ m' = [m EXCEPT !.pc = "patchID", !.id = nextId,
                                !.obj = [edit |-> m.meta.edit, addr |-> addr,
                                         auto |-> m.meta.auto]]
              /\ UNCHANGED mQueued
           \/ Failed /\ (added \/ UNCHANGED <<netris, nextId>>) /\ MVerdict("Failure")
    /\ OfM /\ UNCHANGED <<cr, meta, storage>>

\* Where a round goes on: for a Site to the status, for an L4LB to updateL4LBIfNeccesarry
MProvisioned(mt) ==
    /\ IF kind = "Site" THEN MVerdict("Success")
       ELSE /\ m' = [m EXCEPT !.pc = IF mt.addr = "none" \/ m.cr.open THEN "fill" ELSE "writeBack",
                           !.meta = mt, !.obj = NoObj]
            /\ UNCHANGED mQueued

MRecordID ==
    /\ m.pc = "patchID"
    /\ MPatchID(m.id, m.obj.addr, MProvisioned([m.meta EXCEPT !.id = m.id, !.addr = m.obj.addr]))
    /\ OfM /\ UNCHANGED <<cr, remote>>

\* compareL4LBMetaAPIL4LB, compareSiteMetaAPIESite
Same(mt, o) == mt.edit = o.edit /\ mt.addr = o.addr /\ mt.auto = o.auto

\* populateMetaVPC, which comes before the comparison
MVPCFails ==
    /\ m.pc = "compare"
    /\ kind = "L4LB"
    /\ Failed
    /\ MVerdict("Failure")
    /\ OfM /\ UNCHANGED <<cr, meta, remote>>

MNothingChanged ==
    /\ m.pc = "compare"
    /\ Same(m.meta, m.obj)
    /\ MProvisioned(m.meta)
    /\ OfM /\ UNCHANGED <<cr, meta, remote, left>>

\* Netris refuses to update what it does not have.
MUpdate ==
    /\ m.pc = "compare"
    /\ ~Same(m.meta, m.obj)
    /\ LET i       == m.meta.id
           updated == /\ netris[i] # NoObj
                      /\ netris' = [netris EXCEPT ![i] =
                                        [edit |-> m.meta.edit, addr |-> Given(m.meta, @.addr),
                                         auto |-> m.meta.auto]]
       IN  \/ Answered /\ updated /\ MProvisioned(m.meta)
           \/ Answered /\ netris[i] = NoObj /\ UNCHANGED netris /\ MVerdict("Failure")
           \/ Failed /\ (updated \/ UNCHANGED netris) /\ MVerdict("Failure")
    /\ OfM /\ UNCHANGED <<cr, meta, nextId, storage>>

\* updateL4LBIfNeccesarry, when the meta has no address or the CR no tenant or site: the list
\* is downloaded, and the object looked up for them.
MFill ==
    /\ m.pc = "fill"
    /\ LET look(list) == /\ m' = [m EXCEPT !.pc = "writeBack", !.obj = list[m.meta.id]]
                         /\ UNCHANGED mQueued
       IN  \/ Answered /\ storage' = netris /\ look(netris)
           \/ Failed /\ UNCHANGED storage /\ look(storage)
    /\ OfM /\ UNCHANGED <<cr, meta, netris, nextId>>

\* The CR that a write-back leaves, of the meta's address or all the object has, where it was
\* looked up.  A merge patch leaves out an address that is empty and so does not clear one;
\* what changes the spec raises the generation.
Written(c, mt, o) ==
    LET addr == IF o = NoObj THEN mt.addr ELSE o.addr
        new  == [c EXCEPT !.addr = IF addr = "none" THEN c.addr ELSE addr,
                          !.open = c.open /\ o = NoObj]
    IN  IF new = c THEN c ELSE [new EXCEPT !.gen = c.gen + 1]

\* patchL4LB: its error is only logged, and the status follows.
MWriteBack ==
    /\ m.pc = "writeBack"
    /\ LET new     == Written(m.cr, m.meta, m.obj)
           written == cr = m.cr /\ cr' = new
       IN  \/ Answered /\ (written \/ (cr # m.cr /\ UNCHANGED cr))
           \/ Failed /\ new # m.cr /\ (written \/ UNCHANGED cr)
    /\ MVerdict("Success")
    /\ OfM /\ UNCHANGED <<meta, remote>>

\* patchL4LBStatus: its own error is only logged, and the meta comes round again.
MStatus ==
    /\ m.pc = "status"
    /\ \/ Answered /\ cr' = IF cr = m.cr THEN [cr EXCEPT !.status = m.verdict] ELSE cr
       \/ Failed /\ UNCHANGED cr
    /\ MRetry
    /\ OfM /\ UNCHANGED <<meta, remote>>

MStep ==
    \/ MDeleteNetris \/ MRelease \/ MImport \/ MFindByID \/ MCreate \/ MRecordID
    \/ MVPCFails \/ MNothingChanged \/ MUpdate \/ MFill \/ MWriteBack \/ MStatus

-----------------------------------------------------------------------------

Next ==
    \/ UserCreate \/ UserEdit \/ UserAnnotate \/ UserDelete \/ NetrisDrift
    \/ SyncCR \/ SyncMeta \/ DownloadWithInterval \/ XTimer \/ Resync \/ Crash
    \/ XLoad \/ XStep
    \/ MLoad \/ MStep

Spec == Init /\ [][Next]_vars

\* As in module Resource; and a timer fires.  Only for a Site is the resync counted on.
Fairness ==
    /\ WF_vars(SyncCR) /\ WF_vars(SyncMeta) /\ WF_vars(DownloadWithInterval)
    /\ WF_vars(XTimer) /\ WF_vars(kind = "Site" /\ Resync)
    /\ SF_vars(XLoad) /\ WF_vars(XStep) /\ SF_vars(MLoad) /\ WF_vars(MStep)

FairSpec == Spec /\ Fairness

-----------------------------------------------------------------------------
(* Properties.                                                             *)

XTypeOK ==
    /\ x \in [pc : {"idle", "loaded", "failed"}, cr : CRs \union {NoCR},
              meta : Metas \union {NoMeta}]
    /\ x.pc # "idle" => x.cr # NoCR

MTypeOK ==
    /\ m \in [pc : {"idle", "deleting", "release", "loaded", "create", "patchID", "compare",
                    "fill", "writeBack", "status"},
              cr : CRs \union {NoCR}, meta : Metas \union {NoMeta}, obj : Objects \union {NoObj},
              id : Ids \union {0}, verdict : {"none", "Success", "Failure"}]
    /\ m.pc \notin {"idle", "status"} => m.meta # NoMeta
    /\ m.pc \notin {"idle", "deleting", "release"} => m.cr # NoCR
    /\ m.pc \in {"compare", "patchID"} => m.obj # NoObj
    /\ m.pc \in {"compare", "fill"} => m.meta.id # 0
    /\ m.pc = "patchID" => m.id # 0
    /\ m.pc = "release" => m.meta.id # 0

\* Every variable has a value its Go counterpart can have, and a worker holds what its
\* next step needs.
TypeOK ==
    /\ scenario \in [wish : Wishes, left : [Disturbances -> Nat]] /\ born \in BOOLEAN
    /\ cr \in CRs \union {NoCR} /\ crCache \in CRs \union {NoCR}
    /\ meta \in Metas \union {NoMeta} /\ metaCache \in Metas \union {NoMeta}
    /\ netris \in [Ids -> Objects \union {NoObj}]
    /\ storage \in [Ids -> Objects \union {NoObj}]
    /\ nextId \in 1 .. MaxId + 1
    /\ XTypeOK /\ MTypeOK
    /\ xQueued \in BOOLEAN /\ mQueued \in BOOLEAN /\ xTimer \in BOOLEAN
    /\ left \in [Disturbances -> Nat]

\* A meta that holds the id of its object goes after the object and not before, though the
\* delete in Netris is another call, may fail, and is decided on by an informer's copy.
ObjectFirst ==
    [][meta # NoMeta /\ meta' = NoMeta /\ meta.id # 0 /\ meta.policy # "retain"
          => netris[meta.id] = NoObj]_vars

\* There is no CR left to delete.  The recorded object carries the CR's spec, and the status
\* says so; what the user left open is in the CR.  Without a CR there is no meta;
\* but a CR reconciler that does not see yet the meta it has made lets the CR go before it,
\* and the meta stays for ever.
Settled ==
    IF cr = NoCR THEN meta = NoMeta \/ Spent("stale")
    ELSE /\ ~cr.del
         /\ cr.status = "Success"
         /\ meta # NoMeta /\ ~meta.del /\ meta.id # 0 /\ meta.policy = cr.policy
         /\ netris[meta.id] = [edit |-> cr.edit, addr |-> cr.addr, auto |-> FALSE]
         /\ kind = "L4LB" => cr.addr # "none" /\ ~cr.open

\* When edits and disturbances end, the CR, its meta and Netris agree for good; and a
\* deletion ends, though it is passed on from one reconciler to the other and back, and no
\* step of one wakes the other.
EventuallySettled == <>[]Settled

-----------------------------------------------------------------------------
(* The ledger of module Ledger, which the direct protocol keeps too.       *)

Life ==
    CASE ~born                                -> "unborn"
      [] born /\ cr = NoCR                    -> "gone"
      [] cr # NoCR /\ cr.del                  -> "doomed"
      [] cr # NoCR /\ ~cr.del /\ cr.fin       -> "protected"
      [] cr # NoCR /\ ~cr.del /\ ~cr.fin      -> "open"

Entry == IF meta = NoMeta THEN NoMeta ELSE meta.id

L == INSTANCE Ledger WITH
        Uids <- {1}, NoEntry <- NoMeta,
        life <- [u \in {1} |-> Life],
        entry <- [u \in {1} |-> Entry]

\* A meta is made under the finalizer only, keeps its id, and goes only for a CR that the
\* user has deleted.
KeepsLedger == L!Spec

=============================================================================
