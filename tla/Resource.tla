----------------------------- MODULE Resource -----------------------------
(***************************************************************************)
(* The direct reconciliation protocol: a custom resource (CR) of one name, *)
(* its meta resources, the Netris controller behind them, and the two      *)
(* reconcilers that work on them concurrently.                             *)
(*                                                                         *)
(*   x  the reconciler of the CR     (controllers/vnet_controller.go)      *)
(*   m  the reconciler of the metas  (controllers/vnetmeta_controller.go)  *)
(*                                                                         *)
(* Each reconciler has one worker.  It reads the informers' caches, which  *)
(* lag behind the API server, and then makes its calls one by one; every   *)
(* call to the API server or to Netris is a step, and between two steps    *)
(* anything may happen.                                                    *)
(*                                                                         *)
(* The content of a spec is the number of the user's edit, since two edits *)
(* never give the same spec, and the address, which the user may leave to  *)
(* Netris for the kinds that fill it in.  (The addresses and the AS number *)
(* of a piece of hardware are one: given together or left open together.)  *)
(* A resourceVersion is not kept: a write that carries the version a       *)
(* reconciler read is accepted exactly when the object still is what it    *)
(* read.                                                                   *)
(*                                                                         *)
(* A definition MutF is F with a plausible mistake in it.  No definition   *)
(* uses it; the properties are checked to notice F being replaced by it.   *)
(***************************************************************************)
EXTENDS Naturals, Kinds

CONSTANTS
    Scenarios,      \* the kinds of the instance, each with what the user does to the CR
    MaxUid,         \* bound: how often a CR of this name is created
    MaxEdit,        \* bound: the specs that the user gives one CR
    MaxId,          \* bound: the ids Netris hands out
    NoCR, NoMeta, NoObj, Foreign, NilMap

Disturbances == {"fault", "crash", "drift", "annotate", "stale"}

Annotations ==
    [import : {"unset", "true", "false"}, reclaim : {"unset", "retain", "delete"}]

\*   kind         the kind's traits
\*   addresses    what the user writes as the address, at each edit; nothing to write
\*                means no such edit
\*   annotations  the annotations a CR may be created with
\*   rejected     the edits whose spec the operator refuses
\*   preexisting  Netris holds an object of this name at first
\*   left         bound: how often each disturbance occurs
ScenarioType ==
    [kind : KindType, addresses : [1 .. MaxEdit -> SUBSET {"none", "given"}],
     annotations : SUBSET (Annotations \union {NilMap}), rejected : SUBSET Nat,
     preexisting : BOOLEAN, left : [Disturbances -> Nat]]

ASSUME BoundAssumption == MaxUid \in Nat /\ MaxEdit \in Nat \ {0} /\ MaxId \in Nat
ASSUME ScenarioAssumption ==
    \A s \in Scenarios :
        /\ s \in ScenarioType
        /\ s.preexisting => MaxId > 0
        /\ s.kind.fill = "no" => \A e \in 1 .. MaxEdit : s.addresses[e] \subseteq {"none"}

Uids == 1 .. MaxUid
Gens == Nat \ {0}
Ids  == 1 .. MaxId

\* "chosen" is an address that Netris chose.
Addresses == {"none", "given", "chosen"}

Specs == [edit : 1 .. MaxEdit, addr : Addresses]

\* A CR: its UID, generation, spec, annotations, whether the operator's finalizer
\* and the deletion timestamp are set, and the status column.
CRs ==
    [uid : Uids, gen : Gens, spec : Specs, ann : Annotations \union {NilMap},
     fin : BOOLEAN, del : BOOLEAN, status : {"none", "Success", "Failure"}]

\* A meta, named by the UID of its CR: the generation and the spec it was made from,
\* the two annotations, and the id of the Netris object (0: not known yet).
Metas == [gen : Gens, spec : Specs, imported : BOOLEAN, reclaim : BOOLEAN, id : Ids \union {0}]

\* What a Netris object is configured with: the spec of a CR, or something else.
Contents == [uid : Uids, spec : Specs] \union {Foreign}

ASSUME SentinelAssumption ==
    /\ NoCR \notin CRs /\ NoMeta \notin Metas \union Ids \union {0}
    /\ NoObj \notin Contents /\ Foreign \notin [uid : Uids, spec : Specs]
    /\ NilMap \notin Annotations

VARIABLES
    scenario,   \* the scenario of this behaviour; it never changes
    cr,         \* the CR in the API server
    meta,       \* the metas in the API server, by UID
    nextUid,    \* the UID of the next CR
    crCache,    \* the CR informer's copy
    metaCache,  \* the meta informer's copies
    netris,     \* the objects of the Netris controller that bear the CR's name
    nextId,     \* the id of the next Netris object
    storage,    \* netrisstorage's copy of netris
    x,          \* the CR reconciler's worker and what it has read
    m,          \* the meta reconciler's worker and what it has read
    xQueued,    \* the CR is in x's workqueue
    mQueue,     \* the metas in m's workqueue
    left        \* the disturbances left

vars == <<scenario, cr, meta, nextUid, crCache, metaCache, netris, nextId, storage,
          x, m, xQueued, mQueue, left>>

Kind == scenario.kind

crVars     == <<scenario, cr, nextUid>>
caches     == <<crCache, metaCache>>
netrisVars == <<netris, nextId>>

XIdle == [pc |-> "idle", cr |-> NoCR, meta |-> NoMeta]
MIdle == [pc |-> "idle", uid |-> 0, cr |-> NoCR, meta |-> NoMeta,
          obj |-> NoObj, id |-> 0, addr |-> "none", verdict |-> "none"]

Init ==
    /\ scenario \in Scenarios /\ left = scenario.left
    /\ cr = NoCR
    /\ meta = [u \in Uids |-> NoMeta]
    /\ nextUid = 1
    /\ crCache = NoCR
    /\ metaCache = [u \in Uids |-> NoMeta]
    /\ netris = [i \in Ids |-> IF scenario.preexisting /\ i = 1 THEN Foreign ELSE NoObj]
    /\ nextId = IF scenario.preexisting THEN 2 ELSE 1
    /\ storage = netris
    /\ x = XIdle
    /\ m = MIdle
    /\ xQueued = FALSE
    /\ mQueue = {}

Spend(d) == left[d] > 0 /\ left' = [left EXCEPT ![d] = @ - 1]
Spent(d) == left[d] < scenario.left[d]

-----------------------------------------------------------------------------
(* The user, and whoever else works on the Netris controller.              *)

UserCreate ==
    /\ cr = NoCR
    /\ nextUid <= MaxUid
    /\ \E a \in scenario.annotations, addr \in scenario.addresses[1] :
          cr' = [uid |-> nextUid, gen |-> 1, spec |-> [edit |-> 1, addr |-> addr], ann |-> a,
                 fin |-> FALSE, del |-> FALSE, status |-> "none"]
    /\ nextUid' = nextUid + 1
    /\ UNCHANGED <<scenario, meta, caches, netrisVars, storage, x, m, xQueued, mQueue, left>>

UserEdit ==
    /\ cr # NoCR
    /\ cr.spec.edit < MaxEdit
    /\ \E addr \in scenario.addresses[cr.spec.edit + 1] :
          cr' = [cr EXCEPT !.gen = @ + 1, !.spec = [edit |-> @.edit + 1, addr |-> addr]]
    /\ UNCHANGED <<scenario, meta, nextUid, caches, netrisVars, storage, x, m, xQueued, mQueue, left>>

UserAnnotate ==
    /\ cr # NoCR
    /\ ~cr.del
    /\ \E a \in Annotations :
          /\ a.reclaim # "unset" /\ a.import # "unset"
          /\ cr' = [cr EXCEPT !.ann = a]
    /\ Spend("annotate")
    /\ UNCHANGED <<scenario, meta, nextUid, caches, netrisVars, storage, x, m, xQueued, mQueue>>

\* The API server keeps a CR with a finalizer and marks it; another is gone.
UserDelete ==
    /\ cr # NoCR
    /\ ~cr.del
    /\ cr' = IF cr.fin THEN [cr EXCEPT !.del = TRUE] ELSE NoCR
    /\ UNCHANGED <<scenario, meta, nextUid, caches, netrisVars, storage, x, m, xQueued, mQueue, left>>

\* Somebody edits or removes an object in Netris directly.
NetrisDrift ==
    /\ \E i \in Ids, c \in {NoObj, Foreign} :
          netris[i] # NoObj /\ netris' = [netris EXCEPT ![i] = c]
    /\ Spend("drift")
    /\ UNCHANGED <<crVars, meta, nextId, caches, storage, x, m, xQueued, mQueue>>

-----------------------------------------------------------------------------
(* The informers, the storage's refresh, and a restart of the process.     *)

SyncCR ==
    /\ crCache # cr
    /\ crCache' = cr
    /\ xQueued' = TRUE
    /\ UNCHANGED <<crVars, meta, metaCache, netrisVars, storage, x, m, mQueue, left>>

SyncMeta(u) ==
    /\ metaCache[u] # meta[u]
    /\ metaCache' = [metaCache EXCEPT ![u] = meta[u]]
    /\ mQueue' = mQueue \union {u}
    /\ UNCHANGED <<crVars, meta, crCache, netrisVars, storage, x, m, xQueued, left>>

\* netrisstorage downloads the lists every ten seconds.
DownloadWithInterval ==
    /\ storage # netris
    /\ storage' = netris
    /\ UNCHANGED <<crVars, meta, caches, netrisVars, x, m, xQueued, mQueue, left>>

\* A new process downloads the lists, lists both kinds and queues all it lists.
Restart ==
    /\ crCache' = cr
    /\ metaCache' = meta
    /\ storage' = netris
    /\ x' = XIdle
    /\ m' = MIdle
    /\ xQueued' = (cr # NoCR)
    /\ mQueue' = {u \in Uids : meta[u] # NoMeta}

Crash ==
    /\ Restart
    /\ Spend("crash")
    /\ UNCHANGED <<crVars, meta, netrisVars>>

-----------------------------------------------------------------------------
(* Calls.  A call that fails takes one of the faults left; the caller sees *)
(* an error, and the call may have had its effect all the same.            *)

Answered == UNCHANGED left
Failed   == Spend("fault")

\* Where a worker goes next, with what it still needs.
XGoto(pc)   == x' = [x EXCEPT !.pc = pc, !.meta = NoMeta]
XDone       == x' = XIdle
XRequeue    == xQueued' = TRUE
MVerdict(v) == m' = [MIdle EXCEPT !.pc = "status", !.uid = m.uid, !.cr = m.cr, !.verdict = v]

-----------------------------------------------------------------------------
(* What the reconcilers compute from what they have read.                  *)

\* vnetMustUpdateAnnotations
MustUpdateAnnotations(a) ==
    a # NilMap => (a.import = "unset" \/ a.reclaim = "unset")

\* vnetUpdateDefaultAnnotations, on a map that can be assigned to
DefaultAnnotations(a) ==
    [import  |-> IF a # NilMap /\ a.import = "true" THEN "true" ELSE "false",
     reclaim |-> IF a # NilMap /\ a.reclaim = "retain" THEN "retain" ELSE "delete"]

Imported(c) == c.ann # NilMap /\ c.ann.import = "true"
Reclaim(c)  == c.ann # NilMap /\ c.ann.reclaim = "retain"

MutNewMeta(c) ==
    [gen |-> c.gen + 1, spec |-> c.spec, imported |-> Imported(c), reclaim |-> Reclaim(c),
     id |-> 0]

\* VnetToVnetMeta, with the generation its caller sets
NewMeta(c) ==
    [gen |-> c.gen, spec |-> c.spec, imported |-> Imported(c), reclaim |-> Reclaim(c),
     id |-> 0]

MutRefreshedMeta(c, old) == NewMeta(c)

\* the new spec of an existing meta: everything is made anew but the id
RefreshedMeta(c, old) == [NewMeta(c) EXCEPT !.id = old.id]

\* vnetCompareFieldsForNewMeta
CompareFieldsForNewMeta(c, mt) ==
    \/ c.gen # mt.gen
    \/ Imported(c) # mt.imported
    \/ Reclaim(c) # mt.reclaim

MutHasFinalizer(c) == TRUE

\* GetFinalizers() of the CR
HasFinalizer(c) == c.fin

\* deleteVNet's condition for a delete in Netris
MustDeleteInNetris(mt) == mt # NoMeta /\ mt.id > 0 /\ ~mt.reclaim

\* An open address that is filled in, by Netris ("auto") or by the meta reconciler
Filled(spec, a) ==
    IF Kind.fill # "no" /\ spec.addr = "none" THEN [spec EXCEPT !.addr = a] ELSE spec

\* The address of an object: others have Netris choose theirs.
AddressOf(o) == IF o \in {NoObj, Foreign} THEN "chosen" ELSE o.spec.addr

\* What VnetMetaToNetris or VnetMetaToNetrisUpdate asks for, and Netris makes of it
\* for an object that has the address a
Content(u, spec, a) == [uid |-> u, spec |-> Filled(spec, a)]

-----------------------------------------------------------------------------
(* The CR reconciler.                                                      *)

\* x may load copies that are out of date, as often as left.stale says.
XCurrent == crCache = cr /\ (cr # NoCR => metaCache[cr.uid] = meta[cr.uid])

XLoad ==
    /\ x.pc = "idle"
    /\ xQueued
    /\ xQueued' = FALSE
    /\ x' = IF crCache = NoCR THEN x
            ELSE [pc |-> "loaded", cr |-> crCache, meta |-> metaCache[crCache.uid]]
    /\ IF XCurrent THEN UNCHANGED left ELSE Spend("stale")
    /\ UNCHANGED <<crVars, meta, caches, netrisVars, storage, m, mQueue>>

XLoaded(deleting) == x.pc = "loaded" /\ x.cr.del = deleting

\* deleteVNet: the object in Netris goes first.
XDeleteNetris ==
    /\ XLoaded(TRUE)
    /\ MustDeleteInNetris(x.meta)
    /\ LET there == netris[x.meta.id] # NoObj
           gone  == netris' = [netris EXCEPT ![x.meta.id] = NoObj]
       IN  \/ Answered /\ gone /\ XGoto(IF there \/ Kind.absentOK THEN "deleteMeta" ELSE "failed")
           \/ Failed /\ (gone \/ UNCHANGED netris) /\ XGoto("failed")
    /\ UNCHANGED <<crVars, meta, caches, nextId, storage, m, xQueued, mQueue>>

\* deleteVnetMetaCR: no finalizer holds a meta, so a delete removes it.
XDeleteMeta ==
    /\ \/ x.pc = "deleteMeta"
       \/ (XLoaded(TRUE) /\ x.meta # NoMeta /\ ~MustDeleteInNetris(x.meta))
    /\ LET u    == x.cr.uid
           gone == meta' = [meta EXCEPT ![u] = NoMeta]
       IN  \/ Answered /\ gone /\ XGoto(IF meta[u] # NoMeta THEN "release" ELSE "failed")
           \/ Failed /\ (gone \/ UNCHANGED meta) /\ XGoto("failed")
    /\ UNCHANGED <<crVars, caches, netrisVars, storage, m, xQueued, mQueue>>

\* deleteVnetCR: the update that clears the finalizers lets the CR go.
XRelease ==
    /\ \/ x.pc = "release"
       \/ XLoaded(TRUE) /\ x.meta = NoMeta
    /\ \/ Answered /\ cr = x.cr /\ cr' = NoCR /\ XDone
       \/ Answered /\ cr # x.cr /\ XGoto("failed") /\ UNCHANGED cr
       \/ Failed /\ XGoto("failed") /\ (UNCHANGED cr \/ (cr = x.cr /\ cr' = NoCR))
    /\ UNCHANGED <<scenario, meta, nextUid, caches, netrisVars, storage, m, xQueued, mQueue>>

\* patchVNetStatus("Failure"): its own error is only logged.
XFail ==
    /\ x.pc = "failed"
    /\ \/ Answered /\ cr' = IF cr = x.cr THEN [cr EXCEPT !.status = "Failure"] ELSE cr
       \/ Failed /\ UNCHANGED cr
    /\ XDone
    /\ XRequeue
    /\ UNCHANGED <<scenario, meta, nextUid, caches, netrisVars, storage, m, mQueue>>

\* A patch of the CR, requeued only when it fails: an accepted patch brings an event.
XPatchCR(new) ==
    /\ \/ Answered /\ cr = x.cr /\ cr' = new /\ UNCHANGED xQueued
       \/ Answered /\ cr # x.cr /\ UNCHANGED cr /\ XRequeue
       \/ Failed /\ XRequeue /\ (UNCHANGED cr \/ (cr = x.cr /\ cr' = new))
    /\ XDone
    /\ UNCHANGED <<scenario, meta, nextUid, caches, netrisVars, storage, m, mQueue>>

XSetAnnotations ==
    /\ XLoaded(FALSE)
    /\ MustUpdateAnnotations(x.cr.ann)
    /\ Kind.nilGuard \/ x.cr.ann # NilMap
    /\ XPatchCR([x.cr EXCEPT !.ann = DefaultAnnotations(@)])

\* The assignment into the nil map panics, and the process starts anew.
XPanic ==
    /\ XLoaded(FALSE)
    /\ ~Kind.nilGuard /\ x.cr.ann = NilMap
    /\ Restart
    /\ UNCHANGED <<crVars, meta, netrisVars, left>>

XAnnotated == XLoaded(FALSE) /\ ~MustUpdateAnnotations(x.cr.ann)

Refused(c) == Kind.refuses /\ c.spec.edit \in scenario.rejected

\* Two gateways of a site are the same: the spec is refused before the meta is touched.
XReject ==
    /\ XAnnotated
    /\ Refused(x.cr)
    /\ XGoto("failed")
    /\ UNCHANGED <<crVars, meta, caches, netrisVars, storage, m, xQueued, mQueue, left>>

XAccepted == XAnnotated /\ ~Refused(x.cr)

MustWriteMeta ==
    IF x.meta = NoMeta THEN HasFinalizer(x.cr) ELSE CompareFieldsForNewMeta(x.cr, x.meta)

\* The spec names a site, a tenant or a port that does not exist, or that storage does
\* not have just now.
XTranslateFails ==
    /\ XAccepted
    /\ MustWriteMeta
    /\ (Answered /\ x.cr.spec.edit \in scenario.rejected) \/ Failed
    /\ XGoto("failed")
    /\ UNCHANGED <<crVars, meta, caches, netrisVars, storage, m, xQueued, mQueue>>

XSetFinalizer ==
    /\ XAccepted
    /\ x.meta = NoMeta
    /\ ~HasFinalizer(x.cr)
    /\ XPatchCR([x.cr EXCEPT !.fin = TRUE])

XWriteMeta(accepted, new) ==
    /\ LET written == meta' = [meta EXCEPT ![x.cr.uid] = new]
       IN  \/ Answered /\ IF accepted THEN written ELSE UNCHANGED meta
           \/ Failed /\ (UNCHANGED meta \/ (accepted /\ written))
    /\ XDone
    /\ XRequeue
    /\ UNCHANGED <<crVars, caches, netrisVars, storage, m, mQueue>>

XCreateMeta ==
    /\ XAccepted
    /\ x.meta = NoMeta
    /\ HasFinalizer(x.cr)
    /\ x.cr.spec.edit \notin scenario.rejected
    /\ XWriteMeta(meta[x.cr.uid] = NoMeta, NewMeta(x.cr))

XUpdateMeta ==
    /\ XAccepted
    /\ x.meta # NoMeta
    /\ CompareFieldsForNewMeta(x.cr, x.meta)
    /\ x.cr.spec.edit \notin scenario.rejected
    /\ XWriteMeta(meta[x.cr.uid] = x.meta, RefreshedMeta(x.cr, x.meta))

XNothingToDo ==
    /\ XAccepted
    /\ x.meta # NoMeta
    /\ ~CompareFieldsForNewMeta(x.cr, x.meta)
    /\ XDone
    /\ XRequeue
    /\ UNCHANGED <<crVars, meta, caches, netrisVars, storage, m, mQueue, left>>

XStep ==
    \/ XDeleteNetris \/ XDeleteMeta \/ XRelease \/ XFail
    \/ XSetAnnotations \/ XPanic \/ XReject \/ XTranslateFails
    \/ XSetFinalizer \/ XCreateMeta \/ XUpdateMeta \/ XNothingToDo

-----------------------------------------------------------------------------
(* The meta reconciler.                                                    *)

MutNothingFound(u) == metaCache[u] = NoMeta

\* The caches have no meta, or no CR of the name it holds: there is nothing to do.
NothingFound(u) == metaCache[u] = NoMeta \/ crCache = NoCR

\* The meta is read by its UID, the CR by the name the meta holds.
MLoad(u) ==
    /\ m.pc = "idle"
    /\ u \in mQueue
    /\ mQueue' = mQueue \ {u}
    /\ m' = IF NothingFound(u) THEN m
            ELSE [m EXCEPT !.pc = "loaded", !.uid = u, !.cr = crCache, !.meta = metaCache[u]]
    /\ IF metaCache[u] = meta[u] THEN UNCHANGED left ELSE Spend("stale")
    /\ UNCHANGED <<crVars, meta, caches, netrisVars, storage, x, xQueued>>

MutFindByName == {}

\* FindByName of netrisstorage, as far as the copy goes: the ids that bear the name
FindByName == {i \in Ids : storage[i] # NoObj}

MutMUnrecorded(imports) == m.pc = "loaded" /\ m.meta.id = 0 /\ ~imports

\* The meta has no id yet.
MUnrecorded(imports) == m.pc = "loaded" /\ m.meta.id = 0 /\ m.meta.imported = imports

MutPatchAccepted == meta[m.uid] # NoMeta

\* The patch carries the whole meta and the resourceVersion it was read at.
PatchAccepted == meta[m.uid] = m.meta

MutCRPatchAccepted == cr # NoCR /\ cr.uid = m.cr.uid

\* A patch of the CR carries all of it, at the resourceVersion it was read at.
CRPatchAccepted == cr = m.cr

\* updateSoftgateIfNeccesarry: the meta's address goes into a CR that has none.
MProvisioned(a) ==
    IF m.cr.spec.addr = "none" /\ a # "none"
    THEN m' = [MIdle EXCEPT !.pc = "writeBack", !.uid = m.uid, !.cr = m.cr, !.addr = a]
    ELSE MVerdict("Success")

\* A patch that writes an id and an address into the meta; done is what follows an
\* accepted one.
MPatchID(id, addr, done) ==
    LET new     == [m.meta EXCEPT !.id = id, !.spec.addr = addr]
        written == meta' = [meta EXCEPT ![m.uid] = new]
    IN  \/ Answered /\ PatchAccepted /\ written /\ done
        \/ Answered /\ ~PatchAccepted /\ UNCHANGED <<meta, mQueue>> /\ MVerdict("Failure")
        \/ /\ Failed /\ UNCHANGED mQueue /\ MVerdict("Failure")
           /\ UNCHANGED meta \/ (PatchAccepted /\ written)

\* The address that an import leaves in the meta
Adopted(i) == IF Kind.fill = "no" THEN m.meta.spec.addr ELSE AddressOf(storage[i])

\* Import: the meta takes the id of the object that storage has by this name, and the
\* addresses of a piece of hardware, in place of those the user wrote.
MImport ==
    /\ \E i \in Ids :
          /\ \/ m.pc = "import" /\ i = m.id
             \/ MUnrecorded(TRUE) /\ i \in FindByName
          /\ MPatchID(i, Adopted(i), m' = MIdle /\ mQueue' = mQueue \union {m.uid})
    /\ UNCHANGED <<crVars, caches, netrisVars, storage, x, xQueued>>

\* FindByName of the kinds that download the list again when the name is not in it
MRefreshByName ==
    /\ MUnrecorded(TRUE)
    /\ FindByName = {}
    /\ Kind.refresh
    /\ \/ /\ Answered
          /\ storage' = netris
          /\ \/ \E i \in Ids : netris[i] # NoObj /\ m' = [m EXCEPT !.pc = "import", !.id = i]
             \/ (\A i \in Ids : netris[i] = NoObj) /\ m' = [m EXCEPT !.pc = "create"]
       \/ Failed /\ UNCHANGED storage /\ m' = [m EXCEPT !.pc = "create"]
    /\ UNCHANGED <<crVars, meta, caches, netrisVars, x, xQueued, mQueue>>

\* VNet().GetByID: an error of the call is dropped and counts as not found.
MGetByID ==
    /\ m.pc = "loaded"
    /\ m.meta.id # 0
    /\ Kind.lookup = "api"
    /\ LET o == netris[m.meta.id]
       IN  \/ Answered /\ m' = [m EXCEPT !.pc = IF o = NoObj THEN "create" ELSE "compare", !.obj = o]
           \/ Failed /\ m' = [m EXCEPT !.pc = "create"]
    /\ UNCHANGED <<crVars, meta, caches, netrisVars, storage, x, xQueued, mQueue>>

\* FindByID: a miss downloads the list; a failed download leaves the miss.
MFindByID ==
    /\ m.pc = "loaded"
    /\ m.meta.id # 0
    /\ Kind.lookup = "storage"
    /\ LET i == m.meta.id
           found(o) == m' = [m EXCEPT !.pc = IF o = NoObj THEN "create" ELSE "compare", !.obj = o]
       IN  \/ storage[i] # NoObj /\ Answered /\ found(storage[i]) /\ UNCHANGED storage
           \/ storage[i] = NoObj /\ Answered /\ storage' = netris /\ found(netris[i])
           \/ storage[i] = NoObj /\ Failed /\ UNCHANGED storage /\ m' = [m EXCEPT !.pc = "create"]
    /\ UNCHANGED <<crVars, meta, caches, netrisVars, x, xQueued, mQueue>>

\* createVNet, up to the reply that carries the new id
MCreate ==
    /\ \/ m.pc = "create"
       \/ MUnrecorded(FALSE)
       \/ MUnrecorded(TRUE) /\ FindByName = {} /\ ~Kind.refresh
    /\ LET added == /\ nextId <= MaxId
                    /\ netris' = [netris EXCEPT
                                      ![nextId] = Content(m.uid, m.meta.spec, "chosen")]
                    /\ nextId' = nextId + 1
       IN  \/ Answered /\ added /\ m' = [m EXCEPT !.pc = "patchID", !.id = nextId]
           \/ Failed /\ (added \/ UNCHANGED netrisVars) /\ MVerdict("Failure")
    /\ UNCHANGED <<crVars, meta, caches, storage, x, xQueued, mQueue>>

\* createVNet, the patch of the id
MRecordID ==
    /\ m.pc = "patchID"
    /\ MPatchID(m.id, m.meta.spec.addr, MProvisioned(m.meta.spec.addr) /\ UNCHANGED mQueue)
    /\ UNCHANGED <<crVars, caches, netrisVars, storage, x, xQueued>>

\* What the meta asks for when it is compared: an open address is taken from the object
\* first, except for a Controller.
Wanted ==
    IF Kind.fill = "before" THEN Filled(m.meta.spec, AddressOf(m.obj)) ELSE m.meta.spec

MutKnown == m.meta.spec.addr

\* The address that the meta has in the end
Known == IF Kind.fill = "after" THEN AddressOf(m.obj) ELSE Wanted.addr

\* compareVNetMetaAPIVnet
Same(spec, u, o) == o = [uid |-> u, spec |-> spec]

MNothingChanged ==
    /\ m.pc = "compare"
    /\ Same(Wanted, m.uid, m.obj)
    /\ MProvisioned(Known)
    /\ UNCHANGED <<crVars, meta, caches, netrisVars, storage, x, xQueued, mQueue, left>>

\* updateVNet: Netris refuses to update what it does not have.
MUpdate ==
    /\ m.pc = "compare"
    /\ ~Same(Wanted, m.uid, m.obj)
    /\ LET i       == m.meta.id
           updated == /\ netris[i] # NoObj
                      /\ netris' = [netris EXCEPT
                                        ![i] = Content(m.uid, Wanted, AddressOf(netris[i]))]
       IN  \/ Answered /\ updated /\ MProvisioned(Known)
           \/ Answered /\ netris[i] = NoObj /\ UNCHANGED netris /\ MVerdict("Failure")
           \/ Failed /\ (updated \/ UNCHANGED netris) /\ MVerdict("Failure")
    /\ UNCHANGED <<crVars, meta, caches, nextId, storage, x, xQueued, mQueue>>

\* patchSoftgate: its error is only logged, and the status follows.
MWriteBack ==
    /\ m.pc = "writeBack"
    /\ LET written == cr' = [m.cr EXCEPT !.gen = cr.gen + 1, !.spec.addr = m.addr]
       IN  \/ Answered /\ IF CRPatchAccepted THEN written ELSE UNCHANGED cr
           \/ Failed /\ (UNCHANGED cr \/ (CRPatchAccepted /\ written))
    /\ MVerdict("Success")
    /\ UNCHANGED <<scenario, meta, nextUid, caches, netrisVars, storage, x, xQueued, mQueue>>

\* patchVNetStatus: its own error is only logged.
MStatus ==
    /\ m.pc = "status"
    /\ \/ Answered /\ cr' = IF cr = m.cr THEN [cr EXCEPT !.status = m.verdict] ELSE cr
       \/ Failed /\ UNCHANGED cr
    /\ m' = MIdle
    /\ mQueue' = mQueue \union {m.uid}
    /\ UNCHANGED <<scenario, meta, nextUid, caches, netrisVars, storage, x, xQueued>>

MStep ==
    \/ MImport \/ MRefreshByName \/ MGetByID \/ MFindByID \/ MCreate \/ MRecordID
    \/ MNothingChanged \/ MUpdate \/ MWriteBack \/ MStatus

-----------------------------------------------------------------------------

User == UserCreate \/ UserEdit \/ UserAnnotate \/ UserDelete

Next ==
    \/ User \/ NetrisDrift
    \/ SyncCR \/ (\E u \in Uids : SyncMeta(u)) \/ DownloadWithInterval \/ Crash
    \/ XLoad \/ XStep
    \/ (\E u \in Uids : MLoad(u)) \/ MStep

Spec == Init /\ [][Next]_vars

\* The informers deliver, the timers fire, a worker that has begun goes on, and
\* the workqueue is first in, first out: a queued key is not passed over for ever.
Fairness ==
    /\ WF_vars(SyncCR) /\ WF_vars(DownloadWithInterval)
    /\ \A u \in Uids : WF_vars(SyncMeta(u)) /\ SF_vars(MLoad(u))
    /\ SF_vars(XLoad) /\ WF_vars(XStep) /\ WF_vars(MStep)

FairSpec == Spec /\ Fairness

-----------------------------------------------------------------------------
(* Properties.                                                             *)

\* What a worker has read is there as long as its next step needs it.
XTypeOK ==
    /\ x \in [pc : {"idle", "loaded", "deleteMeta", "release", "failed"},
              cr : CRs \union {NoCR}, meta : Metas \union {NoMeta}]
    /\ x.pc # "idle" => x.cr # NoCR

MTypeOK ==
    /\ m \in [pc : {"idle", "loaded", "import", "create", "patchID", "compare", "writeBack",
                    "status"},
              uid : Uids \union {0}, cr : CRs \union {NoCR}, meta : Metas \union {NoMeta},
              obj : Contents \union {NoObj}, id : Ids \union {0}, addr : Addresses,
              verdict : {"none", "Success", "Failure"}]
    /\ m.pc # "idle" => m.uid # 0 /\ m.cr # NoCR
    /\ m.pc \notin {"idle", "writeBack", "status"} => m.meta # NoMeta
    /\ m.pc \in {"import", "patchID"} => m.id # 0
    /\ m.pc = "compare" => m.meta.id # 0
    /\ m.pc = "writeBack" => m.cr.spec.addr = "none" /\ m.addr # "none"
    /\ m.pc = "status" => m.verdict # "none"

\* Every variable has a value its Go counterpart can have.
TypeOK ==
    /\ scenario \in ScenarioType
    /\ cr \in CRs \union {NoCR}
    /\ crCache \in CRs \union {NoCR}
    /\ meta \in [Uids -> Metas \union {NoMeta}]
    /\ metaCache \in [Uids -> Metas \union {NoMeta}]
    /\ nextUid \in 1 .. MaxUid + 1
    /\ netris \in [Ids -> Contents \union {NoObj}]
    /\ storage \in [Ids -> Contents \union {NoObj}]
    /\ nextId \in 1 .. MaxId + 1
    /\ XTypeOK
    /\ MTypeOK
    /\ xQueued \in BOOLEAN
    /\ mQueue \subseteq Uids
    /\ left \in [Disturbances -> Nat]

Alive(u) == cr # NoCR /\ cr.uid = u

\* A meta outlives its CR at most where the reconciler let the CR go: while the CR
\* is in the API server it carries the finalizer, so no user can remove it behind
\* the operator's back and leave the meta and the Netris object without an owner.
MetaRequiresFinalizer == \A u \in Uids : meta[u] # NoMeta /\ Alive(u) => cr.fin

\* Once a meta holds the id of its Netris object no write of either reconciler
\* forgets it, though both rewrite the meta from copies read earlier.
IDNeverLost ==
    [][\A u \in Uids :
          meta[u] # NoMeta /\ meta'[u] # NoMeta /\ meta[u].id # 0 => meta'[u].id # 0]_vars

\* No write takes a meta back to an older generation of its CR, and none is ahead
\* of the CR.
GenerationNeverAhead == \A u \in Uids : meta[u] # NoMeta /\ Alive(u) => meta[u].gen <= cr.gen

GenerationNeverRegresses ==
    [][\A u \in Uids :
          meta[u] # NoMeta /\ meta'[u] # NoMeta => meta[u].gen <= meta'[u].gen]_vars

\* The operator never takes an edit of the user back, though all its patches of the CR
\* carry the whole CR as it was read some calls earlier: all it changes of a spec is to
\* fill in an address that is still open.
EditsKept ==
    [][cr # NoCR /\ cr' # NoCR /\ cr'.uid = cr.uid /\ cr'.spec # cr.spec
          => \/ cr'.spec.edit = cr.spec.edit + 1
             \/ cr.spec.addr = "none" /\ cr'.spec.edit = cr.spec.edit]_vars

\* A scenario whose CRs all import, as they are created and as they are left
AllImport ==
    (\A a \in scenario.annotations : a # NilMap /\ a.import = "true") /\ ~Spent("annotate")

\* While the object that Netris held at first is there, importing CRs create no other:
\* neither a restart nor a delete nor a CR of the same name that follows makes the
\* reconciler miss it.  (A kind that asks Netris for an id takes a call that fails for
\* the answer that there is no such object, and creates one; so no call may have failed.)
ImportAdopts ==
    /\ scenario.preexisting /\ AllImport
    /\ netris[1] # NoObj
    /\ Kind.lookup = "api" => ~Spent("fault")
    => nextId = 2

\* A create whose id was lost - the meta changed under it, or the process crashed - is
\* not repeated for an importing CR whose kind asks Netris for the name: the reconciler
\* finds the object, unless the download fails.
RetryAdopts ==
    [][Kind.refresh /\ ~Spent("fault") /\ nextId' # nextId /\ m.meta.imported /\ m.meta.id = 0
          => \A i \in Ids : netris[i] = NoObj]_vars

\* The recorded object carries the CR's spec, and the status says so; an address that
\* the user left open is in the CR.
InNetris ==
    /\ cr.status = "Success"
    /\ LET mt == meta[cr.uid]
       IN  /\ mt # NoMeta
           /\ mt.id # 0
           /\ mt.reclaim = Reclaim(cr)
           /\ netris[mt.id] = [uid |-> cr.uid, spec |-> cr.spec]
    /\ Kind.fill # "no" => cr.spec.addr # "none"

\* No deletion is left to do, and what is not refused is in Netris.
Settled == cr # NoCR => ~cr.del /\ (cr.spec.edit \notin scenario.rejected => InNetris)

\* When the disturbances end, the CR, its meta and Netris come to agree and stay so; and
\* a CR that the user deletes goes, also when somebody has taken its object away before.
EventuallySettled == <>[]Settled

\* reclaimPolicy "delete": a CR that is gone leaves nothing in Netris.
DeleteHonoured ==
    \A i \in Ids : netris[i] \notin {NoObj, Foreign} =>
        \/ Alive(netris[i].uid)
        \/ m.pc # "idle" /\ m.uid = netris[i].uid

\* A CR gets the default annotations.
DefaultsApplied == cr # NoCR /\ cr.ann = NilMap ~> cr = NoCR \/ cr.ann # NilMap

-----------------------------------------------------------------------------
(* The metas as the ledger of module Ledger.                               *)

Life(u) ==
    CASE u >= nextUid                  -> "unborn"
      [] u < nextUid /\ ~Alive(u)      -> "gone"
      [] Alive(u) /\ cr.del            -> "doomed"
      [] Alive(u) /\ ~cr.del /\ cr.fin  -> "protected"
      [] Alive(u) /\ ~cr.del /\ ~cr.fin -> "open"

L == INSTANCE Ledger WITH
        NoEntry <- NoMeta,
        life  <- [u \in Uids |-> Life(u)],
        entry <- [u \in Uids |-> IF meta[u] = NoMeta THEN NoMeta ELSE meta[u].id]

\* Every step of the two reconcilers, of the informers and of a restart is a step
\* of the ledger or leaves it as it is.
KeepsLedger == L!Spec

=============================================================================
