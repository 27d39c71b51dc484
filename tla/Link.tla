------------------------------- MODULE Link -------------------------------
(***************************************************************************)
(* The reconcilers of Link.  A link of Netris has no id: it is known by    *)
(* the two ports that it joins, and to change a link is to delete it and   *)
(* to create another.  The meta keeps the ports that the CR asks for, and  *)
(* as its ID the ports of the link that is in Netris.                      *)
(*                                                                         *)
(*   x  the reconciler of the CR     (controllers/link_controller.go)      *)
(*   m  the reconciler of the meta   (controllers/linkmeta_controller.go)  *)
(*                                                                         *)
(* As in module Resource, every call to the API server or to Netris is a   *)
(* step, the caches lag behind, a write that carries the version that was  *)
(* read is accepted exactly when the object still is what was read, and a  *)
(* RequeueAfter is an entry in the workqueue.  There is one CR.            *)
(*                                                                         *)
(* A pair stands for two ports, in whichever order: the code looks links   *)
(* up and compares them in both.  PortsStorage has all ports there are; a  *)
(* pair of Unknown names a port that does not exist.                       *)
(*                                                                         *)
(* A definition MutF is F with a plausible mistake in it.  No definition   *)
(* uses it; the properties are checked to notice F being replaced by it.   *)
(***************************************************************************)
EXTENDS Naturals

CONSTANTS
    Scenarios,
    Pairs,       \* the pairs of ports that a Link may name
    Unknown,     \* those of which PortsStorage lacks a port
    NoCR, NoMeta, NoPair

Disturbances == {"edit", "annotate", "fault", "crash", "drift", "stale"}

\* The two annotations: to be completed, the defaults, import, or reclaimPolicy retain.
Policies == {"partial", "plain", "import", "retain"}

\*   pair, policy  what the CR is made with
\*   edits         the pairs that an edit may write
\*   links         the links that others have made in Netris
\*   strict        Netris refuses to add a link that is there, and to delete one that is not
\*   left          bound: how often each disturbance occurs
ScenarioType ==
    [pair : Pairs, policy : Policies, edits : SUBSET Pairs, links : SUBSET Pairs,
     strict : BOOLEAN, left : [Disturbances -> Nat]]

ASSUME ScenarioAssumption == Scenarios \subseteq ScenarioType
ASSUME PairAssumption     == Unknown \subseteq Pairs /\ NoPair \notin Pairs

Gens == Nat \ {0}

CRs == [gen : Gens, pair : Pairs, policy : Policies, fin : BOOLEAN, del : BOOLEAN,
        status : {"none", "OK", "Failure"}]

Metas == [gen : Gens, pair : Pairs, policy : Policies, id : Pairs \union {NoPair}]

ASSUME SentinelAssumption == NoCR \notin CRs /\ NoMeta \notin Metas \union {0}

VARIABLES
    scenario,    \* the scenario of this behaviour; it never changes
    cr, meta,    \* the CR and its meta in the API server
    born,        \* the user has made the CR
    crCache, metaCache,
    netris,      \* the links of the Netris controller
    storage,     \* LinksStorage's copy of netris
    x, m,        \* the two workers and what they have read
    xQueued, mQueued, \* the CR, the meta is in the workqueue
    made, lost,  \* for the properties: the links in netris that the operator has made or
                 \* imported; and those of them that the deletion of the CR cannot know of, since
                 \* their ID could not be recorded, or they came while it was under way
    left         \* the disturbances left

vars == <<scenario, cr, meta, born, crCache, metaCache, netris, storage, x, m, xQueued, mQueued,
          made, lost, left>>

api     == <<cr, meta, born>>
caches  == <<crCache, metaCache>>
history == <<made, lost>>
remote  == <<netris, history>>
xVars   == <<x, xQueued>>
mVars   == <<m, mQueued>>

XIdle == [pc |-> "idle", cr |-> NoCR, meta |-> NoMeta]
MIdle == [pc |-> "idle", cr |-> NoCR, meta |-> NoMeta, verdict |-> "none"]

Init ==
    /\ scenario \in Scenarios /\ left = scenario.left
    /\ cr = NoCR /\ meta = NoMeta /\ born = FALSE
    /\ crCache = NoCR /\ metaCache = NoMeta
    /\ netris = scenario.links /\ storage = netris
    /\ x = XIdle /\ m = MIdle
    /\ xQueued = FALSE /\ mQueued = FALSE
    /\ made = {} /\ lost = {}

Spend(d) == left[d] > 0 /\ left' = [left EXCEPT ![d] = @ - 1]
Spent(d) == left[d] < scenario.left[d]
Answered == UNCHANGED left
Failed   == Spend("fault")

-----------------------------------------------------------------------------
(* The user, Netris, the informers, and the process.                       *)

OfUser == UNCHANGED <<scenario, meta, caches, remote, storage, xVars, mVars>>

UserCreate ==
    /\ ~born
    /\ cr' = [gen |-> 1, pair |-> scenario.pair, policy |-> scenario.policy, fin |-> FALSE,
              del |-> FALSE, status |-> "none"]
    /\ born' = TRUE
    /\ OfUser /\ UNCHANGED left

UserEdit ==
    /\ cr # NoCR
    /\ \E p \in scenario.edits \ {cr.pair} : cr' = [cr EXCEPT !.gen = @ + 1, !.pair = p]
    /\ Spend("edit")
    /\ OfUser /\ UNCHANGED born

UserAnnotate ==
    /\ cr # NoCR /\ ~cr.del
    /\ \E p \in {"plain", "retain"} : cr' = [cr EXCEPT !.policy = p]
    /\ Spend("annotate")
    /\ OfUser /\ UNCHANGED born

UserDelete ==
    /\ cr # NoCR /\ ~cr.del
    /\ cr' = IF cr.fin THEN [cr EXCEPT !.del = TRUE] ELSE NoCR
    /\ OfUser /\ UNCHANGED <<born, left>>

Removed(p) ==
    netris' = netris \ {p} /\ made' = made \ {p} /\ lost' = lost \ {p}

\* Somebody removes a link, or makes one.
NetrisDrift ==
    /\ \E p \in Pairs \ Unknown :
          IF p \in netris THEN Removed(p)
          ELSE netris' = netris \union {p} /\ UNCHANGED history
    /\ Spend("drift")
    /\ UNCHANGED <<scenario, api, caches, storage, xVars, mVars>>

SyncCR ==
    /\ crCache # cr
    /\ crCache' = cr
    /\ xQueued' = TRUE
    /\ UNCHANGED <<scenario, api, metaCache, remote, storage, x, mVars, left>>

SyncMeta ==
    /\ metaCache # meta
    /\ metaCache' = meta
    /\ mQueued' = TRUE
    /\ UNCHANGED <<scenario, api, crCache, remote, storage, xVars, m, left>>

DownloadWithInterval ==
    /\ storage # netris
    /\ storage' = netris
    /\ UNCHANGED <<scenario, api, caches, remote, xVars, mVars, left>>

Crash ==
    /\ Spend("crash")
    /\ crCache' = cr /\ metaCache' = meta /\ storage' = netris
    /\ x' = XIdle /\ m' = MIdle
    /\ xQueued' = (cr # NoCR) /\ mQueued' = (meta # NoMeta)
    /\ lost' = IF m.pc = "patchID" THEN lost \union ({m.meta.pair} \intersect made) ELSE lost
    /\ UNCHANGED <<scenario, api, netris, made>>

-----------------------------------------------------------------------------
(* The CR reconciler.                                                      *)

OfX == UNCHANGED <<scenario, born, caches, storage, mVars>>

XGoto(pc) == x' = [x EXCEPT !.pc = pc] /\ UNCHANGED xQueued
XDone     == x' = XIdle /\ UNCHANGED xQueued
XRequeue  == x' = XIdle /\ xQueued' = TRUE

NewMeta(c) == [gen |-> c.gen, pair |-> c.pair, policy |-> c.policy, id |-> NoPair]

MutRefreshedMeta(c, old) == NewMeta(c)

RefreshedMeta(c, old) == [NewMeta(c) EXCEPT !.id = old.id]

\* linkCompareFieldsForNewMeta: the generation, import and reclaim
CompareFieldsForNewMeta(c, mt) == c.gen # mt.gen \/ c.policy # mt.policy

MutHasFinalizer(c) == TRUE

HasFinalizer(c) == c.fin

XCurrent == crCache = cr /\ metaCache = meta

\* x may load copies that are out of date, as often as left.stale says.
XLoad ==
    /\ x.pc = "idle"
    /\ xQueued
    /\ xQueued' = FALSE
    /\ x' = IF crCache = NoCR THEN x
            ELSE [pc |-> "loaded", cr |-> crCache, meta |-> metaCache]
    /\ IF XCurrent THEN UNCHANGED left ELSE Spend("stale")
    /\ UNCHANGED <<scenario, api, caches, remote, storage, mVars>>

XLoaded(deleting) == x.pc = "loaded" /\ x.cr.del = deleting

MutMustDeleteInNetris(mt) == mt # NoMeta /\ mt.policy = "retain"

MustDeleteInNetris(mt) == mt # NoMeta /\ mt.id # NoPair /\ mt.policy # "retain"

\* deleteLink deletes the link that the meta asks for, which is not the one that it has
\* recorded as long as an edit has not been carried out.
XDeleteNetris ==
    /\ XLoaded(TRUE)
    /\ MustDeleteInNetris(x.meta)
    /\ LET p == x.meta.pair
       IN  \/ Answered /\ (p \in netris \/ ~scenario.strict) /\ Removed(p) /\ XGoto("deleteMeta")
           \/ /\ Answered /\ p \notin netris /\ scenario.strict
              /\ UNCHANGED remote /\ XGoto("failed")
           \/ Failed /\ (Removed(p) \/ UNCHANGED remote) /\ XGoto("failed")
    /\ OfX /\ UNCHANGED <<cr, meta>>

\* The link of the meta was recorded after x had read the meta, or made again after x had
\* deleted it: m does not look whether the CR is being deleted.
OutOfSight == meta.id # x.meta.id \/ (x.pc = "deleteMeta" /\ meta.id = x.meta.pair)

\* deleteLinkMetaCR: no finalizer holds the meta, so a delete removes it.
XDeleteMeta ==
    /\ \/ x.pc = "deleteMeta"
       \/ XLoaded(TRUE) /\ x.meta # NoMeta /\ ~MustDeleteInNetris(x.meta)
    /\ LET gone == /\ meta' = NoMeta
                   /\ lost' = IF meta # NoMeta /\ OutOfSight
                              THEN lost \union ({meta.id} \intersect made) ELSE lost
       IN  \/ Answered /\ gone /\ XGoto(IF meta # NoMeta THEN "release" ELSE "failed")
           \/ Failed /\ (gone \/ UNCHANGED <<meta, lost>>) /\ XGoto("failed")
    /\ OfX /\ UNCHANGED <<cr, netris, made>>

\* deleteLinkCR: the update that clears the finalizers lets the CR go.
XRelease ==
    /\ \/ x.pc = "release"
       \/ XLoaded(TRUE) /\ x.meta = NoMeta
    /\ \/ Answered /\ cr = x.cr /\ cr' = NoCR /\ XDone
       \/ Answered /\ cr # x.cr /\ UNCHANGED cr /\ XGoto("failed")
       \/ Failed /\ (UNCHANGED cr \/ (cr = x.cr /\ cr' = NoCR)) /\ XGoto("failed")
    /\ OfX /\ UNCHANGED <<meta, remote>>

\* patchLinkStatus("Failure"): its own error is only logged.
XFail ==
    /\ x.pc = "failed"
    /\ \/ Answered /\ cr' = IF cr = x.cr THEN [cr EXCEPT !.status = "Failure"] ELSE cr
       \/ Failed /\ UNCHANGED cr
    /\ XRequeue
    /\ OfX /\ UNCHANGED <<meta, remote>>

\* A patch of the CR, requeued only when it fails: an accepted patch brings an event.
XPatchCR(new) ==
    /\ \/ Answered /\ cr = x.cr /\ cr' = new /\ XDone
       \/ Answered /\ cr # x.cr /\ UNCHANGED cr /\ XRequeue
       \/ Failed /\ (UNCHANGED cr \/ (cr = x.cr /\ cr' = new)) /\ XRequeue
    /\ OfX /\ UNCHANGED <<meta, remote>>

XSetAnnotations ==
    /\ XLoaded(FALSE)
    /\ x.cr.policy = "partial"
    /\ XPatchCR([x.cr EXCEPT !.policy = "plain"])

XAnnotated == XLoaded(FALSE) /\ x.cr.policy # "partial"

XSetFinalizer ==
    /\ XAnnotated
    /\ x.meta = NoMeta
    /\ ~HasFinalizer(x.cr)
    /\ XPatchCR([x.cr EXCEPT !.fin = TRUE])

MustWriteMeta ==
    /\ XAnnotated
    /\ IF x.meta = NoMeta THEN HasFinalizer(x.cr) ELSE CompareFieldsForNewMeta(x.cr, x.meta)

\* LinkToLinkMeta looks both ports up in PortsStorage, which does not download on a miss.
XTranslateFails ==
    /\ MustWriteMeta
    /\ x.cr.pair \in Unknown
    /\ XGoto("failed")
    /\ OfX /\ UNCHANGED <<cr, meta, remote, left>>

XWriteMeta ==
    /\ MustWriteMeta
    /\ x.cr.pair \notin Unknown
    /\ LET new     == IF x.meta = NoMeta THEN NewMeta(x.cr) ELSE RefreshedMeta(x.cr, x.meta)
           written == meta = x.meta /\ meta' = new
       IN  \/ Answered /\ (written \/ (meta # x.meta /\ UNCHANGED meta))
           \/ Failed /\ (written \/ UNCHANGED meta)
    /\ XRequeue
    /\ OfX /\ UNCHANGED <<cr, remote>>

XNothingToDo ==
    /\ XAnnotated
    /\ x.meta # NoMeta
    /\ ~CompareFieldsForNewMeta(x.cr, x.meta)
    /\ XRequeue
    /\ OfX /\ UNCHANGED <<cr, meta, remote, left>>

XStep ==
    \/ XDeleteNetris \/ XDeleteMeta \/ XRelease \/ XFail \/ XSetAnnotations \/ XSetFinalizer
    \/ XTranslateFails \/ XWriteMeta \/ XNothingToDo

-----------------------------------------------------------------------------
(* The meta reconciler.                                                    *)

OfM == UNCHANGED <<scenario, born, caches, xVars>>

MRetry      == m' = MIdle /\ mQueued' = TRUE
MGoto(pc)   == m' = [m EXCEPT !.pc = pc] /\ UNCHANGED mQueued
MVerdict(v) == m' = [MIdle EXCEPT !.pc = "status", !.cr = m.cr, !.verdict = v]
               /\ UNCHANGED mQueued

MutBothFound == metaCache # NoMeta

\* The CR is read by the name that the meta holds; without either there is nothing to do.
BothFound == metaCache # NoMeta /\ crCache # NoCR

MLoad ==
    /\ m.pc = "idle"
    /\ mQueued
    /\ mQueued' = FALSE
    /\ m' = IF BothFound THEN [m EXCEPT !.pc = "loaded", !.cr = crCache, !.meta = metaCache]
            ELSE m
    /\ IF metaCache = meta THEN UNCHANGED left ELSE Spend("stale")
    /\ UNCHANGED <<scenario, api, caches, remote, storage, xVars>>

\* LinksStorage.Find: a miss downloads the list; a failed download leaves the miss.
Find(p, found, missing) ==
    \/ p \in storage /\ Answered /\ UNCHANGED storage /\ found
    \/ /\ p \notin storage /\ Answered /\ storage' = netris
       /\ IF p \in netris THEN found ELSE missing
    \/ p \notin storage /\ Failed /\ UNCHANGED storage /\ missing

MUnrecorded(imports) ==
    m.pc = "loaded" /\ m.meta.id = NoPair /\ (m.meta.policy = "import") = imports

MFindForImport ==
    /\ MUnrecorded(TRUE)
    /\ Find(m.meta.pair, MGoto("import"), MGoto("create"))
    /\ OfM /\ UNCHANGED <<cr, meta, remote>>

\* A patch that writes the ID into the meta; done is what follows an accepted one, and
\* recorded what an accepted one leaves for the properties.
MPatchID(id, done, recorded, unrecorded) ==
    LET written == meta = m.meta /\ meta' = [meta EXCEPT !.id = id] /\ recorded
        refused == UNCHANGED meta /\ unrecorded
    IN  \/ Answered /\ written /\ done
        \/ Answered /\ meta # m.meta /\ refused /\ MVerdict("Failure")
        \/ Failed /\ (written \/ refused) /\ MVerdict("Failure")

\* The link that is there becomes the operator's.
MImport ==
    /\ m.pc = "import"
    /\ LET adopted == /\ made' = made \union ({m.meta.pair} \intersect netris)
                      /\ lost' = lost \ {m.meta.pair}
       IN  MPatchID(m.meta.pair, MRetry, adopted, UNCHANGED history)
    /\ OfM /\ UNCHANGED <<cr, netris, storage>>

MFindByID ==
    /\ m.pc = "loaded"
    /\ m.meta.id # NoPair
    /\ Find(m.meta.id, MGoto("compare"), MGoto("create"))
    /\ OfM /\ UNCHANGED <<cr, meta, remote>>

\* createLink, up to the reply
MCreate ==
    /\ m.pc = "create" \/ MUnrecorded(FALSE)
    /\ LET p       == m.meta.pair
           refused == p \in netris /\ scenario.strict
           added   == ~refused /\ netris' = netris \union {p} /\ made' = made \union {p}
       IN  \/ Answered /\ added /\ UNCHANGED lost /\ MGoto("patchID")
           \/ Answered /\ refused /\ UNCHANGED remote /\ MVerdict("Failure")
           \/ /\ Failed /\ MVerdict("Failure")
              /\ (added /\ lost' = lost \union {p}) \/ UNCHANGED remote
    /\ OfM /\ UNCHANGED <<cr, meta, storage>>

MRecordID ==
    /\ m.pc = "patchID"
    /\ LET p == m.meta.pair
       IN  MPatchID(p, MVerdict("OK"), lost' = lost \ {p},
                    lost' = lost \union ({p} \intersect made))
    /\ OfM /\ UNCHANGED <<cr, netris, made, storage>>

MPortMissing ==
    /\ m.pc = "compare"
    /\ m.cr.pair \in Unknown
    /\ MVerdict("Failure")
    /\ OfM /\ UNCHANGED <<cr, meta, remote, storage, left>>

\* The CR names the ports of the link that is recorded.
Same == m.cr.pair = m.meta.id

MNothingChanged ==
    /\ m.pc = "compare"
    /\ m.cr.pair \notin Unknown
    /\ Same
    /\ MVerdict("OK")
    /\ OfM /\ UNCHANGED <<cr, meta, remote, storage, left>>

\* The recorded link goes; a later round creates the one that the meta asks for then.
MDeleteOld ==
    /\ m.pc = "compare"
    /\ m.cr.pair \notin Unknown
    /\ ~Same
    /\ LET p == m.meta.id
       IN  \/ Answered /\ (p \in netris \/ ~scenario.strict) /\ Removed(p) /\ MGoto("forget")
           \/ Answered /\ p \notin netris /\ scenario.strict /\ UNCHANGED remote /\ MRetry
           \/ Failed /\ (Removed(p) \/ UNCHANGED remote) /\ MRetry
    /\ OfM /\ UNCHANGED <<cr, meta, storage>>

MForget ==
    /\ m.pc = "forget"
    /\ MPatchID(NoPair, MVerdict("OK"), UNCHANGED history, UNCHANGED history)
    /\ OfM /\ UNCHANGED <<cr, netris, storage>>

\* patchLinkStatus: its own error is only logged, and the meta comes round again.
MStatus ==
    /\ m.pc = "status"
    /\ \/ Answered /\ cr' = IF cr = m.cr THEN [cr EXCEPT !.status = m.verdict] ELSE cr
       \/ Failed /\ UNCHANGED cr
    /\ MRetry
    /\ OfM /\ UNCHANGED <<meta, remote, storage>>

MStep ==
    \/ MFindForImport \/ MImport \/ MFindByID \/ MCreate \/ MRecordID
    \/ MPortMissing \/ MNothingChanged \/ MDeleteOld \/ MForget \/ MStatus

-----------------------------------------------------------------------------

Next ==
    \/ UserCreate \/ UserEdit \/ UserAnnotate \/ UserDelete \/ NetrisDrift
    \/ SyncCR \/ SyncMeta \/ DownloadWithInterval \/ Crash
    \/ XLoad \/ XStep
    \/ MLoad \/ MStep

Spec == Init /\ [][Next]_vars

\* As in module Resource.  A write of the meta that follows its read at once is not always
\* overtaken by the meta reconciler, which calls Netris between any two patches.
Fairness ==
    /\ WF_vars(SyncCR) /\ WF_vars(SyncMeta) /\ WF_vars(DownloadWithInterval)
    /\ SF_vars(XLoad) /\ WF_vars(XStep) /\ SF_vars(MLoad) /\ WF_vars(MStep)
    /\ SF_vars(XWriteMeta /\ meta' # meta)

FairSpec == Spec /\ Fairness

-----------------------------------------------------------------------------
(* Properties.                                                             *)

XTypeOK ==
    /\ x \in [pc : {"idle", "loaded", "deleteMeta", "release", "failed"},
              cr : CRs \union {NoCR}, meta : Metas \union {NoMeta}]
    /\ x.pc # "idle" => x.cr # NoCR

MTypeOK ==
    /\ m \in [pc : {"idle", "loaded", "import", "create", "patchID", "compare", "forget",
                    "status"},
              cr : CRs \union {NoCR}, meta : Metas \union {NoMeta},
              verdict : {"none", "OK", "Failure"}]
    /\ m.pc # "idle" => m.cr # NoCR
    /\ m.pc \notin {"idle", "status"} => m.meta # NoMeta
    /\ m.pc \in {"compare", "forget"} => m.meta.id # NoPair

\* Every variable has a value its Go counterpart can have, and a worker holds what its
\* next step needs; what was lost is the operator's, and is in Netris.
TypeOK ==
    /\ scenario \in ScenarioType /\ born \in BOOLEAN
    /\ cr \in CRs \union {NoCR} /\ crCache \in CRs \union {NoCR}
    /\ meta \in Metas \union {NoMeta} /\ metaCache \in Metas \union {NoMeta}
    /\ netris \subseteq Pairs /\ storage \subseteq Pairs
    /\ lost \subseteq made /\ made \subseteq netris
    /\ XTypeOK /\ MTypeOK
    /\ xQueued \in BOOLEAN /\ mQueued \in BOOLEAN
    /\ left \in [Disturbances -> Nat]

\* The links that the operator answers for: those it has made and knows of
Known == made \ (lost \union IF m.pc = "patchID" THEN {m.meta.pair} ELSE {})

\* reclaimPolicy "delete": a CR that is gone leaves no link in Netris but one that its
\* deletion could not know of, although it may go in the middle of a move to other ports.  (But a
\* CR reconciler that does not see yet the meta it has made lets the CR go before it.)
NothingLeft ==
    cr = NoCR /\ scenario.policy # "retain" /\ ~Spent("annotate") /\ ~Spent("stale")
        => Known = {}

\* The link of the CR is in Netris, is recorded, and the status says so.
Linked ==
    /\ cr.status = "OK"
    /\ meta # NoMeta /\ meta.id = cr.pair /\ meta.policy = cr.policy
    /\ cr.pair \in netris
    /\ Known \subseteq {cr.pair}

\* Netris refuses to make the link.
Refused == cr.status = "Failure" /\ scenario.strict /\ cr.policy # "import"

\* Somebody else has made the link.
Taken == Refused /\ cr.pair \in netris \ made

\* The operator has made the link itself, in a request whose reply it has not got or before a
\* patch of its ID that was refused.  createLink makes it again in every retry and does not look
\* for it, so that the CR stays in Failure for good, over a link that works, and its meta
\* has no ID.
Unrecorded == Refused /\ cr.pair \in lost

\* The delete has come before the edit has reached the meta.  As long as the CR is there, m
\* makes the link of the meta and deletes it again, since the CR names other ports, over and
\* over; the deletion gets through when it meets the link in Netris.
Overtaken == cr.del /\ meta # NoMeta /\ meta.pair # cr.pair

Settled ==
    IF cr = NoCR THEN meta = NoMeta \/ Spent("stale")
    ELSE Overtaken \/ (~cr.del /\ (cr.pair \in Unknown \/ Linked \/ Taken \/ Unrecorded))

\* When edits and disturbances end, the CR, its meta and Netris agree for good, unless the
\* ports do not exist, somebody else has linked them (Taken), or the operator has lost sight
\* of the link it has made (Unrecorded: they do not agree then).  A deletion that has not
\* overtaken an edit (Overtaken) ends, though the two reconcilers take the ports to compare
\* from two places.
EventuallySettled == <>[]Settled

-----------------------------------------------------------------------------
(* The ledger of module Ledger.  An entry has no id there: a move takes it *)
(* away and gives another.                                                 *)

Life ==
    CASE ~born                                -> "unborn"
      [] born /\ cr = NoCR                    -> "gone"
      [] cr # NoCR /\ cr.del                  -> "doomed"
      [] cr # NoCR /\ ~cr.del /\ cr.fin       -> "protected"
      [] cr # NoCR /\ ~cr.del /\ ~cr.fin      -> "open"

Entry == IF meta = NoMeta THEN NoMeta ELSE 0

L == INSTANCE Ledger WITH
        Uids <- {1}, Ids <- {}, NoEntry <- NoMeta,
        life <- [u \in {1} |-> Life],
        entry <- [u \in {1} |-> Entry]

\* A meta is made under the finalizer only, and goes only for a CR that the user has deleted.
KeepsLedger == L!Spec

=============================================================================
