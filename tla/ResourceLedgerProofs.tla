----------------------- MODULE ResourceLedgerProofs -----------------------
(***************************************************************************)
(* The metas of module Resource only ever go forward, and implement the    *)
(* ledger of module Ledger, for every value of the constants.              *)
(*                                                                         *)
(* Both are about x writing a meta from a CR and a meta that it has read   *)
(* from two informers.  The invariant orders all copies: what is in a      *)
(* cache, and what x has read, is behind the API server; what x has read   *)
(* is behind the cache; and a meta, being made from a copy of the CR that  *)
(* came out of the cache, is never ahead of the cache.                     *)
(***************************************************************************)
EXTENDS ResourceProofs

USE DEF Uids, Gens, Ids

\* The CR of the copy c is, or was, at least as far as c is; one that has the finalizer
\* and is not being deleted still has it.
Behind(c) ==
    c # NoCR =>
        /\ c.uid < nextUid
        /\ Alive(c.uid) => c.gen <= cr.gen /\ (c.del => cr.del)
        /\ c.fin /\ ~c.del => Alive(c.uid) /\ cr.fin

\* The meta of u was made of a copy that the API server and the cache have caught up with.
MetaBehind(u, mt) ==
    mt # NoMeta =>
        /\ u < nextUid
        /\ Alive(u) => mt.gen <= cr.gen
        /\ crCache # NoCR /\ crCache.uid = u => mt.gen <= crCache.gen

XBehind ==
    /\ x.cr # NoCR /\ crCache # NoCR /\ x.cr.uid = crCache.uid
          => x.cr.gen <= crCache.gen /\ (x.cr.del => crCache.del)
    /\ x.cr # NoCR /\ x.meta # NoMeta => x.meta.gen <= x.cr.gen
    /\ x.pc \in {"deleteMeta", "release"} => x.cr.del

OrderInv ==
    /\ cr # NoCR => cr.uid < nextUid
    /\ Behind(crCache) /\ Behind(x.cr)
    /\ \A u \in Uids : MetaBehind(u, meta[u]) /\ MetaBehind(u, metaCache[u])
    /\ XBehind

-----------------------------------------------------------------------------
(* What a step does to the CR.                                             *)

SameCR ==
    /\ nextUid' = nextUid
    /\ \/ cr = NoCR /\ cr' = NoCR
       \/ /\ cr # NoCR /\ cr' # NoCR /\ cr'.uid = cr.uid /\ cr'.fin = cr.fin
          /\ cr'.del = cr.del /\ cr.gen <= cr'.gen

Born ==
    /\ cr = NoCR /\ cr' # NoCR /\ nextUid' = nextUid + 1
    /\ cr'.uid = nextUid /\ ~cr'.fin /\ ~cr'.del

\* The CR is marked, or gets the finalizer.
Turned ==
    /\ nextUid' = nextUid /\ cr # NoCR /\ cr' # NoCR
    /\ cr'.uid = cr.uid /\ cr'.gen = cr.gen /\ cr'.fin /\ ~cr.del
    /\ cr'.del = cr.fin

\* Without the finalizer the user's delete is enough; else x lets the CR go.
LetGo ==
    /\ nextUid' = nextUid /\ cr # NoCR /\ cr' = NoCR
    /\ (~cr.del /\ ~cr.fin) \/ (cr.del /\ x.cr = cr)

CRMoves == SameCR \/ Born \/ Turned \/ LetGo

LEMMA SameValue == TypeOK /\ UNCHANGED <<cr, nextUid>> => SameCR
BY DEF SameCR, TypeOK, CRs

LEMMA StatusMoves ==
    ASSUME TypeOK, NEW v \in {"Success", "Failure"}, cr # NoCR,
           cr' = [cr EXCEPT !.status = v], nextUid' = nextUid
    PROVE  SameCR
<1>1. cr \in CRs /\ cr' \in CRs
  BY DEF TypeOK, CRs
<1> QED
  BY <1>1, SentinelAssumption DEF SameCR, CRs

LEMMA UserMoves ==
    ASSUME TypeOK, UserCreate \/ UserEdit \/ UserAnnotate \/ UserDelete
    PROVE  CRMoves
<1>1. CASE UserCreate
  <2>1. cr' \in CRs /\ cr'.uid = nextUid
    BY <1>1, NewCR
  <2>2. cr' # NoCR
    BY <2>1, SentinelAssumption
  <2>3. cr'.fin = FALSE /\ cr'.del = FALSE /\ cr = NoCR /\ nextUid' = nextUid + 1
    BY <1>1 DEF UserCreate
  <2> QED
    BY <2>1, <2>2, <2>3 DEF CRMoves, Born
<1>2. CASE UserEdit
  <2>1. cr \in CRs
    BY <1>2 DEF UserEdit, TypeOK
  <2>2. cr' \in CRs /\ cr'.uid = cr.uid /\ cr'.fin = cr.fin
    BY <1>2, <2>1, EditedCR
  <2>3. cr'.gen = cr.gen + 1 /\ cr'.del = cr.del
    BY <1>2, <2>1 DEF UserEdit, CRs
  <2>4. cr.gen <= cr'.gen
    BY <2>1, <2>3 DEF CRs
  <2>5. cr # NoCR /\ cr' # NoCR /\ nextUid' = nextUid
    BY <1>2, <2>2, SentinelAssumption DEF UserEdit
  <2> QED
    BY <2>2, <2>3, <2>4, <2>5 DEF CRMoves, SameCR
<1>3. CASE UserAnnotate
  <2>1. cr \in CRs
    BY <1>3 DEF UserAnnotate, TypeOK
  <2>2. /\ cr' \in CRs /\ cr'.uid = cr.uid /\ cr'.fin = cr.fin /\ cr'.gen = cr.gen
        /\ cr'.del = cr.del
    BY <1>3, <2>1 DEF UserAnnotate, CRs
  <2> QED
    BY <1>3, <2>1, <2>2, SentinelAssumption DEF UserAnnotate, CRMoves, SameCR, CRs
<1>4. CASE UserDelete
  <2>1. cr \in CRs
    BY <1>4 DEF UserDelete, TypeOK
  <2>2. CASE ~cr.fin
    BY <1>4, <2>2 DEF UserDelete, CRMoves, LetGo
  <2>3. CASE cr.fin
    <3>1. /\ cr' \in CRs /\ cr'.uid = cr.uid /\ cr'.fin = cr.fin /\ cr'.gen = cr.gen
          /\ cr'.del = TRUE
      BY <1>4, <2>1, <2>3 DEF UserDelete, CRs
    <3> QED
      BY <1>4, <2>1, <2>3, <3>1, SentinelAssumption DEF UserDelete, CRMoves, Turned
  <2> QED
    BY <2>2, <2>3
<1> QED
  BY <1>1, <1>2, <1>3, <1>4

LEMMA XMoves == ASSUME TypeOK, OrderInv, XStep PROVE CRMoves
<1>1. x.pc # "idle" /\ x.cr \in CRs
  BY DEF XStep, XDeleteNetris, XDeleteMeta, XRelease, XFail, XSetAnnotations, XPanic, XReject,
         XTranslateFails, XSetFinalizer, XCreateMeta, XUpdateMeta, XNothingToDo, XAccepted,
         XAnnotated, XLoaded, TypeOK, XTypeOK
<1>2. CASE XRelease
  <2>1. x.cr.del /\ nextUid' = nextUid /\ (cr' = cr \/ (cr = x.cr /\ cr' = NoCR))
    BY <1>2 DEF XRelease, XLoaded, OrderInv, XBehind
  <2> QED
    BY <1>1, <2>1, SameValue, SentinelAssumption DEF CRMoves, LetGo
<1>3. CASE XFail
  <2>1. /\ nextUid' = nextUid
        /\ cr' = cr \/ (cr = x.cr /\ cr' = [cr EXCEPT !.status = "Failure"])
    BY <1>3 DEF XFail
  <2> QED
    BY <1>1, <2>1, SameValue, StatusMoves, SentinelAssumption DEF CRMoves
<1>4. CASE XSetAnnotations
  <2>1. /\ nextUid' = nextUid
        /\ cr' = cr \/ (cr = x.cr /\ cr' = [x.cr EXCEPT !.ann = DefaultAnnotations(x.cr.ann)])
    BY <1>1, <1>4 DEF XSetAnnotations, XPatchCR, CRs
  <2>2. LET c == [x.cr EXCEPT !.ann = DefaultAnnotations(x.cr.ann)]
        IN  c \in CRs /\ c.uid = x.cr.uid /\ c.fin = x.cr.fin /\ c.del = x.cr.del
            /\ c.gen = x.cr.gen
    <3>1. DefaultAnnotations(x.cr.ann) \in Annotations
      BY DEF DefaultAnnotations, Annotations
    <3> QED
      BY <1>1, <3>1 DEF CRs
  <2>3. CASE cr' = cr
    BY <2>1, <2>3, SameValue DEF CRMoves
  <2>4. CASE cr = x.cr /\ cr' = [x.cr EXCEPT !.ann = DefaultAnnotations(x.cr.ann)]
    <3>1. cr.gen \in Nat
      BY <1>1, <2>4 DEF CRs
    <3>2. cr # NoCR /\ cr' # NoCR
      BY <1>1, <2>2, <2>4, SentinelAssumption
    <3>3. cr'.uid = cr.uid /\ cr'.fin = cr.fin /\ cr'.del = cr.del /\ cr'.gen = cr.gen
      BY <2>2, <2>4
    <3> QED
      BY <2>1, <3>1, <3>2, <3>3 DEF CRMoves, SameCR
  <2> QED
    BY <2>1, <2>3, <2>4
<1>5. CASE XSetFinalizer
  <2>1. /\ nextUid' = nextUid /\ ~x.cr.fin /\ ~x.cr.del
        /\ cr' = cr \/ (cr = x.cr /\ cr' = [x.cr EXCEPT !.fin = TRUE])
    BY <1>1, <1>5 DEF XSetFinalizer, XPatchCR, XAccepted, XAnnotated, XLoaded, HasFinalizer, CRs
  <2>2. LET c == [x.cr EXCEPT !.fin = TRUE]
        IN  c \in CRs /\ c.uid = x.cr.uid /\ c.fin /\ c.del = x.cr.del /\ c.gen = x.cr.gen
    BY <1>1 DEF CRs
  <2>3. CASE cr' = cr
    BY <2>1, <2>3, SameValue DEF CRMoves
  <2>4. CASE cr = x.cr /\ cr' = [x.cr EXCEPT !.fin = TRUE]
    <3>1. cr # NoCR /\ cr' # NoCR
      BY <1>1, <2>2, <2>4, SentinelAssumption
    <3>2. cr'.del = FALSE /\ cr.fin = FALSE /\ ~cr.del
      BY <1>1, <2>1, <2>2, <2>4 DEF CRs
    <3> QED
      BY <2>1, <2>2, <2>4, <3>1, <3>2 DEF CRMoves, Turned
  <2> QED
    BY <2>1, <2>3, <2>4
<1>6. CASE XDeleteNetris \/ XDeleteMeta \/ XPanic \/ XReject \/ XTranslateFails \/ XCreateMeta
           \/ XUpdateMeta \/ XNothingToDo
  <2>1. UNCHANGED <<cr, nextUid>>
    BY <1>6 DEF XDeleteNetris, XDeleteMeta, XPanic, XReject, XTranslateFails, XCreateMeta,
                XUpdateMeta, XWriteMeta, XNothingToDo, crVars
  <2> QED
    BY <2>1, SameValue DEF CRMoves
<1> QED
  BY <1>2, <1>3, <1>4, <1>5, <1>6 DEF XStep

LEMMA MMoves == ASSUME TypeOK, MStep PROVE SameCR
<1>1. CASE MWriteBack
  <2>1. /\ nextUid' = nextUid /\ m.cr \in CRs /\ m.addr \in Addresses
        /\ \/ cr' = cr
           \/ cr = m.cr /\ cr' = [m.cr EXCEPT !.gen = cr.gen + 1, !.spec.addr = m.addr]
    BY <1>1 DEF MWriteBack, CRPatchAccepted, TypeOK, MTypeOK
  <2>2. CASE cr' = cr
    BY <2>1, <2>2, SameValue
  <2>3. CASE cr = m.cr /\ cr' = [m.cr EXCEPT !.gen = cr.gen + 1, !.spec.addr = m.addr]
    <3>1. cr' \in CRs /\ cr'.uid = cr.uid /\ cr'.fin = cr.fin
      BY <2>1, <2>3, FilledInCR
    <3>2. cr'.del = cr.del /\ cr'.gen = cr.gen + 1
      BY <2>1, <2>3 DEF CRs
    <3>3. cr.gen <= cr'.gen
      BY <2>1, <2>3, <3>2 DEF CRs
    <3>4. cr # NoCR /\ cr' # NoCR
      BY <2>1, <2>3, <3>1, SentinelAssumption
    <3> QED
      BY <2>1, <3>1, <3>2, <3>3, <3>4 DEF SameCR
  <2> QED
    BY <2>1, <2>2, <2>3
<1>2. CASE MStatus
  <2>1. /\ nextUid' = nextUid
        /\ cr' = cr \/ (cr = m.cr /\ m.cr # NoCR /\ cr' = [cr EXCEPT !.status = m.verdict])
        /\ m.verdict \in {"Success", "Failure"}
    BY <1>2 DEF MStatus, TypeOK, MTypeOK
  <2> QED
    BY <2>1, SameValue, StatusMoves
<1>3. CASE MImport \/ MRefreshByName \/ MGetByID \/ MFindByID \/ MCreate \/ MRecordID
           \/ MNothingChanged \/ MUpdate
  BY <1>3, SameValue
  DEF MImport, MRefreshByName, MGetByID, MFindByID, MCreate, MRecordID, MNothingChanged, MUpdate,
      crVars
<1> QED
  BY <1>1, <1>2, <1>3 DEF MStep

LEMMA Moves == TypeOK /\ OrderInv /\ [Next]_vars => CRMoves
<1> SUFFICES ASSUME TypeOK, OrderInv, [Next]_vars PROVE CRMoves
  OBVIOUS
<1>1. CASE UNCHANGED <<cr, nextUid>>
  BY <1>1, SameValue DEF CRMoves
<1>2. CASE MStep
  BY <1>2, MMoves DEF CRMoves
<1> QED
  BY <1>1, <1>2, UserMoves, XMoves
  DEF Next, User, vars, NetrisDrift, SyncCR, SyncMeta, DownloadWithInterval, Crash, XLoad, MLoad,
      crVars

-----------------------------------------------------------------------------
(* What a step does to a meta, and to the copies.                          *)

OfX(u) == x.cr # NoCR /\ u = x.cr.uid

\* The meta of u is made by x, made anew by x, patched by m, or deleted by x.
Writes(u, mt) ==
    \/ /\ meta[u] = NoMeta /\ mt # NoMeta /\ mt.id = 0 /\ mt.gen = x.cr.gen
       /\ OfX(u) /\ x.cr.fin /\ ~x.cr.del
    \/ /\ meta[u] # NoMeta /\ mt # NoMeta /\ mt.id = meta[u].id /\ mt.gen = x.cr.gen
       /\ OfX(u) /\ meta[u] = x.meta
    \/ meta[u] # NoMeta /\ mt # NoMeta /\ mt.id \in Ids /\ mt.gen = meta[u].gen
    \/ mt = NoMeta /\ OfX(u) /\ x.cr.del

MetaMoves ==
    \/ meta' = meta
    \/ /\ UNCHANGED <<cr, nextUid, crCache, metaCache>>
       /\ \E u \in Uids, mt \in Metas \union {NoMeta} :
             meta' = [meta EXCEPT ![u] = mt] /\ Writes(u, mt)

LEMMA XMetaMoves == ASSUME TypeOK, OrderInv, XStep PROVE MetaMoves
<1>1. x.pc # "idle" => x.cr \in CRs /\ x.cr # NoCR /\ x.cr.uid \in Uids
  BY DEF TypeOK, XTypeOK, CRs
<1>2. CASE XDeleteMeta
  <2>1. UNCHANGED <<cr, nextUid, crCache, metaCache>> /\ x.cr.del /\ x.pc # "idle"
    BY <1>2 DEF XDeleteMeta, XLoaded, OrderInv, XBehind, crVars, caches
  <2>2. meta' = meta \/ meta' = [meta EXCEPT ![x.cr.uid] = NoMeta]
    BY <1>2 DEF XDeleteMeta
  <2>3. Writes(x.cr.uid, NoMeta)
    BY <1>1, <2>1 DEF Writes, OfX
  <2> QED
    BY <1>1, <2>1, <2>2, <2>3 DEF MetaMoves
<1>3. CASE XCreateMeta
  <2> DEFINE new == NewMeta(x.cr)
  <2>1. /\ UNCHANGED <<cr, nextUid, crCache, metaCache>> /\ x.pc # "idle"
        /\ x.cr.fin /\ x.cr.del = FALSE
    BY <1>3 DEF XCreateMeta, XWriteMeta, XAccepted, XAnnotated, XLoaded, HasFinalizer, crVars,
                caches
  <2>2. new \in Metas /\ new.id = 0 /\ new.gen = x.cr.gen
    BY <1>1, <2>1, NewMetaType DEF NewMeta
  <2>3. meta' = meta \/ (meta[x.cr.uid] = NoMeta /\ meta' = [meta EXCEPT ![x.cr.uid] = new])
    BY <1>3 DEF XCreateMeta, XWriteMeta
  <2>4. meta[x.cr.uid] = NoMeta => Writes(x.cr.uid, new)
    BY <1>1, <2>1, <2>2, SentinelAssumption DEF Writes, OfX
  <2> QED
    BY <1>1, <2>1, <2>2, <2>3, <2>4 DEF MetaMoves
<1>4. CASE XUpdateMeta
  <2> DEFINE new == RefreshedMeta(x.cr, x.meta)
  <2>1. /\ UNCHANGED <<cr, nextUid, crCache, metaCache>> /\ x.pc # "idle"
        /\ x.meta \in Metas /\ x.meta # NoMeta
    BY <1>4 DEF XUpdateMeta, XWriteMeta, XAccepted, XAnnotated, XLoaded, crVars, caches, TypeOK,
                XTypeOK
  <2>2. new \in Metas /\ new.id = x.meta.id /\ new.gen = x.cr.gen
    <3>1. NewMeta(x.cr) \in Metas /\ NewMeta(x.cr).gen = x.cr.gen /\ x.meta.id \in Ids \union {0}
      BY <1>1, <2>1, NewMetaType DEF NewMeta, Metas
    <3> QED
      BY <3>1 DEF RefreshedMeta, Metas
  <2>3. meta' = meta \/ (meta[x.cr.uid] = x.meta /\ meta' = [meta EXCEPT ![x.cr.uid] = new])
    BY <1>4 DEF XUpdateMeta, XWriteMeta
  <2>4. meta[x.cr.uid] = x.meta => Writes(x.cr.uid, new)
    BY <1>1, <2>1, <2>2, SentinelAssumption DEF Writes, OfX
  <2> QED
    BY <1>1, <2>1, <2>2, <2>3, <2>4 DEF MetaMoves
<1> QED
  BY <1>2, <1>3, <1>4
  DEF MetaMoves, XStep, XDeleteNetris, XRelease, XFail, XSetAnnotations, XPanic, XReject,
      XTranslateFails, XSetFinalizer, XNothingToDo, XPatchCR

LEMMA MMetaMoves == ASSUME TypeOK, MStep PROVE MetaMoves
<1>1. ASSUME NEW i \in Ids, NEW a \in Addresses, m.pc \in {"loaded", "import", "patchID"},
             UNCHANGED <<cr, nextUid, crCache, metaCache>>,
             \/ meta' = meta
             \/ /\ meta[m.uid] = m.meta
                /\ meta' = [meta EXCEPT ![m.uid] = [m.meta EXCEPT !.id = i, !.spec.addr = a]]
      PROVE  MetaMoves
  <2> DEFINE new == [m.meta EXCEPT !.id = i, !.spec.addr = a]
  <2>1. m.uid \in Uids /\ m.meta \in Metas /\ m.meta # NoMeta
    BY <1>1 DEF TypeOK, MTypeOK
  <2>2. new \in Metas /\ new.id = i /\ new.gen = m.meta.gen
    <3>1. [m.meta.spec EXCEPT !.addr = a] \in Specs
      BY <2>1 DEF Metas, Specs
    <3>2. new = [m.meta EXCEPT !.id = i, !.spec = [m.meta.spec EXCEPT !.addr = a]]
      BY <2>1 DEF Metas
    <3> QED
      BY <2>1, <3>1, <3>2 DEF Metas
  <2>3. meta[m.uid] = m.meta => Writes(m.uid, new)
    BY <2>1, <2>2, SentinelAssumption DEF Writes
  <2> QED
    BY <1>1, <2>1, <2>2, <2>3 DEF MetaMoves
<1>2. CASE MImport
  <2>1. PICK i \in Ids :
           /\ m.pc \in {"import", "loaded"}
           /\ \/ meta' = meta
              \/ /\ meta[m.uid] = m.meta
                 /\ meta' = [meta EXCEPT ![m.uid] =
                                [m.meta EXCEPT !.id = i, !.spec.addr = Adopted(i)]]
    BY <1>2 DEF MImport, MUnrecorded, MPatchID, PatchAccepted
  <2>2. m.meta \in Metas /\ storage[i] \in Contents \union {NoObj}
    BY <2>1 DEF TypeOK, MTypeOK
  <2>3. Adopted(i) \in Addresses
    BY <2>2, AddressOfType DEF Adopted, Metas, Specs
  <2> QED
    BY <1>1, <1>2, <2>1, <2>3 DEF MImport, crVars, caches
<1>3. CASE MRecordID
  <2>1. /\ m.pc = "patchID" /\ m.id \in Ids /\ m.meta \in Metas
        /\ \/ meta' = meta
           \/ /\ meta[m.uid] = m.meta
              /\ meta' = [meta EXCEPT ![m.uid] =
                             [m.meta EXCEPT !.id = m.id, !.spec.addr = m.meta.spec.addr]]
    BY <1>3 DEF MRecordID, MPatchID, PatchAccepted, TypeOK, MTypeOK
  <2>2. m.meta.spec.addr \in Addresses
    BY <2>1 DEF Metas, Specs
  <2> QED
    BY <1>1, <1>3, <2>1, <2>2 DEF MRecordID, crVars, caches
<1> QED
  BY <1>2, <1>3
  DEF MetaMoves, MStep, MRefreshByName, MGetByID, MFindByID, MCreate, MNothingChanged, MUpdate,
      MWriteBack, MStatus

LEMMA MetaMovesStep == TypeOK /\ OrderInv /\ [Next]_vars => MetaMoves
BY XMetaMoves, MMetaMoves
DEF Next, User, vars, UserCreate, UserEdit, UserAnnotate, UserDelete, NetrisDrift, SyncCR,
    SyncMeta, DownloadWithInterval, Crash, XLoad, MLoad, MetaMoves

\* A cache is as it was, or becomes what the API server has; x keeps the CR that it has
\* read, lets go of it, or reads the caches.
CopiesMove ==
    /\ crCache' = crCache \/ (crCache' = cr /\ UNCHANGED <<cr, meta, nextUid>>)
    /\ \A u \in Uids :
          metaCache'[u] = metaCache[u]
          \/ (metaCache'[u] = meta[u] /\ UNCHANGED <<cr, meta, nextUid>>)
    /\ \/ /\ x'.cr = x.cr /\ x'.meta \in {x.meta, NoMeta}
          /\ x'.pc \in {"deleteMeta", "release"} => x.cr.del
       \/ x'.cr = NoCR /\ x'.pc = "idle"
       \/ /\ crCache # NoCR /\ x'.cr = crCache /\ x'.meta = metaCache[crCache.uid]
          /\ x'.pc = "loaded" /\ UNCHANGED <<cr, meta, nextUid, crCache, metaCache>>

LEMMA CopiesStep == TypeOK /\ OrderInv /\ [Next]_vars => CopiesMove
<1> SUFFICES ASSUME TypeOK, OrderInv, [Next]_vars PROVE CopiesMove
  OBVIOUS
<1> DEFINE KeepsX == /\ x'.cr = x.cr /\ x'.meta \in {x.meta, NoMeta}
                     /\ x'.pc \in {"deleteMeta", "release"} => x.cr.del
<1>0. x' = x => KeepsX
  BY DEF OrderInv, XBehind
<1>1. CASE XStep
  <2>1. CASE XPanic
    BY <2>1 DEF XPanic, Restart, XIdle, CopiesMove, crVars
  <2>2. CASE ~XPanic
    <3>1. UNCHANGED caches
      BY <1>1, <2>2
      DEF XStep, XDeleteNetris, XDeleteMeta, XRelease, XFail, XSetAnnotations, XReject,
          XTranslateFails, XSetFinalizer, XCreateMeta, XUpdateMeta, XNothingToDo, XPatchCR,
          XWriteMeta, caches
    <3>2. \/ x' = XIdle \/ XGoto("failed")
          \/ (x.cr.del \/ x.pc = "deleteMeta") /\ \E pc \in {"deleteMeta", "release"} : XGoto(pc)
      BY <1>1, <2>2
      DEF XStep, XDeleteNetris, XDeleteMeta, XRelease, XFail, XSetAnnotations, XReject,
          XTranslateFails, XSetFinalizer, XCreateMeta, XUpdateMeta, XNothingToDo, XPatchCR,
          XWriteMeta, XDone, XLoaded
    <3>3. x' = XIdle \/ KeepsX
      BY <3>2 DEF XGoto, TypeOK, XTypeOK, OrderInv, XBehind
    <3> QED
      BY <3>1, <3>3 DEF XIdle, CopiesMove, caches
  <2> QED
    BY <2>1, <2>2
<1>2. CASE XLoad
  <2>1. \/ x' = x
        \/ /\ crCache # NoCR
           /\ x' = [pc |-> "loaded", cr |-> crCache, meta |-> metaCache[crCache.uid]]
    BY <1>2 DEF XLoad
  <2> QED
    BY <1>0, <1>2, <2>1 DEF XLoad, crVars, caches, CopiesMove
<1>3. CASE Crash
  BY <1>3 DEF Crash, Restart, XIdle, CopiesMove, crVars
<1>4. CASE SyncCR
  BY <1>0, <1>4 DEF SyncCR, CopiesMove, crVars
<1>5. CASE \E u \in Uids : SyncMeta(u)
  <2>1. PICK v \in Uids : SyncMeta(v)
    BY <1>5
  <2>2. \A u \in Uids : metaCache'[u] = IF u = v THEN meta[u] ELSE metaCache[u]
    BY <2>1 DEF SyncMeta, TypeOK
  <2> QED
    BY <1>0, <2>1, <2>2 DEF SyncMeta, CopiesMove, crVars
<1>6. CASE UNCHANGED <<crCache, metaCache, x>>
  BY <1>0, <1>6 DEF CopiesMove
<1> QED
  BY <1>1, <1>2, <1>3, <1>4, <1>5, <1>6
  DEF Next, User, vars, UserCreate, UserEdit, UserAnnotate, UserDelete, NetrisDrift,
      DownloadWithInterval, MLoad, caches, MStep, MImport, MRefreshByName, MGetByID, MFindByID,
      MCreate, MRecordID, MNothingChanged, MUpdate, MWriteBack, MStatus

-----------------------------------------------------------------------------
(* The order of the copies.                                                *)

LEMMA OrderInit == Init => OrderInv
BY DEF Init, OrderInv, Behind, MetaBehind, XBehind, XIdle

\* The numbers that the order is about
LEMMA Numbers ==
    ASSUME TypeOK
    PROVE  /\ nextUid \in Nat
           /\ \A c \in {cr, crCache, x.cr} : c # NoCR => c \in CRs /\ c.uid \in Nat /\ c.gen \in Nat
           /\ \A u \in Uids : \A mt \in {meta[u], metaCache[u], x.meta} :
                 mt # NoMeta => mt \in Metas /\ mt.gen \in Nat
BY BoundAssumption DEF TypeOK, XTypeOK, CRs, Metas

\* A copy that does not change stays behind whatever becomes of the CR.
LEMMA BehindKept ==
    ASSUME TypeOK, TypeOK', OrderInv, CRMoves, NEW c \in CRs \union {NoCR}, Behind(c),
           c # NoCR /\ c.fin /\ ~c.del => ~LetGo
    PROVE  c # NoCR =>
               /\ c.uid < nextUid'
               /\ Alive(c.uid)' => c.gen <= cr'.gen /\ (c.del => cr'.del)
               /\ c.fin /\ ~c.del => Alive(c.uid)' /\ cr'.fin
<1> SUFFICES ASSUME c # NoCR
             PROVE  /\ c.uid < nextUid'
                    /\ Alive(c.uid)' => c.gen <= cr'.gen /\ (c.del => cr'.del)
                    /\ c.fin /\ ~c.del => Alive(c.uid)' /\ cr'.fin
  OBVIOUS
<1>0. /\ nextUid \in Nat /\ c.uid \in Nat /\ c.gen \in Nat
      /\ cr # NoCR => cr.gen \in Nat
      /\ cr' # NoCR => cr'.gen \in Nat
  <2>1. c.uid \in Nat /\ c.gen \in Nat
    BY DEF CRs
  <2>2. (cr # NoCR => cr.gen \in Nat) /\ (cr' # NoCR => cr'.gen \in Nat)
    BY DEF TypeOK, CRs
  <2> QED
    BY <2>1, <2>2, Numbers
<1>1. CASE SameCR
  BY <1>0, <1>1 DEF SameCR, Behind, Alive
<1>2. CASE Born
  BY <1>0, <1>2 DEF Born, Behind, Alive
<1>3. CASE Turned
  BY <1>0, <1>3 DEF Turned, Behind, Alive
<1>4. CASE LetGo
  BY <1>0, <1>4 DEF LetGo, Behind, Alive
<1> QED
  BY <1>1, <1>2, <1>3, <1>4 DEF CRMoves

\* A meta, or a copy of one, that does not change stays behind.
LEMMA MetaKept ==
    ASSUME TypeOK, TypeOK', OrderInv, CRMoves, CopiesMove,
           NEW u \in Uids, NEW mt \in Metas \union {NoMeta}, MetaBehind(u, mt), mt # NoMeta
    PROVE  /\ u < nextUid'
           /\ Alive(u)' => mt.gen <= cr'.gen
           /\ crCache' # NoCR /\ crCache'.uid = u => mt.gen <= crCache'.gen
<1>0. /\ nextUid \in Nat /\ u \in Nat /\ mt.gen \in Nat
      /\ cr # NoCR => cr.gen \in Nat
      /\ cr' # NoCR => cr'.gen \in Nat
  <2>1. (cr # NoCR => cr.gen \in Nat) /\ (cr' # NoCR => cr'.gen \in Nat)
    BY DEF TypeOK, CRs
  <2>2. u \in Nat /\ mt.gen \in Nat
    BY DEF Metas
  <2> QED
    BY <2>1, <2>2, Numbers
<1>1. u < nextUid' /\ (Alive(u)' => mt.gen <= cr'.gen)
  BY <1>0 DEF CRMoves, SameCR, Born, Turned, LetGo, MetaBehind, Alive
<1>2. crCache' # NoCR /\ crCache'.uid = u => mt.gen <= crCache'.gen
  BY DEF CopiesMove, MetaBehind, Alive
<1> QED
  BY <1>1, <1>2

\* The CR that x lets go is marked in every copy.
LEMMA LetGoLate ==
    ASSUME TypeOK, OrderInv, LetGo, NEW c \in {crCache, x.cr}, c # NoCR
    PROVE  ~(c.fin /\ ~c.del)
<1> SUFFICES ASSUME c.fin, ~c.del PROVE FALSE
  OBVIOUS
<1>1. Alive(c.uid) /\ cr.fin
  BY DEF OrderInv, Behind
<1>2. cr.del /\ x.cr = cr
  BY <1>1 DEF LetGo
<1> QED
  BY <1>1, <1>2 DEF Alive, OrderInv, XBehind

LEMMA OrderStep == TypeOK /\ TypeOK' /\ OrderInv /\ [Next]_vars => OrderInv'
<1> SUFFICES ASSUME TypeOK, TypeOK', OrderInv, [Next]_vars PROVE OrderInv'
  OBVIOUS
<1>0. CRMoves /\ MetaMoves /\ CopiesMove
  BY Moves, MetaMovesStep, CopiesStep
<1>1. (cr # NoCR => cr.uid < nextUid)'
  <2>1. cr # NoCR => cr.uid \in Nat
    BY Numbers
  <2> QED
    BY <1>0, <2>1, Numbers DEF OrderInv, CRMoves, SameCR, Born, Turned, LetGo
<1>2. ASSUME NEW c \in {crCache, x.cr}, c # NoCR
      PROVE  /\ c.uid < nextUid'
             /\ Alive(c.uid)' => c.gen <= cr'.gen /\ (c.del => cr'.del)
             /\ c.fin /\ ~c.del => Alive(c.uid)' /\ cr'.fin
  <2>1. c \in CRs \union {NoCR} /\ Behind(c)
    BY DEF OrderInv, TypeOK, XTypeOK
  <2> QED
    BY <1>0, <1>2, <2>1, LetGoLate, BehindKept
<1>3. Behind(crCache)'
  <2>1. CASE crCache' = crCache
    BY <1>2, <2>1 DEF Behind, Alive
  <2>2. CASE crCache' = cr /\ UNCHANGED <<cr, nextUid>>
    BY <2>2, Numbers DEF Behind, Alive, OrderInv
  <2> QED
    BY <1>0, <2>1, <2>2 DEF CopiesMove
<1>4. Behind(x.cr)'
  BY <1>0, <1>2 DEF CopiesMove, Behind, Alive
<1>5. ASSUME NEW u \in Uids PROVE MetaBehind(u, meta[u])'
  <2>0. meta \in [Uids -> Metas \union {NoMeta}] /\ MetaBehind(u, meta[u])
    BY DEF TypeOK, OrderInv
  <2>1. CASE meta'[u] = meta[u]
    BY <1>0, <2>0, <2>1, MetaKept DEF MetaBehind, Alive
  <2>2. CASE meta'[u] # meta[u]
    <3>1. UNCHANGED <<cr, nextUid, crCache, metaCache>> /\ Writes(u, meta'[u])
      BY <1>0, <2>0, <2>2 DEF MetaMoves
    <3>2. meta'[u] # NoMeta /\ OfX(u) /\ meta'[u].gen = x.cr.gen => MetaBehind(u, meta[u])'
      BY <3>1 DEF OrderInv, Behind, XBehind, MetaBehind, OfX, Alive
    <3>3. meta[u] # NoMeta /\ meta'[u].gen = meta[u].gen => MetaBehind(u, meta[u])'
      BY <2>0, <3>1 DEF MetaBehind, Alive
    <3>4. meta'[u] = NoMeta => MetaBehind(u, meta[u])'
      BY DEF MetaBehind
    <3> QED
      BY <3>1, <3>2, <3>3, <3>4 DEF Writes
  <2> QED
    BY <2>1, <2>2
<1>6. ASSUME NEW u \in Uids PROVE MetaBehind(u, metaCache[u])'
  <2>1. /\ metaCache[u] \in Metas \union {NoMeta} /\ MetaBehind(u, metaCache[u])
        /\ meta[u] \in Metas \union {NoMeta} /\ MetaBehind(u, meta[u])
    BY DEF TypeOK, OrderInv
  <2>2. metaCache'[u] = metaCache[u] \/ metaCache'[u] = meta[u]
    BY <1>0 DEF CopiesMove
  <2> QED
    BY <1>0, <2>1, <2>2, MetaKept DEF MetaBehind, Alive
<1>7. XBehind'
  <2>1. CASE x'.cr = x.cr /\ x'.meta \in {x.meta, NoMeta}
               /\ (x'.pc \in {"deleteMeta", "release"} => x.cr.del)
    <3>1. (x.cr # NoCR /\ crCache # NoCR /\ x.cr.uid = crCache.uid
             => x.cr.gen <= crCache.gen /\ (x.cr.del => crCache.del))'
      BY <1>0, <2>1 DEF CopiesMove, OrderInv, XBehind, Behind, Alive
    <3> QED
      BY <2>1, <3>1 DEF OrderInv, XBehind
  <2>2. CASE x'.cr = NoCR /\ x'.pc = "idle"
    BY <2>2 DEF XBehind
  <2>3. CASE /\ crCache # NoCR /\ x'.cr = crCache /\ x'.meta = metaCache[crCache.uid]
             /\ x'.pc = "loaded" /\ UNCHANGED <<cr, meta, nextUid, crCache, metaCache>>
    <3>1. crCache.uid \in Uids /\ crCache.gen \in Nat
      BY <2>3 DEF TypeOK, CRs
    <3>2. MetaBehind(crCache.uid, metaCache[crCache.uid])
      BY <3>1 DEF OrderInv
    <3> QED
      BY <2>3, <3>1, <3>2 DEF XBehind, MetaBehind
  <2> QED
    BY <1>0, <2>1, <2>2, <2>3 DEF CopiesMove
<1> QED
  BY <1>1, <1>3, <1>4, <1>5, <1>6, <1>7 DEF OrderInv

LEMMA Ordered == Spec => []OrderInv
BY OrderInit, OrderStep, TypeCorrect, PTL DEF Spec

-----------------------------------------------------------------------------
(* No meta ahead of its CR, and none taken back.                           *)

\* The invariant, that no meta carries a generation its CR has not reached.
THEOREM GenerationsBehind == Spec => []GenerationNeverAhead
<1>1. OrderInv => GenerationNeverAhead
  BY DEF OrderInv, MetaBehind, GenerationNeverAhead
<1> QED
  BY <1>1, Ordered, PTL

\* The action property, that no write takes a meta back to an older generation.
THEOREM GenerationsOnward == Spec => GenerationNeverRegresses
<1>1. TypeOK /\ OrderInv /\ [Next]_vars =>
        [\A u \in Uids :
            meta[u] # NoMeta /\ meta'[u] # NoMeta => meta[u].gen <= meta'[u].gen]_vars
  <2> SUFFICES ASSUME TypeOK, OrderInv, [Next]_vars,
                      NEW u \in Uids, meta[u] # NoMeta, meta'[u] # NoMeta
               PROVE  meta[u].gen <= meta'[u].gen
    OBVIOUS
  <2>1. meta[u].gen \in Nat /\ meta \in [Uids -> Metas \union {NoMeta}]
    BY Numbers DEF TypeOK
  <2>2. meta'[u] = meta[u] \/ Writes(u, meta'[u])
    BY <2>1, MetaMovesStep DEF MetaMoves
  <2>3. x.cr # NoCR /\ x.meta # NoMeta => x.meta.gen <= x.cr.gen
    BY DEF OrderInv, XBehind
  <2> QED
    BY <2>1, <2>2, <2>3 DEF Writes, OfX
<1> QED
  BY <1>1, Ordered, TypeCorrect, PTL DEF Spec, GenerationNeverRegresses

-----------------------------------------------------------------------------
(* The ledger.                                                             *)

Lives   == [u \in Uids |-> Life(u)]
Entry(u) == IF meta[u] = NoMeta THEN NoMeta ELSE meta[u].id
Entries == [u \in Uids |-> Entry(u)]

LEMMA Becomes ==
    ASSUME Entries' = Entries, NEW u \in Uids, NEW from, NEW to,
           Life(u) = from, Life(u)' = to, \A v \in Uids : v # u => Life(v)' = Life(v)
    PROVE  L!Become(u, from, to)
<1>1. Lives[u] = from /\ Lives' = [Lives EXCEPT ![u] = to]
  BY DEF Lives
<1> QED
  BY <1>1 DEF L!Become, Lives, Entries, Entry

LEMMA EntryWritten ==
    ASSUME Lives' = Lives, NEW u \in Uids, NEW e, Entry(u)' = e,
           \A v \in Uids : v # u => Entry(v)' = Entry(v)
    PROVE  L!Write(u, e)
<1>1. Entries' = [Entries EXCEPT ![u] = e]
  BY DEF Entries
<1> QED
  BY <1>1 DEF L!Write, Lives, Entries, Entry

\* The lives, of a CR that is ordered
LEMMA LifeIs ==
    ASSUME TypeOK, OrderInv, NEW u \in Uids
    PROVE  Life(u) = IF u >= nextUid THEN "unborn"
                     ELSE IF ~Alive(u) THEN "gone"
                     ELSE IF cr.del THEN "doomed"
                     ELSE IF cr.fin THEN "protected" ELSE "open"
<1>1. nextUid \in Nat /\ u \in Nat /\ (Alive(u) => u < nextUid)
  BY Numbers DEF OrderInv, Alive
<1> QED
  BY <1>1 DEF Life

LEMMA RefineInit == Init => L!Init
<1> SUFFICES ASSUME Init PROVE L!Init
  OBVIOUS
<1>1. TypeOK /\ OrderInv
  BY InitType, OrderInit
<1>2. ASSUME NEW u \in Uids PROVE Life(u) = "unborn" /\ Entry(u) = NoMeta
  <2>1. u >= nextUid /\ meta[u] = NoMeta
    BY DEF Init
  <2> QED
    BY <1>1, <2>1, LifeIs DEF Entry
<1> QED
  BY <1>2 DEF L!Init, Entry

LEMMA RefineStep ==
    TypeOK /\ TypeOK' /\ OrderInv /\ OrderInv' /\ [Next]_vars => [L!Next]_(L!vars)
<1> SUFFICES ASSUME TypeOK, TypeOK', OrderInv, OrderInv', [Next]_vars
             PROVE  [L!Next]_(L!vars)
  OBVIOUS
<1>0. CRMoves /\ MetaMoves /\ meta \in [Uids -> Metas \union {NoMeta}]
  BY Moves, MetaMovesStep DEF TypeOK
<1>1. ASSUME NEW u \in Uids
      PROVE  /\ Life(u) = IF u >= nextUid THEN "unborn"
                          ELSE IF ~Alive(u) THEN "gone"
                          ELSE IF cr.del THEN "doomed"
                          ELSE IF cr.fin THEN "protected" ELSE "open"
             /\ Life(u)' = IF u >= nextUid' THEN "unborn"
                           ELSE IF ~Alive(u)' THEN "gone"
                           ELSE IF cr'.del THEN "doomed"
                           ELSE IF cr'.fin THEN "protected" ELSE "open"
  <2>1. /\ nextUid \in Nat /\ u \in Nat /\ nextUid' \in Nat
        /\ Alive(u) => u < nextUid
        /\ Alive(u)' => u < nextUid'
    BY BoundAssumption DEF OrderInv, Alive, TypeOK
  <2> QED
    BY <2>1 DEF Life
<1>2. CASE meta' = meta
  <2>1. Entries' = Entries
    BY <1>2 DEF Entries, Entry
  <2>2. CASE UNCHANGED <<cr, nextUid>>
    BY <1>2, <2>2 DEF L!vars, Life, Alive
  <2>3. nextUid \in Nat /\ (cr # NoCR => cr.uid \in Uids /\ cr.uid < nextUid)
    BY BoundAssumption DEF TypeOK, CRs, OrderInv
  <2>4. CASE SameCR
    <3>1. \A u \in Uids : Life(u)' = Life(u)
      BY <1>1, <2>4 DEF SameCR, Alive
    <3> QED
      BY <2>1, <3>1 DEF L!vars, Entries, Entry
  <2>5. CASE Born
    <3>1. PICK u \in Uids : u = nextUid
      BY <2>3, <2>5, BoundAssumption DEF Born, TypeOK, CRs
    <3>2. Life(u) = "unborn" /\ Life(u)' = "open"
      BY <1>1, <2>3, <2>5, <3>1 DEF Born, Alive
    <3>3. \A v \in Uids : v # u => Life(v)' = Life(v)
      BY <1>1, <2>3, <2>5, <3>1 DEF Born, Alive
    <3>4. L!Create(u)
      BY <2>1, <3>2, <3>3, Becomes DEF L!Create
    <3> QED
      BY <3>4 DEF L!Next
  <2>6. CASE Turned
    <3>1. PICK u \in Uids : u = cr.uid
      BY <2>3, <2>6 DEF Turned
    <3>2. \/ Life(u) = "open" /\ Life(u)' = "protected"
          \/ Life(u) = "protected" /\ Life(u)' = "doomed"
      BY <1>1, <2>3, <2>6, <3>1 DEF Turned, Alive
    <3>3. \A v \in Uids : v # u => Life(v)' = Life(v)
      BY <1>1, <2>6, <3>1 DEF Turned, Alive
    <3>4. L!Protect(u) \/ L!Doom(u)
      BY <2>1, <3>2, <3>3, Becomes DEF L!Protect, L!Doom
    <3> QED
      BY <3>4 DEF L!Next
  <2>7. CASE LetGo
    <3>1. PICK u \in Uids : u = cr.uid
      BY <2>3, <2>7 DEF LetGo
    <3>2. Life(u) \in {"open", "doomed"} /\ Life(u)' = "gone"
      BY <1>1, <2>3, <2>7, <3>1 DEF LetGo, Alive
    <3>3. \A v \in Uids : v # u => Life(v)' = Life(v)
      BY <1>1, <2>7, <3>1 DEF LetGo, Alive
    <3>4. L!Abandon(u) \/ L!Release(u)
      BY <2>1, <3>2, <3>3, Becomes DEF L!Abandon, L!Release
    <3> QED
      BY <3>4 DEF L!Next
  <2> QED
    BY <1>0, <2>4, <2>5, <2>6, <2>7 DEF CRMoves
<1>3. CASE meta' # meta
  <2>1. PICK u \in Uids, mt \in Metas \union {NoMeta} :
           meta' = [meta EXCEPT ![u] = mt] /\ Writes(u, mt)
    BY <1>0, <1>3 DEF MetaMoves
  <2>2. UNCHANGED <<cr, nextUid>>
    BY <1>0, <1>3 DEF MetaMoves
  <2>3. Lives' = Lives
    BY <2>2 DEF Lives, Life, Alive
  <2>4. \A v \in Uids : v # u => Entry(v)' = Entry(v)
    BY <1>0, <2>1 DEF Entry
  <2>5. Entry(u) = (IF meta[u] = NoMeta THEN NoMeta ELSE meta[u].id)
        /\ Entry(u)' = (IF mt = NoMeta THEN NoMeta ELSE mt.id)
    BY <1>0, <2>1 DEF Entry
  <2>6. CASE Entry(u)' = Entry(u)
    <3>1. Entries' = Entries
      BY <2>4, <2>6 DEF Entries
    <3> QED
      BY <2>3, <3>1 DEF L!vars, Lives, Entries, Entry
  <2>7. CASE meta[u] = NoMeta /\ mt # NoMeta /\ mt.id = 0 /\ OfX(u) /\ x.cr.fin /\ ~x.cr.del
    <3>1. Alive(u) /\ cr.fin /\ u < nextUid
      BY <2>7 DEF OfX, OrderInv, Behind
    <3>2. Lives[u] \in {"protected", "doomed"} /\ Entry(u) = NoMeta /\ Entry(u)' = 0
      BY <1>1, <2>5, <2>7, <3>1, Numbers DEF Lives
    <3>3. L!Register(u)
      BY <2>3, <2>4, <3>2, EntryWritten DEF L!Register, Lives, Entry
    <3> QED
      BY <3>3 DEF L!Next
  <2>8. CASE meta[u] # NoMeta /\ mt # NoMeta /\ mt.id \in Ids
    <3>1. meta[u].id # NoMeta /\ Entry(u) # NoMeta /\ Entry(u)' = mt.id
      BY <1>0, <2>5, <2>8, SentinelAssumption DEF Metas
    <3>2. L!Record(u, mt.id)
      BY <2>3, <2>4, <3>1, EntryWritten DEF L!Record, Entry
    <3> QED
      BY <2>8, <3>2 DEF L!Next
  <2>9. CASE mt = NoMeta /\ OfX(u) /\ x.cr.del
    <3>1. u < nextUid /\ (Alive(u) => cr.del)
      BY <2>9 DEF OfX, OrderInv, Behind
    <3>2. Lives[u] \in {"doomed", "gone"} /\ Entry(u)' = NoMeta
      BY <1>1, <2>5, <2>9, <3>1, Numbers DEF Lives
    <3>3. L!Erase(u)
      BY <2>3, <2>4, <3>2, EntryWritten DEF L!Erase, Lives
    <3> QED
      BY <3>3 DEF L!Next
  <2>10. meta[u] # NoMeta /\ mt # NoMeta /\ mt.id = meta[u].id => Entry(u)' = Entry(u)
    BY <2>5
  <2> QED
    BY <2>1, <2>6, <2>7, <2>8, <2>9, <2>10 DEF Writes
<1> QED
  BY <1>2, <1>3

\* The metas implement the ledger: an entry is made under the finalizer only, an id that is
\* written is never lost, and an entry goes only for a CR that the user has deleted.
THEOREM ImplementsLedger == Spec => KeepsLedger
BY RefineInit, RefineStep, Ordered, TypeCorrect, PTL DEF Spec, KeepsLedger, L!Spec

=============================================================================
