-------------------------- MODULE LBWatcherProofs --------------------------
(***************************************************************************)
(* The type invariant of module LBWatcher, and that Netris chooses one     *)
(* address for all the ports of a Service.                                 *)
(***************************************************************************)
EXTENDS LBWatcher, TLAPS

Svcs == SvcType \union {NoService, Gone}

\* What the watcher holds of the Services, and what it will publish, has a type of its own:
\* a pass writes it back in a later step.
WatcherOK ==
    w \in [pc : {"idle", "services", "pods", "apply"}, list : [Names -> LBType \union {NoLB}],
           svcs : [Services -> Svcs], want : [Names -> LBType \union {NoLB}],
           show : [Services -> SUBSET Frontends], todo : SUBSET Names,
           publish : SUBSET Services]

ServicesOK ==
    /\ svc \in [Services -> Svcs]
    /\ \A s \in Services : Exists(s) =>
          [ports |-> svc[s].ports, static |-> svc[s].static] \in Wishes

CRsOK == lb \in [Names -> LBType \union {NoLB}] /\ edited \subseteq Names

MetasOK ==
    /\ meta \in [Names -> MetaType \union {NoMeta}]
    /\ vip \in [Names -> Frontends]
    /\ stray \in [Names -> SUBSET Addrs]
    /\ m \in ReplyType \union {MIdle}
    /\ m # MIdle => meta[m.of] # NoMeta /\ vip[m.of] = None /\ m.ip \in stray[m.of]

PodsOK == pods \in [Services -> Placements \union {{}}]
LeftOK == left \in [Disturbances -> Nat]

TypeInv == WatcherOK /\ ServicesOK /\ CRsOK /\ MetasOK /\ PodsOK /\ LeftOK

LEMMA Implies == TypeInv => TypeOK
<1> SUFFICES ASSUME TypeInv PROVE TypeOK
  OBVIOUS
<1>1. \A s \in Services : Exists(s) =>
         /\ svc[s].ingress \subseteq Frontends
         /\ [ports |-> svc[s].ports, static |-> svc[s].static] \in Wishes
  BY DEF TypeInv, ServicesOK, Svcs, SvcType, Exists
<1> QED
  BY <1>1 DEF TypeInv, WatcherOK, CRsOK, MetasOK, PodsOK, LeftOK, TypeOK

LEMMA InitType == Init => TypeInv
<1> SUFFICES ASSUME Init PROVE TypeInv
  OBVIOUS
<1>1. WIdle \in [pc : {"idle", "services", "pods", "apply"}, list : [Names -> LBType \union {NoLB}],
                 svcs : [Services -> Svcs], want : [Names -> LBType \union {NoLB}],
                 show : [Services -> SUBSET Frontends], todo : SUBSET Names,
                 publish : SUBSET Services]
  BY DEF WIdle, NoLBs, NoSvcs, Svcs
<1>2. WatcherOK /\ PodsOK /\ LeftOK
  BY <1>1, BudgetAssumption DEF Init, WatcherOK, PodsOK, LeftOK
<1>3. ServicesOK
  BY DEF Init, NoSvcs, ServicesOK, Svcs, Exists
<1>4. CRsOK /\ MetasOK
  BY DEF Init, NoLBs, CRsOK, MetasOK, Frontends
<1> QED
  BY <1>2, <1>3, <1>4 DEF TypeInv

LEMMA LeftType == ASSUME LeftOK, NEW d \in Disturbances, Spend(d) PROVE LeftOK'
<1>1. \A e \in Disturbances : e \in {d, "any"} => left[e] - 1 \in Nat
  BY DEF LeftOK, Spend
<1> QED
  BY <1>1 DEF LeftOK, Spend

LEMMA CallType == ASSUME LeftOK, Answered \/ Failed PROVE LeftOK'
BY LeftType DEF Answered, Failed, LeftOK, Disturbances

-----------------------------------------------------------------------------
(* The user, the cluster and the L4LB reconcilers.                         *)

LEMMA DeletedType ==
    ASSUME CRsOK, NEW n \in Names, lb[n] # NoLB, Deleted(n)
    PROVE  CRsOK'
<1>1. CASE lb' = [lb EXCEPT ![n].del = TRUE]
  <2>1. [lb[n] EXCEPT !.del = TRUE] \in LBType
    BY DEF CRsOK, LBType
  <2>2. lb' = [lb EXCEPT ![n] = [lb[n] EXCEPT !.del = TRUE]]
    BY <1>1
  <2> QED
    BY <2>1, <2>2 DEF CRsOK, Deleted
<1>2. CASE ~HasFinalizer(n) /\ lb' = [lb EXCEPT ![n] = NoLB]
  BY <1>2 DEF CRsOK, Deleted
<1> QED
  BY <1>1, <1>2 DEF Deleted

LEMMA UserType ==
    ASSUME TypeInv, (\E s \in Services : UserCreate(s)) \/ UserEdit \/ UserRemove
    PROVE  TypeInv'
<1>1. CASE \E s \in Services : UserCreate(s)
  <2>1. PICK s \in Services, wish \in Wishes, hosts \in Placements :
           /\ svc' = [svc EXCEPT ![s] = [ports |-> wish.ports, static |-> wish.static,
                                         ingress |-> {}]]
           /\ pods' = [pods EXCEPT ![s] = hosts]
    BY <1>1 DEF UserCreate
  <2>2. wish.ports \in Seq(Ports) /\ wish.static \in Frontends
        /\ [ports |-> wish.ports, static |-> wish.static] = wish
    BY WishAssumption DEF WishType
  <2>3. ServicesOK'
    BY <2>1, <2>2 DEF TypeInv, ServicesOK, Svcs, SvcType, Exists
  <2>4. PodsOK'
    BY <2>1 DEF TypeInv, PodsOK
  <2>5. WatcherOK' /\ CRsOK' /\ MetasOK' /\ LeftOK'
    BY <1>1 DEF UserCreate, TypeInv, WatcherOK, CRsOK, MetasOK, LeftOK, lbVars, crVars, metaVars
  <2> QED
    BY <2>3, <2>4, <2>5 DEF TypeInv
<1>2. CASE UserEdit
  <2>1. PICK s \in Services, wish \in Wishes :
           Exists(s) /\ svc' = [svc EXCEPT ![s].ports = wish.ports, ![s].static = wish.static]
    BY <1>2 DEF UserEdit
  <2>2. wish.ports \in Seq(Ports) /\ wish.static \in Frontends
        /\ [ports |-> wish.ports, static |-> wish.static] = wish
    BY WishAssumption DEF WishType
  <2>3. svc[s] \in SvcType /\ svc \in [Services -> Svcs]
    BY <2>1 DEF TypeInv, ServicesOK, Svcs, Exists
  <2> DEFINE new == [svc[s] EXCEPT !.ports = wish.ports, !.static = wish.static]
  <2>4. new \in SvcType /\ new.ports = wish.ports /\ new.static = wish.static
    BY <2>2, <2>3 DEF SvcType
  <2>5. svc' = [svc EXCEPT ![s] = new]
    BY <2>1, <2>3
  <2>6. ServicesOK'
    BY <2>2, <2>3, <2>4, <2>5 DEF TypeInv, ServicesOK, Svcs, Exists
  <2>7. WatcherOK' /\ CRsOK' /\ MetasOK' /\ PodsOK'
    BY <1>2 DEF UserEdit, TypeInv, WatcherOK, CRsOK, MetasOK, PodsOK, lbVars, crVars, metaVars
  <2>8. LeftOK'
    BY <1>2, LeftType DEF UserEdit, TypeInv, Disturbances
  <2> QED
    BY <2>6, <2>7, <2>8 DEF TypeInv
<1>3. CASE UserRemove
  <2>1. ServicesOK'
    BY <1>3 DEF UserRemove, TypeInv, ServicesOK, Svcs, Exists
  <2>2. WatcherOK' /\ CRsOK' /\ MetasOK' /\ PodsOK'
    BY <1>3 DEF UserRemove, TypeInv, WatcherOK, CRsOK, MetasOK, PodsOK, lbVars, crVars, metaVars
  <2>3. LeftOK'
    BY <1>3, LeftType DEF UserRemove, TypeInv, Disturbances
  <2> QED
    BY <2>1, <2>2, <2>3 DEF TypeInv
<1> QED
  BY <1>1, <1>2, <1>3

LEMMA ClusterType == ASSUME TypeInv, PodsMove \/ LBDrift PROVE TypeInv'
<1>1. CASE PodsMove
  <2>1. PodsOK' /\ WatcherOK' /\ CRsOK' /\ MetasOK' /\ ServicesOK'
    BY <1>1 DEF PodsMove, TypeInv, PodsOK, WatcherOK, CRsOK, MetasOK, ServicesOK, Exists,
                lbVars, crVars, metaVars
  <2>2. LeftOK'
    BY <1>1, LeftType DEF PodsMove, TypeInv, Disturbances
  <2> QED
    BY <2>1, <2>2 DEF TypeInv
<1>2. CASE LBDrift
  <2>1. PodsOK' /\ WatcherOK' /\ ServicesOK' /\ MetasOK'
    BY <1>2 DEF LBDrift, TypeInv, PodsOK, WatcherOK, ServicesOK, MetasOK, Exists, metaVars
  <2>2. CRsOK'
    BY <1>2, DeletedType DEF LBDrift, TypeInv
  <2>3. LeftOK'
    BY <1>2, LeftType DEF LBDrift, TypeInv, Disturbances
  <2> QED
    BY <2>1, <2>2, <2>3 DEF TypeInv
<1> QED
  BY <1>1, <1>2

LEMMA CRStepType == ASSUME TypeInv, NEW n \in Names, CRStep(n) PROVE TypeInv'
<1>1. WatcherOK' /\ ServicesOK' /\ PodsOK' /\ LeftOK'
  BY DEF CRStep, Translate, DeleteMeta, Release, TypeInv, WatcherOK, ServicesOK, PodsOK, LeftOK,
         Exists
<1>2. CRsOK /\ MetasOK
  BY DEF TypeInv
<1>3. ASSUME Outdates(n)
      PROVE  /\ m' \in ReplyType \union {MIdle}
             /\ m' # MIdle => m # MIdle /\ m'.of = m.of /\ m'.ip = m.ip
  BY <1>2, <1>3 DEF Outdates, MetasOK, ReplyType
<1>4. CASE Translate(n)
  <2>1. [ip |-> lb[n].ip, del |-> FALSE] \in MetaType
    BY <1>2, <1>4 DEF Translate, CRsOK, LBType, MetaType
  <2> QED
    BY <1>1, <1>2, <1>3, <1>4, <2>1, SentinelAssumption
    DEF Translate, TypeInv, CRsOK, MetasOK, ReplyType
<1>5. CASE DeleteMeta(n)
  <2> DEFINE new == [meta[n] EXCEPT !.del = TRUE]
  <2>1. new \in MetaType /\ new # NoMeta
    BY <1>2, <1>5, SentinelAssumption DEF DeleteMeta, MetasOK, MetaType
  <2>2. meta' = [meta EXCEPT ![n] = new] /\ UNCHANGED <<lb, edited, vip, stray>> /\ Outdates(n)
    BY <1>5 DEF DeleteMeta, crVars
  <2> HIDE DEF new
  <2>3. MetasOK'
    BY <1>2, <1>3, <2>1, <2>2 DEF MetasOK, ReplyType
  <2> QED
    BY <1>1, <1>2, <2>2, <2>3 DEF TypeInv, CRsOK
<1>6. CASE Release(n)
  BY <1>1, <1>2, <1>6 DEF Release, TypeInv, CRsOK, MetasOK, metaVars
<1> QED
  BY <1>4, <1>5, <1>6 DEF CRStep

LEMMA MetaStepType == ASSUME TypeInv, NEW n \in Names, MetaStep(n) PROVE TypeInv'
<1>1. WatcherOK' /\ ServicesOK' /\ PodsOK'
  BY DEF MetaStep, MImport, MCreate, MUpdate, MReport, MDelete, TypeInv, WatcherOK, ServicesOK,
         PodsOK, Exists
<1>2. CRsOK /\ MetasOK
  BY DEF TypeInv
<1>3. CASE MImport(n)
  <2>1. PICK a \in stray[n] : /\ meta' = [meta EXCEPT ![n].ip = a]
                              /\ vip' = [vip EXCEPT ![n] = a]
                              /\ stray' = [stray EXCEPT ![n] = stray[n] \ {a}]
    BY <1>3 DEF MImport
  <2>2. a \in Addrs /\ [meta[n] EXCEPT !.ip = a] \in MetaType
    BY <1>2, <1>3 DEF MImport, Reconciled, MetasOK, MetaType, Frontends
  <2>3. meta' = [meta EXCEPT ![n] = [meta[n] EXCEPT !.ip = a]]
    BY <2>1
  <2> QED
    BY <1>1, <1>2, <1>3, <2>1, <2>2, <2>3
    DEF MImport, Reconciled, TypeInv, CRsOK, MetasOK, LeftOK, Frontends, crVars
<1>4. CASE MCreate(n)
  <2>1. PICK a \in Chosen(n) : /\ stray' = [stray EXCEPT ![n] = stray[n] \union {a}]
                               /\ m' = [of |-> n, ip |-> a, current |-> TRUE]
    BY <1>4 DEF MCreate
  <2>2. meta[n] \in MetaType /\ meta[n] # NoMeta
    BY <1>2, <1>4 DEF MCreate, Reconciled, MetasOK
  <2>3. a \in Addrs
    BY <2>1, <2>2 DEF Chosen, MetaType, Frontends
  <2>4. m' \in ReplyType /\ m'.of = n /\ m'.ip = a
    BY <2>1, <2>3 DEF ReplyType
  <2>5. stray' \in [Names -> SUBSET Addrs] /\ a \in stray'[n]
    BY <1>2, <2>1, <2>3 DEF MetasOK
  <2>6. MetasOK'
    BY <1>2, <1>4, <2>2, <2>4, <2>5 DEF MCreate, MetasOK
  <2>7. CRsOK' /\ LeftOK'
    BY <1>2, <1>4, LeftType DEF MCreate, CRsOK, crVars, TypeInv, LeftOK, Answered, Disturbances
  <2> QED
    BY <1>1, <2>6, <2>7 DEF TypeInv
<1>5. CASE MUpdate(n)
  <2>1. meta[n].ip \in Frontends
    BY <1>2, <1>5 DEF MUpdate, Reconciled, MetasOK, MetaType
  <2> QED
    BY <1>1, <1>2, <1>5, <2>1
    DEF MUpdate, Reconciled, TypeInv, CRsOK, MetasOK, LeftOK, crVars
<1>6. CASE MReport(n)
  <2>1. Reported(n) \in Frontends
    BY <1>2, <1>6 DEF MReport, Reconciled, Reported, MetasOK, MetaType
  <2>2. [lb[n] EXCEPT !.ip = Reported(n)] \in LBType
    BY <1>2, <1>6, <2>1 DEF MReport, Reconciled, CRsOK, LBType
  <2>3. lb' = [lb EXCEPT ![n] = [lb[n] EXCEPT !.ip = Reported(n)]]
    BY <1>6 DEF MReport
  <2> QED
    BY <1>1, <1>2, <1>6, <2>2, <2>3 DEF MReport, TypeInv, CRsOK, MetasOK, LeftOK, metaVars
<1>7. CASE MDelete(n)
  BY <1>1, <1>2, <1>7 DEF MDelete, TypeInv, CRsOK, MetasOK, LeftOK, Frontends, crVars
<1> QED
  BY <1>3, <1>4, <1>5, <1>6, <1>7 DEF MetaStep

LEMMA RecordType == ASSUME TypeInv, MRecord PROVE TypeInv'
<1>1. WatcherOK' /\ ServicesOK' /\ PodsOK' /\ CRsOK'
  BY DEF MRecord, TypeInv, WatcherOK, ServicesOK, PodsOK, CRsOK, crVars, Exists
<1>2. LeftOK'
  BY CallType DEF MRecord, TypeInv, Answered, LeftOK
<1>3. MetasOK /\ m \in ReplyType /\ m # MIdle
  BY DEF MRecord, TypeInv, MetasOK
<1>4. m.of \in Names /\ m.ip \in Addrs /\ meta[m.of] \in MetaType
  BY <1>3 DEF MetasOK, ReplyType
<1>5. [meta[m.of] EXCEPT !.ip = m.ip] \in MetaType
  BY <1>4 DEF MetaType, Frontends
<1>6. CASE /\ meta' = [meta EXCEPT ![m.of].ip = m.ip]
           /\ vip' = [vip EXCEPT ![m.of] = m.ip]
           /\ stray' = [stray EXCEPT ![m.of] = stray[m.of] \ {m.ip}]
  <2>1. meta' = [meta EXCEPT ![m.of] = [meta[m.of] EXCEPT !.ip = m.ip]]
    BY <1>6
  <2> QED
    BY <1>1, <1>2, <1>3, <1>4, <1>5, <1>6, <2>1 DEF MRecord, TypeInv, MetasOK, Frontends
<1>7. CASE UNCHANGED <<meta, vip, stray>>
  BY <1>1, <1>2, <1>3, <1>7 DEF MRecord, TypeInv, MetasOK
<1> QED
  BY <1>6, <1>7 DEF MRecord

-----------------------------------------------------------------------------
(* The watcher.                                                            *)

LEMMA ListsType == ASSUME TypeInv, WList \/ WServices \/ WEnd PROVE TypeInv'
<1>1. CRsOK' /\ MetasOK' /\ ServicesOK' /\ PodsOK' /\ LeftOK'
  BY CallType DEF WList, WServices, WEnd, Answered, TypeInv, CRsOK, MetasOK, ServicesOK, PodsOK,
                  Exists, lbVars, crVars, metaVars
<1>2. WIdle \in [pc : {"idle", "services", "pods", "apply"}, list : [Names -> LBType \union {NoLB}],
                 svcs : [Services -> Svcs], want : [Names -> LBType \union {NoLB}],
                 show : [Services -> SUBSET Frontends], todo : SUBSET Names,
                 publish : SUBSET Services]
  BY DEF WIdle, NoLBs, NoSvcs, Svcs
<1>3. WatcherOK'
  <2>1. CASE WList
    BY <2>1 DEF WList, TypeInv, WatcherOK, CRsOK
  <2>2. CASE WServices
    BY <1>2, <2>2 DEF WServices, WDone, TypeInv, WatcherOK, ServicesOK
  <2>3. CASE WEnd
    BY <1>2, <2>3 DEF WEnd, WDone, WatcherOK
  <2> QED
    BY <2>1, <2>2, <2>3
<1> QED
  BY <1>1, <1>3 DEF TypeInv

\* What a pass generates are L4LBs, and what it publishes are addresses it has listed.
LEMMA GenerateType == ASSUME TypeInv, WGenerate PROVE TypeInv'
<1>1. CRsOK' /\ MetasOK' /\ ServicesOK' /\ PodsOK' /\ LeftOK'
  BY CallType DEF WGenerate, TypeInv, CRsOK, MetasOK, ServicesOK, PodsOK, Exists, lbVars, crVars,
                  metaVars
<1>2. CASE WDone
  <2>1. WIdle \in [pc : {"idle", "services", "pods", "apply"},
                   list : [Names -> LBType \union {NoLB}],
                   svcs : [Services -> Svcs], want : [Names -> LBType \union {NoLB}],
                   show : [Services -> SUBSET Frontends], todo : SUBSET Names,
                   publish : SUBSET Services]
    BY DEF WIdle, NoLBs, NoSvcs, Svcs
  <2> QED
    BY <1>1, <1>2, <2>1 DEF WDone, TypeInv, WatcherOK
<1>3. CASE ~WDone
  <2>1. PICK auto \in [Services -> Frontends], inherit \in [Services -> Frontends],
             site \in Sites :
          w' = [w EXCEPT
                  !.pc = "apply", !.svcs = NoSvcs, !.todo = Names,
                  !.want = [n \in Names |->
                               IF n \in Generated(pods, auto)
                               THEN [ip |-> IF n \in Listed
                                            THEN FrontendOf(w.svcs[n[1]], auto[n[1]])
                                            ELSE inherit[n[1]],
                                     backend |-> pods[n[1]], site |-> site, del |-> FALSE]
                               ELSE NoLB],
                  !.show = [s \in Services |-> IF s \in Served(pods)
                                               THEN Actual(s, Generated(pods, auto)) ELSE {}],
                  !.publish = {s \in Served(pods) :
                                  Published(w.svcs[s]) # Actual(s, Generated(pods, auto))}]
    BY <1>3 DEF WGenerate
  <2> DEFINE gen == Generated(pods, auto)
  <2>2. ASSUME NEW n \in gen
        PROVE  /\ FrontendOf(w.svcs[n[1]], auto[n[1]]) \in Frontends
               /\ inherit[n[1]] \in Frontends /\ pods[n[1]] \in SUBSET Hosts
    <3>1. n[1] \in Services /\ w.svcs[n[1]] \in SvcType
      BY <2>2 DEF Generated, Served, Names, TypeInv, WatcherOK, Svcs
    <3>2. pods[n[1]] \in SUBSET Hosts
      BY <3>1, HostAssumption DEF TypeInv, PodsOK
    <3> QED
      BY <3>1, <3>2 DEF FrontendOf, SvcType
  <2>3. \A s \in Services : Actual(s, gen) \in SUBSET Frontends
    BY DEF Actual, Listed, Of, TypeInv, WatcherOK, LBType
  <2>4. [n \in Names |-> IF n \in gen
                         THEN [ip |-> IF n \in Listed
                                      THEN FrontendOf(w.svcs[n[1]], auto[n[1]])
                                      ELSE inherit[n[1]],
                               backend |-> pods[n[1]], site |-> site, del |-> FALSE]
                         ELSE NoLB] \in [Names -> LBType \union {NoLB}]
    BY <2>2 DEF LBType
  <2>5. [s \in Services |-> IF s \in Served(pods) THEN Actual(s, gen) ELSE {}]
          \in [Services -> SUBSET Frontends]
    BY <2>3
  <2>6. NoSvcs \in [Services -> Svcs] /\ Served(pods) \subseteq Services
    BY DEF NoSvcs, Svcs, Served
  <2>7. WatcherOK'
    BY <2>1, <2>4, <2>5, <2>6 DEF TypeInv, WatcherOK
  <2> QED
    BY <1>1, <2>7 DEF TypeInv
<1> QED
  BY <1>2, <1>3

\* A call for one L4LB, with what it does to the L4LBs left out
LEMMA ForLBType ==
    ASSUME TypeInv, NEW n \in Names, w' = [w EXCEPT !.todo = w.todo \ {n}],
           UNCHANGED <<svc, pods, metaVars>>, Answered \/ Failed, CRsOK'
    PROVE  TypeInv'
<1>1. WatcherOK' /\ ServicesOK' /\ MetasOK' /\ PodsOK' /\ LeftOK'
  BY CallType DEF TypeInv, WatcherOK, ServicesOK, MetasOK, PodsOK, Exists, metaVars
<1> QED
  BY <1>1 DEF TypeInv

LEMMA ApplyType == ASSUME TypeInv, WDelete \/ WUpdate \/ WCreate PROVE TypeInv'
<1>1. CRsOK /\ w.list \in [Names -> LBType \union {NoLB}]
      /\ w.want \in [Names -> LBType \union {NoLB}] /\ w.todo \subseteq Names
  BY DEF TypeInv, WatcherOK
<1>2. UNCHANGED crVars => CRsOK'
  BY <1>1 DEF CRsOK, crVars
<1>3. CASE WDelete
  <2>1. PICK n \in Names : ForLB(n, IF lb[n] = NoLB THEN UNCHANGED crVars ELSE Deleted(n))
    BY <1>1, <1>3 DEF WDelete, ToDelete
  <2>2. CRsOK'
    BY <1>1, <1>2, <2>1, DeletedType DEF ForLB
  <2> QED
    BY <2>1, <2>2, ForLBType DEF ForLB
<1>4. CASE WUpdate
  <2>1. PICK n \in Names :
          /\ ForLB(n, IF lb[n] # w.list[n] THEN UNCHANGED crVars
                      ELSE /\ lb' = [lb EXCEPT ![n].ip = w.want[n].ip,
                                               ![n].backend = w.want[n].backend]
                           /\ edited' = edited \union {n})
          /\ w.list[n] # NoLB /\ w.want[n] # NoLB
    BY <1>1, <1>4 DEF WUpdate, ToUpdate, ForUpdate, Listed
  <2>2. ASSUME lb' = [lb EXCEPT ![n].ip = w.want[n].ip, ![n].backend = w.want[n].backend],
               lb[n] = w.list[n], edited' = edited \union {n}
        PROVE  CRsOK'
    <3>1. lb[n] \in LBType /\ w.want[n] \in LBType
      BY <1>1, <2>1, <2>2
    <3> DEFINE new == [lb[n] EXCEPT !.ip = w.want[n].ip, !.backend = w.want[n].backend]
    <3>2. new \in LBType
      BY <3>1 DEF LBType
    <3>3. lb' = [lb EXCEPT ![n] = new]
      BY <1>1, <2>2, <3>1 DEF CRsOK
    <3> QED
      BY <1>1, <2>2, <3>2, <3>3 DEF CRsOK
  <2>3. CRsOK'
    BY <1>2, <2>1, <2>2 DEF ForLB
  <2> QED
    BY <2>1, <2>3, ForLBType DEF ForLB
<1>5. CASE WCreate
  <2>1. PICK n \in Names :
          /\ ForLB(n, IF lb[n] # NoLB THEN UNCHANGED crVars
                      ELSE lb' = [lb EXCEPT ![n] = w.want[n]] /\ edited' = edited \ {n})
          /\ w.want[n] # NoLB
    BY <1>1, <1>5 DEF WCreate, ToCreate, ForCreate, Listed
  <2>2. lb' = [lb EXCEPT ![n] = w.want[n]] /\ edited' = edited \ {n} => CRsOK'
    BY <1>1, <2>1 DEF CRsOK
  <2>3. CRsOK'
    BY <1>2, <2>1, <2>2 DEF ForLB
  <2> QED
    BY <2>1, <2>3, ForLBType DEF ForLB
<1> QED
  BY <1>3, <1>4, <1>5

LEMMA IngressType == ASSUME TypeInv, WAssignIngress PROVE TypeInv'
<1>1. PICK s \in w.publish :
        /\ w' = [w EXCEPT !.publish = w.publish \ {s}]
        /\ svc' = svc \/ (Exists(s) /\ svc' = [svc EXCEPT ![s].ingress = w.show[s]])
  BY DEF WAssignIngress
<1>2. /\ UNCHANGED <<pods, lbVars>> /\ (Answered \/ Failed)
      /\ s \in Services /\ w.show[s] \in SUBSET Frontends /\ svc \in [Services -> Svcs]
  BY <1>1 DEF WAssignIngress, TypeInv, WatcherOK, ServicesOK
<1>3. WatcherOK' /\ CRsOK' /\ MetasOK' /\ PodsOK' /\ LeftOK'
  BY <1>1, <1>2, CallType
  DEF TypeInv, WatcherOK, CRsOK, MetasOK, PodsOK, lbVars, crVars, metaVars
<1>4. CASE svc' = svc
  BY <1>3, <1>4 DEF TypeInv, ServicesOK, Exists
<1>5. CASE Exists(s) /\ svc' = [svc EXCEPT ![s].ingress = w.show[s]]
  <2> DEFINE new == [svc[s] EXCEPT !.ingress = w.show[s]]
  <2>1. svc[s] \in SvcType
    BY <1>2, <1>5 DEF Exists, Svcs
  <2>2. new \in SvcType /\ new.ports = svc[s].ports /\ new.static = svc[s].static
    BY <1>2, <2>1 DEF SvcType
  <2>3. svc' = [svc EXCEPT ![s] = new]
    BY <1>2, <1>5
  <2>4. [ports |-> svc[s].ports, static |-> svc[s].static] \in Wishes
    BY <1>2, <1>5 DEF TypeInv, ServicesOK
  <2>5. ServicesOK'
    BY <1>2, <2>2, <2>3, <2>4 DEF TypeInv, ServicesOK, Svcs, Exists
  <2> QED
    BY <1>3, <2>5 DEF TypeInv
<1> QED
  BY <1>1, <1>4, <1>5

LEMMA StepType == TypeInv /\ [Next]_vars => TypeInv'
<1>1. CASE UNCHANGED vars
  BY <1>1
  DEF vars, TypeInv, WatcherOK, ServicesOK, CRsOK, MetasOK, PodsOK, LeftOK, Exists
<1> QED
  BY <1>1, UserType, ClusterType, CRStepType, MetaStepType, RecordType, ListsType, GenerateType, ApplyType,
     IngressType
  DEF Next, Cluster, WStep

\* The type invariant: every variable has a value its counterpart in the code can have, and
\* between the create in Netris and the patch of the id the meta reconciler's reply stays good
\* for a meta without an id, whatever the CR reconciler, the watcher and the users do meanwhile.
THEOREM TypeCorrect == Spec => []TypeOK
<1> QED
  BY InitType, StepType, Implies, PTL DEF Spec

-----------------------------------------------------------------------------
(* One address for all the ports of a Service.                             *)
(*                                                                         *)
(* The address that Netris chose is carried from one pass to the next by   *)
(* the L4LBs only.  The invariant says that an L4LB without an address is  *)
(* the only one of its Service, in the API server and in the list of a     *)
(* pass; and relates what a pass wants to the list it has read, and the    *)
(* list to the L4LBs that there are by now.                                *)

Open(l)  == l # NoLB /\ l.ip = None
Fixed(l) == l # NoLB /\ l.ip # None

\* An L4LB without an address is for the first port of an automatic Service.
First(o, n) == o \notin {NoService, Gone} => o.static = None /\ n[2] = o.ports[1]

OpenFirst(copy) == \A n \in Names : Open(copy[n]) => svc[n[1]] # NoService /\ First(svc[n[1]], n)

OpenAlone(copy) ==
    \A n, o \in Names : Open(copy[n]) /\ o[1] = n[1] /\ copy[o] # NoLB => o = n

\* A meta has an L4LB.  One without an address is that of an L4LB without one, or of one that
\* has its address from Netris.
OpenMeta ==
    \A n \in Names : meta[n] # NoMeta =>
        /\ lb[n] # NoLB
        /\ lb[n].ip # None /\ meta[n].ip = None /\ ~meta[n].del => vip[n] # None

\* What the pass has read of a Service is what the Service is still like.
ReadOK ==
    w.pc = "pods" =>
        \A s \in Services : w.svcs[s] \notin {NoService, Gone} =>
            /\ svc[s] # NoService
            /\ Exists(s) => svc[s].static = w.svcs[s].static /\ svc[s].ports = w.svcs[s].ports
            /\ \A n \in Names : n[1] = s /\ Open(w.list[n]) => First(w.svcs[s], n)

\* An L4LB that is not in the list the pass has made itself; and none loses its address.
SeenOK ==
    /\ w.pc # "idle" => \A n \in Names : lb[n] # NoLB =>
          w.list[n] # NoLB \/ (w.pc = "apply" /\ n \notin w.todo /\ w.want[n] # NoLB)
    /\ \A n \in Names : Fixed(w.list[n]) /\ lb[n] # NoLB => Fixed(lb[n])
    /\ \A n \in Names : w.list[n] = NoLB /\ Fixed(w.want[n]) /\ lb[n] # NoLB => Fixed(lb[n])

\* The pass neither takes an address from an L4LB nor gives one to it; one it makes without
\* an address is the only one, and one with an address has none without beside it.
Matched(list, want) ==
    /\ \A n \in Names : list[n] # NoLB /\ want[n] # NoLB =>
          (want[n].ip = None <=> list[n].ip = None)
    /\ \A n, o \in Names : list[n] = NoLB /\ o[1] = n[1] =>
          /\ Open(want[n])  => list[o] = NoLB /\ (want[o] # NoLB => o = n)
          /\ Fixed(want[n]) => ~Open(list[o]) /\ ~Open(want[o])

WantOK ==
    /\ w.pc # "apply" => w.want = NoLBs
    /\ w.pc = "idle" => w.list = NoLBs
    /\ Matched(w.list, w.want)

CopiesOK ==
    /\ OpenAlone(lb) /\ OpenAlone(w.list)
    /\ OpenFirst(lb) /\ OpenFirst(w.list) /\ OpenFirst(w.want)

Unedited == left.edit = Budget.edit

AddressInv ==
    /\ left.edit <= Budget.edit
    /\ Unedited => CopiesOK /\ OpenMeta /\ ReadOK /\ SeenOK /\ WantOK

LEMMA SameName == ASSUME NEW n \in Names, NEW o \in Names, n[1] = o[1], n[2] = o[2] PROVE n = o
BY DEF Names

LEMMA UneditedBefore ==
    ASSUME TypeInv, TypeInv', AddressInv, [Next]_vars
    PROVE  left'.edit <= Budget.edit /\ (Unedited' => Unedited /\ ~UserEdit)
<1>1. left.edit \in Nat /\ left'.edit \in Nat /\ Budget.edit \in Nat
  BY BudgetAssumption DEF TypeInv, LeftOK, Disturbances
<1>2. ASSUME NEW d \in Disturbances, Spend(d)
      PROVE  left'.edit <= left.edit /\ (d = "edit" => left'.edit < left.edit)
  <2>1. left'.edit \in {left.edit, left.edit - 1} /\ (d = "edit" => left'.edit = left.edit - 1)
    BY <1>2 DEF Spend, Disturbances
  <2> QED
    BY <1>1, <2>1
<1>3. UserEdit => left'.edit < left.edit
  BY <1>2 DEF UserEdit, Disturbances
<1>4. left' = left \/ \E d \in Disturbances : Spend(d)
  <2>1. Answered \/ Failed => left' = left \/ \E d \in Disturbances : Spend(d)
    BY DEF Answered, Failed, Disturbances
  <2> QED
    BY <2>1 DEF Next, vars, Cluster, UserCreate, UserEdit, UserRemove, PodsMove, LBDrift, CRStep,
                MetaStep, Translate, DeleteMeta, Release, MImport, MCreate, MRecord, MUpdate,
                MReport, MDelete, WStep, WList, WServices, WGenerate, WDelete, WUpdate, WCreate,
                ForLB, WAssignIngress, WEnd, Disturbances
<1>5. left'.edit <= left.edit
  BY <1>1, <1>2, <1>4
<1> QED
  BY <1>1, <1>3, <1>5 DEF AddressInv, Unedited

\* What any step but an edit leaves of the Services
SvcKeeps ==
    \A s \in Services : svc[s] # NoService =>
        /\ svc'[s] # NoService
        /\ Exists(s)' => Exists(s) /\ svc'[s].static = svc[s].static /\ svc'[s].ports = svc[s].ports

LEMMA SvcStep == ASSUME TypeInv, [Next]_vars, ~UserEdit PROVE SvcKeeps
<1>1. svc \in [Services -> Svcs]
  BY DEF TypeInv, ServicesOK
<1>2. CASE \E s \in Services : UserCreate(s)
  BY <1>1, <1>2 DEF UserCreate, SvcKeeps, Exists
<1>3. CASE UserRemove
  BY <1>1, <1>3, SentinelAssumption DEF UserRemove, SvcKeeps, Exists
<1>4. CASE svc' = svc
  BY <1>4 DEF SvcKeeps, Exists
<1>5. CASE WAssignIngress
  <2>1. PICK s \in w.publish :
          svc' = svc \/ (Exists(s) /\ svc' = [svc EXCEPT ![s].ingress = w.show[s]])
    BY <1>5 DEF WAssignIngress
  <2>2. CASE Exists(s) /\ svc' = [svc EXCEPT ![s].ingress = w.show[s]]
    <3> DEFINE new == [svc[s] EXCEPT !.ingress = w.show[s]]
    <3>1. s \in Services /\ w.show[s] \in SUBSET Frontends
      BY <2>1 DEF TypeInv, WatcherOK
    <3>2. svc[s] \in SvcType
      BY <1>1, <2>2, <3>1 DEF Exists, Svcs
    <3>3. svc' = [svc EXCEPT ![s] = new] /\ new.ports = svc[s].ports
          /\ new.static = svc[s].static
      BY <1>1, <2>2, <3>2 DEF SvcType
    <3>4. svc'[s] \in SvcType
      BY <1>1, <2>2, <3>1, <3>2 DEF SvcType
    <3> QED
      BY <1>1, <2>2, <3>1, <3>3, <3>4, SentinelAssumption DEF SvcKeeps, Exists
  <2> QED
    BY <1>4, <2>1, <2>2
<1> QED
  BY <1>2, <1>3, <1>4, <1>5
  DEF Next, vars, Cluster, PodsMove, LBDrift, CRStep, MetaStep, Translate, DeleteMeta, Release,
      MImport, MCreate, MRecord, MUpdate, MReport, MDelete, WStep, WList, WServices, WGenerate,
      WDelete, WUpdate, WCreate, ForLB, WEnd

\* What any step but a create leaves of the L4LBs: none is new, and none loses its address.
LBKeeps ==
    \A n \in Names : lb'[n] # NoLB => lb[n] # NoLB /\ (Open(lb'[n]) => Open(lb[n]))

LEMMA DeletedKeeps ==
    ASSUME TypeInv, NEW n \in Names, lb[n] # NoLB, Deleted(n), UNCHANGED metaVars, OpenMeta
    PROVE  LBKeeps /\ OpenMeta'
<1>1. lb[n] \in LBType /\ lb \in [Names -> LBType \union {NoLB}] /\ UNCHANGED <<meta, vip>>
  BY DEF TypeInv, CRsOK, metaVars
<1>2. CASE ~HasFinalizer(n) /\ lb' = [lb EXCEPT ![n] = NoLB]
  BY <1>1, <1>2 DEF LBKeeps, Open, OpenMeta, HasFinalizer
<1>3. CASE lb' = [lb EXCEPT ![n].del = TRUE]
  <2> DEFINE new == [lb[n] EXCEPT !.del = TRUE]
  <2>1. lb' = [lb EXCEPT ![n] = new] /\ new.ip = lb[n].ip /\ new \in LBType
    BY <1>1, <1>3 DEF LBType
  <2> QED
    BY <1>1, <2>1, SentinelAssumption DEF LBKeeps, Open, OpenMeta
<1> QED
  BY <1>2, <1>3 DEF Deleted

LEMMA CRStepKeeps ==
    ASSUME TypeInv, NEW n \in Names, CRStep(n), OpenMeta
    PROVE  LBKeeps /\ OpenMeta'
<1>1. /\ lb \in [Names -> LBType \union {NoLB}] /\ meta \in [Names -> MetaType \union {NoMeta}]
  BY DEF TypeInv, CRsOK, MetasOK
<1>2. CASE Translate(n)
  BY <1>1, <1>2 DEF Translate, LBKeeps, Open, OpenMeta
<1>3. CASE DeleteMeta(n)
  <2> DEFINE new == [meta[n] EXCEPT !.del = TRUE]
  <2>1. new.del = TRUE /\ meta' = [meta EXCEPT ![n] = new] /\ UNCHANGED <<lb, vip>>
        /\ lb[n] # NoLB
    BY <1>1, <1>3 DEF DeleteMeta, MetaType, crVars
  <2> HIDE DEF new
  <2> QED
    BY <1>1, <2>1 DEF LBKeeps, Open, OpenMeta
<1>4. CASE Release(n)
  BY <1>1, <1>4 DEF Release, metaVars, LBKeeps, Open, OpenMeta
<1> QED
  BY <1>2, <1>3, <1>4 DEF CRStep

LEMMA MetaStepKeeps ==
    ASSUME TypeInv, NEW n \in Names, MetaStep(n), OpenMeta
    PROVE  LBKeeps /\ OpenMeta'
<1>1. /\ lb \in [Names -> LBType \union {NoLB}] /\ meta \in [Names -> MetaType \union {NoMeta}]
      /\ vip \in [Names -> Frontends] /\ stray \in [Names -> SUBSET Addrs]
  BY DEF TypeInv, CRsOK, MetasOK
<1>2. CASE MImport(n)
  <2>1. PICK a \in stray[n] : meta' = [meta EXCEPT ![n].ip = a] /\ vip' = [vip EXCEPT ![n] = a]
    BY <1>2 DEF MImport
  <2>2. a # None /\ UNCHANGED lb /\ lb[n] # NoLB
    BY <1>1, <1>2, <2>1, SentinelAssumption DEF MImport, Reconciled, crVars
  <2> QED
    BY <1>1, <2>1, <2>2 DEF LBKeeps, OpenMeta
<1>3. CASE MCreate(n)
  BY <1>3 DEF MCreate, LBKeeps, OpenMeta, crVars
<1>4. CASE MUpdate(n)
  BY <1>1, <1>4 DEF MUpdate, LBKeeps, OpenMeta, crVars
<1>5. CASE MReport(n)
  <2>1. lb[n] \in LBType /\ lb[n] # NoLB /\ vip[n] # None /\ Reported(n) # None
    BY <1>1, <1>5 DEF MReport, Reconciled, Reported
  <2> DEFINE new == [lb[n] EXCEPT !.ip = Reported(n)]
  <2>2. lb' = [lb EXCEPT ![n] = new] /\ new.ip # None /\ new # NoLB
    <3>1. new \in [ip : {Reported(n)}, backend : SUBSET Hosts, site : Sites, del : BOOLEAN]
      BY <2>1 DEF LBType
    <3>2. Reported(n) \in Frontends
      BY <1>1, <1>5 DEF MReport, Reconciled, Reported, MetaType
    <3>3. new \in LBType
      BY <3>1, <3>2 DEF LBType
    <3> QED
      BY <1>5, <2>1, <3>1, <3>3, SentinelAssumption DEF MReport
  <2> HIDE DEF new
  <2>3. UNCHANGED <<meta, vip>>
    BY <1>5 DEF MReport, metaVars
  <2> QED
    BY <1>1, <2>1, <2>2, <2>3 DEF LBKeeps, Open, OpenMeta
<1>6. CASE MDelete(n)
  BY <1>1, <1>6 DEF MDelete, LBKeeps, OpenMeta, crVars
<1> QED
  BY <1>2, <1>3, <1>4, <1>5, <1>6 DEF MetaStep

LEMMA RecordKeeps ==
    ASSUME TypeInv, MRecord, OpenMeta
    PROVE  LBKeeps /\ OpenMeta'
<1>1. UNCHANGED lb
  BY DEF MRecord, crVars
<1>2. CASE /\ meta' = [meta EXCEPT ![m.of].ip = m.ip]
           /\ vip' = [vip EXCEPT ![m.of] = m.ip]
  <2>1. /\ meta \in [Names -> MetaType \union {NoMeta}] /\ vip \in [Names -> Frontends]
        /\ m.of \in Names /\ m.ip \in Addrs /\ meta[m.of] # NoMeta
    BY DEF MRecord, TypeInv, MetasOK, ReplyType
  <2>2. m.ip # None
    BY <2>1, SentinelAssumption
  <2> QED
    BY <1>1, <1>2, <2>1, <2>2 DEF LBKeeps, OpenMeta
<1>3. CASE UNCHANGED <<meta, vip>>
  BY <1>1, <1>3 DEF LBKeeps, OpenMeta
<1> QED
  BY <1>2, <1>3 DEF MRecord

\* An update leaves an L4LB with or without an address, as it was.
LEMMA UpdateKeeps ==
    ASSUME TypeInv, WUpdate, OpenMeta, WantOK
    PROVE  LBKeeps /\ OpenMeta'
<1>1. PICK n \in Names :
        /\ ForLB(n, IF lb[n] # w.list[n] THEN UNCHANGED crVars
                    ELSE /\ lb' = [lb EXCEPT ![n].ip = w.want[n].ip,
                                             ![n].backend = w.want[n].backend]
                         /\ edited' = edited \union {n})
        /\ w.list[n] # NoLB /\ w.want[n] # NoLB
  BY DEF WUpdate, ToUpdate, ForUpdate, Listed, TypeInv, WatcherOK
<1>2. /\ lb \in [Names -> LBType \union {NoLB}]
      /\ UNCHANGED <<meta, vip>>
  BY <1>1 DEF TypeInv, CRsOK, ForLB, metaVars
<1>3. CASE lb' = lb
  BY <1>2, <1>3 DEF LBKeeps, OpenMeta, Open
<1>4. CASE lb[n] = w.list[n] /\ lb' = [lb EXCEPT ![n].ip = w.want[n].ip,
                                                 ![n].backend = w.want[n].backend]
  <2> DEFINE new == [lb[n] EXCEPT !.ip = w.want[n].ip, !.backend = w.want[n].backend]
  <2>1. lb[n] \in LBType
    BY <1>1, <1>2, <1>4
  <2>2. lb' = [lb EXCEPT ![n] = new] /\ new.ip = w.want[n].ip /\ new # NoLB
    <3>1. w.want[n] \in LBType
      BY <1>1 DEF TypeInv, WatcherOK
    <3>2. new \in LBType
      BY <2>1, <3>1 DEF LBType
    <3> QED
      BY <1>2, <1>4, <2>1, <3>2, SentinelAssumption DEF LBType
  <2>3. w.want[n].ip = None <=> lb[n].ip = None
    BY <1>1, <1>4 DEF WantOK, Matched
  <2> QED
    BY <1>1, <1>2, <1>4, <2>2, <2>3, SentinelAssumption DEF LBKeeps, OpenMeta, Open
<1> QED
  BY <1>1, <1>3, <1>4 DEF ForLB, crVars

LEMMA LBStep ==
    ASSUME TypeInv, [Next]_vars, ~UserEdit, OpenMeta, WantOK
    PROVE  (LBKeeps /\ OpenMeta') \/ WCreate
<1>1. CASE UNCHANGED <<lb, meta, vip>>
  BY <1>1 DEF LBKeeps, OpenMeta, Open
<1>2. CASE WDelete
  <2>1. PICK n \in Names : ForLB(n, IF lb[n] = NoLB THEN UNCHANGED crVars ELSE Deleted(n))
    BY <1>2 DEF WDelete, ToDelete, TypeInv, WatcherOK
  <2>2. CASE UNCHANGED crVars
    BY <1>1, <2>1, <2>2 DEF ForLB, crVars, metaVars
  <2>3. CASE lb[n] # NoLB /\ Deleted(n)
    BY <2>1, <2>3, DeletedKeeps DEF ForLB
  <2> QED
    BY <2>1, <2>2, <2>3 DEF ForLB
<1>3. CASE LBDrift
  BY <1>3, DeletedKeeps DEF LBDrift
<1>4. CASE \E n \in Names : CRStep(n) \/ MetaStep(n)
  BY <1>4, CRStepKeeps, MetaStepKeeps
<1> QED
  BY <1>1, <1>2, <1>3, <1>4, RecordKeeps, UpdateKeeps
  DEF Next, vars, Cluster, UserCreate, UserRemove, PodsMove, WStep, WList, WServices, WGenerate,
      WAssignIngress, WEnd, lbVars, crVars, metaVars

-----------------------------------------------------------------------------
(* What a pass generates.                                                  *)

\* For the ports of one Service: there is one L4LB without an address, and the pass wants
\* at most it, as it is; or every L4LB has an address, and so has what the pass wants; or there
\* is none, and the pass wants at most the first, without an address.
GeneratedFor(s, list, want, svcs) ==
    \/ \E l \in Names :
          /\ l[1] = s /\ Open(list[l])
          /\ \A n \in Names : n[1] = s =>
                /\ list[n] # NoLB => n = l
                /\ want[n] # NoLB => n = l /\ want[n].ip = None
    \/ \A n \in Names : n[1] = s => ~Open(list[n]) /\ ~Open(want[n])
    \/ \A n \in Names : n[1] = s =>
          /\ list[n] = NoLB
          /\ want[n] # NoLB => /\ want[n].ip = None /\ svcs[s] \notin {NoService, Gone}
                               /\ First(svcs[s], n) /\ n[2] = svcs[s].ports[1]

LEMMA Generates ==
    ASSUME TypeInv, w.pc = "pods", OpenAlone(w.list), ReadOK,
           NEW auto \in [Services -> Frontends], NEW inherit \in [Services -> Frontends],
           NEW want, NEW s \in Services,
           auto[s] \in AutoChoices(s),
           s \in Served(pods) =>
               inherit[s] \in InheritChoices(s, Generated(pods, auto),
                                             FrontendOf(w.svcs[s], auto[s])),
           \A n \in Names : want[n] # NoLB =>
               /\ n \in Generated(pods, auto)
               /\ want[n].ip = IF n \in Listed THEN FrontendOf(w.svcs[n[1]], auto[n[1]])
                               ELSE inherit[n[1]]
    PROVE  GeneratedFor(s, w.list, want, w.svcs)
<1> DEFINE gen == Generated(pods, auto)
           o   == w.svcs[s]
<1>1. \A n \in Names : n[1] = s /\ n \in gen =>
         s \in Served(pods) /\ o \notin {NoService, Gone} /\ n[2] \in PortsOf(o, auto[s])
  BY DEF Generated, Served
<1>2. \A n \in Names : n \in Listed <=> w.list[n] # NoLB
  BY DEF Listed
<1>3. \A n \in Names : n \in Of(s) <=> n[1] = s
  BY DEF Of
<1>4. CASE \E l \in Names : l[1] = s /\ Open(w.list[l])
  <2>1. PICK l \in Names : l[1] = s /\ Open(w.list[l])
    BY <1>4
  <2>2. \A n \in Names : n[1] = s /\ w.list[n] # NoLB => n = l
    BY <2>1 DEF OpenAlone
  <2>3. Of(s) \intersect Listed = {l} /\ w.list[l].ip = None
    BY <1>2, <1>3, <2>1, <2>2 DEF Open, Listed
  <2>4. auto[s] = None
    BY <2>3 DEF AutoChoices
  <2>5. ASSUME NEW n \in Names, n[1] = s, want[n] # NoLB PROVE n = l /\ want[n].ip = None
    <3>1. o.static = None /\ l[2] = o.ports[1]
      BY <1>1, <2>1, <2>5 DEF ReadOK, First
    <3>2. n[2] = o.ports[1]
      BY <1>1, <2>4, <2>5, <3>1 DEF PortsOf
    <3>3. n = l
      BY <2>1, <2>5, <3>1, <3>2, SameName
    <3> QED
      BY <1>2, <2>1, <2>4, <2>5, <3>1, <3>3 DEF FrontendOf, Open
  <2> QED
    BY <2>1, <2>2, <2>5 DEF GeneratedFor
<1>5. CASE /\ \E l \in Names : l[1] = s /\ w.list[l] # NoLB
           /\ \A l \in Names : l[1] = s => ~Open(w.list[l])
  <2>1. \A n \in Of(s) \intersect Listed : w.list[n].ip # None
    BY <1>2, <1>3, <1>5 DEF Open, Listed
  <2>2. auto[s] # None
    BY <1>2, <1>3, <1>5, <2>1 DEF AutoChoices
  <2>3. FrontendOf(o, auto[s]) # None
    BY <2>2 DEF FrontendOf
  <2>4. s \in Served(pods) => inherit[s] # None
    BY <2>1, <2>3 DEF InheritChoices
  <2>5. \A n \in Names : n[1] = s => ~Open(want[n])
    BY <1>1, <2>3, <2>4 DEF Open
  <2> QED
    BY <1>5, <2>5 DEF GeneratedFor
<1>6. CASE \A l \in Names : l[1] = s => w.list[l] = NoLB
  <2>1. Of(s) \intersect Listed = {}
    BY <1>6 DEF Of, Listed
  <2>2. auto[s] = None
    BY <2>1 DEF AutoChoices
  <2>3. s \in Served(pods) => inherit[s] = o.static
    BY <2>1, <2>2 DEF InheritChoices, FrontendOf
  <2>4. \A n \in Names : n[1] = s /\ want[n] # NoLB =>
           n \in gen /\ s \in Served(pods) /\ want[n].ip = o.static
    BY <1>1, <1>2, <1>6, <2>3
  <2>5. CASE o.static = None
    BY <1>1, <1>6, <2>2, <2>4, <2>5 DEF PortsOf, First, GeneratedFor
  <2>6. CASE o.static # None
    BY <1>6, <2>4, <2>6 DEF Open, GeneratedFor
  <2> QED
    BY <2>5, <2>6
<1> QED
  BY <1>4, <1>5, <1>6

LEMMA GeneratesMatched ==
    ASSUME NEW list, NEW want, NEW svcs, OpenAlone(list),
           \A s \in Services : GeneratedFor(s, list, want, svcs)
    PROVE  Matched(list, want)
<1>1. ASSUME NEW n \in Names, NEW o \in Names, o[1] = n[1]
      PROVE  /\ list[n] # NoLB /\ want[n] # NoLB => (want[n].ip = None <=> list[n].ip = None)
             /\ list[n] = NoLB =>
                   /\ Open(want[n])  => list[o] = NoLB /\ (want[o] # NoLB => o = n)
                   /\ Fixed(want[n]) => ~Open(list[o]) /\ ~Open(want[o])
  <2>1. n[1] \in Services /\ GeneratedFor(n[1], list, want, svcs)
    BY DEF Names
  <2>2. CASE \E l \in Names :
          /\ l[1] = n[1] /\ Open(list[l])
          /\ \A k \in Names : k[1] = n[1] =>
                /\ list[k] # NoLB => k = l
                /\ want[k] # NoLB => k = l /\ want[k].ip = None
    BY <1>1, <2>2 DEF Open, Fixed
  <2>3. CASE \A k \in Names : k[1] = n[1] => ~Open(list[k]) /\ ~Open(want[k])
    BY <1>1, <2>3 DEF Open, Fixed
  <2>4. CASE \A k \in Names : k[1] = n[1] =>
          /\ list[k] = NoLB
          /\ want[k] # NoLB => want[k].ip = None /\ k[2] = svcs[n[1]].ports[1]
    BY <1>1, <2>4, SameName DEF Open, Fixed
  <2> QED
    BY <2>1, <2>2, <2>3, <2>4 DEF GeneratedFor
<1> QED
  BY <1>1 DEF Matched

\* What a step leaves of the watcher: it goes on with what it has read and wants, reads the
\* L4LBs or the Services, generates, or ends the pass.
Generating ==
    /\ w.pc = "pods" /\ w'.pc = "apply" /\ w'.list = w.list /\ w'.todo = Names
    /\ UNCHANGED <<svc, lb>>
    /\ \A s \in Services : GeneratedFor(s, w.list, w'.want, w.svcs)

Rests ==
    /\ w'.pc = w.pc
    /\ \/ w.pc \in {"idle", "apply"} /\ w'.todo \subseteq w.todo
       \/ w.pc \in {"services", "pods"}

WMoves ==
    \/ Rests /\ w'.list = w.list /\ w'.want = w.want /\ w'.svcs = w.svcs
    \/ /\ w.pc = "idle" /\ w'.pc = "services" /\ w'.list = lb /\ w'.want = w.want
       /\ UNCHANGED <<svc, lb>>
    \/ /\ w.pc = "services" /\ w'.pc = "pods" /\ w'.list = w.list /\ w'.want = w.want
       /\ w'.svcs = svc /\ UNCHANGED <<svc, lb>>
    \/ Generating
    \/ w' = WIdle /\ UNCHANGED <<svc, lb>>

\* The fields of what a pass has generated
LEMMA GeneratedFields ==
    ASSUME TypeInv, NEW want, NEW show, NEW publish,
           w' = [w EXCEPT !.pc = "apply", !.svcs = NoSvcs, !.todo = Names, !.want = want,
                          !.show = show, !.publish = publish]
    PROVE  w'.pc = "apply" /\ w'.list = w.list /\ w'.todo = Names /\ w'.want = want
BY DEF TypeInv, WatcherOK

LEMMA GenerateMoves ==
    ASSUME TypeInv, WGenerate, OpenAlone(w.list), ReadOK, ~WDone PROVE Generating
<1>1. UNCHANGED <<svc, lb>> /\ w.pc = "pods"
  BY DEF WGenerate, lbVars, crVars
<1>2. PICK auto \in [Services -> Frontends], inherit \in [Services -> Frontends],
           site \in Sites :
        /\ \A s \in Services : auto[s] \in AutoChoices(s)
        /\ \A s \in Services :
             IF s \in Served(pods)
             THEN inherit[s] \in InheritChoices(s, Generated(pods, auto),
                                                FrontendOf(w.svcs[s], auto[s]))
             ELSE inherit[s] = None
        /\ w' = [w EXCEPT
                  !.pc = "apply", !.svcs = NoSvcs, !.todo = Names,
                  !.want = [n \in Names |->
                               IF n \in Generated(pods, auto)
                               THEN [ip |-> IF n \in Listed
                                            THEN FrontendOf(w.svcs[n[1]], auto[n[1]])
                                            ELSE inherit[n[1]],
                                     backend |-> pods[n[1]], site |-> site, del |-> FALSE]
                               ELSE NoLB],
                  !.show = [s \in Services |-> IF s \in Served(pods)
                                               THEN Actual(s, Generated(pods, auto)) ELSE {}],
                  !.publish = {s \in Served(pods) :
                                  Published(w.svcs[s]) # Actual(s, Generated(pods, auto))}]
  BY ZenonT(60) DEF WGenerate
<1> DEFINE want == [n \in Names |->
                       IF n \in Generated(pods, auto)
                       THEN [ip |-> IF n \in Listed
                                    THEN FrontendOf(w.svcs[n[1]], auto[n[1]])
                                    ELSE inherit[n[1]],
                             backend |-> pods[n[1]], site |-> site, del |-> FALSE]
                       ELSE NoLB]
           show == [s \in Services |-> IF s \in Served(pods)
                                       THEN Actual(s, Generated(pods, auto)) ELSE {}]
           publish == {s \in Served(pods) :
                          Published(w.svcs[s]) # Actual(s, Generated(pods, auto))}
<1>3. w' = [w EXCEPT !.pc = "apply", !.svcs = NoSvcs, !.todo = Names, !.want = want,
                     !.show = show, !.publish = publish]
  BY <1>2
<1> HIDE DEF show, publish
<1>4. w'.pc = "apply" /\ w'.list = w.list /\ w'.todo = Names /\ w'.want = want
  <2> HIDE DEF want
  <2> QED
    BY <1>3, GeneratedFields
<1>5. \A n \in Names : w'.want[n] # NoLB =>
         /\ n \in Generated(pods, auto)
         /\ w'.want[n].ip = IF n \in Listed THEN FrontendOf(w.svcs[n[1]], auto[n[1]])
                            ELSE inherit[n[1]]
  BY <1>4
<1>6. ASSUME NEW s \in Services PROVE GeneratedFor(s, w.list, w'.want, w.svcs)
  <2>1. /\ auto[s] \in AutoChoices(s)
        /\ s \in Served(pods) =>
              inherit[s] \in InheritChoices(s, Generated(pods, auto),
                                            FrontendOf(w.svcs[s], auto[s]))
    BY <1>2
  <2> HIDE DEF want
  <2> QED
    BY <1>1, <1>5, <2>1, Generates
<1> QED
  BY <1>1, <1>4, <1>6 DEF Generating

LEMMA WatcherMoves ==
    ASSUME TypeInv, [Next]_vars, OpenAlone(w.list), ReadOK PROVE WMoves
<1>1. CASE w' = w
  BY <1>1 DEF WMoves, Rests, TypeInv, WatcherOK
<1>2. CASE WList
  BY <1>1, <1>2 DEF WList, WMoves, lbVars, crVars, TypeInv, WatcherOK
<1>3. CASE WServices
  BY <1>3 DEF WServices, WDone, WMoves, lbVars, crVars, TypeInv, WatcherOK
<1>4. CASE WGenerate
  BY <1>4, GenerateMoves DEF WGenerate, WDone, WMoves, lbVars, crVars
<1>5. CASE WDelete \/ WUpdate \/ WCreate
  <2>1. w.pc = "apply" /\ \E n : w' = [w EXCEPT !.todo = w.todo \ {n}]
    BY <1>5 DEF WDelete, WUpdate, WCreate, ForLB
  <2> QED
    BY <2>1 DEF WMoves, Rests, TypeInv, WatcherOK
<1>6. CASE WAssignIngress
  <2>1. w.pc = "apply" /\ \E s : w' = [w EXCEPT !.publish = w.publish \ {s}]
    BY <1>6 DEF WAssignIngress, Applied
  <2> QED
    BY <2>1 DEF WMoves, Rests, TypeInv, WatcherOK
<1>7. CASE WEnd
  BY <1>7 DEF WEnd, WDone, WMoves, lbVars, crVars
<1> QED
  BY <1>1, <1>2, <1>3, <1>4, <1>5, <1>6, <1>7
  DEF Next, vars, Cluster, UserCreate, UserEdit, UserRemove, PodsMove, LBDrift, CRStep, MetaStep,
      Translate, DeleteMeta, Release, MImport, MCreate, MRecord, MUpdate, MReport, MDelete, WStep

LEMMA NothingOpen == Matched(NoLBs, NoLBs) /\ OpenAlone(NoLBs) /\ \A n \in Names : NoLBs[n] = NoLB
BY DEF NoLBs, Matched, OpenAlone, Open, Fixed

LEMMA WantStep ==
    ASSUME WMoves, WantOK, OpenAlone(w.list) PROVE WantOK'
<1>1. CASE Rests /\ w'.list = w.list /\ w'.want = w.want
  BY <1>1 DEF Rests, WantOK
<1>2. CASE w.pc = "idle" /\ w'.pc = "services" /\ w'.list = lb /\ w'.want = w.want
  <2>1. w'.want = NoLBs
    BY <1>2 DEF WantOK
  <2>2. Matched(w'.list, NoLBs)
    BY NothingOpen DEF Matched, Open, Fixed
  <2> QED
    BY <1>2, <2>1, <2>2 DEF WantOK
<1>3. CASE w.pc = "services" /\ w'.pc = "pods" /\ w'.list = w.list /\ w'.want = w.want
  BY <1>3 DEF WantOK
<1>4. CASE Generating
  <2>1. Matched(w'.list, w'.want)
    BY <1>4, GeneratesMatched DEF Generating
  <2> QED
    BY <1>4, <2>1 DEF Generating, WantOK
<1>5. CASE w' = WIdle
  BY <1>5, NothingOpen DEF WIdle, WantOK
<1> QED
  BY <1>1, <1>2, <1>3, <1>4, <1>5 DEF WMoves

LEMMA ReadStep ==
    ASSUME TypeInv, WMoves, SvcKeeps, ReadOK, OpenFirst(w.list) PROVE ReadOK'
<1> SUFFICES ASSUME w'.pc = "pods" PROVE ReadOK'
  BY DEF ReadOK
<1>1. CASE w.pc = "pods" /\ w'.list = w.list /\ w'.svcs = w.svcs
  BY <1>1 DEF ReadOK, SvcKeeps
<1>2. CASE w'.list = w.list /\ w'.svcs = svc /\ svc' = svc
  BY <1>2 DEF ReadOK, OpenFirst, Exists
<1> QED
  BY <1>1, <1>2 DEF WMoves, Rests, Generating, WIdle

\* The L4LBs that are made are of the pass: the one that was made is in want.
LEMMA Creates ==
    ASSUME TypeInv, WCreate
    PROVE  \/ lb' = lb
           \/ /\ w.pc = "apply" /\ UNCHANGED <<svc, meta, vip>>
              /\ \E n \in Names :
                    /\ w.list[n] = NoLB /\ w.want[n] # NoLB /\ lb[n] = NoLB
                    /\ lb' = [lb EXCEPT ![n] = w.want[n]] /\ w' = [w EXCEPT !.todo = w.todo \ {n}]
<1>1. PICK n \in Names :
        /\ ForLB(n, IF lb[n] # NoLB THEN UNCHANGED crVars
                    ELSE lb' = [lb EXCEPT ![n] = w.want[n]] /\ edited' = edited \ {n})
        /\ w.want[n] # NoLB /\ w.list[n] = NoLB
  BY DEF WCreate, ToCreate, ForCreate, Listed, TypeInv, WatcherOK
<1> QED
  BY <1>1 DEF WCreate, ForLB, crVars, metaVars

LEMMA CreateStep ==
    ASSUME TypeInv, WCreate, CopiesOK, OpenMeta, SeenOK, WantOK, lb' # lb
    PROVE  OpenAlone(lb)' /\ OpenFirst(lb)' /\ OpenMeta' /\ SeenOK'
<1>1. PICK n \in Names :
        /\ w.list[n] = NoLB /\ w.want[n] # NoLB /\ lb[n] = NoLB
        /\ lb' = [lb EXCEPT ![n] = w.want[n]] /\ w' = [w EXCEPT !.todo = w.todo \ {n}]
  BY Creates
<1>2. w.pc = "apply" /\ UNCHANGED <<svc, meta, vip>>
  BY Creates
<1>3. /\ lb \in [Names -> LBType \union {NoLB}]
      /\ w'.pc = w.pc /\ w'.list = w.list /\ w'.want = w.want /\ w'.todo = w.todo \ {n}
  BY <1>1 DEF TypeInv, CRsOK, WatcherOK
<1>4. \A o \in Names : lb'[o] = IF o = n THEN w.want[n] ELSE lb[o]
  BY <1>1, <1>3
<1>5. ASSUME NEW o \in Names, o[1] = n[1], lb[o] # NoLB
      PROVE  Fixed(w.want[n]) /\ Fixed(lb[o])
  <2>1. o # n /\ (w.list[o] # NoLB \/ w.want[o] # NoLB)
    BY <1>1, <1>2, <1>5 DEF SeenOK
  <2>2. Fixed(w.want[n])
    BY <1>1, <1>5, <2>1 DEF WantOK, Matched, Open, Fixed
  <2>3. ~Open(w.list[o]) /\ ~Open(w.want[o])
    BY <1>1, <1>5, <2>2 DEF WantOK, Matched
  <2> QED
    BY <1>5, <2>1, <2>2, <2>3 DEF SeenOK, Open, Fixed
<1>6. OpenAlone(lb)'
  BY <1>4, <1>5 DEF CopiesOK, OpenAlone, Open, Fixed
<1>7. OpenFirst(lb)'
  BY <1>2, <1>4 DEF CopiesOK, OpenFirst
<1>8. meta[n] = NoMeta
  BY <1>1 DEF OpenMeta
<1>9. OpenMeta'
  BY <1>2, <1>4, <1>8 DEF OpenMeta
<1>10. SeenOK'
  BY <1>1, <1>2, <1>3, <1>4 DEF SeenOK, Fixed
<1> QED
  BY <1>6, <1>7, <1>9, <1>10

LEMMA SeenStep ==
    ASSUME TypeInv, WMoves, SeenOK, WantOK, LBKeeps PROVE SeenOK'
<1>1. CASE Rests /\ w'.list = w.list /\ w'.want = w.want
  BY <1>1 DEF Rests, SeenOK, LBKeeps, Open, Fixed
<1>2. CASE w.pc = "idle" /\ w'.pc = "services" /\ w'.list = lb /\ w'.want = w.want /\ lb' = lb
  <2>1. \A n \in Names : w'.want[n] = NoLB
    BY <1>2, NothingOpen DEF WantOK
  <2> QED
    BY <1>2, <2>1 DEF SeenOK, Fixed
<1>3. CASE /\ w.pc = "services" /\ w'.pc = "pods" /\ w'.list = w.list /\ w'.want = w.want
           /\ lb' = lb
  BY <1>3 DEF SeenOK
<1>4. CASE Generating
  BY <1>4 DEF Generating, SeenOK
<1>5. CASE w' = WIdle
  BY <1>5, NothingOpen DEF WIdle, SeenOK, Fixed
<1> QED
  BY <1>1, <1>2, <1>3, <1>4, <1>5 DEF WMoves

LEMMA FirstStays ==
    ASSUME SvcKeeps, NEW copy, OpenFirst(copy)
    PROVE  \A n \in Names : Open(copy[n]) => svc'[n[1]] # NoService /\ First(svc'[n[1]], n)
<1> SUFFICES ASSUME NEW n \in Names, Open(copy[n])
             PROVE  svc'[n[1]] # NoService /\ First(svc'[n[1]], n)
  OBVIOUS
<1>1. n[1] \in Services /\ svc[n[1]] # NoService /\ First(svc[n[1]], n)
  BY DEF OpenFirst, Names
<1> QED
  BY <1>1 DEF SvcKeeps, First, Exists

LEMMA ListedStep ==
    ASSUME TypeInv, WMoves, SvcKeeps, CopiesOK, ReadOK, WantOK
    PROVE  OpenAlone(w'.list) /\ OpenFirst(w.list)' /\ OpenFirst(w.want)'
<1>1. OpenAlone(w'.list)
  BY NothingOpen DEF WMoves, Generating, WIdle, CopiesOK
<1>2. ASSUME NEW copy \in {lb, w.list, w.want, NoLBs}
      PROVE  \A n \in Names : Open(copy[n]) => svc'[n[1]] # NoService /\ First(svc'[n[1]], n)
  <2>1. CASE copy = NoLBs
    BY <2>1, NothingOpen DEF Open
  <2> QED
    BY <1>2, <2>1, FirstStays DEF CopiesOK
<1>3. OpenFirst(w.list)'
  <2>1. w'.list \in {lb, w.list, NoLBs}
    BY DEF WMoves, Generating, WIdle
  <2> QED
    BY <1>2, <2>1 DEF OpenFirst
<1>4. OpenFirst(w.want)'
  <2>1. CASE w'.want \in {w.want, NoLBs}
    BY <1>2, <2>1 DEF OpenFirst
  <2>2. CASE Generating
    <3> SUFFICES ASSUME NEW n \in Names, Open(w'.want[n])
                 PROVE  svc[n[1]] # NoService /\ First(svc[n[1]], n)
      BY <2>2 DEF Generating, OpenFirst
    <3>1. n[1] \in Services /\ GeneratedFor(n[1], w.list, w'.want, w.svcs)
      BY <2>2 DEF Generating, Names
    <3>2. CASE Open(w.list[n])
      BY <3>2 DEF CopiesOK, OpenFirst
    <3>3. CASE /\ w.svcs[n[1]] \notin {NoService, Gone}
               /\ First(w.svcs[n[1]], n)
      BY <2>2, <3>1, <3>3 DEF Generating, ReadOK, First, Exists
    <3> QED
      BY <3>1, <3>2, <3>3 DEF GeneratedFor, Open
  <2> QED
    BY <2>1, <2>2 DEF WMoves, WIdle
<1> QED
  BY <1>1, <1>3, <1>4

LEMMA AddressInit == Init => AddressInv
<1> SUFFICES ASSUME Init PROVE AddressInv
  OBVIOUS
<1>1. \A n \in Names : ~Open(NoLBs[n]) /\ ~Fixed(NoLBs[n])
  BY NothingOpen DEF Open, Fixed
<1>2. lb = NoLBs /\ w.list = NoLBs /\ w.want = NoLBs /\ w.pc = "idle"
  BY DEF Init, WIdle
<1>3. left.edit <= Budget.edit
  BY BudgetAssumption DEF Init, Disturbances
<1>4. OpenMeta
  BY DEF Init, OpenMeta
<1> QED
  BY <1>1, <1>2, <1>3, <1>4, NothingOpen
  DEF AddressInv, CopiesOK, OpenFirst, ReadOK, SeenOK, WantOK

LEMMA AddressStep == TypeInv /\ TypeInv' /\ AddressInv /\ [Next]_vars => AddressInv'
<1> SUFFICES ASSUME TypeInv, TypeInv', AddressInv, [Next]_vars PROVE AddressInv'
  OBVIOUS
<1>1. left'.edit <= Budget.edit
  BY UneditedBefore
<1>2. ASSUME Unedited' PROVE (CopiesOK /\ OpenMeta /\ ReadOK /\ SeenOK /\ WantOK)'
  <2>1. ~UserEdit /\ CopiesOK /\ OpenMeta /\ ReadOK /\ SeenOK /\ WantOK
    BY <1>2, UneditedBefore DEF AddressInv
  <2>2. WMoves /\ SvcKeeps
    BY <2>1, WatcherMoves, SvcStep DEF CopiesOK
  <2>3. WantOK' /\ ReadOK'
    BY <2>1, <2>2, WantStep, ReadStep DEF CopiesOK
  <2>4. OpenAlone(w'.list) /\ OpenFirst(w.list)' /\ OpenFirst(w.want)'
    BY <2>1, <2>2, ListedStep
  <2>5. OpenAlone(lb)' /\ OpenFirst(lb)' /\ OpenMeta' /\ SeenOK'
    <3>1. CASE LBKeeps /\ OpenMeta'
      <4>1. OpenAlone(lb)'
        BY <2>1, <3>1 DEF CopiesOK, OpenAlone, LBKeeps, Open
      <4>2. OpenFirst(lb)'
        <5>1. \A n \in Names : Open(lb[n]) => svc'[n[1]] # NoService /\ First(svc'[n[1]], n)
          BY <2>1, <2>2, FirstStays DEF CopiesOK
        <5> QED
          BY <3>1, <5>1 DEF OpenFirst, LBKeeps, Open
      <4>3. SeenOK'
        BY <2>1, <2>2, <3>1, SeenStep
      <4> QED
        BY <3>1, <4>1, <4>2, <4>3
    <3>2. CASE WCreate /\ lb' # lb
      BY <2>1, <3>2, CreateStep
    <3>3. CASE WCreate /\ lb' = lb
      <4>1. LBKeeps
        BY <3>3 DEF LBKeeps, Open
      <4>2. OpenMeta'
        BY <2>1, <3>3 DEF WCreate, ForLB, OpenMeta, metaVars
      <4> QED
        BY <3>1, <4>1, <4>2
    <3> QED
      BY <2>1, <3>1, <3>2, <3>3, LBStep
  <2> QED
    BY <2>3, <2>4, <2>5 DEF CopiesOK
<1> QED
  BY <1>1, <1>2 DEF AddressInv

\* What is added in Netris is added by the meta reconciler, for a live meta without an id.
LEMMA AddedByCreate ==
    ASSUME TypeInv, [Next]_vars, NEW n \in Names, stray'[n] \ stray[n] # {}
    PROVE  meta[n] # NoMeta /\ ~meta[n].del /\ vip[n] = None
<1>1. stray \in [Names -> SUBSET Addrs]
  BY DEF TypeInv, MetasOK
<1>2. stray' # stray
  OBVIOUS
<1>3. PICK k \in Names : MCreate(k)
  <2>1. ASSUME NEW k \in Names, MImport(k) PROVE FALSE
    <3>1. PICK a : stray' = [stray EXCEPT ![k] = stray[k] \ {a}]
      BY <2>1 DEF MImport
    <3> QED
      BY <1>1, <3>1
  <2>2. ASSUME MRecord PROVE FALSE
    <3>1. stray' = [stray EXCEPT ![m.of] = stray[m.of] \ {m.ip}]
      BY <1>2, <2>2 DEF MRecord
    <3> QED
      BY <1>1, <3>1
  <2> QED
    BY <1>2, <2>1, <2>2
    DEF Next, vars, Cluster, UserCreate, UserEdit, UserRemove, PodsMove, LBDrift, CRStep, MetaStep,
        Translate, DeleteMeta, Release, MUpdate, MReport, MDelete, WStep, WList, WServices,
        WGenerate, WDelete, WUpdate, WCreate, ForLB, WAssignIngress, WEnd, lbVars, metaVars
<1>4. k = n
  <2>1. PICK a : stray' = [stray EXCEPT ![k] = stray[k] \union {a}]
    BY <1>3 DEF MCreate
  <2> QED
    BY <1>1, <2>1
<1> QED
  BY <1>3, <1>4 DEF MCreate, Reconciled

\* As long as no Service was edited, Netris is asked to choose an address only for an L4LB that
\* has none and is the only one of its Service, whatever calls and imports fail, pods move and
\* L4LBs are deleted: an L4LB is made without an address only when the watcher has seen that
\* there is no other, and never loses the one that was reported to it.
THEOREM AddressChosenOnce == Spec => OneAddress
<1>1. TypeInv /\ [Next]_vars => TypeInv'
  BY StepType
<1>2. TypeInv /\ AddressInv /\ [Next]_vars =>
        \A n \in Names :
          stray'[n] \ stray[n] # {} /\ meta[n].ip = None /\ left.edit = Budget.edit
              => /\ lb[n].ip = None
                 /\ \A o \in Of(n[1]) : lb[o] # NoLB => o = n
  <2> SUFFICES ASSUME TypeInv, AddressInv, [Next]_vars, Unedited, NEW n \in Names,
                      stray'[n] \ stray[n] # {}, meta[n].ip = None
               PROVE  lb[n].ip = None /\ \A o \in Of(n[1]) : lb[o] # NoLB => o = n
    BY DEF Unedited
  <2>1. meta[n] # NoMeta /\ ~meta[n].del /\ vip[n] = None
    BY AddedByCreate
  <2>2. Open(lb[n])
    BY <2>1 DEF AddressInv, OpenMeta, Open
  <2> QED
    BY <2>2 DEF AddressInv, CopiesOK, OpenAlone, Open, Of
<1> QED
  BY <1>1, <1>2, InitType, AddressInit, AddressStep, PTL DEF Spec, OneAddress

=============================================================================
