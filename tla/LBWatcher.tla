----------------------------- MODULE LBWatcher -----------------------------
(***************************************************************************)
(* The load balancer watcher: the loop that makes an L4LB for every port   *)
(* of a Service of type LoadBalancer, and publishes the address it gets in *)
(* the Service's status.                                                   *)
(*                                                                         *)
(* One goroutine runs a pass every ten seconds.  A pass lists the L4LBs,   *)
(* the Services and their pods, compares them, and makes its calls one by  *)
(* one; every call is a step.  The address of an automatic Service is      *)
(* nowhere but in its L4LBs: the first is made without one, Netris chooses *)
(* it, the L4LB reconcilers write it into the L4LB, and the watcher gives  *)
(* it to the Service's other ports.                                        *)
(*                                                                         *)
(* A Service is its UID: one that is made again under the same name is     *)
(* another one.  L4LBs without the watcher's annotations are filtered out  *)
(* of the list (filterL4LBs) and are no part of the model.  A              *)
(* resourceVersion is not kept: an update is accepted exactly when the     *)
(* L4LB still is what the watcher listed.                                  *)
(*                                                                         *)
(* Of the two reconcilers of L4LBs the calls are kept that a frontend's    *)
(* address depends on; a reconciliation that makes one of them is a step.  *)
(* A call of theirs that fails is one not made yet: the next               *)
(* reconciliation makes it.  The create in Netris is the exception, for    *)
(* its answer is needed, and module Cascade has the others.  So it has     *)
(* what informers do to the two (a CR that is let go while the informer    *)
(* lacks its meta, a look-up by id that fails and is taken for an object   *)
(* that is gone): here both read what is there.                            *)
(*                                                                         *)
(* A definition MutF is F with a plausible mistake in it.  No definition   *)
(* uses it; the properties are checked to notice F being replaced by it.   *)
(***************************************************************************)
EXTENDS Naturals, Sequences, Functions

CONSTANTS
    Services,   \* the UIDs of Services, 1 .. n in the order the API server lists them
    Ports,      \* the ports (with their protocol) of Services
    Wishes,     \* what the user may write into a Service: its ports and an address
    Hosts,      \* the addresses of the cluster's nodes
    Placements, \* the sets of hosts that the pods of a Service may run on
    SiteOf,     \* the site of each host, by its subnet in netrisstorage
    Addrs,      \* the addresses Netris has for frontends
    Budget,     \* bound: how many disturbances occur
    None,       \* no address
    NoService, Gone, NoLB, NoMeta, MIdle

\* What is bounded: edits of Services, imports from a netrisstorage that is out of date, and
\* all disturbances together, those two, failed calls, moving pods, and Services and L4LBs
\* that somebody deletes.
Disturbances == {"edit", "stale", "any"}

Names == Services \X Ports
Sites == {SiteOf[h] : h \in Hosts}
Frontends == Addrs \union {None}

WishType == [ports : Seq(Ports), static : Frontends]
SvcType  == [ports : Seq(Ports), static : Frontends, ingress : SUBSET Frontends]

ASSUME ServicesAssumption == Services \subseteq Nat
ASSUME WishAssumption ==
    \A wish \in Wishes : wish \in WishType /\ wish.ports # << >> /\ IsInjective(wish.ports)
ASSUME HostAssumption == SiteOf \in [Hosts -> Sites] /\ Placements \subseteq SUBSET Hosts
ASSUME BudgetAssumption == Budget \in [Disturbances -> Nat]

\* An L4LB: the frontend's address, the hosts of its backends, the site, and the
\* deletion timestamp.
LBType == [ip : Frontends, backend : SUBSET Hosts, site : Sites, del : BOOLEAN]

\* An L4LBMeta: the address that was taken over from the L4LB or from Netris (a meta
\* without one is automatic), and the deletion timestamp.
MetaType == [ip : Frontends, del : BOOLEAN]

\* The meta reconciler between the answer to a create and the patch of the id: the meta's
\* name, the address in the answer, and whether the meta still is the one it has read.
ReplyType == [of : Names, ip : Addrs, current : BOOLEAN]

ASSUME SentinelAssumption ==
    /\ None \notin Addrs /\ NoMeta \notin MetaType /\ NoLB \notin LBType
    /\ MIdle \notin ReplyType
    /\ NoService \notin SvcType \union {Gone} /\ Gone \notin SvcType

VARIABLES
    svc,   \* the Services: what the user wrote, and the addresses in the status
    pods,  \* the hosts that run a Service's pods
    lb,    \* the L4LBs that the watcher made
    edited,\* the L4LBs that have another generation than their meta
    meta,  \* the metas of the L4LBs
    vip,   \* the address of the load balancer whose id a meta holds, None without an id
    stray, \* the addresses of the load balancers of a name whose id no meta holds
    m,     \* the meta reconciler
    w,     \* the watcher, what it has read and what it has to do
    left   \* the disturbances left

vars == <<svc, pods, lb, edited, meta, vip, stray, m, w, left>>
crVars == <<lb, edited>>
metaVars == <<meta, vip, stray, m>>
lbVars == <<crVars, metaVars>>

NoLBs == [n \in Names |-> NoLB]
NoSvcs == [s \in Services |-> NoService]

\* want holds the L4LBs that the pass generated, show the status it has to write.
WIdle == [pc |-> "idle", list |-> NoLBs, svcs |-> NoSvcs, want |-> NoLBs,
          show |-> [s \in Services |-> {}], todo |-> {}, publish |-> {}]

Init ==
    /\ svc = NoSvcs
    /\ pods = [s \in Services |-> {}]
    /\ lb = NoLBs
    /\ edited = {}
    /\ meta = [n \in Names |-> NoMeta]
    /\ vip = [n \in Names |-> None]
    /\ stray = [n \in Names |-> {}]
    /\ m = MIdle
    /\ w = WIdle
    /\ left = Budget

Spend(d) ==
    /\ \A e \in {d, "any"} : left[e] > 0
    /\ left' = [e \in Disturbances |-> IF e \in {d, "any"} THEN left[e] - 1 ELSE left[e]]
Answered == UNCHANGED left
Failed   == Spend("any")

Exists(s) == svc[s] \notin {NoService, Gone}

-----------------------------------------------------------------------------
(* The user and the cluster.                                               *)

UserCreate(s) ==
    /\ svc[s] = NoService
    /\ \E wish \in Wishes, hosts \in Placements :
          /\ svc' = [svc EXCEPT ![s] = [ports |-> wish.ports, static |-> wish.static,
                                        ingress |-> {}]]
          /\ pods' = [pods EXCEPT ![s] = hosts]
    /\ UNCHANGED <<lbVars, w, left>>

UserEdit ==
    /\ \E s \in Services, wish \in Wishes :
          /\ Exists(s)
          /\ svc' = [svc EXCEPT ![s].ports = wish.ports, ![s].static = wish.static]
    /\ Spend("edit")
    /\ UNCHANGED <<pods, lbVars, w>>

UserRemove ==
    /\ \E s \in Services : Exists(s) /\ svc' = [svc EXCEPT ![s] = Gone]
    /\ Spend("any")
    /\ UNCHANGED <<pods, lbVars, w>>

PodsMove ==
    /\ \E s \in Services, hosts \in Placements :
          Exists(s) /\ pods' = [pods EXCEPT ![s] = hosts]
    /\ Spend("any")
    /\ UNCHANGED <<svc, lbVars, w>>

HasFinalizer(n) == meta[n] # NoMeta

\* An L4LB with the finalizer is marked, another is gone.  The finalizer is put on
\* before the meta is made.
Deleted(n) ==
    /\ \/ lb' = [lb EXCEPT ![n].del = TRUE]
       \/ ~HasFinalizer(n) /\ lb' = [lb EXCEPT ![n] = NoLB]
    /\ UNCHANGED edited

\* Somebody deletes an L4LB of the watcher.
LBDrift ==
    /\ \E n \in Names : lb[n] # NoLB /\ ~lb[n].del /\ Deleted(n)
    /\ Spend("any")
    /\ UNCHANGED <<svc, pods, metaVars, w>>

-----------------------------------------------------------------------------
(* The CR reconciler of L4LBs.                                             *)

\* The meta is written or marked: the resourceVersion that the meta reconciler has is old.
Outdates(n) == m' = IF m # MIdle /\ m.of = n THEN [m EXCEPT !.current = FALSE] ELSE m

\* A meta is made, or brought up to date with the L4LB, and keeps its id.
Translate(n) ==
    /\ lb[n] # NoLB
    /\ ~lb[n].del
    /\ meta[n] = NoMeta \/ n \in edited
    /\ meta' = [meta EXCEPT ![n] = [ip |-> lb[n].ip, del |-> FALSE]]
    /\ edited' = edited \ {n}
    /\ Outdates(n)
    /\ UNCHANGED <<svc, pods, lb, vip, stray, w, left>>

\* deleteL4LBMetaCR
DeleteMeta(n) ==
    /\ lb[n] # NoLB /\ meta[n] # NoMeta
    /\ lb[n].del /\ ~meta[n].del
    /\ meta' = [meta EXCEPT ![n].del = TRUE]
    /\ Outdates(n)
    /\ UNCHANGED <<svc, pods, crVars, vip, stray, w, left>>

\* deleteL4LBCR
Release(n) ==
    /\ lb[n] # NoLB /\ lb[n].del
    /\ meta[n] = NoMeta
    /\ lb' = [lb EXCEPT ![n] = NoLB]
    /\ edited' = edited \ {n}
    /\ UNCHANGED <<svc, pods, metaVars, w, left>>

-----------------------------------------------------------------------------
(* The meta reconciler of L4LBs.  It has one worker.                       *)

Reconciled(n) == m = MIdle /\ lb[n] # NoLB /\ meta[n] # NoMeta /\ ~meta[n].del

\* The watcher's L4LBs import: a load balancer of that name in netrisstorage is taken over.
MImport(n) ==
    /\ Reconciled(n)
    /\ vip[n] = None
    /\ \E a \in stray[n] : /\ meta' = [meta EXCEPT ![n].ip = a]
                           /\ vip' = [vip EXCEPT ![n] = a]
                           /\ stray' = [stray EXCEPT ![n] = @ \ {a}]
    /\ UNCHANGED <<svc, pods, crVars, m, w, left>>

InUse == {vip[n] : n \in Names} \union UNION {stray[n] : n \in Names}

MutChosen(n) == {meta[n].ip}

\* Netris chooses an address for a load balancer that is added without one, and refuses
\* one that it has.
Chosen(n) == IF meta[n].ip = None THEN Addrs \ InUse ELSE {meta[n].ip} \ stray[n]

\* Nothing to import was found, because there is nothing or because netrisstorage, which
\* is not downloaded for this, does not have it yet.
MCreate(n) ==
    /\ Reconciled(n)
    /\ vip[n] = None
    /\ IF stray[n] = {} THEN Answered ELSE Spend("stale")
    /\ \E a \in Chosen(n) : /\ stray' = [stray EXCEPT ![n] = @ \union {a}]
                            /\ m' = [of |-> n, ip |-> a, current |-> TRUE]
    /\ UNCHANGED <<svc, pods, crVars, meta, vip, w>>

\* The id and the address are patched into the meta, unless it is another by now.  The
\* reply or the patch may be lost, or the process end.
MRecord ==
    /\ m # MIdle
    /\ m' = MIdle
    /\ \/ /\ m.current
          /\ meta' = [meta EXCEPT ![m.of].ip = m.ip]
          /\ vip' = [vip EXCEPT ![m.of] = m.ip]
          /\ stray' = [stray EXCEPT ![m.of] = @ \ {m.ip}]
          /\ Answered
       \/ ~m.current /\ UNCHANGED <<meta, vip, stray, left>>
       \/ Failed /\ UNCHANGED <<meta, vip, stray>>
    /\ UNCHANGED <<svc, pods, crVars, w>>

\* An automatic meta is content with the address that Netris has chosen.
MUpdate(n) ==
    /\ Reconciled(n)
    /\ vip[n] # None
    /\ meta[n].ip \notin {None, vip[n]}
    /\ vip' = [vip EXCEPT ![n] = meta[n].ip]
    /\ UNCHANGED <<svc, pods, crVars, meta, stray, m, w, left>>

\* updateL4LBIfNeccesarry: the L4LB is given the address of its meta, or if that has
\* none the address in Netris.
Reported(n) == IF meta[n].ip # None THEN meta[n].ip ELSE vip[n]

MReport(n) ==
    /\ Reconciled(n)
    /\ vip[n] # None
    /\ lb[n].ip # Reported(n)
    /\ lb' = [lb EXCEPT ![n].ip = Reported(n)]
    /\ edited' = edited \union {n}
    /\ UNCHANGED <<svc, pods, metaVars, w, left>>

\* A meta that is marked: the load balancer it has the id of is deleted, then the finalizer.
MDelete(n) ==
    /\ m = MIdle
    /\ meta[n] # NoMeta /\ meta[n].del
    /\ IF vip[n] # None THEN vip' = [vip EXCEPT ![n] = None] /\ UNCHANGED meta
       ELSE meta' = [meta EXCEPT ![n] = NoMeta] /\ UNCHANGED vip
    /\ UNCHANGED <<svc, pods, crVars, stray, m, w, left>>

-----------------------------------------------------------------------------
(* What the watcher computes from what it has read: svcs and hosts are the *)
(* Services and where their pods run, auto the address that ipAuto holds   *)
(* for each Service.                                                       *)

Of(s) == {n \in Names : n[1] = s}
Listed == {n \in Names : w.list[n] # NoLB}

MutPortsOf(o, a) == Range(o.ports)

\* The ports that generateLoadBalancers makes an L4LB for: of an automatic Service
\* without an address only the first, until it has one.
PortsOf(o, a) == IF o.static = None /\ a = None THEN {o.ports[1]} ELSE Range(o.ports)

FrontendOf(o, a) == IF o.static # None THEN o.static ELSE a

\* The Services of the list that L4LBs are generated for
Served(hosts) == {s \in Services : w.svcs[s] \notin {NoService, Gone} /\ hosts[s] # {}}

Generated(hosts, auto) ==
    {n \in Names : n[1] \in Served(hosts) /\ n[2] \in PortsOf(w.svcs[n[1]], auto[n[1]])}

\* siteName: found for the first host that is looked up, and kept for all that follow
SiteNames(hosts) ==
    {SiteOf[h] : h \in UNION {hosts[s] : s \in {f \in Served(hosts) :
                                \A t \in Served(hosts) : f <= t}}}

\* ipAuto: the address of the last of the Service's L4LBs, in a list without order.  (What
\* is last is chosen here and for IPsMap independently of each other.)
AutoChoices(s) ==
    IF Of(s) \intersect Listed = {} THEN {None}
    ELSE {w.list[n].ip : n \in Of(s) \intersect Listed}

\* IPsMap of compareLoadBalancers: a new L4LB takes the address of one that stays.
InheritChoices(s, gen, ip) ==
    IF Of(s) \intersect Listed \intersect gen = {} THEN {ip}
    ELSE {w.list[n].ip : n \in Of(s) \intersect Listed \intersect gen}

\* serviceIngressMap: an empty list of addresses counts as the one empty address.
Published(o) == IF o.ingress = {} THEN {None} ELSE o.ingress

\* lbIngressMap: the addresses that the listed L4LBs of the Service had
Actual(s, gen) == {w.list[n].ip : n \in Of(s) \intersect Listed \intersect gen}

MutForUpdate == {n \in Listed : w.want[n] # NoLB /\ w.want[n].ip # w.list[n].ip}

\* compareLoadBalancers
ForDelete == {n \in Listed : w.want[n] = NoLB}
ForUpdate == {n \in Listed : /\ w.want[n] # NoLB
                             /\ \/ w.want[n].ip # w.list[n].ip
                                \/ w.want[n].backend # w.list[n].backend}
ForCreate == {n \in Names \ Listed : w.want[n] # NoLB}

WDone == w' = WIdle

-----------------------------------------------------------------------------
(* A pass of the watcher.                                                  *)

WList ==
    /\ w.pc = "idle"
    /\ \/ Answered /\ w' = [w EXCEPT !.pc = "services", !.list = lb]
       \/ Failed /\ UNCHANGED w
    /\ UNCHANGED <<svc, pods, lbVars>>

WServices ==
    /\ w.pc = "services"
    /\ \/ Answered /\ w' = [w EXCEPT !.pc = "pods", !.svcs = svc]
       \/ Failed /\ WDone
    /\ UNCHANGED <<svc, pods, lbVars>>

\* generateLoadBalancers from the pods on, and compareLoadBalancers
WGenerate ==
    /\ w.pc = "pods"
    /\ \/ /\ Answered
          /\ \E auto \in [Services -> Frontends], inherit \in [Services -> Frontends],
                site \in Sites :
                LET gen == Generated(pods, auto)
                    ip(s) == FrontendOf(w.svcs[s], auto[s])
                    want(n) == [ip |-> IF n \in Listed THEN ip(n[1]) ELSE inherit[n[1]],
                                backend |-> pods[n[1]], site |-> site, del |-> FALSE]
                IN  /\ \A s \in Services : auto[s] \in AutoChoices(s)
                    /\ \A s \in Services :
                          IF s \in Served(pods) THEN inherit[s] \in InheritChoices(s, gen, ip(s))
                          ELSE inherit[s] = None
                    /\ Served(pods) # {} => site \in SiteNames(pods)
                    /\ w' = [w EXCEPT
                          !.pc = "apply", !.svcs = NoSvcs, !.todo = Names,
                          !.want = [n \in Names |-> IF n \in gen THEN want(n) ELSE NoLB],
                          !.show = [s \in Services |-> IF s \in Served(pods)
                                                       THEN Actual(s, gen) ELSE {}],
                          !.publish = {s \in Served(pods) :
                                          Published(w.svcs[s]) # Actual(s, gen)}]
       \/ Failed /\ WDone
    /\ UNCHANGED <<svc, pods, lbVars>>

\* A call for one L4LB.  Its error is logged, and the pass goes on.
ForLB(n, done) ==
    /\ w' = [w EXCEPT !.todo = @ \ {n}]
    /\ \/ Answered /\ done
       \/ Failed /\ (done \/ UNCHANGED crVars)
    /\ UNCHANGED <<svc, pods, metaVars>>

\* The deletes come first, then the updates, the creates and the statuses.
ToDelete == w.todo \intersect ForDelete
ToUpdate == w.todo \intersect ForUpdate
ToCreate == w.todo \intersect ForCreate

WDelete ==
    /\ w.pc = "apply"
    /\ \E n \in ToDelete : ForLB(n, IF lb[n] = NoLB THEN UNCHANGED crVars ELSE Deleted(n))

WUpdate ==
    /\ w.pc = "apply"
    /\ ToDelete = {}
    /\ \E n \in ToUpdate :
          ForLB(n, IF lb[n] # w.list[n] THEN UNCHANGED crVars
                   ELSE /\ lb' = [lb EXCEPT ![n].ip = w.want[n].ip,
                                            ![n].backend = w.want[n].backend]
                        /\ edited' = edited \union {n})

WCreate ==
    /\ w.pc = "apply"
    /\ ToDelete \union ToUpdate = {}
    /\ \E n \in ToCreate :
          ForLB(n, IF lb[n] # NoLB THEN UNCHANGED crVars
                   ELSE lb' = [lb EXCEPT ![n] = w.want[n]] /\ edited' = edited \ {n})

Applied == w.pc = "apply" /\ ToDelete \union ToUpdate \union ToCreate = {}

\* assignIngress gets the Service anew and replaces its status.
WAssignIngress ==
    /\ Applied
    /\ \E s \in w.publish :
          LET written == IF Exists(s) THEN svc' = [svc EXCEPT ![s].ingress = w.show[s]]
                         ELSE UNCHANGED svc
          IN  /\ w' = [w EXCEPT !.publish = @ \ {s}]
              /\ \/ Answered /\ written
                 \/ Failed /\ (written \/ UNCHANGED svc)
    /\ UNCHANGED <<pods, lbVars>>

WEnd ==
    /\ Applied
    /\ w.publish = {}
    /\ WDone
    /\ UNCHANGED <<svc, pods, lbVars, left>>

WStep ==
    \/ WList \/ WServices \/ WGenerate
    \/ WDelete \/ WUpdate \/ WCreate \/ WAssignIngress \/ WEnd

-----------------------------------------------------------------------------

Cluster ==
    \/ (\E s \in Services : UserCreate(s)) \/ UserEdit \/ UserRemove \/ PodsMove \/ LBDrift

CRStep(n) == Translate(n) \/ DeleteMeta(n) \/ Release(n)

MetaStep(n) == MImport(n) \/ MCreate(n) \/ MUpdate(n) \/ MReport(n) \/ MDelete(n)

Next == Cluster \/ (\E n \in Names : CRStep(n) \/ MetaStep(n)) \/ MRecord \/ WStep

Spec == Init /\ [][Next]_vars

\* The ticker fires and a pass goes on, and the L4LB reconcilers come round.  An edit
\* wakes the CR reconciler at once, the meta reconciler comes by its timer: the first
\* does not lose the race for a new address to the second for ever.
Fairness ==
    /\ WF_vars(WStep)
    /\ WF_vars(MRecord)
    /\ \A n \in Names : /\ WF_vars(CRStep(n))
                        /\ SF_vars(meta[n] # NoMeta /\ lb[n].ip # meta[n].ip /\ Translate(n))
                        /\ WF_vars(MetaStep(n))

FairSpec == Spec /\ Fairness

-----------------------------------------------------------------------------
(* Properties.                                                             *)

\* Every variable has a value its counterpart can have: in particular no load balancer is
\* without an address, and the reply that the meta reconciler holds is for a load balancer
\* that is in Netris and for a meta that waits for its id.
TypeOK ==
    /\ \A s \in Services : Exists(s) =>
          /\ svc[s].ingress \subseteq Frontends
          /\ [ports |-> svc[s].ports, static |-> svc[s].static] \in Wishes
    /\ pods \in [Services -> Placements \union {{}}]
    /\ lb \in [Names -> LBType \union {NoLB}]
    /\ edited \subseteq Names
    /\ meta \in [Names -> MetaType \union {NoMeta}]
    /\ vip \in [Names -> Frontends]
    /\ stray \in [Names -> SUBSET Addrs]
    /\ m \in ReplyType \union {MIdle}
    /\ m # MIdle => meta[m.of] # NoMeta /\ vip[m.of] = None /\ m.ip \in stray[m.of]
    /\ w.pc \in {"idle", "services", "pods", "apply"}
    /\ w.list \in [Names -> LBType \union {NoLB}]
    /\ w.want \in [Names -> LBType \union {NoLB}]
    /\ w.todo \subseteq Names
    /\ w.publish \subseteq Services
    /\ left \in [Disturbances -> Nat]

\* As long as no Service was edited, Netris is asked to choose an address only for an L4LB that
\* has none and is the only one of its Service: whenever pods go and come, L4LBs are deleted,
\* ids are not recorded and calls fail, the ports of a Service are not given one each.
OneAddress ==
    [][\A n \in Names :
          stray'[n] \ stray[n] # {} /\ meta[n].ip = None /\ left.edit = Budget.edit
              => /\ lb[n].ip = None
                 /\ \A o \in Of(n[1]) : lb[o] # NoLB => o = n]_vars

\* The L4LBs of a Service are those of its ports, they lead to its pods, they have one
\* address, the one the user wrote if he did, and the Service's status shows it.  Each has one
\* load balancer in Netris, with this address; only when netrisstorage was out of date at an
\* import may there be another.
Settled(s) ==
    LET ready == Exists(s) /\ pods[s] # {}
    IN  /\ \A n \in Of(s) : lb[n] # NoLB <=> ready /\ n[2] \in Range(svc[s].ports)
        /\ ready => \E a \in Addrs :
              /\ svc[s].ingress = {a}
              /\ svc[s].static \in {None, a}
              /\ \A n \in Of(s) : lb[n] # NoLB =>
                    /\ ~lb[n].del /\ lb[n].ip = a /\ lb[n].backend = pods[s]
                    /\ vip[n] = a /\ (stray[n] = {} \/ left.stale < Budget.stale)

\* When edits, moving pods and failures end, every Service comes to be served, for good.
EventuallySettled == <>[](\A s \in Services : Settled(s))

\* "Resources defined in the selected site will be permitted to be used as backed
\* entries": an L4LB is made in the site of one of its backends.
SiteOfBackends ==
    [][\A n \in Names :
          lb[n] = NoLB /\ lb'[n] # NoLB => lb'[n].site \in {SiteOf[h] : h \in lb'[n].backend}]_vars

=============================================================================
