--------------------------- MODULE CalicoWatcher ---------------------------
(***************************************************************************)
(* The Calico watcher: the loop that makes a BGP resource for every node   *)
(* of the cluster and switches Calico's node-to-node mesh off once they    *)
(* all work.                                                               *)
(*                                                                         *)
(* One goroutine runs a pass every ten seconds.  A pass reads Calico's BGP *)
(* configuration, the nodes and the BGPs, and makes its calls one by one;  *)
(* every call is a step, and nodes, sessions and the user's annotation may *)
(* change between two steps.  What the watcher has read it never reads     *)
(* again in the same pass.                                                 *)
(*                                                                         *)
(* A BGP has the name of its node, and of its spec the AS number is kept.  *)
(* All nodes have their addresses in one subnet, whose site and VNet       *)
(* netrisstorage knows; a look-up that fails is one of the faults.         *)
(*                                                                         *)
(* A definition MutF is F with a plausible mistake in it.  No definition   *)
(* uses it; the properties are checked to notice F being replaced by it.   *)
(***************************************************************************)
EXTENDS Naturals, FiniteSets

CONSTANTS
    Nodes,            \* the names nodes may have
    Nodes0,           \* the nodes the cluster may begin with
    AsnStart, AsnEnd, \* the range of AS numbers
    Budgets,          \* bounds: how often each disturbance occurs, one of them for a behaviour
    Confs0,           \* the BGP configurations the cluster may begin with
    Pools0,           \* the possible answers to whether Calico has an IP pool
    NoNode, NoBGP, NoConf, NoCRD

Disturbances == {"fault", "crash", "stale", "join", "leave", "down", "toggle", "drift"}

ASNs == AsnStart .. AsnEnd

\* A node: whether Calico has given it its addresses, and its AS number (0: none).
NodeType == [addr : BOOLEAN, asn : ASNs \union {0}]
\* A BGP: the neighbour's AS number, the deletion timestamp, and whether the status
\* says that the session is up and has prefixes.
BGPType == [asn : ASNs, del : BOOLEAN, up : BOOLEAN]
\* Calico's BGP configuration: the user's annotation, and nodeToNodeMeshEnabled.
ConfType == [managed : BOOLEAN, mesh : {"unset", "on", "off"}]

\* validateASNRange
ASSUME RangeAssumption ==
    AsnStart \in Nat \ {0} /\ AsnEnd \in Nat /\ AsnStart < AsnEnd
ASSUME BudgetAssumption == Budgets \subseteq [Disturbances -> Nat] /\ Pools0 \subseteq BOOLEAN
ASSUME ConfAssumption == Confs0 \subseteq ConfType \union {NoConf, NoCRD}
ASSUME SentinelAssumption ==
    /\ NoNode \notin NodeType /\ NoBGP \notin BGPType
    /\ NoConf \notin ConfType /\ NoCRD \notin ConfType /\ NoConf # NoCRD

VARIABLES
    node,     \* the cluster's nodes
    conf,     \* the BGP configuration
    pools,    \* Calico has an IP pool
    bgp,      \* the BGPs that the watcher made
    bgpCache, \* the BGP informer's copies
    peer,     \* Calico's peer netris-controller: "none", "right", "wrong"
    w,        \* the watcher and what it has read
    left      \* the disturbances left

vars == <<node, conf, pools, bgp, bgpCache, peer, w, left>>

NoNodes == [n \in Nodes |-> NoNode]
NoBGPs  == [n \in Nodes |-> NoBGP]

WIdle == [pc |-> "idle", conf |-> NoConf, nodes |-> NoNodes, list |-> NoBGPs,
          todo |-> {}, peer |-> "none"]

Init ==
    /\ node \in [Nodes -> {NoNode, [addr |-> TRUE, asn |-> 0]}]
    /\ \A n \in Nodes \ Nodes0 : node[n] = NoNode
    /\ conf \in Confs0
    /\ pools \in Pools0
    /\ bgp = NoBGPs
    /\ bgpCache = NoBGPs
    /\ peer = "none"
    /\ w = WIdle
    /\ left \in Budgets

Spend(d) == left[d] > 0 /\ left' = [left EXCEPT ![d] = @ - 1]
Answered == UNCHANGED left
Failed   == Spend("fault")

-----------------------------------------------------------------------------
(* The cluster, the user, and the BGP reconcilers as far as the watcher    *)
(* sees them.                                                              *)

NodeJoin ==
    /\ \E n \in Nodes :
          node[n] = NoNode /\ node' = [node EXCEPT ![n] = [addr |-> FALSE, asn |-> 0]]
    /\ Spend("join")
    /\ UNCHANGED <<conf, pools, bgp, bgpCache, peer, w>>

NodeLeave ==
    /\ \E n \in Nodes : node[n] # NoNode /\ node' = [node EXCEPT ![n] = NoNode]
    /\ Spend("leave")
    /\ UNCHANGED <<conf, pools, bgp, bgpCache, peer, w>>

NodeAddressed(n) ==
    /\ node[n] # NoNode
    /\ ~node[n].addr
    /\ node' = [node EXCEPT ![n].addr = TRUE]
    /\ UNCHANGED <<conf, pools, bgp, bgpCache, peer, w, left>>

\* The user sets or removes the annotation manage.k8s.netris.ai/calico.
Toggle ==
    /\ conf \in ConfType
    /\ conf' = [conf EXCEPT !.managed = ~@]
    /\ Spend("toggle")
    /\ UNCHANGED <<node, pools, bgp, bgpCache, peer, w>>

\* Somebody edits or removes the peer.
PeerDrift ==
    /\ peer # "none"
    /\ peer' \in {"none", "wrong"}
    /\ Spend("drift")
    /\ UNCHANGED <<node, conf, pools, bgp, bgpCache, w>>

SessionUp(n) ==
    /\ bgp[n] # NoBGP
    /\ ~bgp[n].up /\ ~bgp[n].del
    /\ bgp' = [bgp EXCEPT ![n].up = TRUE]
    /\ UNCHANGED <<node, conf, pools, bgpCache, peer, w, left>>

SessionDown ==
    /\ \E n \in Nodes :
          bgp[n] # NoBGP /\ bgp[n].up /\ bgp' = [bgp EXCEPT ![n].up = FALSE]
    /\ Spend("down")
    /\ UNCHANGED <<node, conf, pools, bgpCache, peer, w>>

\* The BGP reconciler has done its part of the deletion.
BGPReleased(n) ==
    /\ bgp[n] # NoBGP
    /\ bgp[n].del
    /\ bgp' = [bgp EXCEPT ![n] = NoBGP]
    /\ UNCHANGED <<node, conf, pools, bgpCache, peer, w, left>>

SyncBGP ==
    /\ bgpCache # bgp
    /\ bgpCache' = bgp
    /\ UNCHANGED <<node, conf, pools, bgp, peer, w, left>>

Restart ==
    /\ bgpCache' = bgp
    /\ w' = WIdle

Crash ==
    /\ Restart
    /\ Spend("crash")
    /\ UNCHANGED <<node, conf, pools, bgp, peer>>

-----------------------------------------------------------------------------
(* What the watcher computes from what it has read.                        *)

MutUsed(nodes) == {nodes[n].asn : n \in {o \in Nodes : nodes[o] # NoNode /\ nodes[o].addr}} \ {0}

\* asnMap of fillNodesASNs
Used(nodes) == {nodes[n].asn : n \in {o \in Nodes : nodes[o] # NoNode}} \ {0}

\* The numbers that fillNodesASNs may take; the loop ends before AsnEnd.
Free(nodes) == (AsnStart .. AsnEnd - 1) \ Used(nodes)

WithoutASN(nodes) == {n \in Nodes : nodes[n] # NoNode /\ nodes[n].asn = 0}

HasASN(nodes) == {n \in Nodes : nodes[n] # NoNode /\ nodes[n].asn # 0}

\* nodesMap of nodesProcessing
Addressed(nodes) == {n \in Nodes : nodes[n] # NoNode /\ nodes[n].addr}

MutUnnumbered(nodes) == {}

\* "couldn't get as number for node"
Unnumbered(nodes) == Addressed(nodes) \intersect WithoutASN(nodes)

\* generateBGPs, by node; deleteProcess generates none
Generated == IF w.conf.managed THEN Addressed(w.nodes) ELSE {}

Listed == {n \in Nodes : w.list[n] # NoBGP}

MutForDelete == {n \in Listed \ Generated : w.nodes[n] = NoNode}

\* compareBGPs
ForDelete == Listed \ Generated
ForUpdate == {n \in Listed \intersect Generated : w.list[n].asn # w.nodes[n].asn}

MutForCreate == IF Listed = {} THEN Generated ELSE {}

ForCreate == Generated \ Listed

MutBGPActive == Listed # {}

\* bgpActive: of the BGPs as they were listed, before the pass changed any
BGPActive == Listed # {} /\ \A n \in Listed : w.list[n].up

MutNeedsMesh(c) == c.mesh = "unset"

\* deleteProcess: the mesh is not on as it stands.
NeedsMesh(c) == c.mesh # "on"

WGoto(pc) == w' = [w EXCEPT !.pc = pc]
WDone     == w' = WIdle

-----------------------------------------------------------------------------
(* A pass of the watcher.                                                  *)

\* mainProcessing.  A cluster without Calico's types makes it send to w.stop, which
\* only the loop of Start receives from: the goroutine that is sending.  The watcher
\* has no step after that.
WGetConf ==
    /\ w.pc = "idle"
    /\ \/ /\ Answered
          /\ \/ conf = NoCRD /\ WGoto("stopping")
             \/ conf = NoConf /\ UNCHANGED w
             \/ conf \in ConfType /\
                w' = [w EXCEPT !.pc = IF conf.managed THEN "pools" ELSE "unmesh", !.conf = conf]
       \/ Failed /\ UNCHANGED w
    /\ UNCHANGED <<node, conf, pools, bgp, bgpCache, peer>>

WGetPools ==
    /\ w.pc = "pools"
    /\ \/ Answered /\ WGoto(IF pools THEN "nodes" ELSE "panic")
       \/ Failed /\ WDone
    /\ UNCHANGED <<node, conf, pools, bgp, bgpCache, peer>>

\* getIPPools indexes the empty list: the panic ends the operator, which starts anew.
WPanic ==
    /\ w.pc = "panic"
    /\ Restart
    /\ UNCHANGED <<node, conf, pools, bgp, peer, left>>

\* getNodes, for a pass that sets AS numbers and for one that removes them
WGetNodes ==
    /\ w.pc \in {"nodes", "delNodes"}
    /\ \/ Answered /\ node # NoNodes /\
          w' = [w EXCEPT !.pc = IF @ = "nodes" THEN "asn" ELSE "delAsn", !.nodes = node]
       \/ Answered /\ node = NoNodes /\ WDone
       \/ Failed /\ WDone
    /\ UNCHANGED <<node, conf, pools, bgp, bgpCache, peer>>

\* A patch of one node; an error ends the pass.
PatchASN(n, asn) ==
    LET patched == node[n] # NoNode /\ node' = [node EXCEPT ![n].asn = asn]
    IN  \/ Answered /\ patched /\ w' = [w EXCEPT !.nodes[n].asn = asn]
        \/ Answered /\ node[n] = NoNode /\ UNCHANGED node /\ WDone
        \/ Failed /\ (patched \/ UNCHANGED node) /\ WDone

\* fillNodesASNs: every node without a number gets the least that is free.
WFillASN ==
    /\ w.pc = "asn"
    /\ \E n \in WithoutASN(w.nodes), asn \in Free(w.nodes) :
          /\ \A a \in Free(w.nodes) : asn <= a
          /\ PatchASN(n, asn)
    /\ UNCHANGED <<conf, pools, bgp, bgpCache, peer>>

\* nodesProcessing: the pass ends if a node with addresses is left without a number,
\* if no node leads to the site, or if the site or the VNet is not found.
WNodesProcessing ==
    /\ w.pc = "asn"
    /\ WithoutASN(w.nodes) = {} \/ Free(w.nodes) = {}
    /\ LET good == /\ Addressed(w.nodes) # {}
                   /\ Unnumbered(w.nodes) = {}
       IN  \/ Answered /\ good /\ WGoto("list")
           \/ Answered /\ ~good /\ WDone
           \/ Failed /\ WDone
    /\ UNCHANGED <<node, conf, pools, bgp, bgpCache, peer>>

\* deleteProcess: the mesh first.
WUnmesh ==
    /\ w.pc = "unmesh"
    /\ LET written == conf = w.conf /\ conf' = [conf EXCEPT !.mesh = "on"]
       IN  \/ Answered /\ ~NeedsMesh(w.conf) /\ WGoto("delNodes") /\ UNCHANGED conf
           \/ /\ NeedsMesh(w.conf)
              /\ \/ Answered /\ written /\ WGoto("delNodes")
                 \/ Answered /\ conf # w.conf /\ WDone /\ UNCHANGED conf
                 \/ Failed /\ (written \/ UNCHANGED conf) /\ WDone
    /\ UNCHANGED <<node, pools, bgp, bgpCache, peer>>

\* deleteNodesASNs
WDeleteASN ==
    /\ w.pc = "delAsn"
    /\ \/ \E n \in HasASN(w.nodes) : PatchASN(n, 0)
       \/ HasASN(w.nodes) = {} /\ WGoto("list") /\ UNCHANGED <<node, left>>
    /\ UNCHANGED <<conf, pools, bgp, bgpCache, peer>>

\* getBGPs reads the informer's copies; they are out of date as often as the budget says.
WListBGPs ==
    /\ w.pc = "list"
    /\ w' = [w EXCEPT !.pc = "apply", !.list = bgpCache, !.todo = Nodes]
    /\ IF bgpCache = bgp THEN Answered ELSE Spend("stale")
    /\ UNCHANGED <<node, conf, pools, bgp, bgpCache, peer>>

\* A call for one BGP.  Its error is printed, and the pass goes on.
ForBGP(n, done) ==
    /\ w' = [w EXCEPT !.todo = @ \ {n}]
    /\ \/ Answered /\ done
       \/ Failed /\ (done \/ UNCHANGED bgp)
    /\ UNCHANGED <<node, conf, pools, bgpCache, peer>>

Becomes(n, b) == bgp' = [bgp EXCEPT ![n] = b]

\* A BGP without the finalizer goes at once, and it has none before its reconciler
\* has seen it.
WDeleteBGP ==
    /\ w.pc = "apply"
    /\ \E n \in w.todo \intersect ForDelete :
          ForBGP(n, IF bgp[n] = NoBGP THEN UNCHANGED bgp
                    ELSE \/ Becomes(n, [bgp[n] EXCEPT !.del = TRUE])
                         \/ ~bgp[n].up /\ Becomes(n, NoBGP))

WUpdateBGP ==
    /\ w.pc = "apply"
    /\ w.todo \intersect ForDelete = {}
    /\ \E n \in w.todo \intersect ForUpdate :
          ForBGP(n, IF bgp[n] # w.list[n] THEN UNCHANGED bgp
                    ELSE Becomes(n, [bgp[n] EXCEPT !.asn = w.nodes[n].asn]))

WCreateBGP ==
    /\ w.pc = "apply"
    /\ w.todo \intersect (ForDelete \union ForUpdate) = {}
    /\ \E n \in w.todo \intersect ForCreate :
          ForBGP(n, IF bgp[n] # NoBGP THEN UNCHANGED bgp
                    ELSE Becomes(n, [asn |-> w.nodes[n].asn, del |-> FALSE, up |-> FALSE]))

Applied == w.pc = "apply" /\ w.todo \intersect (ForDelete \union ForUpdate \union ForCreate) = {}

WGetPeer ==
    /\ Applied
    /\ \/ Answered /\ w' = [w EXCEPT !.pc = "peer", !.peer = peer, !.todo = {}]
       \/ Failed /\ WDone
    /\ UNCHANGED <<node, conf, pools, bgp, bgpCache, peer>>

\* The peer is made, corrected or removed; an error ends the pass.  A peer is removed by
\* its name, whatever has become of it, and is only not found when it is gone.
WWritePeer ==
    /\ w.pc = "peer"
    /\ LET wanted == IF w.conf.managed THEN "right" ELSE "none"
           next   == IF w.conf.managed THEN WGoto("mesh") ELSE WDone
           accepted == IF w.conf.managed THEN peer = w.peer ELSE peer # "none"
           written == accepted /\ peer' = wanted
       IN  \/ Answered /\ w.peer = wanted /\ UNCHANGED peer /\ next
           \/ /\ w.peer # wanted
              /\ \/ Answered /\ written /\ next
                 \/ Answered /\ ~accepted /\ UNCHANGED peer /\ WDone
                 \/ Failed /\ (written \/ UNCHANGED peer) /\ WDone
    /\ UNCHANGED <<node, conf, pools, bgp, bgpCache>>

\* The end of process: the mesh goes off when the BGPs are up, and on when they are
\* not.  An unset switch is taken to be wrong either way.
WSwitchMesh ==
    /\ w.pc = "mesh"
    /\ LET wanted  == IF BGPActive THEN "off" ELSE "on"
           written == conf = w.conf /\ conf' = [conf EXCEPT !.mesh = wanted]
       IN  \/ Answered /\ (w.conf.mesh = wanted \/ conf # w.conf) /\ UNCHANGED conf
           \/ Answered /\ w.conf.mesh # wanted /\ written
           \/ Failed /\ w.conf.mesh # wanted /\ (written \/ UNCHANGED conf)
    /\ WDone
    /\ UNCHANGED <<node, pools, bgp, bgpCache, peer>>

WStep ==
    \/ WGetConf \/ WGetPools \/ WPanic \/ WGetNodes \/ WFillASN \/ WNodesProcessing
    \/ WUnmesh \/ WDeleteASN \/ WListBGPs \/ WDeleteBGP \/ WUpdateBGP \/ WCreateBGP
    \/ WGetPeer \/ WWritePeer \/ WSwitchMesh

-----------------------------------------------------------------------------

Cluster ==
    \/ NodeJoin \/ NodeLeave \/ Toggle \/ PeerDrift \/ SessionDown \/ SyncBGP \/ Crash
    \/ \E n \in Nodes : NodeAddressed(n) \/ SessionUp(n) \/ BGPReleased(n)

Next == Cluster \/ WStep

Spec == Init /\ [][Next]_vars

\* The ticker fires and a pass goes on, the informer delivers, Calico gives a node its
\* addresses, and the BGP reconciler finishes a deletion.  No session need ever come up.
Fairness ==
    /\ WF_vars(WStep) /\ WF_vars(SyncBGP)
    /\ \A n \in Nodes : WF_vars(NodeAddressed(n)) /\ WF_vars(BGPReleased(n))

FairSpec == Spec /\ Fairness

-----------------------------------------------------------------------------
(* Properties.                                                             *)

\* Every variable has a value its counterpart can have.
TypeOK ==
    /\ node \in [Nodes -> NodeType \union {NoNode}]
    /\ conf \in ConfType \union {NoConf, NoCRD}
    /\ pools \in BOOLEAN
    /\ bgp \in [Nodes -> BGPType \union {NoBGP}]
    /\ bgpCache \in [Nodes -> BGPType \union {NoBGP}]
    /\ peer \in {"none", "right", "wrong"}
    /\ left \in [Disturbances -> Nat]
    /\ w \in [pc : {"idle", "stopping", "pools", "panic", "nodes", "asn", "unmesh",
                   "delNodes", "delAsn", "list", "apply", "peer", "mesh"},
              conf : ConfType \union {NoConf},
              nodes : [Nodes -> NodeType \union {NoNode}],
              list : [Nodes -> BGPType \union {NoBGP}],
              todo : SUBSET Nodes, peer : {"none", "right", "wrong"}]

\* No two nodes of the cluster ever have the same AS number, though the watcher picks
\* numbers by a list of nodes that changes while it patches them one by one.
DistinctASNs ==
    \A n, o \in HasASN(node) : n # o => node[n].asn # node[o].asn

\* A pass that has found no annotation takes nothing away that routes go by (the AS number of
\* a node, a BGP, the peer) while the mesh is off, whichever of its calls or of those before
\* failed and however often the annotation changes meanwhile.  It says nothing of what becomes
\* of a BGP that is marked: when the annotation comes back before it is gone, the next pass
\* still lists it, bgpActive counts it, and the mesh may go off again under it.
DeletesUnderMesh ==
    [][/\ w.conf \in ConfType /\ ~w.conf.managed
       /\ w' # w /\ <<node, bgp, peer>>' # <<node, bgp, peer>>
       => conf.mesh # "off"]_vars

Managed == conf \in ConfType /\ conf.managed
Unmanaged == conf \in ConfType /\ ~conf.managed

AllUp == bgp # NoBGPs /\ \A n \in Nodes : bgp[n] # NoBGP => bgp[n].up
SomeDown == \E n \in Nodes : bgp[n] # NoBGP /\ ~bgp[n].up

MeshIs(switch) == conf \in ConfType /\ conf.mesh = switch

Present == {n \in Nodes : node[n] # NoNode}

\* There are nodes to be managed, and enough numbers for them: without, every pass ends.
Manageable ==
    Managed /\ Present # {} /\ Cardinality(Present) <= AsnEnd - AsnStart

\* The mesh follows the sessions: it goes off for good when all BGPs stay up, and on
\* for good when one stays down, whatever the pass that saw them before had done.
MeshFollows ==
    /\ <>[](Manageable /\ AllUp) => <>[]MeshIs("off")
    /\ <>[](Manageable /\ SomeDown) => <>[]MeshIs("on")

\* Every node of the cluster gets its number, and the BGP that carries it, in whichever
\* order nodes come and go and calls fail.
ServesNodes ==
    <>[](Manageable /\ pools) =>
        <>[](\A n \in Present : /\ node[n].asn # 0
                               /\ bgp[n] # NoBGP
                               /\ ~bgp[n].del
                               /\ bgp[n].asn = node[n].asn)

\* When the annotation stays away, everything that the watcher made goes away.
CleansUp ==
    <>[](Unmanaged /\ node # NoNodes) =>
        <>[](bgp = NoBGPs /\ peer = "none" /\ MeshIs("on") /\ HasASN(node) = {})

\* "It will create BGP peers with your cluster's nodes, then will disable Calico Node
\* to Node mesh": when the mesh goes off, the nodes of the pass have their BGPs.
PeersFirst ==
    [][Managed /\ conf.mesh # "off" /\ conf'.mesh = "off"
          => \A n \in Addressed(w.nodes) : bgp[n] # NoBGP]_vars

=============================================================================
