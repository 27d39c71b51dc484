------------------------ MODULE CalicoWatcherProofs ------------------------
(***************************************************************************)
(* Theorems about module CalicoWatcher, for every value of its constants.  *)
(***************************************************************************)
EXTENDS CalicoWatcher, TLAPS

-----------------------------------------------------------------------------
(* Type correctness.                                                       *)

LEMMA SpendType ==
    ASSUME TypeOK, NEW d \in Disturbances, Spend(d)
    PROVE  left' \in [Disturbances -> Nat]
<1>1. left \in [Disturbances -> Nat]
  BY DEF TypeOK
<1>2. left[d] \in Nat /\ left[d] > 0
  BY <1>1 DEF Spend
<1>. QED BY <1>1, <1>2 DEF Spend

LEMMA CallType ==
    ASSUME TypeOK, Answered \/ Failed
    PROVE  left' \in [Disturbances -> Nat]
BY SpendType DEF Answered, Failed, Disturbances, TypeOK

\* What the type invariant says of the watcher.
Pcs == {"idle", "stopping", "pools", "panic", "nodes", "asn", "unmesh",
        "delNodes", "delAsn", "list", "apply", "peer", "mesh"}

WType == [pc : Pcs, conf : ConfType \union {NoConf},
          nodes : [Nodes -> NodeType \union {NoNode}],
          list : [Nodes -> BGPType \union {NoBGP}],
          todo : SUBSET Nodes, peer : {"none", "right", "wrong"}]

LEMMA WatcherType == TypeOK => w \in WType
BY DEF TypeOK, WType, Pcs

LEMMA IdleType == WIdle \in WType
BY DEF WIdle, WType, Pcs, NoNodes, NoBGPs

LEMMA GotoType ==
    ASSUME w \in WType, NEW pc \in Pcs, WGoto(pc)
    PROVE  w' \in WType
BY DEF WGoto, WType

LEMMA InitType == Init => TypeOK
<1>. SUFFICES ASSUME Init PROVE TypeOK
  OBVIOUS
<1>1. node \in [Nodes -> NodeType \union {NoNode}]
  <2>1. [addr |-> TRUE, asn |-> 0] \in NodeType
    BY DEF NodeType
  <2>. QED BY <2>1 DEF Init
<1>2. conf \in ConfType \union {NoConf, NoCRD}
  BY ConfAssumption DEF Init
<1>3. bgp \in [Nodes -> BGPType \union {NoBGP}] /\ bgpCache = bgp
  BY DEF Init, NoBGPs
<1>4. left \in [Disturbances -> Nat] /\ pools \in BOOLEAN /\ peer = "none"
  BY BudgetAssumption DEF Init
<1>5. w \in WType
  BY IdleType DEF Init
<1>. QED BY <1>1, <1>2, <1>3, <1>4, <1>5 DEF TypeOK, WType, Pcs

\* The part of the type invariant without the watcher and the budget.
ClusterType ==
    /\ node \in [Nodes -> NodeType \union {NoNode}]
    /\ conf \in ConfType \union {NoConf, NoCRD}
    /\ pools \in BOOLEAN
    /\ bgp \in [Nodes -> BGPType \union {NoBGP}]
    /\ bgpCache \in [Nodes -> BGPType \union {NoBGP}]
    /\ peer \in {"none", "right", "wrong"}

LEMMA TypeParts ==
    TypeOK <=> ClusterType /\ w \in WType /\ left \in [Disturbances -> Nat]
BY DEF TypeOK, ClusterType, WType, Pcs

LEMMA ClusterStepType ==
    ASSUME TypeOK, Cluster
    PROVE  TypeOK'
<1>0. ClusterType /\ w \in WType /\ left \in [Disturbances -> Nat]
  BY TypeParts
<1>1. CASE NodeJoin
  <2>1. node' \in [Nodes -> NodeType \union {NoNode}]
    BY <1>0, <1>1 DEF NodeJoin, NodeType, ClusterType
  <2>2. left' \in [Disturbances -> Nat]
    BY <1>1, SpendType DEF NodeJoin, Disturbances
  <2>. QED BY <1>0, <1>1, <2>1, <2>2 DEF NodeJoin, TypeOK, ClusterType
<1>2. CASE NodeLeave
  <2>1. node' \in [Nodes -> NodeType \union {NoNode}]
    BY <1>0, <1>2 DEF NodeLeave, ClusterType
  <2>2. left' \in [Disturbances -> Nat]
    BY <1>2, SpendType DEF NodeLeave, Disturbances
  <2>. QED BY <1>0, <1>2, <2>1, <2>2 DEF NodeLeave, TypeOK, ClusterType
<1>3. CASE Toggle
  <2>1. conf' \in ConfType
    BY <1>3 DEF Toggle, ConfType
  <2>2. left' \in [Disturbances -> Nat]
    BY <1>3, SpendType DEF Toggle, Disturbances
  <2>. QED BY <1>0, <1>3, <2>1, <2>2 DEF Toggle, TypeOK, ClusterType
<1>4. CASE PeerDrift
  <2>1. left' \in [Disturbances -> Nat]
    BY <1>4, SpendType DEF PeerDrift, Disturbances
  <2>. QED BY <1>0, <1>4, <2>1 DEF PeerDrift, TypeOK, ClusterType
<1>5. CASE SessionDown
  <2>1. bgp' \in [Nodes -> BGPType \union {NoBGP}]
    BY <1>0, <1>5 DEF SessionDown, BGPType, ClusterType
  <2>2. left' \in [Disturbances -> Nat]
    BY <1>5, SpendType DEF SessionDown, Disturbances
  <2>. QED BY <1>0, <1>5, <2>1, <2>2 DEF SessionDown, TypeOK, ClusterType
<1>6. CASE SyncBGP
  BY <1>0, <1>6 DEF SyncBGP, TypeOK, ClusterType
<1>7. CASE Crash
  <2>1. w' \in WType /\ bgpCache' \in [Nodes -> BGPType \union {NoBGP}]
    BY <1>0, <1>7, IdleType DEF Crash, Restart, ClusterType
  <2>2. left' \in [Disturbances -> Nat]
    BY <1>7, SpendType DEF Crash, Disturbances
  <2>. QED BY <1>0, <1>7, <2>1, <2>2 DEF Crash, TypeOK, ClusterType, WType, Pcs
<1>8. ASSUME NEW n \in Nodes, NodeAddressed(n) PROVE TypeOK'
  <2>1. node' \in [Nodes -> NodeType \union {NoNode}]
    BY <1>0, <1>8 DEF NodeAddressed, NodeType, ClusterType
  <2>. QED BY <1>0, <1>8, <2>1 DEF NodeAddressed, TypeOK, ClusterType
<1>9. ASSUME NEW n \in Nodes, SessionUp(n) \/ BGPReleased(n) PROVE TypeOK'
  <2>1. bgp' \in [Nodes -> BGPType \union {NoBGP}]
    BY <1>0, <1>9 DEF SessionUp, BGPReleased, BGPType, ClusterType
  <2>. QED BY <1>0, <1>9, <2>1 DEF SessionUp, BGPReleased, TypeOK, ClusterType
<1>. QED BY <1>1, <1>2, <1>3, <1>4, <1>5, <1>6, <1>7, <1>8, <1>9 DEF Cluster

LEMMA PatchType ==
    ASSUME TypeOK, NEW n \in Nodes, w.nodes[n] # NoNode, NEW asn \in ASNs \union {0},
           PatchASN(n, asn)
    PROVE  /\ node' \in [Nodes -> NodeType \union {NoNode}]
           /\ w' \in WType
           /\ left' \in [Disturbances -> Nat]
<1>1. left' \in [Disturbances -> Nat]
  BY CallType DEF PatchASN
<1>2. ASSUME NEW s \in [Nodes -> NodeType \union {NoNode}], s[n] # NoNode
      PROVE  [s EXCEPT ![n].asn = asn] \in [Nodes -> NodeType \union {NoNode}]
  BY <1>2 DEF NodeType
<1>3. node \in [Nodes -> NodeType \union {NoNode}] /\ w \in WType
  BY TypeParts DEF ClusterType
<1>4. node' \in [Nodes -> NodeType \union {NoNode}]
  BY <1>2, <1>3 DEF PatchASN
<1>5. w' \in WType
  <2>1. w.nodes \in [Nodes -> NodeType \union {NoNode}]
    BY <1>3 DEF WType
  <2>2. [w.nodes EXCEPT ![n].asn = asn] \in [Nodes -> NodeType \union {NoNode}]
    BY <1>2, <2>1
  <2>3. [w EXCEPT !.nodes[n].asn = asn] \in WType
    BY <1>3, <2>2 DEF WType
  <2>. QED BY <1>3, <2>3, IdleType DEF PatchASN, WDone
<1>. QED BY <1>1, <1>4, <1>5

\* What the watcher knows at each point of a pass: which configuration it read, whether the
\* pass removes what was made, and that every node to be made a BGP for has its number.
Knows ==
    /\ w.pc \notin {"idle", "stopping"} => w.conf \in ConfType
    /\ w.pc \in {"pools", "nodes", "asn", "mesh"} => w.conf.managed
    /\ w.pc \in {"unmesh", "delNodes", "delAsn"} => ~w.conf.managed
    /\ w.pc \in {"list", "apply"} /\ w.conf.managed => Unnumbered(w.nodes) = {}

LEMMA GeneratedNumber ==
    ASSUME TypeOK, Knows, w.pc = "apply", NEW n \in Generated
    PROVE  n \in Nodes /\ w.nodes[n].asn \in ASNs
<1>1. w.nodes \in [Nodes -> NodeType \union {NoNode}]
  BY TypeParts DEF WType
<1>2. w.conf.managed /\ n \in Addressed(w.nodes)
  BY DEF Generated
<1>3. n \in Nodes /\ w.nodes[n] # NoNode
  BY <1>2 DEF Addressed
<1>4. n \notin WithoutASN(w.nodes)
  BY <1>2 DEF Knows, Unnumbered
<1>5. w.nodes[n].asn # 0
  BY <1>3, <1>4 DEF WithoutASN
<1>. QED BY <1>1, <1>3, <1>5 DEF NodeType

LEMMA WatcherStepType ==
    ASSUME TypeOK, Knows, WStep
    PROVE  TypeOK'
<1>0. ClusterType /\ w \in WType /\ left \in [Disturbances -> Nat]
  BY TypeParts
<1>q. ASSUME ClusterType', w' \in WType, left' \in [Disturbances -> Nat] PROVE TypeOK'
  BY <1>q DEF TypeOK, ClusterType, WType, Pcs
<1>1. CASE WGetConf
  <2>1. w' \in WType
    BY <1>0, <1>1 DEF WGetConf, WGoto, WType, Pcs
  <2>2. left' \in [Disturbances -> Nat]
    BY <1>1, CallType DEF WGetConf
  <2>. QED BY <1>0, <1>1, <1>q, <2>1, <2>2 DEF WGetConf, ClusterType
<1>2. CASE WGetPools
  <2>1. w' \in WType
    BY <1>0, <1>2, IdleType DEF WGetPools, WGoto, WDone, WType, Pcs
  <2>2. left' \in [Disturbances -> Nat]
    BY <1>2, CallType DEF WGetPools
  <2>. QED BY <1>0, <1>2, <1>q, <2>1, <2>2 DEF WGetPools, ClusterType
<1>3. CASE WPanic
  BY <1>0, <1>3, <1>q, IdleType DEF WPanic, Restart, ClusterType
<1>4. CASE WGetNodes
  <2>1. w' \in WType
    BY <1>0, <1>4, IdleType DEF WGetNodes, WDone, WType, Pcs, ClusterType
  <2>2. left' \in [Disturbances -> Nat]
    BY <1>4, CallType DEF WGetNodes
  <2>. QED BY <1>0, <1>4, <1>q, <2>1, <2>2 DEF WGetNodes, ClusterType
<1>5. CASE WFillASN
  <2>1. PICK n \in WithoutASN(w.nodes), asn \in Free(w.nodes) : PatchASN(n, asn)
    BY <1>5 DEF WFillASN
  <2>2. n \in Nodes /\ w.nodes[n] # NoNode
    BY DEF WithoutASN
  <2>3. asn \in ASNs
    BY RangeAssumption DEF Free, ASNs
  <2>4. node' \in [Nodes -> NodeType \union {NoNode}] /\ w' \in WType
        /\ left' \in [Disturbances -> Nat]
    BY <2>1, <2>2, <2>3, PatchType
  <2>. QED BY <1>0, <1>5, <1>q, <2>4 DEF WFillASN, ClusterType
<1>6. CASE WNodesProcessing
  <2>1. w' \in WType
    BY <1>0, <1>6, IdleType DEF WNodesProcessing, WGoto, WDone, WType, Pcs
  <2>2. left' \in [Disturbances -> Nat]
    BY <1>6, CallType DEF WNodesProcessing
  <2>. QED BY <1>0, <1>6, <1>q, <2>1, <2>2 DEF WNodesProcessing, ClusterType
<1>7. CASE WUnmesh
  <2>1. w' \in WType
    BY <1>0, <1>7, IdleType DEF WUnmesh, WGoto, WDone, WType, Pcs
  <2>2. left' \in [Disturbances -> Nat]
    BY <1>7, CallType DEF WUnmesh
  <2>3. conf' \in ConfType \union {NoConf, NoCRD}
    <3>1. w.conf \in ConfType
      BY <1>7 DEF WUnmesh, Knows
    <3>2. conf = w.conf => [conf EXCEPT !.mesh = "on"] \in ConfType
      BY <3>1 DEF ConfType
    <3>. QED BY <1>0, <1>7, <3>2 DEF WUnmesh, ClusterType
  <2>. QED BY <1>0, <1>7, <1>q, <2>1, <2>2, <2>3 DEF WUnmesh, ClusterType
<1>8. CASE WDeleteASN
  <2>1. CASE HasASN(w.nodes) = {} /\ WGoto("list") /\ UNCHANGED <<node, left>>
    <3>1. w' \in WType
      BY <1>0, <2>1 DEF WGoto, WType, Pcs
    <3>. QED BY <1>0, <1>8, <1>q, <2>1, <3>1 DEF WDeleteASN, ClusterType
  <2>2. ASSUME NEW n \in HasASN(w.nodes), PatchASN(n, 0) PROVE TypeOK'
    <3>1. n \in Nodes /\ w.nodes[n] # NoNode
      BY DEF HasASN
    <3>2. node' \in [Nodes -> NodeType \union {NoNode}] /\ w' \in WType
          /\ left' \in [Disturbances -> Nat]
      BY <2>2, <3>1, PatchType
    <3>. QED BY <1>0, <1>8, <1>q, <3>2 DEF WDeleteASN, ClusterType
  <2>. QED BY <1>8, <2>1, <2>2 DEF WDeleteASN
<1>9. CASE WListBGPs
  <2>1. w' \in WType
    BY <1>0, <1>9 DEF WListBGPs, WType, Pcs, ClusterType
  <2>2. left' \in [Disturbances -> Nat]
    BY <1>0, <1>9, SpendType DEF WListBGPs, Answered, Disturbances
  <2>. QED BY <1>0, <1>9, <1>q, <2>1, <2>2 DEF WListBGPs, ClusterType
<1>b. ASSUME NEW n \in Nodes, w' = [w EXCEPT !.todo = @ \ {n}], Answered \/ Failed,
             bgp' \in [Nodes -> BGPType \union {NoBGP}],
             UNCHANGED <<node, conf, pools, bgpCache, peer>>
      PROVE  TypeOK'
  <2>1. w' \in WType
    BY <1>0, <1>b DEF WType
  <2>2. left' \in [Disturbances -> Nat]
    BY <1>b, CallType
  <2>. QED BY <1>0, <1>b, <1>q, <2>1, <2>2 DEF ClusterType
<1>c. ASSUME NEW n \in Nodes, NEW b \in BGPType \union {NoBGP}, Becomes(n, b)
      PROVE  bgp' \in [Nodes -> BGPType \union {NoBGP}]
  BY <1>0, <1>c DEF Becomes, ClusterType
<1>d. bgp \in [Nodes -> BGPType \union {NoBGP}]
  BY <1>0 DEF ClusterType
<1>10. CASE WDeleteBGP
  <2>1. PICK n \in w.todo \intersect ForDelete :
          ForBGP(n, IF bgp[n] = NoBGP THEN UNCHANGED bgp
                    ELSE \/ Becomes(n, [bgp[n] EXCEPT !.del = TRUE])
                         \/ ~bgp[n].up /\ Becomes(n, NoBGP))
    BY <1>10 DEF WDeleteBGP
  <2>2. n \in Nodes
    BY DEF ForDelete, Listed
  <2>3. bgp[n] # NoBGP => [bgp[n] EXCEPT !.del = TRUE] \in BGPType
    BY <1>d, <2>2 DEF BGPType
  <2>4. bgp' \in [Nodes -> BGPType \union {NoBGP}]
    BY <1>c, <1>d, <2>1, <2>2, <2>3 DEF ForBGP
  <2>. QED BY <1>b, <2>1, <2>2, <2>4 DEF ForBGP
<1>11. CASE WUpdateBGP
  <2>1. PICK n \in w.todo \intersect ForUpdate :
          ForBGP(n, IF bgp[n] # w.list[n] THEN UNCHANGED bgp
                    ELSE Becomes(n, [bgp[n] EXCEPT !.asn = w.nodes[n].asn]))
    BY <1>11 DEF WUpdateBGP
  <2>2. n \in Nodes /\ n \in Generated /\ w.list[n] # NoBGP
    BY DEF ForUpdate, Listed
  <2>3. w.nodes[n].asn \in ASNs
    BY <1>11, <2>2, GeneratedNumber DEF WUpdateBGP
  <2>4. bgp[n] = w.list[n] => [bgp[n] EXCEPT !.asn = w.nodes[n].asn] \in BGPType
    BY <1>d, <2>2, <2>3 DEF BGPType
  <2>5. bgp' \in [Nodes -> BGPType \union {NoBGP}]
    BY <1>c, <1>d, <2>1, <2>2, <2>4 DEF ForBGP
  <2>. QED BY <1>b, <2>1, <2>2, <2>5 DEF ForBGP
<1>12. CASE WCreateBGP
  <2>1. PICK n \in w.todo \intersect ForCreate :
          ForBGP(n, IF bgp[n] # NoBGP THEN UNCHANGED bgp
                    ELSE Becomes(n, [asn |-> w.nodes[n].asn, del |-> FALSE, up |-> FALSE]))
    BY <1>12 DEF WCreateBGP
  <2>2. n \in Generated
    BY DEF ForCreate
  <2>3. n \in Nodes /\ w.nodes[n].asn \in ASNs
    BY <1>12, <2>2, GeneratedNumber DEF WCreateBGP
  <2>4. [asn |-> w.nodes[n].asn, del |-> FALSE, up |-> FALSE] \in BGPType
    BY <2>3 DEF BGPType
  <2>5. bgp' \in [Nodes -> BGPType \union {NoBGP}]
    BY <1>c, <1>d, <2>1, <2>3, <2>4 DEF ForBGP
  <2>. QED BY <1>b, <2>1, <2>3, <2>5 DEF ForBGP
<1>13. CASE WGetPeer
  <2>1. w' \in WType
    BY <1>0, <1>13, IdleType DEF WGetPeer, WDone, WType, Pcs, ClusterType
  <2>2. left' \in [Disturbances -> Nat]
    BY <1>13, CallType DEF WGetPeer
  <2>. QED BY <1>0, <1>13, <1>q, <2>1, <2>2 DEF WGetPeer, ClusterType
<1>14. CASE WWritePeer
  <2>1. w' \in WType
    BY <1>0, <1>14, IdleType DEF WWritePeer, WGoto, WDone, WType, Pcs
  <2>2. left' \in [Disturbances -> Nat]
    BY <1>14, CallType DEF WWritePeer
  <2>3. peer' \in {"none", "right", "wrong"}
    BY <1>0, <1>14 DEF WWritePeer, ClusterType
  <2>. QED BY <1>0, <1>14, <1>q, <2>1, <2>2, <2>3 DEF WWritePeer, ClusterType
<1>15. CASE WSwitchMesh
  <2>1. w' \in WType
    BY <1>15, IdleType DEF WSwitchMesh, WDone
  <2>2. left' \in [Disturbances -> Nat]
    BY <1>15, CallType DEF WSwitchMesh
  <2>3. conf' \in ConfType \union {NoConf, NoCRD}
    <3>1. w.conf \in ConfType
      BY <1>15 DEF WSwitchMesh, Knows
    <3>2. conf = w.conf => \A v \in {"on", "off"} : [conf EXCEPT !.mesh = v] \in ConfType
      BY <3>1 DEF ConfType
    <3>. QED BY <1>0, <1>15, <3>2 DEF WSwitchMesh, ClusterType
  <2>. QED BY <1>0, <1>15, <1>q, <2>1, <2>2, <2>3 DEF WSwitchMesh, ClusterType
<1>. QED BY <1>1, <1>2, <1>3, <1>4, <1>5, <1>6, <1>7, <1>8, <1>9, <1>10, <1>11, <1>12,
            <1>13, <1>14, <1>15 DEF WStep
LEMMA KnowsCluster ==
    ASSUME Knows, Cluster
    PROVE  Knows'
<1>1. CASE Crash
  BY <1>1 DEF Crash, Restart, WIdle, Knows
<1>2. CASE UNCHANGED w
  BY <1>2 DEF Knows, Unnumbered, Addressed, WithoutASN
<1>. QED BY <1>1, <1>2 DEF Cluster, NodeJoin, NodeLeave, Toggle, PeerDrift, SessionDown, SyncBGP,
                 NodeAddressed, SessionUp, BGPReleased

LEMMA KnowsWatcher ==
    ASSUME TypeOK, Knows, WStep
    PROVE  Knows'
<1>0. w \in WType
  BY TypeParts
<1>i. w' = WIdle => Knows'
  BY DEF WIdle, Knows
<1>p. ASSUME NEW pc \in Pcs, w' = [w EXCEPT !.pc = pc]
      PROVE  w'.pc = pc /\ w'.conf = w.conf /\ w'.nodes = w.nodes
  BY <1>0, <1>p DEF WType
<1>1. CASE WGetConf
  <2>1. CASE conf = NoCRD /\ WGoto("stopping")
    BY <1>0, <2>1 DEF WGoto, WType, Knows
  <2>2. CASE UNCHANGED w
    BY <2>2 DEF Knows, Unnumbered, Addressed, WithoutASN
  <2>3. CASE conf \in ConfType /\
             w' = [w EXCEPT !.pc = IF conf.managed THEN "pools" ELSE "unmesh", !.conf = conf]
    <3>1. w'.conf = conf /\ w'.pc = IF conf.managed THEN "pools" ELSE "unmesh"
      BY <1>0, <2>3 DEF WType
    <3>. QED BY <2>3, <3>1 DEF Knows
  <2>. QED BY <1>1, <2>1, <2>2, <2>3 DEF WGetConf
<1>2. CASE WGetPools
  BY <1>2, <1>i, <1>0 DEF WGetPools, WGoto, WDone, WType, Knows
<1>3. CASE WPanic
  BY <1>3, <1>i DEF WPanic, Restart
<1>4. CASE WGetNodes
  BY <1>4, <1>i, <1>0 DEF WGetNodes, WDone, WType, Knows
<1>5. CASE WFillASN
  <2>1. PICK n \in WithoutASN(w.nodes), asn \in Free(w.nodes) : PatchASN(n, asn)
    BY <1>5 DEF WFillASN
  <2>2. w' = [w EXCEPT !.nodes[n].asn = asn] \/ w' = WIdle
    BY <2>1 DEF PatchASN, WDone
  <2>. QED BY <1>0, <1>5, <1>i, <2>2 DEF WFillASN, WType, Knows
<1>6. CASE WNodesProcessing
  <2>1. CASE w' = WIdle
    BY <2>1, <1>i
  <2>2. CASE Unnumbered(w.nodes) = {} /\ w' = [w EXCEPT !.pc = "list"]
    <3>1. w'.pc = "list" /\ w'.conf = w.conf /\ w'.nodes = w.nodes
      BY <1>0, <2>2 DEF WType
    <3>2. Unnumbered(w.nodes)' = {}
      BY <2>2, <3>1 DEF Unnumbered, Addressed, WithoutASN
    <3>. QED BY <1>6, <3>1, <3>2 DEF WNodesProcessing, Knows
  <2>. QED BY <1>6, <2>1, <2>2 DEF WNodesProcessing, WGoto, WDone
<1>7. CASE WUnmesh
  BY <1>7, <1>i, <1>0 DEF WUnmesh, WGoto, WDone, WType, Knows
<1>8. CASE WDeleteASN
  <2>1. CASE HasASN(w.nodes) = {} /\ WGoto("list")
    BY <1>8, <1>0, <2>1 DEF WDeleteASN, WGoto, WType, Knows
  <2>2. ASSUME NEW n \in HasASN(w.nodes), PatchASN(n, 0) PROVE Knows'
    <3>1. w' = [w EXCEPT !.nodes[n].asn = 0] \/ w' = WIdle
      BY <2>2 DEF PatchASN, WDone
    <3>. QED BY <1>0, <1>8, <1>i, <3>1 DEF WDeleteASN, WType, Knows
  <2>. QED BY <1>8, <2>1, <2>2 DEF WDeleteASN
<1>9. CASE WListBGPs
  <2>1. w.pc = "list" /\ w'.pc = "apply" /\ w'.conf = w.conf /\ w'.nodes = w.nodes
    BY <1>0, <1>9 DEF WListBGPs, WType
  <2>. QED BY <2>1 DEF Knows, Unnumbered, Addressed, WithoutASN
<1>10. CASE WDeleteBGP \/ WUpdateBGP \/ WCreateBGP
  <2>1. w.pc = "apply" /\ \E n : w' = [w EXCEPT !.todo = @ \ {n}]
    BY <1>10 DEF WDeleteBGP, WUpdateBGP, WCreateBGP, ForBGP
  <2>2. w'.pc = w.pc /\ w'.conf = w.conf /\ w'.nodes = w.nodes
    BY <1>0, <2>1 DEF WType
  <2>. QED BY <2>1, <2>2 DEF Knows, Unnumbered, Addressed, WithoutASN
<1>11. CASE WGetPeer
  BY <1>11, <1>i, <1>0 DEF WGetPeer, Applied, WDone, WType, Knows
<1>12. CASE WWritePeer
  BY <1>12, <1>i, <1>0 DEF WWritePeer, WGoto, WDone, WType, Knows
<1>13. CASE WSwitchMesh
  BY <1>13, <1>i DEF WSwitchMesh, WDone
<1>. QED BY <1>1, <1>2, <1>3, <1>4, <1>5, <1>6, <1>7, <1>8, <1>9, <1>10, <1>11, <1>12,
            <1>13 DEF WStep

LEMMA Stutters ==
    ASSUME UNCHANGED vars
    PROVE  (TypeOK => TypeOK') /\ (Knows => Knows')
BY DEF vars, TypeOK, Knows, Unnumbered, Addressed, WithoutASN

\* At every point of every pass the watcher holds what its next calls need.
THEOREM KnowsAlways == Spec => [](TypeOK /\ Knows)
<1>1. Init => TypeOK /\ Knows
  BY InitType DEF Init, WIdle, Knows
<1>2. TypeOK /\ Knows /\ [Next]_vars => TypeOK' /\ Knows'
  BY ClusterStepType, WatcherStepType, KnowsCluster, KnowsWatcher, Stutters DEF Next
<1>. QED BY <1>1, <1>2, PTL DEF Spec

\* Whatever the cluster does to the watcher's nodes, peer and configuration in the
\* middle of a pass, and wherever a crash cuts the pass short, every variable keeps a
\* value its counterpart in the code can have; no BGP is made with the AS number 0.
THEOREM TypeCorrect == Spec => []TypeOK
BY KnowsAlways, PTL

-----------------------------------------------------------------------------
(* The AS numbers.  While a pass hands out numbers, every number a node of *)
(* the cluster has is in the list the pass read: nobody else writes        *)
(* numbers, a node that joined since has none, and what the pass itself    *)
(* has written it entered into the list.                                   *)

SnapshotCovers ==
    w.pc = "asn" =>
        \A n \in HasASN(node) : n \in HasASN(w.nodes) /\ w.nodes[n].asn = node[n].asn

DistinctInv == DistinctASNs /\ SnapshotCovers

\* A step that gives no node a number keeps the numbers distinct.
LEMMA FewerNumbers ==
    ASSUME DistinctASNs,
           \A n \in HasASN(node') : n \in HasASN(node) /\ node'[n].asn = node[n].asn
    PROVE  DistinctASNs'
BY DEF DistinctASNs, HasASN

LEMMA DistinctCluster ==
    ASSUME TypeOK, DistinctInv, Cluster
    PROVE  DistinctInv'
<1>0. node \in [Nodes -> NodeType \union {NoNode}]
  BY TypeParts DEF ClusterType
<1>1. \A n \in HasASN(node') : n \in HasASN(node) /\ node'[n].asn = node[n].asn
  <2>1. CASE NodeJoin
    BY <1>0, <2>1 DEF NodeJoin, HasASN
  <2>2. CASE NodeLeave
    BY <1>0, <2>2 DEF NodeLeave, HasASN
  <2>3. ASSUME NEW n \in Nodes, NodeAddressed(n)
        PROVE  \A o \in HasASN(node') : o \in HasASN(node) /\ node'[o].asn = node[o].asn
    <3>1. node[n] \in NodeType
      BY <1>0, <2>3 DEF NodeAddressed
    <3>2. node'[n] = [node[n] EXCEPT !.addr = TRUE] /\ node[n] # NoNode
          /\ \A o \in Nodes \ {n} : node'[o] = node[o]
      BY <1>0, <2>3 DEF NodeAddressed
    <3>3. node'[n].asn = node[n].asn
      BY <3>1, <3>2 DEF NodeType
    <3>. QED BY <3>2, <3>3 DEF HasASN
  <2>4. CASE UNCHANGED node
    BY <2>4 DEF HasASN
  <2>. QED BY <2>1, <2>2, <2>3, <2>4 DEF Cluster, Toggle, PeerDrift, SessionDown, SyncBGP,
                 Crash, SessionUp, BGPReleased
<1>2. DistinctASNs'
  BY <1>1, FewerNumbers DEF DistinctInv
<1>3. SnapshotCovers'
  <2>1. CASE Crash
    BY <2>1 DEF Crash, Restart, WIdle, SnapshotCovers
  <2>2. CASE UNCHANGED w
    <3>1. SUFFICES ASSUME w.pc = "asn", NEW n \in HasASN(node')
                   PROVE  n \in HasASN(w.nodes) /\ w.nodes[n].asn = node'[n].asn
      BY <2>2 DEF SnapshotCovers, HasASN
    <3>. QED BY <1>1, <3>1 DEF DistinctInv, SnapshotCovers
  <2>. QED BY <2>1, <2>2 DEF Cluster, NodeJoin, NodeLeave, Toggle, PeerDrift, SessionDown, SyncBGP,
                 NodeAddressed, SessionUp, BGPReleased
<1>. QED BY <1>2, <1>3 DEF DistinctInv

LEMMA DistinctWatcher ==
    ASSUME TypeOK, DistinctInv, WStep
    PROVE  DistinctInv'
<1>0. /\ node \in [Nodes -> NodeType \union {NoNode}]
      /\ w \in WType
      /\ w.nodes \in [Nodes -> NodeType \union {NoNode}]
  BY TypeParts DEF ClusterType, WType
<1>i. DistinctASNs /\ SnapshotCovers
  BY DEF DistinctInv
<1>1. CASE WFillASN
  <2>1. PICK n \in WithoutASN(w.nodes), asn \in Free(w.nodes) : PatchASN(n, asn)
    BY <1>1 DEF WFillASN
  <2>2. w.pc = "asn" /\ n \in Nodes /\ w.nodes[n] \in NodeType /\ asn \in Nat \ {0}
    BY <1>0, <1>1, RangeAssumption DEF WFillASN, WithoutASN, Free
  <2>3. \A o \in HasASN(node) : o # n /\ node[o].asn # asn
    <3>1. TAKE o \in HasASN(node)
    <3>2. o \in HasASN(w.nodes) /\ w.nodes[o].asn = node[o].asn
      BY <1>i, <2>2 DEF SnapshotCovers
    <3>3. o # n
      BY <3>2 DEF HasASN, WithoutASN
    <3>4. w.nodes[o].asn \in Used(w.nodes)
      BY <3>2 DEF HasASN, Used
    <3>. QED BY <3>2, <3>3, <3>4 DEF Free
  <2>4. CASE UNCHANGED node /\ w' = WIdle
    BY <1>i, <2>4 DEF DistinctInv, DistinctASNs, SnapshotCovers, HasASN, WIdle
  <2>5. CASE node[n] # NoNode /\ node' = [node EXCEPT ![n].asn = asn]
    <3>1. node[n] \in NodeType
      BY <1>0, <2>2, <2>5
    <3>2. node'[n].asn = asn /\ node'[n] # NoNode /\ \A o \in Nodes \ {n} : node'[o] = node[o]
      <4>1. node'[n] = [node[n] EXCEPT !.asn = asn]
        BY <1>0, <2>2, <2>5
      <4>2. asn \in ASNs
        BY RangeAssumption DEF Free, ASNs
      <4>3. node'[n] \in NodeType /\ node'[n].asn = asn
        BY <3>1, <4>1, <4>2 DEF NodeType
      <4>. QED BY <1>0, <2>5, <4>3, SentinelAssumption
    <3>3. DistinctASNs'
      BY <1>i, <2>3, <3>2 DEF DistinctASNs, HasASN
    <3>4. CASE w' = WIdle
      BY <3>3, <3>4 DEF DistinctInv, SnapshotCovers, WIdle
    <3>5. CASE w' = [w EXCEPT !.nodes[n].asn = asn]
      <4>1. w'.nodes = [w.nodes EXCEPT ![n].asn = asn]
        BY <1>0, <3>5 DEF WType
      <4>2. w'.nodes[n].asn = asn /\ \A o \in Nodes \ {n} : w'.nodes[o] = w.nodes[o]
        BY <1>0, <2>2, <4>1 DEF NodeType
      <4>3. w'.nodes[n] # NoNode
        <5>1. w'.nodes[n] = [w.nodes[n] EXCEPT !.asn = asn]
          BY <1>0, <2>2, <4>1
        <5>2. asn \in ASNs
          BY RangeAssumption DEF Free, ASNs
        <5>3. w'.nodes[n] \in NodeType
          BY <2>2, <5>1, <5>2 DEF NodeType
        <5>. QED BY <5>3, SentinelAssumption
      <4>4. ASSUME NEW o \in HasASN(node')
            PROVE  o \in HasASN(w'.nodes) /\ w'.nodes[o].asn = node'[o].asn
        <5>1. CASE o = n
          BY <2>2, <3>2, <4>2, <4>3, <5>1 DEF HasASN
        <5>2. CASE o # n
          <6>1. o \in HasASN(node)
            BY <3>2, <5>2 DEF HasASN
          <6>2. o \in HasASN(w.nodes) /\ w.nodes[o].asn = node[o].asn
            BY <1>i, <2>2, <6>1 DEF SnapshotCovers
          <6>. QED BY <3>2, <4>2, <5>2, <6>2 DEF HasASN
        <5>. QED BY <5>1, <5>2
      <4>5. SnapshotCovers'
        BY <4>4 DEF SnapshotCovers, HasASN
      <4>. QED BY <3>3, <4>5 DEF DistinctInv
    <3>. QED BY <2>1, <2>5, <3>4, <3>5 DEF PatchASN, WDone
  <2>. QED BY <2>1, <2>4, <2>5 DEF PatchASN, WDone
<1>2. CASE WDeleteASN
  <2>1. \A o \in HasASN(node') : o \in HasASN(node) /\ node'[o].asn = node[o].asn
    <3>1. CASE UNCHANGED node
      BY <3>1 DEF HasASN
    <3>2. ASSUME NEW n \in HasASN(w.nodes), node[n] # NoNode,
                 node' = [node EXCEPT ![n].asn = 0]
          PROVE  \A o \in HasASN(node') : o \in HasASN(node) /\ node'[o].asn = node[o].asn
      <4>1. n \in Nodes /\ node[n] \in NodeType
        BY <1>0, <3>2 DEF HasASN
      <4>2. node'[n].asn = 0 /\ \A o \in Nodes \ {n} : node'[o] = node[o]
        BY <1>0, <3>2, <4>1 DEF NodeType
      <4>. QED BY <4>1, <4>2 DEF HasASN
    <3>. QED BY <1>2, <3>1, <3>2 DEF WDeleteASN, PatchASN
  <2>2. w'.pc # "asn"
    <3>1. CASE WGoto("list")
      BY <1>0, <3>1 DEF WGoto, WType
    <3>2. CASE w' = WIdle
      BY <3>2 DEF WIdle
    <3>3. CASE \E n \in Nodes : w' = [w EXCEPT !.nodes[n].asn = 0]
      BY <1>0, <1>2, <3>3 DEF WDeleteASN, WType
    <3>. QED BY <1>2, <3>1, <3>2, <3>3 DEF WDeleteASN, PatchASN, WDone, HasASN
  <2>. QED BY <1>i, <2>1, <2>2, FewerNumbers DEF DistinctInv, SnapshotCovers
<1>3. CASE WGetNodes
  <2>1. DistinctASNs'
    BY <1>3, <1>i DEF WGetNodes, DistinctASNs, HasASN
  <2>2. SnapshotCovers'
    <3>1. CASE w' = WIdle
      BY <3>1 DEF WIdle, SnapshotCovers
    <3>2. CASE w'.nodes = node /\ node' = node
      BY <3>2 DEF SnapshotCovers, HasASN
    <3>. QED BY <1>0, <1>3, <3>1, <3>2 DEF WGetNodes, WDone, WType
  <2>. QED BY <2>1, <2>2 DEF DistinctInv
<1>4. ASSUME UNCHANGED node, w'.pc # "asn" PROVE DistinctInv'
  BY <1>4, <1>i DEF DistinctInv, DistinctASNs, SnapshotCovers, HasASN
<1>g. ASSUME NEW pc \in Pcs, WGoto(pc) PROVE w'.pc = pc
  BY <1>0, <1>g DEF WGoto, WType
<1>5. CASE WGetConf
  <2>1. w'.pc # "asn"
    <3>1. CASE UNCHANGED w
      BY <1>5, <3>1 DEF WGetConf
    <3>2. CASE w' = [w EXCEPT !.pc = IF conf.managed THEN "pools" ELSE "unmesh", !.conf = conf]
      BY <1>0, <3>2 DEF WType
    <3>. QED BY <1>5, <1>g, <3>1, <3>2 DEF WGetConf, Pcs
  <2>. QED BY <1>4, <1>5, <2>1 DEF WGetConf
<1>6. CASE WGetPools \/ WPanic
  BY <1>4, <1>6, <1>g DEF WGetPools, WPanic, Restart, WDone, WIdle, Pcs
<1>10. CASE WNodesProcessing
  BY <1>4, <1>10, <1>g DEF WNodesProcessing, WDone, WIdle, Pcs
<1>11. CASE WUnmesh
  BY <1>4, <1>11, <1>g DEF WUnmesh, WDone, WIdle, Pcs
<1>7. CASE WListBGPs
  BY <1>0, <1>4, <1>7 DEF WListBGPs, WType
<1>8. CASE WDeleteBGP \/ WUpdateBGP \/ WCreateBGP
  <2>1. w.pc = "apply" /\ UNCHANGED node /\ \E n : w' = [w EXCEPT !.todo = @ \ {n}]
    BY <1>8 DEF WDeleteBGP, WUpdateBGP, WCreateBGP, ForBGP
  <2>. QED BY <1>0, <1>4, <2>1 DEF WType
<1>9. CASE WGetPeer
  <2>1. w'.pc # "asn"
    <3>1. CASE w' = WIdle
      BY <3>1 DEF WIdle
    <3>2. CASE w' = [w EXCEPT !.pc = "peer", !.peer = peer, !.todo = {}]
      BY <1>0, <3>2 DEF WType
    <3>. QED BY <1>9, <3>1, <3>2 DEF WGetPeer, WDone
  <2>. QED BY <1>4, <1>9, <2>1 DEF WGetPeer
<1>12. CASE WWritePeer
  <2>1. w' = WIdle \/ WGoto("mesh")
    BY <1>12 DEF WWritePeer, WDone
  <2>2. w'.pc # "asn"
    BY <1>g, <2>1 DEF WIdle, Pcs
  <2>. QED BY <1>4, <1>12, <2>2 DEF WWritePeer
<1>13. CASE WSwitchMesh
  BY <1>4, <1>13 DEF WSwitchMesh, WDone, WIdle
<1>. QED BY <1>1, <1>2, <1>3, <1>5, <1>6, <1>7, <1>8, <1>9, <1>10, <1>11, <1>12, <1>13
       DEF WStep

\* No two nodes have the same AS number, for any number of nodes that join and leave
\* while the watcher hands out numbers, with failed patches and crashes anywhere.
THEOREM NumbersDistinct == Spec => []DistinctASNs
<1>1. Init => DistinctInv
  BY DEF Init, DistinctInv, DistinctASNs, SnapshotCovers, HasASN, WIdle, NoNodes
<1>2. TypeOK /\ DistinctInv /\ [Next]_vars => DistinctInv'
  <2>1. UNCHANGED vars /\ DistinctInv => DistinctInv'
    BY DEF vars, DistinctInv, DistinctASNs, SnapshotCovers, HasASN
  <2>. QED BY <2>1, DistinctCluster, DistinctWatcher DEF Next
<1>3. DistinctInv => DistinctASNs
  BY DEF DistinctInv
<1>. QED BY <1>1, <1>2, <1>3, TypeCorrect, PTL DEF Spec

-----------------------------------------------------------------------------
(* The mesh.                                                               *)

\* From the step that makes sure of the mesh to the end of a pass that removes the BGPs the mesh
\* is not off: only the watcher switches it.
MeshKept ==
    w.pc \in {"delNodes", "delAsn", "list", "apply", "peer"} /\ ~w.conf.managed =>
        conf \in ConfType /\ conf.mesh # "off"

\* Before that the pass goes by the switch as it read it, which is still so.
SwitchKnown ==
    w.pc = "unmesh" => conf \in ConfType /\ conf.mesh = w.conf.mesh

MeshInv == MeshKept /\ SwitchKnown

LEMMA MeshCluster ==
    ASSUME TypeOK, MeshInv, Cluster
    PROVE  MeshInv'
<1>1. CASE Crash
  BY <1>1 DEF Crash, Restart, WIdle, MeshInv, MeshKept, SwitchKnown
<1>2. CASE Toggle
  <2>1. conf' \in ConfType /\ conf'.mesh = conf.mesh /\ w' = w
    BY <1>2 DEF Toggle, ConfType
  <2>. QED BY <2>1 DEF MeshInv, MeshKept, SwitchKnown
<1>3. CASE UNCHANGED <<conf, w>>
  BY <1>3 DEF MeshInv, MeshKept, SwitchKnown
<1>. QED BY <1>1, <1>2, <1>3 DEF Cluster, NodeJoin, NodeLeave, PeerDrift, SessionDown, SyncBGP,
                 NodeAddressed, SessionUp, BGPReleased

LEMMA MeshWatcher ==
    ASSUME TypeOK, Knows, MeshInv, WStep
    PROVE  MeshInv'
<1>0. w \in WType
  BY TypeParts
<1>i. w' = WIdle => MeshInv'
  BY DEF WIdle, MeshInv, MeshKept, SwitchKnown
<1>k. ASSUME UNCHANGED conf, w'.conf = w.conf, w'.pc # "unmesh",
             w'.pc \in {"delNodes", "delAsn", "list", "apply", "peer"} /\ ~w.conf.managed
                => w.pc \in {"delNodes", "delAsn", "list", "apply", "peer"}
      PROVE  MeshInv'
  BY <1>k DEF MeshInv, MeshKept, SwitchKnown
<1>1. CASE WGetConf
  <2>1. CASE UNCHANGED w
    BY <1>1, <2>1 DEF WGetConf, MeshInv, MeshKept, SwitchKnown
  <2>2. CASE WGoto("stopping")
    BY <1>0, <2>2 DEF WGoto, WType, MeshInv, MeshKept, SwitchKnown
  <2>3. CASE conf \in ConfType /\
             w' = [w EXCEPT !.pc = IF conf.managed THEN "pools" ELSE "unmesh", !.conf = conf]
    <3>1. w'.conf = conf /\ w'.pc = IF conf.managed THEN "pools" ELSE "unmesh"
      BY <1>0, <2>3 DEF WType
    <3>2. conf' = conf
      BY <1>1 DEF WGetConf
    <3>. QED BY <2>3, <3>1, <3>2 DEF MeshInv, MeshKept, SwitchKnown
  <2>. QED BY <1>1, <2>1, <2>2, <2>3 DEF WGetConf
<1>2. CASE WGetPools
  BY <1>0, <1>i, <1>k, <1>2 DEF WGetPools, WGoto, WDone, WType
<1>3. CASE WPanic
  BY <1>i, <1>3 DEF WPanic, Restart
<1>4. CASE WGetNodes
  BY <1>0, <1>i, <1>k, <1>4 DEF WGetNodes, WDone, WType
<1>5. CASE WFillASN
  <2>1. PICK n \in WithoutASN(w.nodes), asn \in Free(w.nodes) : PatchASN(n, asn)
    BY <1>5 DEF WFillASN
  <2>2. w' = [w EXCEPT !.nodes[n].asn = asn] \/ w' = WIdle
    BY <2>1 DEF PatchASN, WDone
  <2>3. w' = [w EXCEPT !.nodes[n].asn = asn] => w'.pc = w.pc /\ w'.conf = w.conf
    BY <1>0 DEF WType
  <2>. QED BY <1>i, <1>k, <1>5, <2>2, <2>3 DEF WFillASN
<1>6. CASE WNodesProcessing
  BY <1>0, <1>i, <1>k, <1>6 DEF WNodesProcessing, WGoto, WDone, WType, Knows
<1>7. CASE WUnmesh
  <2>1. conf \in ConfType /\ conf.mesh = w.conf.mesh
    BY <1>7 DEF WUnmesh, MeshInv, SwitchKnown
  <2>2. CASE ~NeedsMesh(w.conf) /\ WGoto("delNodes") /\ UNCHANGED conf
    <3>1. w'.pc = "delNodes" /\ conf' \in ConfType /\ conf'.mesh = "on"
      BY <1>0, <2>1, <2>2 DEF NeedsMesh, WGoto, WType
    <3>. QED BY <3>1 DEF MeshInv, MeshKept, SwitchKnown
  <2>3. CASE WGoto("delNodes") /\ conf' = [conf EXCEPT !.mesh = "on"]
    <3>1. w'.pc = "delNodes" /\ conf' \in ConfType /\ conf'.mesh = "on"
      BY <1>0, <2>1, <2>3 DEF WGoto, WType, ConfType
    <3>. QED BY <3>1 DEF MeshInv, MeshKept, SwitchKnown
  <2>. QED BY <1>i, <1>7, <2>2, <2>3 DEF WUnmesh, WDone
<1>8. CASE WDeleteASN
  <2>1. CASE WGoto("list")
    BY <1>0, <1>k, <1>8, <2>1 DEF WDeleteASN, WGoto, WType
  <2>2. ASSUME NEW n \in HasASN(w.nodes), PatchASN(n, 0) PROVE MeshInv'
    <3>1. w' = [w EXCEPT !.nodes[n].asn = 0] \/ w' = WIdle
      BY <2>2 DEF PatchASN, WDone
    <3>2. w' = [w EXCEPT !.nodes[n].asn = 0] => w'.pc = w.pc /\ w'.conf = w.conf
      BY <1>0 DEF WType
    <3>. QED BY <1>i, <1>k, <1>8, <3>1, <3>2 DEF WDeleteASN
  <2>. QED BY <1>8, <2>1, <2>2 DEF WDeleteASN
<1>9. CASE WListBGPs
  BY <1>0, <1>k, <1>9 DEF WListBGPs, WType
<1>10. CASE WDeleteBGP \/ WUpdateBGP \/ WCreateBGP
  <2>1. w.pc = "apply" /\ UNCHANGED conf /\ \E n : w' = [w EXCEPT !.todo = @ \ {n}]
    BY <1>10 DEF WDeleteBGP, WUpdateBGP, WCreateBGP, ForBGP
  <2>. QED BY <1>0, <1>k, <2>1 DEF WType
<1>11. CASE WGetPeer
  BY <1>0, <1>i, <1>k, <1>11 DEF WGetPeer, Applied, WDone, WType
<1>12. CASE WWritePeer
  BY <1>0, <1>i, <1>k, <1>12 DEF WWritePeer, WGoto, WDone, WType
<1>13. CASE WSwitchMesh
  BY <1>i, <1>13 DEF WSwitchMesh, WDone
<1>. QED BY <1>1, <1>2, <1>3, <1>4, <1>5, <1>6, <1>7, <1>8, <1>9, <1>10, <1>11, <1>12,
            <1>13 DEF WStep

\* What a pass without the annotation takes away it takes away after its call for the mesh.
LEMMA TakesAway ==
    ASSUME Knows, [Next]_vars, ~w.conf.managed, w' # w,
           <<node, bgp, peer>>' # <<node, bgp, peer>>
    PROVE  w.pc \in {"delNodes", "delAsn", "list", "apply", "peer"}
<1>1. ~WFillASN /\ ~WNodesProcessing /\ ~WSwitchMesh
  BY DEF WFillASN, WNodesProcessing, WSwitchMesh, Knows
<1>. QED BY <1>1
     DEF Next, vars, Cluster, NodeJoin, NodeLeave, Toggle, PeerDrift, SessionDown, SyncBGP, Crash,
         Restart, NodeAddressed, SessionUp, BGPReleased, WStep, WGetConf, WGetPools, WPanic,
         WGetNodes, WUnmesh, WDeleteASN, WListBGPs, WDeleteBGP, WUpdateBGP, WCreateBGP, WGetPeer,
         WWritePeer, Applied

\* A pass that has found no annotation takes a node's number, a BGP or the peer away only under
\* a mesh that is not off, whatever the user does to the annotation meanwhile and however many
\* passes failed before.
THEOREM MeshUnderDeletes == Spec => DeletesUnderMesh
<1>1. Init => MeshInv
  BY DEF Init, WIdle, MeshInv, MeshKept, SwitchKnown
<1>2. TypeOK /\ Knows /\ MeshInv /\ [Next]_vars => MeshInv'
  <2>1. UNCHANGED vars /\ MeshInv => MeshInv'
    BY DEF vars, MeshInv, MeshKept, SwitchKnown
  <2>. QED BY <2>1, MeshCluster, MeshWatcher DEF Next
<1>3. TypeOK /\ Knows /\ MeshInv /\ [Next]_vars =>
         [/\ w.conf \in ConfType /\ ~w.conf.managed
          /\ w' # w /\ <<node, bgp, peer>>' # <<node, bgp, peer>>
          => conf.mesh # "off"]_vars
  <2>1. ASSUME MeshInv, w.pc \in {"delNodes", "delAsn", "list", "apply", "peer"}, ~w.conf.managed
        PROVE  conf.mesh # "off"
    BY <2>1 DEF MeshInv, MeshKept
  <2>. QED BY <2>1, TakesAway
<1>. QED BY <1>1, <1>2, <1>3, KnowsAlways, PTL DEF Spec, DeletesUnderMesh

=============================================================================
