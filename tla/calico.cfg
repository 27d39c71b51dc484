SPECIFICATION FairSpec
CONSTANTS
  Nodes <- ThreeNodes
  Nodes0 <- TwoNodes
  n1 = n1
  n2 = n2
  n3 = n3
  AsnStart = 10
  AsnEnd = 12
  Budgets <- AnyTrouble
  Confs0 <- AllConfs
  Pools0 = {TRUE, FALSE}
  NoNode = NoNode
  NoBGP = NoBGP
  NoConf = NoConf
  NoCRD = NoCRD
INVARIANTS
  TypeOK
  DistinctASNs
PROPERTIES
  DeletesUnderMesh
  MeshFollows
  ServesNodes
  CleansUp
\* The bounds let the cluster and the watcher come to rest.
CHECK_DEADLOCK FALSE
