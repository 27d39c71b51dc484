SPECIFICATION Spec
CONSTANTS
  Nodes <- TwoNodes
  Nodes0 <- TwoNodes
  n1 = n1
  n2 = n2
  n3 = n3
  AsnStart = 10
  AsnEnd = 12
  Budgets <- Joining
  Confs0 <- ManagedConfs
  Pools0 <- HasPool
  NoNode = NoNode
  NoBGP = NoBGP
  NoConf = NoConf
  NoCRD = NoCRD
PROPERTIES
  PeersFirst
\* The bounds let the cluster and the watcher come to rest.
CHECK_DEADLOCK FALSE
