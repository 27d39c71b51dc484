SPECIFICATION FairSpec
CONSTANTS
  Services <- OneService
  Ports = {p, q}
  Wishes <- ChangeWishes
  Hosts = {h1, h2}
  SiteOf <- OneSite
  Placements <- NoneOrOne
  Addrs = {a1, a2}
  Budget <- AnyTwo
  p = p
  q = q
  h1 = h1
  h2 = h2
  a1 = a1
  a2 = a2
  None = None
  NoService = NoService
  Gone = Gone
  NoLB = NoLB
  NoMeta = NoMeta
  MIdle = MIdle
INVARIANTS
  TypeOK
PROPERTIES
  OneAddress
  EventuallySettled
