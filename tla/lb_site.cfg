SPECIFICATION Spec
CONSTANTS
  Services <- TwoServices
  Ports = {p}
  Wishes <- PlainWishes
  Hosts = {h1, h2}
  SiteOf <- EachSite
  Placements <- Each
  Addrs = {a1, a2}
  Budget <- Calm
  p = p
  q = q
  h1 = h1
  h2 = h2
  a1 = a1
  a2 = a2
  None = None
  NoService = NoService
  Gone = Gone
  NoLB = NoLB
  NoMeta = NoMeta
  MIdle = MIdle
PROPERTIES
  SiteOfBackends
