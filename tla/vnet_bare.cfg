SPECIFICATION FairSpec
CONSTANTS
  Scenarios <- BareVNet
  MaxUid = 1
  MaxEdit = 1
  MaxId = 3
  NoCR = NoCR
  NoMeta = NoMeta
  NoObj = NoObj
  Foreign = Foreign
  NilMap = NilMap
PROPERTIES
  DefaultsApplied
\* The bounds let the system come to rest: no UID, edit or disturbance is left.
CHECK_DEADLOCK FALSE
