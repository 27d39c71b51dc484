SPECIFICATION Spec
CONSTANTS
  Scenarios <- PlainVNet
  MaxUid = 1
  MaxEdit = 1
  MaxId = 3
  NoCR = NoCR
  NoMeta = NoMeta
  NoObj = NoObj
  Foreign = Foreign
  NilMap = NilMap
INVARIANTS
  DeleteHonoured
\* The bounds let the system come to rest: no UID, edit or disturbance is left.
CHECK_DEADLOCK FALSE
