SPECIFICATION Spec
CONSTANTS
  Scenarios <- Recreated
  MaxUid = 2
  MaxEdit = 2
  MaxId = 1
  NoCR = NoCR
  NoMeta = NoMeta
  NoObj = NoObj
  Foreign = Foreign
  NilMap = NilMap
INVARIANTS
  TypeOK
  GenerationNeverAhead
  MetaRequiresFinalizer
PROPERTIES
  IDNeverLost
  GenerationNeverRegresses
  KeepsLedger
\* The bounds let the system come to rest: no UID, edit or disturbance is left.
CHECK_DEADLOCK FALSE
