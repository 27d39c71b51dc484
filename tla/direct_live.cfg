SPECIFICATION FairSpec
CONSTANTS
  Scenarios <- Disturbed
  MaxUid = 1
  MaxEdit = 2
  MaxId = 3
  NoCR = NoCR
  NoMeta = NoMeta
  NoObj = NoObj
  Foreign = Foreign
  NilMap = NilMap
INVARIANTS
  ImportAdopts
PROPERTIES
  EditsKept
  RetryAdopts
  EventuallySettled
\* The bounds let the system come to rest: no UID, edit or disturbance is left.
CHECK_DEADLOCK FALSE
