SPECIFICATION FairSpec
CONSTANTS
  Scenarios <- OneAtATime
  EditAddresses <- NoOther
  EditPolicies <- PlainOrRetain
  MaxEdit = 2
  MaxId = 3
  Preexisting = TRUE
  NoCR = NoCR
  NoMeta = NoMeta
  NoObj = NoObj
INVARIANTS
  TypeOK
PROPERTIES
  ObjectFirst
  EventuallySettled
  KeepsLedger
