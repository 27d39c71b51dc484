SPECIFICATION FairSpec
CONSTANTS
  Scenarios <- OneAtATime
  Pairs <- AllPairs
  Unknown <- NoPort
  A = A
  B = B
  U = U
  NoCR = NoCR
  NoMeta = NoMeta
  NoPair = NoPair
INVARIANTS
  TypeOK
  NothingLeft
PROPERTIES
  KeepsLedger
  EventuallySettled
\* The user may make the CR and take it away before anything has happened.
CHECK_DEADLOCK FALSE

