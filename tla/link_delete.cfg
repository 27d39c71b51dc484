SPECIFICATION Spec
CONSTANTS
  Scenarios <- MoveOnto
  Pairs <- AllPairs
  Unknown <- NoPort
  A = A
  B = B
  U = U
  NoCR = NoCR
  NoMeta = NoMeta
  NoPair = NoPair
INVARIANT
  NothingLeft
\* The user may make the CR and take it away before anything has happened.
CHECK_DEADLOCK FALSE
