SPECIFICATION FairSpec
CONSTANTS
  Order <- ThreeLists
  Keys = {k}
  Callers = {r1, r2}
  Sought <- FirstTwo
  Broken <- LinksBroken
  Budget <- OneOfEach
  Downloader = Downloader
  Nobody = Nobody
  NoKey = NoKey
  Error = Error
  Asked = Asked
INVARIANTS
  TypeOK
PROPERTIES
  NeverBackwards
  NoFalseMiss
  LookUpsEnd
  BecomesCurrent
  KeepsCopies
