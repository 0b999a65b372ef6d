\* From a URL to the first values exchanged; the router may refuse, challenge,
\* abort or be silent, the link may fail, a read may come back short.
SPECIFICATION Spec
CONSTANTS
  WellFormed <- MCWellFormed
  Malformed <- MCMalformed
  Losses = {"ended", "reset"}
  IntLimit = 4
  Values <- MCValues
  Depth <- MCDepth
  Types = {"int64", "uint64", "list"}
INVARIANTS
  TypeOK
  AddressAsWritten
  DetailsMeanWelcome
  FailsCleanly
  EchoKeepsValues
  ArgReadsBack
PROPERTIES
  JoinEnds
  WelcomeJoins
CHECK_DEADLOCK FALSE
