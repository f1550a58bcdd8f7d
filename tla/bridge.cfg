SPECIFICATION FairSpec
CONSTANTS
  MaxFailures = 2
  FailureWindow = 1
  Cooldown = 1
  MaxActive = 1
  TokenLifetime = 1
  Conns = {c1, c2}
  MaxTime = 2
  MaxTokens = 3
INVARIANTS
  CountsAreCurrent
  NoGhostClients
  StoppedServesNobody
PROPERTIES
  ImplementsBridgePromise
  HandshakeEnds
  SilentClientLeaves
  StopCompletes
\* A server whose time is used up stays as it is.
CHECK_DEADLOCK FALSE
