SPECIFICATION Spec
CONSTANTS
  MaxRequests = 5
  Ports = 2
INVARIANTS
  CredentialsMatchBridge
  LastRequestDecides
PROPERTIES
  RequestsComplete
  RunningBridgeReachesIde
\* A user who has used up the requests leaves a disposed runtime at rest.
CHECK_DEADLOCK FALSE
