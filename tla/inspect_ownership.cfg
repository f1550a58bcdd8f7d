SPECIFICATION FairSpec
CONSTANTS
  Sessions = {s1, s2}
  NoSession = NoSession
  Ports = {p1, p2, p3}
  NoPort = NoPort
  MaxQueue = 3
  MayNavigate = TRUE
INVARIANTS
  CaptureIsLeased
  BeliefIsOwned
  OwnerIsShown
PROPERTIES
  CaptureEnds
  BeliefBecomesTrue
CHECK_DEADLOCK FALSE
