SPECIFICATION Spec
CONSTANTS
  Sessions = {s1, s2}
  NoSession = NoSession
  Ports = {p1, p2, p3}
  NoPort = NoPort
  MaxQueue = 3
  MayNavigate = FALSE
PROPERTIES
  NewerOwnerKeepsTab
CHECK_DEADLOCK FALSE
