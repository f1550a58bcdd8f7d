SPECIFICATION Spec
CONSTANTS
  Panels = {p1, p2}
  Links = {l1, l2}
  NoLink = NoLink
  MaxAttempts = 2
  MaxQueue = 2
  Faults <- AbortFaults
INVARIANTS
  UnlinkDeletesMapping
CHECK_DEADLOCK FALSE
