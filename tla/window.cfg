SPECIFICATION FairSpec
CONSTANTS
  Panels = {p1, p2}
  Links = {l1, l2}
  NoLink = NoLink
  MaxAttempts = 2
  MaxQueue = 3
  Faults <- AllFaults
INVARIANTS
  OneSocketPerWindow
  ClientIsHeard
  LinkedMeansServing
  TimerHasPurpose
  ProgressIsPending
  ForgottenStaysForgotten
PROPERTIES
  SettlesWhenLeftAlone
  ImplementsWindowLink
\* A window that is removed, or left alone, stays as it is.
CHECK_DEADLOCK FALSE
