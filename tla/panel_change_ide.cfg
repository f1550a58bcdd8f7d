SPECIFICATION Spec
CONSTANTS
  MaxOperations = 3
  MaxInbox = 1
INVARIANT ChangingIdeStopsInspecting
\* A panel that is closed does nothing more.
CHECK_DEADLOCK FALSE
