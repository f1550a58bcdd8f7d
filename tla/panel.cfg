SPECIFICATION Spec
CONSTANTS
  MaxOperations = 3
  MaxInbox = 1
INVARIANTS SettledInspectAgrees NeverLeftInspecting SettledViewIsCurrent
PROPERTY UnlinkedPanelStopsInspecting
\* A panel that is closed does nothing more.
CHECK_DEADLOCK FALSE
