SPECIFICATION Spec
CONSTANTS
  Channels = {c1, c2}
  NoChannel = NoChannel
  Windows = {w1, w2}
  NoWindow = NoWindow
  MaxGeneration = 6
  MaxLookups = 2
SYMMETRY Symmetry
INVARIANTS
  ActivationIsSound
  SettledPanelIsInPlace
PROPERTIES
  AcknowledgedInPlace
  NoPortIsForgotten
CHECK_DEADLOCK FALSE
