CONSTANTS
  Levels = 3
  PageWords = 2
  Zero <- MCZero
  NoPage = NoPage
  Page <- MCPage
  Order <- MCOrder
  Targets <- MCTargets
  MapFlags <- MCMapFlags
  Addresses <- MCAddresses
  Sources <- MCSources
SPECIFICATION Spec
INVARIANTS TreeShape CountExact
PROPERTIES CopyExact FaultVerdict Implements
CHECK_DEADLOCK FALSE
