CONSTANTS
  Modulus = 16
  IntModulus = 8
  Grace = 1
  Limits <- MCLimits
  Values <- MCValues
  KernelTop = 100
  TrapTop = 50
  Frame = 5
  MaxTime = 4
  MaxEpc = 1
SPECIFICATION FairSpec
INVARIANTS ScratchRule OutcomeOfLastTrap
PROPERTIES ContextKept UserModeLeft
CHECK_DEADLOCK FALSE
