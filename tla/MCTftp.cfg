SPECIFICATION Spec
CONSTANTS
  Transfers <- MCSession
  MaxServe = 2
  Stray <- MCStray
INVARIANTS
  TransfersComplete
  LockStep
  FailsForAReason
