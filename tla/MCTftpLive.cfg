SPECIFICATION FairSpec
CONSTANTS
  Transfers <- MCTransfers
  MaxServe = 1
  Stray <- MCNoStray
PROPERTIES
  SessionEnds
