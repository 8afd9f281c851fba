\* What the callers make of a recv_udp that returns 0, against what it means.
SPECIFICATION Spec
CONSTANTS
  NumTasks = 3
  Dgrams <- MCDgrams
  Filters <- MCFilters
  Any = Any
  NoData = NoData
INVARIANTS
  ZeroOnlyAtDeadline
