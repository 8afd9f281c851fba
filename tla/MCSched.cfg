\* The idle task and two tasks that make any call: safety, and progress under
\* weak fairness of their steps.
SPECIFICATION FairSpec
CONSTANTS
  NumTasks = 3
  Dgrams <- MCDgrams
  Filters <- MCFilters
  Any = Any
  NoData = NoData
INVARIANTS
  NumWaitingExact
  RecvBuffersLive
  RecvOutcome
PROPERTIES
  WokenOnlyByOwnEvent
  DeliveredOnce
  RunnableRuns
  RecvReturns
