\* The kernel's tasks and the DMA engine: buffer ownership, the start-up gate,
\* and progress under weak fairness of the processor, the deadlines
\* and the transmit engine.
SPECIFICATION NetFairSpec
CONSTANTS
  NumTasks = 4
  Dgrams <- MCDgrams
  Filters <- MCFilters
  Any = Any
  NoData = NoData
INVARIANTS
  UdpBuffExclusive
  BuffersOwned
  StartupOrder
  RetryAfterSenders
PROPERTIES
  ReceiverRearms
  SendReturns
