CONSTANTS
  NumJobs = 2
  RetryLimit = 3
SPECIFICATION Spec
INVARIANTS QuietWhileRead ReportIsOwn
CHECK_DEADLOCK FALSE
