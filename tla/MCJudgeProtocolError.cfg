CONSTANTS
  NumJobs = 2
  RetryLimit = 3
SPECIFICATION Spec
INVARIANT FailureNotReported
CHECK_DEADLOCK FALSE
