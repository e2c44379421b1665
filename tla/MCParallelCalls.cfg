CONSTANTS
  MaxTasks = 3
  LimitArgs <- MCLimitArgs
SPECIFICATION Spec
INVARIANTS
  NilMeansAllRead
  RootCauseReported
PROPERTIES
  ImplementsBatch
  StopsOnFailure
  CompletesIfReadsReturn
