CONSTANTS
  MaxTasks = 3
  LimitArgs = {1, 2, 3}
  MaxHead = 3
  MaxConfigs = 2
SPECIFICATION PonsSpec
INVARIANTS
  SnapshotIsOneBlock
  AnswerIsNotStale
  ListIsOneBlock
  ListIsOfThisTime
