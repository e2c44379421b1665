CONSTANT MaxCalls = 2
SPECIFICATION Spec
INVARIANTS
  SnapshotFollowsGovernance
  LaunchedAsExpected
