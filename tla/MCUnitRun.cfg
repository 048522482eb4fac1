SPECIFICATION Spec
CONSTANTS
  v1 = v1
  v2 = v2
  None = None
  Partial = Partial
  Broken = Broken
  Tasks <- MCTasks
  Kind <- MCKind
  Retry <- MCRetry
  Deps <- MCDeps
  Versions <- MCVersions
  First = v1
  Remote = TRUE
  Options <- FailFast
  MaxRuns = 3
  MaxEdits = 2
  MaxOutside = 1
CHECK_DEADLOCK FALSE
INVARIANTS
  CacheIsFaithful
  GoodRowGoodOutput
  ShipsOnlyGoodBuilds
  EachDeployAnnouncedOnce
  UnchangedIsServed
PROPERTY
  InvocationEnds
