SPECIFICATION Spec
CONSTANTS
  v1 = v1
  v2 = v2
  None = None
  Partial = Partial
  Broken = Broken
  Tasks <- MCTasks
  Kind <- MCKind
  Retry <- MCRetry
  Deps <- MCDeps
  Versions <- MCVersions
  First = v1
  Remote = TRUE
  Options <- KeepGoing
  MaxRuns = 3
  MaxEdits = 1
  MaxOutside = 0
CHECK_DEADLOCK FALSE
INVARIANT
  UnchangedIsServed
