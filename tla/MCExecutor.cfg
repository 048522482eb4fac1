SPECIFICATION Spec
CONSTANTS
  a = a
  b = b
  c = c
  root = root
  own = own
  Names <- Units3
  Scope <- MCScope
  Options <- MCOptions
  Declared <- MCDeclared
  Profiles <- TwoProfiles
  Filters <- MCFilters
  Parallelism = 2
CHECK_DEADLOCK FALSE
INVARIANTS
  FailFastHoldsBack
  GreenExitIsComplete
  InstallsAreExclusive
  BrokenInstallStopsScope
PROPERTIES
  ImplementsOrderedRun
  ExecuteReturns
