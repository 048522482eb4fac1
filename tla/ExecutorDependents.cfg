SPECIFICATION Spec
CONSTANTS
  a = a
  b = b
  c = c
  root = root
  own = own
  Names <- Units3
  Scope <- MCScope
  Options <- FailFastOnly
  Declared <- MCDeclared
  Profiles <- OneProfile
  Filters <- MCFilters
  Parallelism = 2
CHECK_DEADLOCK FALSE
INVARIANT
  DependentsWaitForSuccess
