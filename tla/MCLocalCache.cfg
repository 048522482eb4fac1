SPECIFICATION Spec
CONSTANTS
  p1 = p1
  p2 = p2
  p3 = p3
  b1 = b1
  b2 = b2
  None = None
  Hole = Hole
  Procs <- MCProcs
  Bundles <- MCBundles
  Size = 2
  Inodes <- MCInodes
  Overlap = FALSE
  MaxOps = 5
SYMMETRY Symm
CHECK_DEADLOCK FALSE
INVARIANTS
  HitsAreWhole
PROPERTY
  ImplementsAtomicCache
