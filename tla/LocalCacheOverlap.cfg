SPECIFICATION Spec
CONSTANTS
  p1 = p1
  p2 = p2
  p3 = p3
  b1 = b1
  b2 = b2
  None = None
  Hole = Hole
  Procs <- TwoProcs
  Bundles <- MCBundles
  Size = 2
  Inodes <- MCInodes
  Overlap = TRUE
  MaxOps = 4
SYMMETRY Symm
CHECK_DEADLOCK FALSE
INVARIANT
  WriteIsAtomic
