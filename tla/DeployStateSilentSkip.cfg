SPECIFICATION Spec
CONSTANTS
  p1 = p1
  p2 = p2
  s1 = s1
  s2 = s2
  h1 = h1
  h2 = h2
  None = None
  Torn = Torn
  Absent = Absent
  Procs <- MCProcs
  Slots <- OneSlot
  Hashes <- MCHashes
  Faults <- OnlyOverlap
  MaxRuns = 3
  MaxEdits = 2
  MaxFaults = 1
SYMMETRY Symm
CHECK_DEADLOCK FALSE
PROPERTY
  NeverASilentSkip
