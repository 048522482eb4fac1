SPECIFICATION Spec
CONSTANTS
  p1 = p1
  p2 = p2
  s1 = s1
  s2 = s2
  h1 = h1
  h2 = h2
  None = None
  Torn = Torn
  Absent = Absent
  Procs <- MCProcs
  Slots <- TwoSlots
  Hashes <- MCHashes
  Faults <- AllFaults
  MaxRuns = 3
  MaxEdits = 2
  MaxFaults = 1
SYMMETRY Symm
CHECK_DEADLOCK FALSE
INVARIANTS
  TypeOK
  RecordsWereShipped
  SerialRunsKeepFileWhole
PROPERTIES
  SkipIsSound
  SerialRunsKeepRecords
