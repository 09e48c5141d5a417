SPECIFICATION MCSpec
CONSTANTS
  Parts = {"log", "catalog", "rename", "history", "cache", "rows"}
  None = None
  Shapes = {s1, s2}
  MaxSeq = 4
  MaxQueue = 6
  MaxCrashes = 2
  Defs = {d1, d2}
  Names = {n1, n2, n3}
  Procs = {p1, p2}
SYMMETRY Symmetry
INVARIANTS
  CheckpointWithinLog
  RecoveryFindsNewest
  TimelineSurvives
  
  RenameIsSafe
  
CHECK_DEADLOCK FALSE
