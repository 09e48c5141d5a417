SPECIFICATION MCSpec
CONSTANTS
  Parts = {"rename"}
  None = None
  Shapes = {s1, s2}
  MaxSeq = 4
  MaxQueue = 6
  MaxCrashes = 2
  Defs = {d1, d2}
  Names = {n1, n2, n3}
  Procs = {p1, p2}
SYMMETRY Symmetry
INVARIANT StreamOutlivesStop
CHECK_DEADLOCK FALSE
