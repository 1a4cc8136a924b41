SPECIFICATION Spec
CONSTANTS
  p1 = p1
  p2 = p2
  k1 = k1
  k2 = k2
  Process = {p1, p2}
  Key = {k1, k2}
  Inode = {1, 2}
  Threshold = 2
  MaxWrites = 5
  MaxFaults = 2
INVARIANTS
  IndexIsFresh
  AckedSurvives
  NeverWedged
  SegmentBounded
CHECK_DEADLOCK FALSE
SYMMETRY Symmetry
