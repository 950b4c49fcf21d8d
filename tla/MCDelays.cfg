SPECIFICATION Spec
CONSTANTS
  Bases = {0, 1, 2, 3, 4, 5, 6, 7, 8, 9, 10, 11, 12, 13, 14, 15, 16, 17, 18, 19, 20, 63, 64, 65, 100, 127}
  Second = 1
  MaxDuration = 127
  MaxN = 9
INVARIANT
  JitterWithinReference
CHECK_DEADLOCK FALSE
