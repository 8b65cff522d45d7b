CONSTANTS
  Base = 16
  IWidth = 4
  DWidth = 2
  Depths = {0, 1, 2, 3, 4}
  Starts = {15, 16, 17, 18, 20, 22, 24}
  Bodies <- MCBodies
  MaxSections = 2
  Ends = {14, 17, 22, 23}
  Nop <- MCNop
  Regs = {"x5", "x10"}
  Values = {1, 2}
  Addresses = {1, 2}
  MaxRun = 3
  Programs = {p1, p2}
  Readings <- MCReadings
  Absent = absent
  Sources = {0, 1, 3, 6, 9, 15}
  Tools = {"pseudo"}
SPECIFICATION Spec
INVARIANT PseudoMeansBase
CHECK_DEADLOCK FALSE
