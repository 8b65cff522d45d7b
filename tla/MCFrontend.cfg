CONSTANTS
  Size = 12
  Program <- MCProgram
  Depth = 4
  ResetPC = 0
  RedirectTargets = {0, 7}
  Predictions = {5, 8}
SPECIFICATION LiveSpec
INVARIANTS
  TypeOK
  PathContinuous
PROPERTIES
  DeliversStream
  RequestStable
  NeverStarves
