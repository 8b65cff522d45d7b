CONSTANTS
  Radix = 4
  And <- MCAnd
  Or <- MCOr
  Not <- MCNot
  Instrs <- ReservedInstrs
  PCs = {0, 2}
  MIE = 1
  MPIE = 2
  Aligned = 2
  Cause <- MCCause
SPECIFICATION Spec
PROPERTY TrapEntryAtomic
