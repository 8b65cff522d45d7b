CONSTANTS
  x0 = x0
  x1 = x1
  x2 = x2
  Reg <- MCReg
  X0 <- x0
  Word <- Bit
  Zero = 0
  Four = 0
  Op <- MCOp
  Fn <- BitFn
  Cond <- BitCond
  TVec = 0
  ResetPC = 0
  MemInit <- BitMem
  Uops <- MemUops
  MduLatency = {1, 2}
SPECIFICATION LiveSpec
INVARIANTS
  TypeOK
  ScoreboardExact
  UnitsExclusive
  OperandsCurrent
  Lane1KeepsUp
  WritersDistinct
PROPERTIES
  ExecutesInOrder
  BundleLeaves
