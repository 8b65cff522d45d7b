CONSTANTS
  x0 = x0
  x1 = x1
  x2 = x2
  Reg <- OneReg
  X0 <- x0
  Word <- Trit
  Zero = 0
  Four = 1
  Op <- MCOp
  Fn <- TritFn
  Cond <- TritCond
  TVec = 2
  ResetPC = 0
  MemInit <- TritMem
  Uops <- FlowUops
  MduLatency = {1}
SPECIFICATION Spec
INVARIANTS
  IInv
PROPERTY ExecutesInOrder
