CONSTANTS
  x0 = x0
  x1 = x1
  Reg <- MCReg
  X0 <- x0
  Word <- Bit
  Zero = 0
  Four = 1
  Op <- MCOp
  Fn <- BitFn
  Cond <- BitCond
  TVec = 1
  ResetPC = 0
  MemInit <- BitMem
  Uops <- TraceUops
  MduLatency = {1}
  MaxQueue = 4
SPECIFICATION TraceSpec
CONSTRAINT QueueBound
PROPERTY EveryCompletionTraced
