CONSTANTS
  Radix = 4
  And <- MCAnd
  Or <- MCOr
  Not <- MCNot
  Instrs <- TrapInstrs
  Issued <- CounterInstrs
  PCs = {0, 2}
  MIE = 1
  MPIE = 2
  Aligned = 2
  Cause <- MCCause
  Words <- MCWords
  ToHost = 0
  Preload <- MCPreload
  Requests <- MCRequests
  Stalls = {0, 1, 2}
  Modes = {"stalls", "fixed"}
  Blocks = {b0, b1, b2}
  FetchModes = {"zero", "random", "fixed", "contract"}
SPECIFICATION PartsSpec
INVARIANTS
  HandlerMasked
  LoadsSeeStores
  SignatureComplete
  VerdictIsToHost
  FetchedIsWanted
  FixedIsBram
PROPERTIES
  MretResumes
  CountsExactly
  TicksThenWrites
  DataResultReported
  FetchRequestAnswered
CHECK_DEADLOCK FALSE
