------------------------------ MODULE Backend ------------------------------
(***************************************************************************)
(* The back end of the core: the issue stage with its bundle buffer,       *)
(* register file, bypass network and scoreboard; the two ALU lanes; the    *)
(* LSU; the MDU; and the two retire lanes.  It is a synchronous circuit:   *)
(* every action is one clock edge, and actions differ in what lane 0       *)
(* dispatches.  The wires of the current cycle are state functions.        *)
(*                                                                         *)
(* The decode stage offers, at each clock, any bundle of at most two       *)
(* instructions that starts at fpc and follows the predicted path.  The    *)
(* data memory answers a request after any number of cycles.               *)
(***************************************************************************)
EXTENDS Uop, Integers, Sequences

CONSTANT MduLatency   (* the cycles from an MDU dispatch to its result *)

ASSUME BackendAssumption == MduLatency \subseteq Nat \ {0}

VARIABLES
  buf0, buf1,  (* Issue's bundle buffer: two uops, buf0 the older            *)
  fpc,         (* the PC of the next instruction decode will offer           *)
  arf,         (* the architectural register file                            *)
  cnt,         (* the scoreboard: outstanding writes of each register        *)
  pend,        (* the MDU destination Issue protects: {} or one register     *)
  csr,         (* the CSR that traps write (mepc)                            *)
  alu0, alu1,  (* the ALU stages                                             *)
  lsu,         (* the LSU's request                                          *)
  mdu,         (* the MDU and the uop cpu_core keeps for it                  *)
  ret0, ret1,  (* the retire stages                                          *)
  mem,         (* the data memory                                            *)
  rdy          (* the data memory answers in this cycle (s_ready)            *)

vars == <<buf0, buf1, fpc, arf, cnt, pend, csr, alu0, alu1, lsu, mdu,
          ret0, ret1, mem, rdy>>

(* An ALU stage keeps the operands and computes from them; what it holds   *)
(* here is the result, which is the same in every cycle of its stay.       *)
Entry    == [v : BOOLEAN, w : BOOLEAN, rd : Reg, val : Word]
NoEntry  == [v |-> FALSE, w |-> FALSE, rd |-> X0, val |-> Zero]
EntryOf(u, x) == [v |-> TRUE, w |-> WritesRd(u), rd |-> u.rd, val |-> x]

Request  == [v : BOOLEAN, load : BOOLEAN, w : BOOLEAN, rd : Reg,
             addr : Word, data : Word]
NoRequest == [v |-> FALSE, load |-> FALSE, w |-> FALSE, rd |-> X0,
              addr |-> Zero, data |-> Zero]

MduState == [busy : BOOLEAN, left : Nat, w : BOOLEAN, rd : Reg, val : Word]
MduIdle  == [busy |-> FALSE, left |-> 0, w |-> FALSE, rd |-> X0, val |-> Zero]

CntMod == 8   \* the scoreboard's counters are three bits wide

TypeOK ==
  /\ buf0 \in Uops \cup {Bubble} /\ buf1 \in Uops \cup {Bubble}
  /\ fpc \in Word
  /\ arf \in [Reg -> Word]
  /\ cnt \in [Reg -> 0..CntMod - 1]
  /\ pend \in SUBSET Reg
  /\ csr \in Word
  /\ alu0 \in Entry /\ alu1 \in Entry
  /\ lsu \in Request
  /\ mdu \in MduState
  /\ ret0 \in Entry /\ ret1 \in Entry
  /\ mem \in [Word -> Word]
  /\ rdy \in BOOLEAN

Init ==
  /\ buf0 = Bubble /\ buf1 = Bubble
  /\ fpc = ResetPC
  /\ arf = [r \in Reg |-> Zero]
  /\ cnt = [r \in Reg |-> 0]
  /\ pend = {}
  /\ csr = Zero
  /\ alu0 = NoEntry /\ alu1 = NoEntry
  /\ lsu = NoRequest
  /\ mdu = MduIdle
  /\ ret0 = NoEntry /\ ret1 = NoEntry
  /\ mem \in MemInit
  /\ rdy = FALSE

----------------------------------------------------------------------------
(* Wires of the units *)
LsuStall == lsu.v /\ ~rdy
LsuDone  == lsu.v /\ rdy
LoadData == mem[lsu.addr]
MduReady == ~mdu.busy
MduDoneEarly == mdu.busy /\ mdu.left = 1      \* mutant: one cycle early
MduDone == mdu.busy /\ mdu.left = 0
Alu0Done == alu0.v /\ ~(LsuStall \/ MduDone)
Alu1Done == alu1.v /\ ~LsuStall

(* Bypass network: the youngest matching producer wins. *)
Alu0Hit(r) == alu0.v /\ alu0.w /\ alu0.rd = r
Alu1Hit(r) == alu1.v /\ alu1.w /\ alu1.rd = r
LsuHit(r)  == LsuDone /\ lsu.load /\ lsu.rd = r
Ret0Hit(r) == ret0.w /\ ret0.rd = r
Ret1Hit(r) == ret1.w /\ ret1.rd = r
BypassOldestFirst(r) ==   \* mutant: a retiring value hides a younger one
  IF r = X0 THEN Zero
  ELSE IF Ret1Hit(r) THEN ret1.val
  ELSE IF Ret0Hit(r) THEN ret0.val
  ELSE IF Alu1Hit(r) THEN alu1.val
  ELSE IF Alu0Hit(r) THEN alu0.val
  ELSE IF LsuHit(r)  THEN LoadData
  ELSE arf[r]
Bypass(r) ==
  IF r = X0 THEN Zero
  ELSE IF Alu1Hit(r) THEN alu1.val
  ELSE IF Alu0Hit(r) THEN alu0.val
  ELSE IF LsuHit(r)  THEN LoadData
  ELSE IF Ret1Hit(r) THEN ret1.val
  ELSE IF Ret0Hit(r) THEN ret0.val
  ELSE arf[r]
HitNoLsu(r) ==            \* mutant: a completing load is not a hit
  r = X0 \/ Alu1Hit(r) \/ Alu0Hit(r) \/ Ret1Hit(r) \/ Ret0Hit(r)
Hit(r) ==
  r = X0 \/ Alu1Hit(r) \/ Alu0Hit(r) \/ LsuHit(r) \/ Ret1Hit(r) \/ Ret0Hit(r)
Fwd == [r \in Reg |-> Bypass(r)]

(* Operand readiness *)
Busy(r) == cnt[r] # 0
OpReady(uses, r) == uses => ~Busy(r) \/ Hit(r)
BlockedByMdu(uses, r) == uses /\ r \in pend /\ r # X0
OpsReady(u) ==
  /\ ~BlockedByMdu(WritesRd(u), u.rd)
  /\ OpReady(UsesRs1(u), u.rs1) /\ ~BlockedByMdu(UsesRs1(u), u.rs1)
  /\ OpReady(UsesRs2(u), u.rs2) /\ ~BlockedByMdu(UsesRs2(u), u.rs2)

(* Issue decisions.  mdu_struct_stall is covered by ~MduReady. *)
StallForLsuOnly == LsuStall \/ MduDone   \* mutant: issues under a running MDU
DownstreamStall == LsuStall \/ ~MduReady \/ MduDone
Issue0 == buf0.valid /\ ~DownstreamStall /\ OpsReady(buf0)
Redirect ==
  Issue0 /\ (Mispredicted(buf0, Fwd) \/ Traps(buf0) \/ buf0.cls = "mret")
RedirectPC ==
  CASE Traps(buf0)            -> TVec
    [] buf0.cls = "mret"      -> csr
    [] ActualTaken(buf0, Fwd) -> ActualTarget(buf0, Fwd)
    [] OTHER                  -> Add(buf0.pc, Four)
Issue1WrongPath == Issue0 /\ buf1.valid /\ OpsReady(buf1)   \* mutant
Issue1 == Issue0 /\ buf1.valid /\ OpsReady(buf1) /\ ~Redirect
CanLatch == ~DownstreamStall /\ ~Redirect /\ (~buf0.valid \/ Issue0)

----------------------------------------------------------------------------
(* The scoreboard: set and clear of one register in one cycle cancel. *)
Sets(e) == IF e.v /\ e.w THEN {e.rd} \ {X0} ELSE {}
ScoreboardSetWins(set, clr) ==   \* mutant: a clear met by a set is lost
  [r \in Reg |-> IF r \in set THEN (cnt[r] + 1) % CntMod
                 ELSE IF r \in clr THEN (cnt[r] - 1) % CntMod
                 ELSE cnt[r]]
Scoreboard(set, clr) ==
  [r \in Reg |-> IF r \in set \ clr THEN (cnt[r] + 1) % CntMod
                 ELSE IF r \in clr \ set THEN (cnt[r] - 1) % CntMod
                 ELSE cnt[r]]

(* Two write ports; lane 1 is applied last. *)
WriteBack ==
  [r \in Reg |-> IF r # X0 /\ ret1.v /\ ret1.w /\ ret1.rd = r THEN ret1.val
                 ELSE IF r # X0 /\ ret0.v /\ ret0.w /\ ret0.rd = r THEN ret0.val
                 ELSE arf[r]]

(* Retire lane 0 takes the MDU's result before ALU0's before the LSU's. *)
Retire0 ==
  CASE MduDone  -> [v |-> TRUE, w |-> mdu.w, rd |-> mdu.rd, val |-> mdu.val]
    [] ~MduDone /\ Alu0Done -> alu0
    [] ~MduDone /\ ~Alu0Done /\ LsuDone
                -> [v |-> TRUE, w |-> lsu.w, rd |-> lsu.rd, val |-> LoadData]
    [] OTHER    -> NoEntry
Retire1 == IF Alu1Done THEN alu1 ELSE NoEntry

ToAlu1 == IF Issue1
          THEN EntryOf(buf1, Computed(buf1, Fwd))
          ELSE NoEntry

(* The MDU destination is protected until its result reaches retire. *)
PendingForever(toMdu) ==   \* mutant: never cleared
  IF toMdu.busy /\ toMdu.w THEN {toMdu.rd} ELSE pend
Pending(toMdu) ==
  IF toMdu.busy /\ toMdu.w THEN {toMdu.rd} ELSE IF MduDone THEN {} ELSE pend

(* One clock edge of everything behind Issue, given what lane 0 dispatches *)
(* to ALU0, to the LSU and to the MDU.                                     *)
Advance(toAlu0, toLsu, toMdu) ==
  /\ alu0' = IF LsuStall \/ MduDone THEN alu0 ELSE toAlu0
  /\ alu1' = IF LsuStall THEN alu1 ELSE ToAlu1
  /\ lsu'  = IF toLsu.v /\ (~lsu.v \/ rdy) THEN toLsu
             ELSE IF LsuDone THEN NoRequest ELSE lsu
  /\ mdu'  = IF MduReady THEN (IF toMdu.busy THEN toMdu ELSE mdu)
             ELSE IF MduDone THEN MduIdle ELSE [mdu EXCEPT !.left = @ - 1]
  /\ ret0' = Retire0
  /\ ret1' = Retire1
  /\ arf'  = WriteBack
  /\ cnt'  = Scoreboard(Sets(toAlu0) \cup Sets(ToAlu1) \cup Sets(toLsu)
                          \cup (IF toMdu.busy /\ toMdu.w THEN {toMdu.rd} ELSE {}),
                        Sets(ret0) \cup Sets(ret1))
  /\ pend' = Pending(toMdu)
  /\ mem'  = IF LsuDone /\ ~lsu.load
             THEN [mem EXCEPT ![lsu.addr] = lsu.data] ELSE mem
  /\ rdy' \in (IF lsu'.v THEN BOOLEAN ELSE {FALSE})

(* The bundles decode may offer follow the predicted path from fpc. *)
Fetched(p) == {u \in Uops : u.pc = p}

(* The bundle buffer at the clock edge.  Its invalid slots keep a stale    *)
(* uop in the circuit, which no wire looks at; here they hold a bubble.    *)
Refill ==
  \/ /\ Redirect
     /\ buf0' = Bubble /\ buf1' = Bubble /\ fpc' = RedirectPC
  \/ /\ CanLatch
     /\ \E u \in Fetched(fpc) :
          /\ buf0' = u
          /\ \/ /\ \E v \in Fetched(PredNext(u)) :
                     PairOk(u, v) /\ buf1' = v /\ fpc' = PredNext(v)
             \/ buf1' = Bubble /\ fpc' = PredNext(u)
  \/ /\ ~Redirect /\ Issue0
     /\ buf0' = Bubble /\ buf1' = Bubble /\ UNCHANGED fpc
  \/ /\ ~Issue0
     /\ UNCHANGED <<buf0, buf1, fpc>>

----------------------------------------------------------------------------
(* Lane 0 dispatches nothing: the buffer is empty or held by a stall. *)
IssueNone ==
  /\ ~Issue0
  /\ Advance(NoEntry, NoRequest, MduIdle)
  /\ Refill /\ UNCHANGED csr

(* ALU operations, jumps (for their link value), fences and unknown        *)
(* opcodes go to ALU0.  An unknown opcode also traps.                      *)
IssueAlu ==
  /\ Issue0
  /\ buf0.cls \in AluClass \cup {"jal", "jalr", "fence", "illegal"}
  /\ Advance(EntryOf(buf0, Computed(buf0, Fwd)), NoRequest, MduIdle)
  /\ Refill /\ csr' = IF Traps(buf0) THEN buf0.pc ELSE csr

(* Loads and stores go to the LSU, which forms the address. *)
IssueMem ==
  /\ Issue0 /\ IsMem(buf0)
  /\ Advance(NoEntry,
             [v |-> TRUE, load |-> buf0.cls = "load", w |-> WritesRd(buf0),
              rd |-> buf0.rd, addr |-> Add(Op1(buf0, Fwd), buf0.imm),
              data |-> Op2(buf0, Fwd)],
             MduIdle)
  /\ Refill /\ UNCHANGED csr

(* The MDU delivers its result after any of its latencies. *)
IssueMdu ==
  /\ Issue0 /\ buf0.cls = "mdu"
  /\ \E n \in MduLatency :
       Advance(NoEntry, NoRequest,
               [busy |-> TRUE, left |-> n - 1, w |-> WritesRd(buf0),
                rd |-> buf0.rd, val |-> Computed(buf0, Fwd)])
  /\ Refill /\ UNCHANGED csr

(* A conditional branch is resolved in place. *)
IssueBranch ==
  /\ Issue0 /\ buf0.cls = "branch"
  /\ Advance(NoEntry, NoRequest, MduIdle)
  /\ Refill /\ UNCHANGED csr

(* A CSR access passes the old value through ALU0 and writes the CSR with  *)
(* rs1 or the zimm (here the uop's imm); a trap or an MRET only redirects. *)
IssueSystem ==
  /\ Issue0 /\ (IsCsr(buf0) \/ buf0.cls \in {"trap", "mret"})
  /\ Advance(IF IsCsr(buf0) THEN EntryOf(buf0, Add(csr, Zero))
             ELSE NoEntry,
             NoRequest, MduIdle)
  /\ Refill
  /\ csr' = CASE Traps(buf0)        -> buf0.pc
              [] buf0.cls = "csr"   -> Fwd[buf0.rs1]
              [] buf0.cls = "csri"  -> buf0.imm
              [] OTHER              -> csr

Next == IssueNone \/ IssueAlu \/ IssueMem \/ IssueMdu \/ IssueBranch
          \/ IssueSystem

(* The clock runs, and the data memory answers a request in the end.       *)
Spec == Init /\ [][Next]_vars
LiveSpec == Spec /\ WF_vars(Next /\ (lsu'.v => rdy'))

----------------------------------------------------------------------------
(* The architectural state behind the pipeline: the register file overlaid *)
(* with every write in flight, the youngest on top, and memory with the    *)
(* LSU's pending store.                                                    *)
ArchReg(r) ==
  IF r = X0 THEN Zero
  ELSE IF Alu1Hit(r) THEN alu1.val
  ELSE IF Alu0Hit(r) THEN alu0.val
  ELSE IF mdu.busy /\ mdu.w /\ mdu.rd = r THEN mdu.val
  ELSE IF lsu.v /\ lsu.load /\ lsu.rd = r THEN LoadData
  ELSE IF Ret1Hit(r) THEN ret1.val
  ELSE IF Ret0Hit(r) THEN ret0.val
  ELSE arf[r]
ArchState ==
  [pc   |-> IF buf0.valid THEN buf0.pc ELSE fpc,
   regs |-> [r \in Reg |-> ArchReg(r)],
   mem  |-> IF lsu.v /\ ~lsu.load THEN [mem EXCEPT ![lsu.addr] = lsu.data]
            ELSE mem,
   csr  |-> csr]
Issuing == IF Issue1 THEN <<buf0, buf1>> ELSE IF Issue0 THEN <<buf0>> ELSE << >>

(* The pipeline executes the program in order, two instructions at a time  *)
(* at most: no instruction is lost, repeated, taken from the wrong path or *)
(* given a stale operand.                                                  *)
Program == INSTANCE Isa WITH arch <- ArchState, issue <- Issuing
ExecutesInOrder == Program!Spec

(* Whenever Issue is free to dispatch, the bypass network shows every      *)
(* register at its architectural value.  JALR relies on it: it takes rs1   *)
(* from the bypass without a readiness check of its own.                   *)
OperandsCurrent == ~DownstreamStall => \A r \in Reg : Bypass(r) = ArchReg(r)

(* Lane 0 leaving takes the whole bundle away, whether or not lane 1's     *)
(* operands are ready: they must be, unless lane 0 redirects.              *)
Lane1KeepsUp == Issue0 /\ buf1.valid /\ ~Redirect => Issue1

(* The scoreboard counts exactly the writes in flight, at most one in the  *)
(* execution units and one in retire, so that a counter neither wraps nor  *)
(* leaves a register busy for ever.                                        *)
Executing(r) ==
  Alu0Hit(r) \/ Alu1Hit(r) \/ (lsu.w /\ lsu.rd = r) \/ (mdu.w /\ mdu.rd = r)
Retiring(r)  == Ret0Hit(r) \/ Ret1Hit(r)
ScoreboardExact ==
  \A r \in Reg \ {X0} :
    cnt[r] = (IF Executing(r) THEN 1 ELSE 0) + (IF Retiring(r) THEN 1 ELSE 0)

(* Retire lane 0 has one input register for three units: at most one of    *)
(* them ever holds a result, and the MDU works alone.                      *)
UnitsExclusive ==
  /\ ~(alu0.v /\ lsu.v)
  /\ mdu.busy => ~alu0.v /\ ~alu1.v /\ ~lsu.v

(* No two instructions that complete together write one register, in the   *)
(* execution stages or on the two write ports.                             *)
WritersDistinct ==
  \A r \in Reg : ~(Ret0Hit(r) /\ Ret1Hit(r)) /\ ~(Alu0Hit(r) /\ Alu1Hit(r))
                   /\ ~(Alu1Hit(r) /\ lsu.w /\ lsu.rd = r)

(* What the registers hold when they hold something. *)
WellFormed ==
  /\ \A e \in {alu0, alu1, ret0, ret1} : e.w => e.v /\ e.rd # X0
  /\ lsu.load => lsu.v
  /\ lsu.w <=> lsu.load /\ lsu.rd # X0
  /\ mdu.w => mdu.busy /\ mdu.rd # X0
  /\ rdy => lsu.v
PendExact == pend = IF mdu.w THEN {mdu.rd} ELSE {}

(* The buffered bundle is a legal pair on the predicted path to fpc. *)
BufferOk ==
  /\ buf1.valid => /\ buf0.valid /\ PairOk(buf0, buf1)
                   /\ buf1.pc = PredNext(buf0)
  /\ buf0.valid => fpc = PredNext(IF buf1.valid THEN buf1 ELSE buf0)

(* The inductive invariant. *)
IInv == /\ TypeOK /\ WellFormed /\ PendExact /\ BufferOk
        /\ UnitsExclusive /\ WritersDistinct /\ ScoreboardExact
        /\ cnt[X0] = 0

(* A buffered instruction leaves in the end, however long memory and the   *)
(* MDU take.                                                               *)
BundleLeaves == buf0.valid ~> Issue0
============================================================================
