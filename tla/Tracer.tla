------------------------------- MODULE Tracer -------------------------------
(***************************************************************************)
(* The instruction tracer of the testbench, beside the back end it         *)
(* watches.  At every clock edge it queues the instructions that Issue     *)
(* accepted and matches the PCs of the instructions that complete against  *)
(* that queue, oldest first; what it pops before a match was flushed.  For *)
(* each match it writes one line of the trace.                             *)
(*                                                                         *)
(* The instruction word of a queued entry is a function of its PC, since   *)
(* the program is not rewritten, so an entry is a PC here.                 *)
(***************************************************************************)
EXTENDS Backend, SequencesExt

CONSTANT MaxQueue   (* a bound on the queue, for the model checker *)

VARIABLES
  alu0pc, alu1pc, lsupc,   (* the pc_q registers of ALU0, ALU1 and the LSU   *)
  queue,                   (* _queue: the PCs in flight, oldest first        *)
  due                      (* history: the lines of the instructions that    *)
                           (* were dispatched and have not completed         *)

tvars == <<buf0, buf1, fpc, arf, cnt, pend, csr, alu0, alu1, lsu, mdu, ret0,
           ret1, mem, rdy, alu0pc, alu1pc, lsupc, queue, due>>

----------------------------------------------------------------------------
(* A commit line: a register write unless it is to x0, the address of a    *)
(* memory access, and the data of a store.                                 *)
RegPart(w, rd, x) == IF w /\ rd # X0 THEN {<<rd, x>>} ELSE {}
Line(pc, reg, addr, data) == [pc |-> pc, reg |-> reg, addr |-> addr, data |-> data]
PlainLine(pc, reg) == Line(pc, reg, {}, {})

AluLine(pc, e) == PlainLine(pc, RegPart(e.w, e.rd, e.val))
LsuLine ==
  Line(lsupc, RegPart(lsu.w, lsu.rd, LoadData), {lsu.addr},
       IF lsu.load THEN {} ELSE {lsu.data})
BranchLine == PlainLine(buf0.pc, {})

(* What the tracer sees completing in this cycle: each ALU lane, the LSU,  *)
(* and a branch that Issue resolves.                                       *)
BranchDone == Issue0 /\ buf0.cls = "branch"
One(event) == IF event THEN 1 ELSE 0
NumDone == One(Alu0Done) + One(LsuDone) + One(Alu1Done) + One(BranchDone)

(* The instructions Issue takes from decode at this clock edge. *)
Accepted ==
  IF ~(CanLatch /\ buf0'.valid) THEN << >>
  ELSE <<buf0'.pc>> \o (IF buf1'.valid THEN <<buf1'.pc>> ELSE << >>)

(* Pop the queue up to the first entry with this PC, or empty it.          *)
PopMatchingLast(q, pc) ==   \* mutant: up to the last entry, of a later iteration
  SelectSeq(SubSeq(q, 1 + Max({0} \cup {i \in DOMAIN q : q[i] = pc}), Len(q)),
            LAMBDA other : Contains(q, pc))
PopMatching(q, pc) ==
  IF \E i \in DOMAIN q : q[i] = pc
  THEN SubSeq(q, 1 + CHOOSE i \in DOMAIN q :
                        q[i] = pc /\ \A j \in 1..(i - 1) : q[j] # pc, Len(q))
  ELSE << >>

(* One line: it is written if its instruction is found in the queue.       *)
Emit(s, line) ==
  [queue |-> PopMatching(s.queue, line.pc),
   out   |-> IF Contains(s.queue, line.pc) THEN Append(s.out, line) ELSE s.out]

(* The completions of a cycle, matched one after the other: lane 0, lane 1, *)
(* then the branch.                                                        *)
On(event, s, line) == IF event THEN Emit(s, line) ELSE s
TracedLaneOrder(q) ==   \* mutant: lane 1 is handled before the LSU
  LET s == On(Alu1Done, On(Alu0Done, [queue |-> q, out |-> << >>], AluLine(alu0pc, alu0)),
              AluLine(alu1pc, alu1))
  IN  On(BranchDone, On(LsuDone, s, LsuLine), BranchLine)
Traced(q) ==
  LET s == On(LsuDone, On(Alu0Done, [queue |-> q, out |-> << >>], AluLine(alu0pc, alu0)),
              LsuLine)
  IN  On(BranchDone, On(Alu1Done, s, AluLine(alu1pc, alu1)), BranchLine)

----------------------------------------------------------------------------
(* The lines that a simulator of the architecture would print: for each    *)
(* instruction dispatched in this cycle, its effect on the architectural   *)
(* state.  Traps and MRET do not reach an execution unit, and the tracer   *)
(* does not watch the MDU.                                                 *)
Watched(u) == u.cls \notin {"mdu", "trap", "mret"}
ArchRegs == [r \in Reg |-> ArchReg(r)]
Expected(u) ==
  LET reg(x) == RegPart(WritesRd(u), u.rd, x)
      a == Add(Op1(u, ArchRegs), u.imm)
  IN  IF IsMem(u)
      THEN Line(u.pc, reg(ArchState.mem[a]), {a},
                IF u.cls = "load" THEN {} ELSE {Op2(u, ArchRegs)})
      ELSE IF u.cls = "branch" THEN PlainLine(u.pc, {})
      ELSE PlainLine(u.pc, reg(IF IsCsr(u) THEN csr ELSE Computed(u, ArchRegs)))
LineOf(issued, u) == IF issued /\ Watched(u) THEN <<Expected(u)>> ELSE << >>
DispatchedLines == LineOf(Issue0, buf0) \o LineOf(Issue1, buf1)

TraceInit ==
  /\ Init
  /\ alu0pc = Zero /\ alu1pc = Zero /\ lsupc = Zero
  /\ queue = << >> /\ due = << >>

(* Each unit registers the PC together with its uop. *)
LatchPCs ==
  /\ alu0pc' = IF LsuStall \/ MduDone THEN alu0pc
               ELSE IF alu0'.v THEN buf0.pc ELSE Zero
  /\ alu1pc' = IF LsuStall THEN alu1pc ELSE IF alu1'.v THEN buf1.pc ELSE Zero
  /\ lsupc'  = IF LsuStall THEN lsupc ELSE IF lsu'.v THEN buf0.pc ELSE Zero

(* The tracer's clock edge: first the accepted instructions are queued,    *)
(* then the completions are matched.                                       *)
Trace ==
  /\ queue' = Traced(queue \o Accepted).queue
  /\ due'   = LET all == due \o DispatchedLines
              IN  SubSeq(all, NumDone + 1, Len(all))

TraceNext == Next /\ LatchPCs /\ Trace
TraceSpec == TraceInit /\ [][TraceNext]_tvars

----------------------------------------------------------------------------
(* The trace is the program: whatever was flushed, stalled or finished     *)
(* together, the lines written in a cycle are the next lines of the        *)
(* architectural execution, one for each completion that the tracer sees,  *)
(* none lost for want of a queue entry and none out of order.              *)
TraceFollowsProgram ==
  [][Traced(queue \o Accepted).out
       = SubSeq(due \o DispatchedLines, 1, NumDone)]_tvars

(* An entry that the tracer still waits for is in the queue, in order:     *)
(* only flushed instructions are ever dropped as stale.                    *)
InOrderIn(pcs, q) ==
  \E at \in [DOMAIN pcs -> DOMAIN q] :
    /\ \A i \in DOMAIN pcs : q[at[i]] = pcs[i]
    /\ \A i, j \in DOMAIN pcs : i < j => at[i] < at[j]
PCsOf(lines) == [i \in DOMAIN lines |-> lines[i].pc]
DueIsQueued == InOrderIn(PCsOf(due), queue)

(* The inductive invariant behind both.  The lines that are due are those  *)
(* of the results in the units, and the queue holds the instructions in    *)
(* the units and, behind them, those in the bundle buffer.                 *)
InLane0 == IF alu0.v THEN <<AluLine(alu0pc, alu0)>>
           ELSE IF lsu.v THEN <<LsuLine>> ELSE << >>
InLane1 == IF alu1.v THEN <<AluLine(alu1pc, alu1)>> ELSE << >>
InBuffer == IF ~buf0.valid THEN << >>
            ELSE <<buf0.pc>> \o (IF buf1.valid THEN <<buf1.pc>> ELSE << >>)
TraceInv ==
  /\ IInv
  /\ {alu0pc, alu1pc, lsupc} \subseteq Word /\ queue \in Seq(Word)
  /\ due = InLane0 \o InLane1
  /\ InOrderIn(PCsOf(due) \o InBuffer, queue)

(* What the module's own header promises: every instruction that completes *)
(* has a line in the trace.  An MDU result is a completion too.            *)
EveryCompletionTraced ==
  [][Len(Traced(queue \o Accepted).out)
       = NumDone + One(MduDone)]_tvars

QueueBound == Len(queue) <= MaxQueue
============================================================================
