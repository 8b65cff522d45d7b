-------------------------------- MODULE Uop --------------------------------
(***************************************************************************)
(* The micro-op that DHRUT-V's decoder hands to the back end, reduced to   *)
(* what dispatch, hazard detection and execution look at.  An opcode is a  *)
(* class; what the datapath computes (rtl/pipeline/alu.sv, mdu.sv) is an   *)
(* uninterpreted function Fn of an operation and two words.                *)
(***************************************************************************)
CONSTANTS
  Reg,     (* the register names                                           *)
  X0,      (* the hardwired zero register                                  *)
  Word,    (* the machine words, which are also the addresses and the PCs  *)
  Zero,    (* the word 0                                                   *)
  Four,    (* the distance between two instructions                        *)
  Op,      (* the operations of the ALU, the MDU and the branch comparator *)
  Fn,      (* what the ALU and the MDU compute                             *)
  Cond,    (* whether a conditional branch is taken                        *)
  TVec,    (* the trap handler's address (mtvec)                           *)
  ResetPC, (* where fetch starts                                           *)
  MemInit, (* what data memory may hold at reset                           *)
  Uops     (* the instructions fetch may deliver, with their predictions   *)

ASSUME UopAssumption ==
  /\ X0 \in Reg
  /\ {Zero, Four, TVec, ResetPC} \subseteq Word
  /\ MemInit \subseteq [Word -> Word]
  /\ {"add", "jalr"} \subseteq Op   \* "jalr": the sum with bit 0 cleared
  /\ Fn   \in [Op -> [Word -> [Word -> Word]]]
  /\ Cond \in [Op -> [Word -> [Word -> BOOLEAN]]]
  /\ \A w \in Word : Fn["add"][Zero][w] = w /\ Fn["add"][w][Zero] = w

Add(a, b) == Fn["add"][a][b]

----------------------------------------------------------------------------
(* "trap" is a SYSTEM uop that traps and dispatches nothing: ECALL, EBREAK *)
(* and most illegal encodings.  "illegal" is a trapping uop that occupies  *)
(* ALU0 on its way: an unknown opcode, or the reserved SYSTEM funct3 with  *)
(* a CSR number that exists (module Csr has what that does to the CSRs).   *)
AluClass == {"op", "opimm", "lui", "auipc"}
Class == AluClass \cup
         {"mdu", "load", "store", "branch", "jal", "jalr", "fence",
          "csr", "csri", "trap", "mret", "illegal"}

Uop == [valid : BOOLEAN, cls : Class, op : Op,
        rs1 : Reg, rs2 : Reg, rd : Reg, imm : Word, pc : Word,
        predTaken : BOOLEAN, predTarget : Word]

(* A slot that holds nothing: the all-zero uop of a reset or a flush. *)
Bubble == [valid |-> FALSE, cls |-> "op", op |-> "add",
           rs1 |-> X0, rs2 |-> X0, rd |-> X0, imm |-> Zero, pc |-> Zero,
           predTaken |-> FALSE, predTarget |-> Zero]

(* JALR reads rs1 too, but the decoder leaves its uses_rs1 flag clear. *)
UsesRs1(u) ==
  u.cls \in {"op", "opimm", "mdu", "branch", "load", "store", "csr"}
UsesRs2(u) == u.cls \in {"op", "mdu", "branch", "store"}
WritesRd(u) ==
  /\ u.rd # X0
  /\ u.cls \in AluClass \cup {"mdu", "jal", "jalr", "load", "csr", "csri"}
IsImmediate(u) == u.cls \in {"opimm", "lui", "auipc", "jal", "jalr"}
IsJump(u) == u.cls \in {"jal", "jalr"}
IsMem(u)  == u.cls \in {"load", "store"}
IsCsr(u)  == u.cls \in {"csr", "csri"}
Traps(u)  == u.cls \in {"trap", "illegal"}

(* Where fetch goes after u: its predicted target or the next word.  Only  *)
(* a branch, a JAL or a JALR is ever predicted taken.                      *)
PredNext(u) == IF u.predTaken THEN u.predTarget ELSE Add(u.pc, Four)
WellPredicted(u) == u.predTaken => u.cls \in {"branch", "jal", "jalr"}

ASSUME UopsAssumption == Uops \subseteq {u \in Uop : u.valid /\ WellPredicted(u)}

----------------------------------------------------------------------------
(* issue_hazard: may u1 share a bundle with the older u0? *)
Lane1Capable(u) == u.cls \in AluClass
RawHazard(u0, u1) ==
  /\ WritesRd(u0)
  /\ \/ UsesRs1(u1) /\ u1.rs1 = u0.rd
     \/ UsesRs2(u1) /\ u1.rs2 = u0.rd
WawHazard(u0, u1) == WritesRd(u0) /\ WritesRd(u1) /\ u1.rd = u0.rd
PairOkNoWaw(u0, u1) ==   \* mutant: the WAW check is missing
  Lane1Capable(u1) /\ u0.cls # "mdu" /\ ~RawHazard(u0, u1)
PairOk(u0, u1) ==
  /\ Lane1Capable(u1)
  /\ u0.cls # "mdu"
  /\ ~RawHazard(u0, u1)
  /\ ~WawHazard(u0, u1)

----------------------------------------------------------------------------
(* Operand selection over a register view R. *)
Op1(u, R) == IF UsesRs1(u) THEN R[u.rs1]
             ELSE IF u.cls = "auipc" \/ IsJump(u) THEN u.pc ELSE Zero
Op2(u, R) == IF IsJump(u) THEN Four
             ELSE IF IsImmediate(u) THEN u.imm ELSE R[u.rs2]

(* What the ALU or the MDU computes for u; only OP, OP-IMM and RV32M name  *)
(* an operation, everything else adds.                                     *)
Computed(u, R) ==
  Fn[IF u.cls \in {"op", "opimm", "mdu"} THEN u.op ELSE "add"]
    [Op1(u, R)][Op2(u, R)]

(* Branch and jump resolution over a register view R. *)
ActualTaken(u, R) ==
  \/ IsJump(u)
  \/ u.cls = "branch" /\ Cond[u.op][Op1(u, R)][Op2(u, R)]
ActualTarget(u, R) ==
  IF u.cls = "jalr" THEN Fn["jalr"][R[u.rs1]][u.imm] ELSE Add(u.pc, u.imm)
Mispredicted(u, R) ==
  \/ u.cls = "branch" /\ ActualTaken(u, R) # u.predTaken
  \/ u.cls = "branch" /\ ActualTaken(u, R) /\ ActualTarget(u, R) # u.predTarget
  \/ IsJump(u) /\ (~u.predTaken \/ ActualTarget(u, R) # u.predTarget)
============================================================================
