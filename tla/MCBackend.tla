----------------------------- MODULE MCBackend -----------------------------
(* Finite instances of Backend. *)
EXTENDS Backend

CONSTANTS x0, x1, x2

MCReg  == {x0, x1, x2}
OneReg == {x0, x1}
MCOp   == {"add", "jalr", "f"}
U(cls, op, rd, rs1, rs2, imm, pc) ==
  [Bubble EXCEPT !.valid = TRUE, !.cls = cls, !.op = op, !.rd = rd,
                 !.rs1 = rs1, !.rs2 = rs2, !.imm = imm, !.pc = pc]

(* Two-valued words; every instruction is at PC 0, which is its own        *)
(* successor, so that only the data flow matters.                          *)
Bit == {0, 1}
BitFn == [o \in MCOp |-> [a \in Bit |-> [b \in Bit |->
            IF o # "f" THEN (a + b) % 2 ELSE IF a = 1 /\ b = 0 THEN 1 ELSE 0]]]
BitMem == {[a \in Bit |-> a]}
BitCond == [o \in MCOp |-> [a \in Bit |-> [b \in Bit |-> a = b]]]

(* Loads, stores, a branch and an MDU operation of one or two cycles: all  *)
(* that can hold the pipeline up or be overtaken, with ALU operations that *)
(* depend on them and ones that do not.  The register the MDU writes has   *)
(* other writers, whose older values the bypass holds meanwhile.  A        *)
(* store's rd field holds immediate bits, which must never look like a     *)
(* target.                                                                 *)
MemUops ==
  {U("lui", "add", x2, x0, x0, 1, 0), U("op", "add", x1, x1, x2, 0, 0),
   U("mdu", "f", x1, x2, x1, 0, 0), U("load", "add", x2, x2, x0, 0, 0),
   U("store", "add", x1, x1, x2, 1, 0), U("branch", "add", x1, x1, x0, 0, 0)}

(* Three words: PCs 0, 1 and 2, one general register. *)
Trit == 0..2
TritFn == [o \in MCOp |-> [a \in Trit |-> [b \in Trit |->
             IF o # "f" THEN (a + b) % 3 ELSE a]]]
TritMem == {[a \in Trit |-> (a + 1) % 3]}
TritCond == [o \in MCOp |-> [a \in Trit |-> [b \in Trit |-> a = b]]]
P(u, target) == [u EXCEPT !.predTaken = TRUE, !.predTarget = target]
ControlUops ==
  UNION {
    {U("opimm", "add", x1, x1, x0, 1, pc),
     U("load", "add", x1, x1, x0, 0, pc), U("mdu", "f", x1, x1, x1, 0, pc),
     U("jal", "add", x1, x0, x0, 2, pc),
     P(U("jal", "add", x1, x0, x0, 2, pc), 2),
     U("jalr", "add", x1, x1, x0, 1, pc),
     P(U("jalr", "add", x1, x1, x0, 1, pc), 2),
     U("branch", "add", x1, x1, x0, 2, pc),
     P(U("branch", "add", x1, x1, x0, 2, pc), 2),
     P(U("branch", "add", x1, x1, x0, 2, pc), 0)}
    : pc \in Trit}

(* And instructions that enter traps, come back from them or use a CSR.    *)
FlowUops ==
  ControlUops \cup
  {U("csr", "add", x1, x1, x0, 0, 0), U("csri", "add", x0, x0, x0, 1, 1),
   U("fence", "add", x1, x0, x0, 0, 0), U("auipc", "add", x1, x0, x0, 1, 1),
   U("mret", "add", x0, x0, x0, 0, 0), U("illegal", "add", x1, x1, x0, 0, 2)}
  \cup {U("trap", "add", x0, x0, x0, 0, pc) : pc \in {1, 2}}

============================================================================
