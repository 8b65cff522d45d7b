------------------------------ MODULE MCTracer ------------------------------
(* A finite instance of Tracer: two PCs, one general register.             *)
EXTENDS Tracer

CONSTANTS x0, x1

MCReg == {x0, x1}
MCOp  == {"add", "jalr", "f"}
Bit   == {0, 1}
BitFn == [o \in MCOp |-> [a \in Bit |-> [b \in Bit |->
            IF o # "f" THEN (a + b) % 2 ELSE a]]]
BitMem  == {[a \in Bit |-> 1 - a]}
BitCond == [o \in MCOp |-> [a \in Bit |-> [b \in Bit |-> a = b]]]

U(cls, op, rd, rs1, rs2, imm, pc) ==
  [Bubble EXCEPT !.valid = TRUE, !.cls = cls, !.op = op, !.rd = rd,
                 !.rs1 = rs1, !.rs2 = rs2, !.imm = imm, !.pc = pc]
P(u, target) == [u EXCEPT !.predTaken = TRUE, !.predTarget = target]

(* Instructions that complete in every unit the tracer watches, one that   *)
(* it does not watch, and wrong paths of one and of two instructions.      *)
TraceUops ==
  UNION {
    {U("opimm", "add", x1, x1, x0, 1, pc), U("lui", "add", x0, x0, x0, 1, pc),
     U("load", "add", x1, x1, x0, 0, pc)} : pc \in Bit}
  \cup {U("store", "add", x1, x0, x1, 1, 0), U("mdu", "f", x1, x1, x1, 0, 1),
        U("trap", "add", x0, x0, x0, 0, 0),
        U("branch", "add", x1, x1, x0, 0, 0),
        P(U("branch", "add", x1, x1, x0, 0, 1), 1)}
============================================================================
