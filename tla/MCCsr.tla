------------------------------- MODULE MCCsr -------------------------------
(* Finite instances of Csr: words of two bits, the low one of which is not *)
(* part of a PC.                                                           *)
EXTENDS Csr

MCAnd(a, b) == 2 * ((a \div 2) * (b \div 2)) + (a % 2) * (b % 2)
MCNot(a)    == 3 - a
MCOr(a, b)  == (a + b) - MCAnd(a, b)
MCCause == [k \in {"illegal", "ecall", "ebreak"} |->
              CASE k = "illegal" -> 2 [] k = "ecall" -> 1 [] OTHER -> 3]

I(op, c, src, nz, bits) == [op |-> op, csr |-> c, src |-> src, nz |-> nz, bits |-> bits]

(* Every form of access; a field nz that is FALSE names x0 or the zimm 0. *)
AccessesTo(Numbers) ==
  UNION {{I("rw", c, src, TRUE, 1) : src \in 0..3} \cup
         {I("rw", c, 0, FALSE, 1), I("rs", c, 0, FALSE, 1), I("rs", c, 1, TRUE, 1),
          I("rc", c, 0, TRUE, 1), I("rc", c, 2, TRUE, 1)} : c \in Numbers}
Privileged == {I(op, "unknown", 0, FALSE, 1) : op \in {"ecall", "ebreak", "mret"}}
IllegalOnes ==
  {I("illegal", "unknown", 0, FALSE, 3), I("rw", "unknown", 1, TRUE, 2),
   I("reserved", "unknown", 1, TRUE, 2), I("reserved", "mepc", 0, FALSE, 2),
   I("reserved", "mscratch", 1, TRUE, 2)}
TrapInstrs == AccessesTo(TrapCsr) \cup Privileged \cup IllegalOnes
              \cup {I("rw", "misa", 1, TRUE, 1)}

(* The reserved encoding with the number of a CSR that trap entry writes. *)
ReservedInstrs ==
  {I("reserved", c, 1, TRUE, 2) : c \in {"mstatus", "mepc", "mcause", "mtval"}}
  \cup AccessesTo({"mtvec", "mstatus"})
  \cup {I("mret", "unknown", 0, FALSE, 1)}
=============================================================================
