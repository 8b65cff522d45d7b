------------------------------ MODULE CsrPort ------------------------------
(***************************************************************************)
(* What the CSR unit makes of the uop that Issue resolves in lane 0: the   *)
(* trap decision, and the write that reaches the generated register file   *)
(* through its software port.  Nothing is interpreted of a word but the    *)
(* bits that the register file masks.                                      *)
(***************************************************************************)
EXTENDS Naturals

CONSTANTS
  Radix,                       (* 2^32: the values of a CSR                 *)
  And(_, _), Or(_, _), Not(_)  (* bitwise, on words                         *)

Word == 0..Radix - 1

(* The CSR numbers of the address table; the registers of the last set are *)
(* constants, whose writes are accepted and ignored.                       *)
TrapCsr    == {"mstatus", "mtvec", "mepc", "mcause", "mtval"}
PlainCsr   == {"mie", "mscratch"}
CounterCsr == {"mcycle", "mcycleh", "minstret", "minstreth"}
FixedCsr   == {"misa", "mip", "mvendorid", "marchid", "mimpid", "mhartid"}
Known      == TrapCsr \cup PlainCsr \cup CounterCsr \cup FixedCsr

(* A uop at the CSR unit.  "rw", "rs" and "rc" cover the register and the  *)
(* immediate forms; "reserved" is the SYSTEM funct3 100, which the decoder *)
(* marks illegal; "illegal" any other illegal uop; "other" whatever the    *)
(* unit ignores.  src is the register or the zimm, nz says that the field  *)
(* that names it is not zero, bits is the instruction word.                *)
AccessOp == {"rw", "rs", "rc", "reserved"}
Instr == [op : AccessOp \cup {"illegal", "ecall", "ebreak", "mret", "other"},
          csr : Known \cup {"unknown"}, src : Word, nz : BOOLEAN, bits : Word]

ASSUME CsrPortAssumption ==
  /\ Radix \in Nat \ {0, 1}
  /\ \A a, b \in Word : And(a, b) \in Word /\ Or(a, b) \in Word /\ Not(a) \in Word

Accesses(i) == i.op \in AccessOp /\ i.csr \in Known          \* o_dispatch_valid
WritesCsr(i) == Accesses(i) /\ (i.op = "rw" \/ i.nz)         \* csr_we

(* csr_new_val, given the old value; a reserved encoding writes it back. *)
NewValue(i, old) ==
  CASE i.op = "rw" -> i.src
    [] i.op = "rs" -> Or(old, i.src)
    [] i.op = "rc" -> And(old, Not(i.src))
    [] OTHER       -> old

Illegal(i) == \/ i.op \in {"illegal", "reserved"}
              \/ i.op \in AccessOp /\ i.csr = "unknown"
Traps(i)   == Illegal(i) \/ i.op \in {"ecall", "ebreak"}
=============================================================================
