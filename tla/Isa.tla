-------------------------------- MODULE Isa --------------------------------
(***************************************************************************)
(* What the core promises a program: instructions take effect one at a     *)
(* time, in program order, each reading the registers its predecessors     *)
(* left.  In one step the machine takes the instructions of `issue`, none, *)
(* one or two of them; which ones it finds there, and how many it takes,   *)
(* is left open, but for their PCs.                                        *)
(***************************************************************************)
EXTENDS Uop, Naturals, Sequences

VARIABLES arch,     (* the architectural state                        *)
          issue     (* the instructions the next step takes, in order *)

State == [pc : Word, regs : [Reg -> Word], mem : [Word -> Word], csr : Word]

(* The value u writes to rd. *)
Result(s, u) ==
  CASE u.cls \in {"op", "mdu"}  -> Fn[u.op][s.regs[u.rs1]][s.regs[u.rs2]]
    [] u.cls = "opimm"          -> Fn[u.op][s.regs[u.rs1]][u.imm]
    [] u.cls = "lui"            -> u.imm
    [] u.cls = "auipc"          -> Add(u.pc, u.imm)
    [] u.cls \in {"jal","jalr"} -> Add(u.pc, Four)
    [] u.cls = "load"           -> s.mem[Add(s.regs[u.rs1], u.imm)]
    [] OTHER                    -> s.csr

(* Where control goes after u. *)
NextPC(s, u) ==
  CASE Traps(u)       -> TVec
    [] u.cls = "mret" -> s.csr
    [] u.cls = "jal"  -> Add(u.pc, u.imm)
    [] u.cls = "jalr" -> Fn["jalr"][s.regs[u.rs1]][u.imm]
    [] u.cls = "branch" /\ Cond[u.op][s.regs[u.rs1]][s.regs[u.rs2]]
                      -> Add(u.pc, u.imm)
    [] OTHER          -> Add(u.pc, Four)

(* The whole effect of one instruction.  The one CSR stands for mepc:      *)
(* CSRRW exchanges it with rs1, a trap saves the PC in it, MRET returns to *)
(* it.                                                                     *)
Exec(s, u) ==
  [pc   |-> NextPC(s, u),
   regs |-> IF WritesRd(u) THEN [s.regs EXCEPT ![u.rd] = Result(s, u)]
            ELSE s.regs,
   mem  |-> IF u.cls = "store"
            THEN [s.mem EXCEPT ![Add(s.regs[u.rs1], u.imm)] = s.regs[u.rs2]]
            ELSE s.mem,
   csr  |-> IF Traps(u) THEN u.pc
            ELSE IF u.cls = "csr" THEN s.regs[u.rs1]
            ELSE IF u.cls = "csri" THEN u.imm ELSE s.csr]

ExecAll(s, us) ==
  CASE Len(us) = 0 -> s
    [] Len(us) = 1 -> Exec(s, us[1])
    [] OTHER       -> Exec(Exec(s, us[1]), us[2])

(* us are instructions met at the successive PCs, starting in state s. *)
InProgramOrder(s, us) ==
  /\ Len(us) \in 0..2
  /\ \A i \in DOMAIN us : us[i] \in Uops
  /\ Len(us) >= 1 => us[1].pc = s.pc
  /\ Len(us) = 2 => us[2].pc = Exec(s, us[1]).pc

Init ==
  /\ arch \in [pc : {ResetPC}, regs : {[r \in Reg |-> Zero]},
               mem : MemInit, csr : {Zero}]
  /\ issue = << >>

Next ==
  /\ InProgramOrder(arch, issue)
  /\ arch' = ExecAll(arch, issue)

Spec == Init /\ [][Next]_<<arch, issue>>
============================================================================
