-------------------------------- MODULE Csr --------------------------------
(***************************************************************************)
(* The trap CSRs: csr_unit.sv over the generated register file.  An action *)
(* is one clock edge, named after what Issue resolves in lane 0.           *)
(***************************************************************************)
EXTENDS CsrPort

CONSTANTS
  Instrs,      (* the uops that Issue may resolve in lane 0                 *)
  PCs,         (* and where they are                                        *)
  MIE, MPIE,   (* the two bits of mstatus that exist                        *)
  Aligned,     (* the word with the bits of a PC: all but the lowest two    *)
  Cause        (* the codes of an illegal instruction, ECALL and EBREAK     *)

VARIABLES
  csr,         (* the fields of the register file                           *)
  redirect,    (* o_redirect_pc of the last cycle, or NoRedirect            *)
  resumePc,    (* ghost: the PC of the last trap, while software leaves     *)
               (* mepc alone; NoRedirect otherwise                          *)
  resumeMie    (* ghost: {MIE before the last trap}, until MRET or a write  *)
               (* of mstatus                                                *)

vars == <<csr, redirect, resumePc, resumeMie>>

NoRedirect == Radix

ASSUME CsrAssumption ==
  /\ Instrs \subseteq Instr /\ PCs \subseteq Word
  /\ {MIE, MPIE, Aligned} \subseteq Word
  /\ MIE > 0 /\ MPIE > 0 /\ MIE + MPIE \in Word
  /\ Cause \in [{"illegal", "ecall", "ebreak"} -> Word]
  /\ \A p \in PCs : And(p, Aligned) = p
ASSUME MstatusAssumption ==     \* MIE and MPIE are two different bits
  /\ And(0, MIE) = 0 /\ And(0, MPIE) = 0
  /\ And(MPIE, MIE) = 0 /\ And(MPIE, MPIE) = MPIE /\ And(MPIE + MIE, MIE) = MIE

TypeOK ==
  /\ csr \in [TrapCsr -> Word]
  /\ And(csr["mstatus"], Not(MIE + MPIE)) = 0 /\ And(csr["mepc"], Not(Aligned)) = 0
  /\ redirect \in Word \cup {NoRedirect} /\ resumePc \in Word \cup {NoRedirect}
  /\ resumeMie \in SUBSET BOOLEAN

Init ==
  /\ csr = [c \in TrapCsr |-> 0]
  /\ redirect = NoRedirect
  /\ resumePc = NoRedirect /\ resumeMie = {}

----------------------------------------------------------------------------
Enabled(status) == And(status, MIE) # 0
Previous(status) == And(status, MPIE) # 0

(* What the register file keeps of a written word. *)
Kept(c, w) == CASE c = "mstatus" -> And(w, MIE + MPIE)
                [] c = "mepc"    -> And(w, Aligned)
                [] OTHER         -> w

TrapCause(i) == IF Illegal(i) THEN Cause["illegal"] ELSE Cause[i.op]
TrapValue(i, p) == IF Illegal(i) THEN i.bits ELSE IF i.op = "ebreak" THEN p ELSE 0

(* The write that hardware makes for uop i at p; no write keeps the value. *)
HardwareSavesNothing(c, i, p) ==   \* mutant: trap entry leaves MPIE alone
  IF Traps(i) THEN
    CASE c = "mstatus" -> And(csr[c], MPIE)
      [] c = "mepc"    -> p
      [] c = "mcause"  -> TrapCause(i)
      [] c = "mtval"   -> TrapValue(i, p)
      [] OTHER         -> csr[c]
  ELSE IF i.op = "mret" /\ c = "mstatus"
    THEN MPIE + (IF Previous(csr[c]) THEN MIE ELSE 0)
  ELSE csr[c]
HardwareKeepsMie(c, i, p) ==   \* mutant: trap entry does not mask interrupts
  IF Traps(i) THEN
    CASE c = "mstatus" -> IF Enabled(csr[c]) THEN MIE + MPIE ELSE 0
      [] c = "mepc"    -> p
      [] c = "mcause"  -> TrapCause(i)
      [] c = "mtval"   -> TrapValue(i, p)
      [] OTHER         -> csr[c]
  ELSE IF i.op = "mret" /\ c = "mstatus"
    THEN MPIE + (IF Previous(csr[c]) THEN MIE ELSE 0)
  ELSE csr[c]
Hardware(c, i, p) ==
  IF Traps(i) THEN
    CASE c = "mstatus" -> IF Enabled(csr[c]) THEN MPIE ELSE 0
      [] c = "mepc"    -> p
      [] c = "mcause"  -> TrapCause(i)
      [] c = "mtval"   -> TrapValue(i, p)
      [] OTHER         -> csr[c]
  ELSE IF i.op = "mret" /\ c = "mstatus"
    THEN MPIE + (IF Previous(csr[c]) THEN MIE ELSE 0)
  ELSE csr[c]

(* A clock edge of the register file: software's write is looked at first, *)
(* and hardware's is then ignored for that register.                       *)
Clock(i, p) ==
  csr' = [c \in TrapCsr |-> IF WritesCsr(i) /\ i.csr = c
                            THEN Kept(c, NewValue(i, csr[c])) ELSE Hardware(c, i, p)]

(* Nothing is resolved, or nothing that concerns the unit. *)
Pass == redirect' = NoRedirect /\ UNCHANGED <<csr, resumePc, resumeMie>>

(* A legal CSR access. *)
Access(i, p) ==
  /\ Accesses(i) /\ ~Traps(i)
  /\ Clock(i, p)
  /\ redirect' = NoRedirect
  /\ resumePc' = IF WritesCsr(i) /\ i.csr = "mepc" THEN NoRedirect ELSE resumePc
  /\ resumeMie' = IF WritesCsr(i) /\ i.csr = "mstatus" THEN {} ELSE resumeMie

Trap(i, p) ==
  /\ Traps(i)
  /\ Clock(i, p)
  /\ redirect' = And(csr["mtvec"], Aligned)
  /\ resumePc' = p
  /\ resumeMie' = {Enabled(csr["mstatus"])}

Mret(i, p) ==
  /\ i.op = "mret"
  /\ Clock(i, p)
  /\ redirect' = csr["mepc"]
  /\ resumeMie' = {} /\ UNCHANGED resumePc

Next ==
  \/ Pass
  \/ \E i \in Instrs, p \in PCs : Access(i, p) \/ Trap(i, p) \/ Mret(i, p)

Spec == Init /\ [][Next]_vars

----------------------------------------------------------------------------
(* MRET goes back to the instruction that trapped last and restores the    *)
(* interrupt enable it ran with, unless software rewrote mepc or mstatus   *)
(* meanwhile: across handlers that trap themselves and CSR accesses of     *)
(* every kind.                                                             *)
MretResumes ==
  [][\A i \in Instrs, p \in PCs : Mret(i, p) =>
       /\ resumePc # NoRedirect => redirect' = resumePc
       /\ \A on \in resumeMie : Enabled(csr'["mstatus"]) = on]_vars

(* A trap handler runs with interrupts disabled until it says otherwise. *)
HandlerMasked == resumeMie # {} => ~Enabled(csr["mstatus"])

(* "HW-updated on trap entry ... HW write always takes priority over a     *)
(* same-cycle SW write" (rtl/csr/csr_regfile.rdl): a trap is recorded      *)
(* whole.                                                                  *)
TrapEntryAtomic ==
  [][\A i \in Instrs, p \in PCs : Trap(i, p) =>
       /\ csr'["mepc"] = p /\ csr'["mcause"] = TrapCause(i)
       /\ csr'["mtval"] = TrapValue(i, p)
       /\ ~Enabled(csr'["mstatus"])]_vars

(* The inductive invariant behind the two: while software leaves mepc and  *)
(* mstatus alone, they describe the last trap.  It needs that no trapping  *)
(* encoding writes one of them, which the finding is about.                *)
TrapsWriteNothing ==
  \A i \in Instrs : Traps(i) => ~(WritesCsr(i) /\ i.csr \in {"mstatus", "mepc"})
DescribesLastTrap ==
  /\ resumePc # NoRedirect => csr["mepc"] = resumePc
  /\ \A on \in resumeMie : on \in BOOLEAN /\ Previous(csr["mstatus"]) = on
CsrInv == DescribesLastTrap /\ HandlerMasked
=============================================================================
