------------------------------ MODULE Counters ------------------------------
(***************************************************************************)
(* The two 64-bit counters of csr_unit.sv, each kept in two CSRs: mcycle,  *)
(* which always runs, and minstret, which counts what Issue dispatches,    *)
(* two instructions at most.  An action is one clock edge.                 *)
(***************************************************************************)
EXTENDS CsrPort

CONSTANT Issued    (* the uops that Issue may resolve in lane 0             *)
ASSUME CountersAssumption == Issued \subseteq Instr

VARIABLE counter   (* the four CSRs                                         *)

CountersTypeOK == counter \in [CounterCsr -> Word]
CountersInit   == counter = [c \in CounterCsr |-> 0]

Half(n) == n % Radix

(* What hardware writes when n instructions issue.  The carry of minstret  *)
(* is the top bit of a 33-bit sum.                                         *)
HardwareCountOnMax(c, n) ==   \* mutant: the carry is a test for the last value
  CASE c = "mcycle"   -> Half(counter["mcycle"] + 1)
    [] c = "mcycleh"  -> Half(counter["mcycleh"] + (IF counter["mcycle"] = Radix - 1 THEN 1 ELSE 0))
    [] c = "minstret" -> Half(counter["minstret"] + n)
    [] OTHER -> Half(counter["minstreth"] + (IF counter["minstret"] = Radix - 1 THEN 1 ELSE 0))
HardwareCount(c, n) ==
  CASE c = "mcycle"   -> Half(counter["mcycle"] + 1)
    [] c = "mcycleh"  -> Half(counter["mcycleh"] + (IF counter["mcycle"] = Radix - 1 THEN 1 ELSE 0))
    [] c = "minstret" -> Half(counter["minstret"] + n)
    [] OTHER -> Half(counter["minstreth"] + (IF counter["minstret"] + n >= Radix THEN 1 ELSE 0))

(* A cycle without a write to a counter, and one with: the written half    *)
(* takes software's value, the other three go on.                          *)
Count(n) == counter' = [c \in CounterCsr |-> HardwareCount(c, n)]

WriteCountsNothing(i, n) ==   \* mutant: a write holds the other halves still
  /\ WritesCsr(i) /\ i.csr \in CounterCsr
  /\ counter' = [counter EXCEPT ![i.csr] = NewValue(i, counter[i.csr])]
Write(i, n) ==
  /\ WritesCsr(i) /\ i.csr \in CounterCsr
  /\ counter' = [c \in CounterCsr |-> IF i.csr = c THEN NewValue(i, counter[c])
                                      ELSE HardwareCount(c, n)]

(* A uop that traps or redirects issues alone; any uop may. *)
Idle   == Count(0)
Issue(i, n) ==
  /\ n = 2 => ~Traps(i) /\ i.op # "mret"
  /\ IF WritesCsr(i) /\ i.csr \in CounterCsr THEN Write(i, n) ELSE Count(n)

CountersNext == Idle \/ \E i \in Issued, n \in 1..2 : Issue(i, n)
CountersSpec == CountersInit /\ [][CountersNext]_counter

----------------------------------------------------------------------------
(* A pair of CSRs read as the 64-bit number it stands for. *)
Long(lo, hi, f) == f[hi] * Radix + f[lo]
Cycles(f)   == Long("mcycle", "mcycleh", f)
Instrets(f) == Long("minstret", "minstreth", f)

CounterOf(c) == IF c \in {"mcycle", "mcycleh"} THEN {"mcycle", "mcycleh"}
                ELSE {"minstret", "minstreth"}
Untouched(i, c) == ~(WritesCsr(i) /\ i.csr \in CounterOf(c))

(* The counters are exact while software writes neither half, also where   *)
(* two instructions at once step over the wrap of the low half.            *)
CountsExactly ==
  [][\A i \in Issued, n \in 1..2 : Issue(i, n) =>
       /\ Untouched(i, "mcycle") =>
            Cycles(counter') = (Cycles(counter) + 1) % (Radix * Radix)
       /\ Untouched(i, "minstret") =>
            Instrets(counter') = (Instrets(counter) + n) % (Radix * Radix)]_counter

(* A write of one half counts as if the 64-bit counter ticked first and    *)
(* the half were replaced then: a carry that is due on that very cycle is  *)
(* not lost ("the other half still gets the auto-incremented value",       *)
(* rtl/csr/csr_regfile.rdl).                                               *)
Replaced(v, high, w) == IF high THEN w * Radix + Half(v) ELSE (v - Half(v)) + w
TicksThenWrites ==
  [][\A i \in Issued, n \in 1..2 : Write(i, n) =>
       LET new == NewValue(i, counter[i.csr])
       IN  /\ i.csr \in CounterOf("mcycle") =>
                Cycles(counter') = Replaced((Cycles(counter) + 1) % (Radix * Radix),
                                        i.csr = "mcycleh", new)
           /\ i.csr \in CounterOf("minstret") =>
                Instrets(counter') = Replaced((Instrets(counter) + n) % (Radix * Radix),
                                          i.csr = "minstreth", new)]_counter
=============================================================================
