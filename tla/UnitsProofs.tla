----------------------------- MODULE UnitsProofs -----------------------------
(* Trap entry and MRET, for words of any width and every mix of uops in    *)
(* which no trapping encoding writes mstatus or mepc; and the 64-bit       *)
(* counters, for halves of any width and every mix of uops.                *)
EXTENDS Csr, Counters, TLAPS

(* A clock edge of the two CSRs that software does not write.              *)
LEMMA HardwareOnly ==
  ASSUME NEW i, NEW p, Clock(i, p), NEW c \in {"mstatus", "mepc"},
         ~(WritesCsr(i) /\ i.csr = c)
  PROVE  csr'[c] = Hardware(c, i, p)
BY DEF Clock, TrapCsr

(* Trap entry, and return, in terms of the two bits of mstatus.            *)
LEMMA TrapBits ==
  ASSUME NEW i, NEW p, Traps(i)
  PROVE  LET m == Hardware("mstatus", i, p)
         IN  ~Enabled(m) /\ Previous(m) = Enabled(csr["mstatus"])
<1>1. Hardware("mstatus", i, p) = IF Enabled(csr["mstatus"]) THEN MPIE ELSE 0
  BY DEF Hardware
<1>2. ~Enabled(0) /\ ~Previous(0) /\ ~Enabled(MPIE) /\ Previous(MPIE)
  BY MstatusAssumption, CsrAssumption DEF Enabled, Previous, Word
<1>3. CASE Enabled(csr["mstatus"])
  BY <1>1, <1>2, <1>3
<1>4. CASE ~Enabled(csr["mstatus"])
  <2>1. Hardware("mstatus", i, p) = 0
    BY <1>1, <1>4
  <2>2. Enabled(csr["mstatus"]) = FALSE /\ Previous(0) = FALSE
    BY <1>2, <1>4 DEF Enabled, Previous
  <2>. QED BY <1>2, <2>1, <2>2
<1>. QED BY <1>3, <1>4

LEMMA MretBits ==
  ASSUME NEW i, NEW p, i.op = "mret"
  PROVE  /\ Hardware("mepc", i, p) = csr["mepc"]
         /\ Enabled(Hardware("mstatus", i, p)) = Previous(csr["mstatus"])
<1>1. ~Traps(i)
  BY DEF Traps, Illegal, AccessOp
<1>2. /\ Hardware("mepc", i, p) = csr["mepc"]
      /\ Hardware("mstatus", i, p) = MPIE + (IF Previous(csr["mstatus"]) THEN MIE ELSE 0)
  BY <1>1 DEF Hardware
<1>3. MPIE \in Nat /\ MIE \in Nat /\ MIE # 0
  BY CsrAssumption, CsrPortAssumption DEF Word
<1>4. CASE Previous(csr["mstatus"])
  <2>1. Enabled(Hardware("mstatus", i, p))
    BY <1>2, <1>3, <1>4, MstatusAssumption DEF Enabled
  <2>. QED BY <1>2, <1>4, <2>1 DEF Enabled, Previous
<1>5. CASE ~Previous(csr["mstatus"])
  <2>1. Hardware("mstatus", i, p) = MPIE
    BY <1>2, <1>3, <1>5
  <2>2. ~Enabled(Hardware("mstatus", i, p))
    BY <2>1, MstatusAssumption DEF Enabled
  <2>. QED BY <1>2, <1>5, <2>2 DEF Enabled, Previous
<1>. QED BY <1>4, <1>5

LEMMA InitCsrInv == Init => CsrInv
BY DEF Init, CsrInv, DescribesLastTrap, HandlerMasked, TrapCsr

(* A legal access changes mepc or mstatus only by a write, and then the    *)
(* ghost variables forget the trap.                                        *)
LEMMA AccessPreserves ==
  ASSUME CsrInv, NEW i \in Instrs, NEW p \in PCs, Access(i, p)
  PROVE  CsrInv'
<1>1. ~Traps(i) /\ i.op # "mret"
  BY DEF Access, Accesses, AccessOp
<1>2. \A c \in {"mstatus", "mepc"} : ~(WritesCsr(i) /\ i.csr = c) => csr'[c] = csr[c]
  BY <1>1, HardwareOnly DEF Access, Hardware
<1>3. DescribesLastTrap'
  <2>1. resumePc' # NoRedirect => csr'["mepc"] = resumePc'
    BY <1>2 DEF Access, CsrInv, DescribesLastTrap
  <2>2. \A on \in resumeMie' : on \in BOOLEAN /\ Previous(csr'["mstatus"]) = on
    BY <1>2 DEF Access, CsrInv, DescribesLastTrap
  <2>. QED BY <2>1, <2>2 DEF DescribesLastTrap, Previous, NoRedirect
<1>4. HandlerMasked'
  BY <1>2 DEF Access, CsrInv, HandlerMasked, Enabled
<1>. QED BY <1>3, <1>4 DEF CsrInv

LEMMA TrapPreserves ==
  ASSUME TrapsWriteNothing, NEW i \in Instrs, NEW p \in PCs, Trap(i, p)
  PROVE  CsrInv'
<1>1. \A c \in {"mstatus", "mepc"} : csr'[c] = Hardware(c, i, p)
  BY HardwareOnly DEF Trap, TrapsWriteNothing
<1>2. csr'["mepc"] = p /\ resumePc' = p
  BY <1>1 DEF Trap, Hardware
<1>3. /\ ~Enabled(csr'["mstatus"])
      /\ Previous(csr'["mstatus"]) = Enabled(csr["mstatus"])
      /\ resumeMie' = {Enabled(csr["mstatus"])}
  BY <1>1, TrapBits DEF Trap
<1>4. Enabled(csr["mstatus"]) \in BOOLEAN
  BY DEF Enabled
<1>5. DescribesLastTrap'
  BY <1>2, <1>3, <1>4 DEF DescribesLastTrap, Previous
<1>6. HandlerMasked'
  BY <1>3 DEF HandlerMasked, Enabled
<1>. QED BY <1>5, <1>6 DEF CsrInv

LEMMA MretPreserves ==
  ASSUME CsrInv, NEW i \in Instrs, NEW p \in PCs, Mret(i, p)
  PROVE  CsrInv'
<1>1. ~WritesCsr(i)
  BY DEF Mret, WritesCsr, Accesses, AccessOp
<1>2. csr'["mepc"] = csr["mepc"]
  BY <1>1, HardwareOnly, MretBits DEF Mret
<1>. QED BY <1>2 DEF Mret, CsrInv, DescribesLastTrap, HandlerMasked

LEMMA CsrInvariant == ASSUME TrapsWriteNothing PROVE Spec => []CsrInv
<1>1. CsrInv /\ [Next]_vars => CsrInv'
  <2>1. CsrInv /\ UNCHANGED vars => CsrInv'
    BY DEF CsrInv, DescribesLastTrap, HandlerMasked, Enabled, Previous, vars
  <2>2. CsrInv /\ Pass => CsrInv'
    BY DEF CsrInv, DescribesLastTrap, HandlerMasked, Enabled, Previous, Pass
  <2>. QED BY <2>1, <2>2, AccessPreserves, TrapPreserves, MretPreserves DEF Next
<1>. QED BY <1>1, InitCsrInv, PTL DEF Spec

(* A trap handler runs with interrupts disabled until it says otherwise,   *)
(* for words of every width.                                               *)
THEOREM HandlersAreMasked == ASSUME TrapsWriteNothing PROVE Spec => []HandlerMasked
<1>1. CsrInv => HandlerMasked
  BY DEF CsrInv
<1>. QED BY <1>1, CsrInvariant, PTL

(* MRET goes back to the instruction that trapped last, with the interrupt *)
(* enable it ran with, unless software has rewritten mepc or mstatus.      *)
THEOREM MretAlwaysResumes == ASSUME TrapsWriteNothing PROVE Spec => MretResumes
<1>. DEFINE Resumes ==
       \A i \in Instrs, p \in PCs : Mret(i, p) =>
         /\ resumePc # NoRedirect => redirect' = resumePc
         /\ \A on \in resumeMie : Enabled(csr'["mstatus"]) = on
<1>1. ASSUME CsrInv, NEW i \in Instrs, NEW p \in PCs, Mret(i, p)
      PROVE  /\ resumePc # NoRedirect => redirect' = resumePc
             /\ \A on \in resumeMie : Enabled(csr'["mstatus"]) = on
  <2>1. ~WritesCsr(i)
    BY <1>1 DEF Mret, WritesCsr, Accesses, AccessOp
  <2>2. csr'["mstatus"] = Hardware("mstatus", i, p)
    BY <1>1, <2>1, HardwareOnly DEF Mret
  <2>3. Enabled(csr'["mstatus"]) = Previous(csr["mstatus"])
    BY <1>1, <2>2, MretBits DEF Mret
  <2>. QED BY <1>1, <2>3 DEF Mret, CsrInv, DescribesLastTrap
<1>2. CsrInv /\ [Next]_vars => [Resumes]_vars
  BY <1>1
<1>. QED BY <1>2, CsrInvariant, PTL DEF Spec, MretResumes

------------------------------------------------------------------------------
(* Remainders of numbers below the modulus, and of those past it once.     *)
LEMMA ModSmall ==
  ASSUME NEW M \in Nat \ {0}, NEW x \in Nat, x < M
  PROVE  x % M = x
OBVIOUS

LEMMA ModWraps ==
  ASSUME NEW M \in Nat \ {0}, NEW x \in Nat, M <= x, x < M + M
  PROVE  x % M = x - M
<1>1. x - M \in Nat /\ x - M < M /\ x = 1 * M + (x - M)
  OBVIOUS
<1>. QED BY <1>1

LEMMA Halves == Radix \in Nat \ {0, 1} /\ \A x \in Word : x \in Nat /\ x < Radix
BY CsrPortAssumption DEF Word

LEMMA HalfIsWord == \A x \in Nat : Half(x) \in Word
BY Halves DEF Half, Word

(* Products that the sums below need, none of them linear. *)
LEMMA LongBounds ==
  ASSUME NEW R \in Nat \ {0, 1}, NEW lo \in 0..(R - 1), NEW hi \in 0..(R - 1)
  PROVE  /\ hi * R + lo \in Nat /\ hi * R + lo < R * R
         /\ (hi + 1) * R = hi * R + R
         /\ hi + 1 < R => hi * R + R + lo < R * R
         /\ hi + 1 = R => hi * R + R = R * R
         /\ R * R \in Nat \ {0} /\ R <= R * R
<1>1. hi * R \in Nat /\ (hi + 1) * R = hi * R + R /\ R * R \in Nat
  OBVIOUS
<1>2. (hi + 1) * R <= R * R
  <2>1. \A a, b \in Nat : a <= b => a * R <= b * R
    OBVIOUS
  <2>. QED BY <2>1
<1>3. hi + 1 < R => (hi + 1) * R + R <= R * R
  <2>1. \A a, b \in Nat : a + 1 <= b => a * R + R <= b * R
    <3>. SUFFICES ASSUME NEW a \in Nat, NEW b \in Nat, a + 1 <= b
                  PROVE  a * R + R <= b * R
      OBVIOUS
    <3>1. (a + 1) * R = a * R + R
      OBVIOUS
    <3>2. (a + 1) * R <= b * R
      OBVIOUS
    <3>. QED BY <3>1, <3>2
  <2>. QED BY <2>1
<1>4. hi + 1 = R => (hi + 1) * R = R * R
  OBVIOUS
<1>5. R * R >= R /\ R * R # 0
  BY <1>1, <1>2
<1>. QED BY <1>1, <1>2, <1>3, <1>4, <1>5

(* Two halves with a carry between them are one counter of twice the width. *)
LEMMA HalvesCount ==
  ASSUME NEW R \in Nat \ {0, 1}, NEW lo \in 0..(R - 1), NEW hi \in 0..(R - 1),
         NEW n \in 0..2
  PROVE  ((hi + (IF lo + n >= R THEN 1 ELSE 0)) % R) * R + ((lo + n) % R)
           = (hi * R + lo + n) % (R * R)
<1>. DEFINE M == R * R
            v == hi * R + lo
<1>1. /\ v \in Nat /\ v < M /\ M \in Nat \ {0} /\ R <= M /\ hi * R \in Nat
      /\ (hi + 1) * R = hi * R + R
      /\ hi + 1 < R => hi * R + R + lo < M
      /\ hi + 1 = R => hi * R + R = M
  BY LongBounds
<1>2. /\ lo \in Nat /\ hi \in Nat /\ n \in Nat /\ lo < R /\ hi < R /\ n <= R
  OBVIOUS
<1>3. CASE lo + n < R
  <2>1. (lo + n) % R = lo + n /\ hi % R = hi
    BY <1>2, <1>3, ModSmall
  <2>2. v + n < M
    <3>1. hi + 1 < R => v + n < M
      BY <1>1, <1>2, <1>3
    <3>2. hi + 1 = R => v + n < M
      BY <1>1, <1>2, <1>3
    <3>. QED BY <1>2, <3>1, <3>2
  <2>3. (v + n) % M = v + n
    BY <1>1, <1>2, <2>2, ModSmall
  <2>. QED BY <1>2, <1>3, <2>1, <2>3
<1>4. CASE lo + n >= R
  <2>0. lo + n - R \in Nat /\ lo + n - R < R
    BY <1>2, <1>4
  <2>1. (lo + n) % R = lo + n - R
    <3>1. lo + n \in Nat /\ lo + n < R + R /\ R <= lo + n
      BY <1>2, <1>4
    <3>. QED BY <3>1, ModWraps
  <2>2. CASE hi + 1 < R
    <3>1. (hi + 1) % R = hi + 1
      BY <1>2, <2>2, ModSmall
    <3>2. v + n \in Nat /\ v + n < M
      <4>1. (hi + 1) * R + (lo + n - R) < M
        <5>1. hi + 1 \in 0..(R - 1) /\ lo + n - R \in 0..(R - 1)
          BY <1>2, <2>0, <2>2
        <5>. QED BY <5>1, LongBounds
      <4>2. v + n = (hi + 1) * R + (lo + n - R)
        BY <1>1, <1>2
      <4>. QED BY <1>1, <1>2, <4>1, <4>2
    <3>3. (v + n) % M = v + n
      BY <1>1, <3>2, ModSmall
    <3>. QED BY <1>1, <1>2, <1>4, <2>1, <3>1, <3>3
  <2>3. CASE hi + 1 = R
    <3>1. (hi + 1) % R = 0
      <4>1. R % R = 0
        BY ModWraps
      <4>. QED BY <2>3, <4>1
    <3>2. v + n \in Nat /\ M <= v + n /\ v + n < M + M /\ v + n - M = lo + n - R
      BY <1>1, <1>2, <1>4, <2>3
    <3>3. (v + n) % M = lo + n - R
      BY <1>1, <3>2, ModWraps
    <3>. QED BY <1>2, <1>4, <2>0, <2>1, <3>1, <3>3
  <2>. QED BY <1>2, <2>2, <2>3
<1>. QED BY <1>2, <1>3, <1>4

LEMMA HalfOfLong ==
  ASSUME NEW R \in Nat \ {0, 1}, NEW lo \in 0..(R - 1), NEW hi \in 0..(R - 1)
  PROVE  (hi * R + lo) % R = lo
OBVIOUS

----------------------------------------------------------------------------
(* What the hardware writes, counter by counter. *)
LEMMA HardwareHalves ==
  ASSUME CountersTypeOK, NEW n \in 0..2
  PROVE  /\ HardwareCount("mcycle", n) = (counter["mcycle"] + 1) % Radix
         /\ HardwareCount("mcycleh", n)
              = (counter["mcycleh"] + (IF counter["mcycle"] + 1 >= Radix THEN 1 ELSE 0)) % Radix
         /\ HardwareCount("minstret", n) = (counter["minstret"] + n) % Radix
         /\ HardwareCount("minstreth", n)
              = (counter["minstreth"] + (IF counter["minstret"] + n >= Radix THEN 1 ELSE 0)) % Radix
<1>1. counter["mcycle"] = Radix - 1 <=> counter["mcycle"] + 1 >= Radix
  <2>1. counter["mcycle"] \in Word
    BY DEF CountersTypeOK, CounterCsr
  <2>. QED BY <2>1, Halves
<1>2. HardwareCount("mcycle", n) = Half(counter["mcycle"] + 1)
  BY DEF HardwareCount
<1>3. HardwareCount("mcycleh", n)
        = Half(counter["mcycleh"] + (IF counter["mcycle"] = Radix - 1 THEN 1 ELSE 0))
  BY DEF HardwareCount
<1>4. HardwareCount("minstret", n) = Half(counter["minstret"] + n)
  BY DEF HardwareCount
<1>5. HardwareCount("minstreth", n)
        = Half(counter["minstreth"] + (IF counter["minstret"] + n >= Radix THEN 1 ELSE 0))
  BY DEF HardwareCount
<1>. QED BY <1>1, <1>2, <1>3, <1>4, <1>5 DEF Half

LEMMA HardwareType ==
  ASSUME CountersTypeOK, NEW n \in 0..2
  PROVE  \A c \in CounterCsr : HardwareCount(c, n) \in Word
<1>1. \A c \in CounterCsr : counter[c] \in Nat
  BY Halves DEF CountersTypeOK
<1>2. \A k \in {0, 1, 2} : \A c \in CounterCsr : (counter[c] + k) % Radix \in Word
  BY <1>1, HalfIsWord DEF Half
<1>3. n \in {0, 1, 2}
  OBVIOUS
<1>4. HardwareCount("mcycle", n) \in Word
  BY <1>2, HardwareHalves DEF CounterCsr
<1>5. HardwareCount("mcycleh", n) \in Word
  BY <1>2, HardwareHalves DEF CounterCsr
<1>6. HardwareCount("minstret", n) \in Word
  BY <1>2, <1>3, HardwareHalves DEF CounterCsr
<1>7. HardwareCount("minstreth", n) \in Word
  BY <1>2, HardwareHalves DEF CounterCsr
<1>. QED BY <1>4, <1>5, <1>6, <1>7 DEF CounterCsr

LEMMA NewValueType ==
  ASSUME NEW i \in Issued, NEW old \in Word
  PROVE  NewValue(i, old) \in Word
<1>1. i.src \in Word /\ CsrPortAssumption
  BY CsrPortAssumption, CountersAssumption DEF Instr
<1>2. /\ Or(old, i.src) \in Word /\ Not(i.src) \in Word
  BY <1>1 DEF CsrPortAssumption
<1>3. And(old, Not(i.src)) \in Word
  BY <1>1, <1>2 DEF CsrPortAssumption
<1>. QED BY <1>1, <1>2, <1>3, Zenon DEF NewValue

(* After an edge a half holds what hardware counted, but for the one that  *)
(* software writes.                                                        *)
LEMMA IssueHalves ==
  ASSUME CountersTypeOK, NEW i \in Issued, NEW n \in 1..2, Issue(i, n), NEW c \in CounterCsr
  PROVE  counter'[c] = IF WritesCsr(i) /\ i.csr = c THEN NewValue(i, counter[c])
                   ELSE HardwareCount(c, n)
<1>1. CASE WritesCsr(i) /\ i.csr \in CounterCsr
  <2>1. counter' = [d \in CounterCsr |-> IF i.csr = d THEN NewValue(i, counter[d])
                                     ELSE HardwareCount(d, n)]
    BY <1>1, Zenon DEF Issue, Write
  <2>. QED BY <1>1, <2>1, Zenon
<1>2. CASE ~(WritesCsr(i) /\ i.csr \in CounterCsr)
  <2>1. counter' = [d \in CounterCsr |-> HardwareCount(d, n)]
    BY <1>2, Zenon DEF Issue, Count
  <2>. QED BY <1>2, <2>1, Zenon
<1>. QED BY <1>1, <1>2

LEMMA TypeInductive == CountersTypeOK /\ [CountersNext]_counter => CountersTypeOK'
<1>. SUFFICES ASSUME CountersTypeOK, [CountersNext]_counter PROVE CountersTypeOK'
  OBVIOUS
<1>1. CASE Idle
  <2>1. counter' = [c \in CounterCsr |-> HardwareCount(c, 0)]
    BY <1>1 DEF Idle, Count
  <2>2. 0 \in 0..2
    OBVIOUS
  <2>. QED BY <2>1, <2>2, HardwareType, Zenon DEF CountersTypeOK
<1>2. ASSUME NEW i \in Issued, NEW n \in 1..2, Issue(i, n)
      PROVE  CountersTypeOK'
  <2>0. n \in 0..2
    OBVIOUS
  <2>1. \A c \in CounterCsr : counter'[c] \in Word
    <3>. SUFFICES ASSUME NEW c \in CounterCsr PROVE counter'[c] \in Word
      OBVIOUS
    <3>1. counter[c] \in Word
      BY DEF CountersTypeOK
    <3>. QED BY <1>2, <2>0, <3>1, IssueHalves, HardwareType, NewValueType, Zenon
  <2>2. counter' = [c \in CounterCsr |-> counter'[c]]
    BY <1>2, Zenon DEF Issue, Write, Count
  <2>. QED BY <2>1, <2>2, Zenon DEF CountersTypeOK
<1>3. CASE counter' = counter
  BY <1>3 DEF CountersTypeOK
<1>. QED BY <1>1, <1>2, <1>3 DEF CountersNext

LEMMA InitType == CountersInit => CountersTypeOK
BY Halves DEF CountersInit, CountersTypeOK, Word

(* Every half stays a word. *)
LEMMA TypeInvariant == CountersSpec => []CountersTypeOK
BY InitType, TypeInductive, PTL DEF CountersSpec

----------------------------------------------------------------------------
(* The two counters, as hardware advances them. *)
Ticked(n)  == HardwareCount("mcycleh", n) * Radix + HardwareCount("mcycle", n)
Retired(n) == HardwareCount("minstreth", n) * Radix + HardwareCount("minstret", n)

LEMMA HardwareCounts ==
  ASSUME CountersTypeOK, NEW n \in 0..2
  PROVE  /\ Ticked(n) = (Cycles(counter) + 1) % (Radix * Radix)
         /\ Retired(n) = (Instrets(counter) + n) % (Radix * Radix)
<1>1. \A c \in CounterCsr : counter[c] \in 0..(Radix - 1)
  BY DEF CountersTypeOK, Word
<1>2. Radix \in Nat \ {0, 1} /\ 1 \in 0..2
  BY Halves
<1>3. Ticked(n) = (Cycles(counter) + 1) % (Radix * Radix)
  <2>1. counter["mcycle"] \in 0..(Radix - 1) /\ counter["mcycleh"] \in 0..(Radix - 1)
    BY <1>1 DEF CounterCsr
  <2>. QED BY <1>2, <2>1, HalvesCount, HardwareHalves, ZenonT(30) DEF Ticked, Cycles, Long
<1>4. Retired(n) = (Instrets(counter) + n) % (Radix * Radix)
  <2>1. counter["minstret"] \in 0..(Radix - 1) /\ counter["minstreth"] \in 0..(Radix - 1)
    BY <1>1 DEF CounterCsr
  <2>. QED BY <1>2, <2>1, HalvesCount, HardwareHalves, ZenonT(30) DEF Retired, Instrets, Long
<1>. QED BY <1>3, <1>4

(* Reading a half of what hardware counted. *)
LEMMA HalvesOfCount ==
  ASSUME CountersTypeOK, NEW n \in 0..2
  PROVE  /\ Half(Ticked(n)) = HardwareCount("mcycle", n)
         /\ Half(Retired(n)) = HardwareCount("minstret", n)
         /\ Ticked(n) - Half(Ticked(n)) = HardwareCount("mcycleh", n) * Radix
         /\ Retired(n) - Half(Retired(n)) = HardwareCount("minstreth", n) * Radix
<1>1. \A c \in CounterCsr : HardwareCount(c, n) \in 0..(Radix - 1)
  BY HardwareType DEF Word
<1>2. Radix \in Nat \ {0, 1}
  BY Halves
<1>3. /\ HardwareCount("mcycle", n) \in 0..(Radix - 1) /\ HardwareCount("mcycleh", n) \in 0..(Radix - 1)
      /\ HardwareCount("minstret", n) \in 0..(Radix - 1)
      /\ HardwareCount("minstreth", n) \in 0..(Radix - 1)
  BY <1>1 DEF CounterCsr
<1>4. /\ Half(Ticked(n)) = HardwareCount("mcycle", n)
      /\ Half(Retired(n)) = HardwareCount("minstret", n)
  BY <1>2, <1>3, HalfOfLong, Zenon DEF Half, Ticked, Retired
<1>5. \A x \in 0..(Radix - 1), y \in 0..(Radix - 1) : (x * Radix + y) - y = x * Radix
  BY <1>2
<1>. QED BY <1>3, <1>4, <1>5, Zenon DEF Ticked, Retired

(* Each counter counts clock edges and issued instructions modulo 2^64     *)
(* while software writes neither of its halves, whatever the uops are.     *)
THEOREM CountersExact == CountersSpec => CountsExactly
<1>. DEFINE Exact == \A i \in Issued, n \in 1..2 : Issue(i, n) =>
       /\ Untouched(i, "mcycle") =>
            Cycles(counter') = (Cycles(counter) + 1) % (Radix * Radix)
       /\ Untouched(i, "minstret") =>
            Instrets(counter') = (Instrets(counter) + n) % (Radix * Radix)
<1>1. CountersTypeOK => Exact
  <2>. SUFFICES ASSUME CountersTypeOK, NEW i \in Issued, NEW n \in 1..2, Issue(i, n)
                PROVE  /\ Untouched(i, "mcycle") =>
                            Cycles(counter') = (Cycles(counter) + 1) % (Radix * Radix)
                       /\ Untouched(i, "minstret") =>
                            Instrets(counter') = (Instrets(counter) + n) % (Radix * Radix)
    OBVIOUS
  <2>0. n \in 0..2
    OBVIOUS
  <2>1. \A c \in CounterCsr : ~(WritesCsr(i) /\ i.csr = c) => counter'[c] = HardwareCount(c, n)
    BY IssueHalves, Zenon
  <2>2. ASSUME Untouched(i, "mcycle")
        PROVE  Cycles(counter') = (Cycles(counter) + 1) % (Radix * Radix)
    <3>1. counter'["mcycle"] = HardwareCount("mcycle", n) /\ counter'["mcycleh"] = HardwareCount("mcycleh", n)
      BY <2>1, <2>2 DEF Untouched, CounterOf, CounterCsr
    <3>2. Cycles(counter') = Ticked(n)
      BY <3>1, Zenon DEF Cycles, Long, Ticked
    <3>. QED BY <2>0, <3>2, HardwareCounts, Zenon
  <2>3. ASSUME Untouched(i, "minstret")
        PROVE  Instrets(counter') = (Instrets(counter) + n) % (Radix * Radix)
    <3>1. /\ counter'["minstret"] = HardwareCount("minstret", n)
          /\ counter'["minstreth"] = HardwareCount("minstreth", n)
      BY <2>1, <2>3 DEF Untouched, CounterOf, CounterCsr
    <3>2. Instrets(counter') = Retired(n)
      BY <3>1, Zenon DEF Instrets, Long, Retired
    <3>. QED BY <2>0, <3>2, HardwareCounts, Zenon
  <2>. QED BY <2>2, <2>3
<1>. HIDE DEF Exact
<1>2. CountersSpec => [][Exact]_counter
  BY <1>1, TypeInvariant, PTL DEF CountersSpec
<1>. QED BY <1>2 DEF CountsExactly, Exact

(* A write of one half acts as if the whole counter had ticked first: no   *)
(* carry is lost, wherever the write falls.                                *)
THEOREM WritesAfterTick == CountersSpec => TicksThenWrites
<1>. DEFINE Ticks == \A i \in Issued, n \in 1..2 : Write(i, n) =>
       LET new == NewValue(i, counter[i.csr])
       IN  /\ i.csr \in CounterOf("mcycle") =>
                Cycles(counter') = Replaced((Cycles(counter) + 1) % (Radix * Radix),
                                        i.csr = "mcycleh", new)
           /\ i.csr \in CounterOf("minstret") =>
                Instrets(counter') = Replaced((Instrets(counter) + n) % (Radix * Radix),
                                          i.csr = "minstreth", new)
<1>1. CountersTypeOK => Ticks
  <2>. SUFFICES ASSUME CountersTypeOK, NEW i \in Issued, NEW n \in 1..2, Write(i, n)
                PROVE  LET new == NewValue(i, counter[i.csr])
                       IN  /\ i.csr \in CounterOf("mcycle") =>
                                Cycles(counter') = Replaced((Cycles(counter) + 1) % (Radix * Radix),
                                                        i.csr = "mcycleh", new)
                           /\ i.csr \in CounterOf("minstret") =>
                                Instrets(counter') = Replaced((Instrets(counter) + n) % (Radix * Radix),
                                                          i.csr = "minstreth", new)
    BY DEF Ticks
  <2>. DEFINE new == NewValue(i, counter[i.csr])
  <2>0. n \in 0..2
    OBVIOUS
  <2>1. \A c \in CounterCsr : counter'[c] = IF i.csr = c THEN NewValue(i, counter[c])
                                        ELSE HardwareCount(c, n)
    BY Zenon DEF Write
  <2>2. /\ Ticked(n) = (Cycles(counter) + 1) % (Radix * Radix)
        /\ Retired(n) = (Instrets(counter) + n) % (Radix * Radix)
    BY <2>0, HardwareCounts, Zenon
  <2>3. /\ Half(Ticked(n)) = HardwareCount("mcycle", n)
        /\ Half(Retired(n)) = HardwareCount("minstret", n)
        /\ Ticked(n) - Half(Ticked(n)) = HardwareCount("mcycleh", n) * Radix
        /\ Retired(n) - Half(Retired(n)) = HardwareCount("minstreth", n) * Radix
    BY <2>0, HalvesOfCount, Zenon
  <2>4. {"mcycle", "mcycleh", "minstret", "minstreth"} = CounterCsr
    BY DEF CounterCsr
  <2>5. CASE i.csr = "mcycle"
    <3>1. counter'["mcycle"] = new /\ counter'["mcycleh"] = HardwareCount("mcycleh", n)
      BY <2>1, <2>4, <2>5
    <3>2. Cycles(counter') = Replaced(Ticked(n), i.csr = "mcycleh", new)
      BY <2>3, <2>5, <3>1 DEF Cycles, Long, Replaced
    <3>. QED BY <2>2, <2>5, <3>2 DEF CounterOf
  <2>6. CASE i.csr = "mcycleh"
    <3>1. counter'["mcycleh"] = new /\ counter'["mcycle"] = HardwareCount("mcycle", n)
      BY <2>1, <2>4, <2>6
    <3>2. Cycles(counter') = Replaced(Ticked(n), i.csr = "mcycleh", new)
      BY <2>3, <2>6, <3>1 DEF Cycles, Long, Replaced
    <3>. QED BY <2>2, <2>6, <3>2 DEF CounterOf
  <2>7. CASE i.csr = "minstret"
    <3>1. counter'["minstret"] = new /\ counter'["minstreth"] = HardwareCount("minstreth", n)
      BY <2>1, <2>4, <2>7
    <3>2. Instrets(counter') = Replaced(Retired(n), i.csr = "minstreth", new)
      BY <2>3, <2>7, <3>1 DEF Instrets, Long, Replaced
    <3>. QED BY <2>2, <2>7, <3>2 DEF CounterOf
  <2>8. CASE i.csr = "minstreth"
    <3>1. counter'["minstreth"] = new /\ counter'["minstret"] = HardwareCount("minstret", n)
      BY <2>1, <2>4, <2>8
    <3>2. Instrets(counter') = Replaced(Retired(n), i.csr = "minstreth", new)
      BY <2>3, <2>8, <3>1 DEF Instrets, Long, Replaced
    <3>. QED BY <2>2, <2>8, <3>2 DEF CounterOf
  <2>. QED BY <2>5, <2>6, <2>7, <2>8 DEF CounterOf
<1>. HIDE DEF Ticks
<1>2. CountersSpec => [][Ticks]_counter
  BY <1>1, TypeInvariant, PTL DEF CountersSpec
<1>. QED BY <1>2 DEF TicksThenWrites, Ticks
==============================================================================
