---------------------------- MODULE BackendProofs ----------------------------
(* Proofs about Backend, for every set of registers, words, instructions   *)
(* and MDU latencies: its invariant, and that every clock edge is a step   *)
(* of Isa, so that the pipeline executes the program in order.             *)
EXTENDS Backend, TLAPS

(* The ALU's adder yields a word. *)
LEMMA AddType == \A a, b \in Word : Add(a, b) \in Word
BY UopAssumption DEF Add

LEMMA FnType == \A o \in Op, a, b \in Word : Fn[o][a][b] \in Word
BY UopAssumption

LEMMA BubbleType == Bubble \in Uop /\ ~Bubble.valid /\ Uops \subseteq Uop
BY UopAssumption, UopsAssumption DEF Bubble, Uop, Class, AluClass

LEMMA SlotType == \A u \in Uops \cup {Bubble} : u \in Uop
BY BubbleType

(* Operand selection and branch targets over any register view. *)
LEMMA OperandType ==
  ASSUME NEW u \in Uop, NEW R \in [Reg -> Word]
  PROVE  Op1(u, R) \in Word /\ Op2(u, R) \in Word /\ ActualTarget(u, R) \in Word
<1>1. R[u.rs1] \in Word /\ R[u.rs2] \in Word /\ u.imm \in Word /\ u.pc \in Word
  BY DEF Uop
<1>2. Op1(u, R) \in Word /\ Op2(u, R) \in Word
  BY <1>1, UopAssumption DEF Op1, Op2
<1>3. ActualTarget(u, R) \in Word
  BY <1>1, AddType, FnType, UopAssumption DEF ActualTarget
<1>. QED BY <1>2, <1>3

LEMMA PredNextType == \A u \in Uop : PredNext(u) \in Word
BY AddType, UopAssumption DEF PredNext, Uop

LEMMA ComputedType ==
  ASSUME NEW u \in Uop, NEW R \in [Reg -> Word]
  PROVE  Computed(u, R) \in Word
BY OperandType, FnType, UopAssumption DEF Computed, Uop

(* Every wire carries a value of its type. *)
LEMMA WireTypes ==
  ASSUME TypeOK
  PROVE  /\ LoadData \in Word
         /\ Fwd \in [Reg -> Word]
         /\ Retire0 \in Entry /\ Retire1 \in Entry /\ ToAlu1 \in Entry
         /\ WriteBack \in [Reg -> Word]
         /\ RedirectPC \in Word
<1>1. LoadData \in Word
  BY DEF TypeOK, LoadData, Request
<1>2. \A r \in Reg : Bypass(r) \in Word
  BY <1>1, UopAssumption DEF TypeOK, Bypass, Entry
<1>3. Fwd \in [Reg -> Word]
  BY <1>2 DEF Fwd
<1>4. NoEntry \in Entry
  BY UopAssumption DEF NoEntry, Entry
<1>5. Retire0 \in Entry /\ Retire1 \in Entry
  BY <1>1, <1>4 DEF TypeOK, Retire0, Retire1, Entry, MduState, Request
<1>6. buf0 \in Uop /\ buf1 \in Uop
  BY SlotType DEF TypeOK
<1>7. ToAlu1 \in Entry
  <2>1. Computed(buf1, Fwd) \in Word
    BY <1>3, <1>6, ComputedType
  <2>2. WritesRd(buf1) \in BOOLEAN /\ buf1.rd \in Reg
    BY <1>6 DEF WritesRd, Uop
  <2>. QED BY <1>4, <2>1, <2>2 DEF ToAlu1, EntryOf, Entry
<1>8. WriteBack \in [Reg -> Word]
  BY DEF TypeOK, WriteBack, Entry
<1>9. RedirectPC \in Word
  <2>1. ActualTarget(buf0, Fwd) \in Word /\ Add(buf0.pc, Four) \in Word
    BY <1>3, <1>6, OperandType, AddType, UopAssumption DEF Uop
  <2>. QED BY <2>1, UopAssumption DEF RedirectPC, TypeOK
<1>. QED BY <1>1, <1>3, <1>5, <1>7, <1>8, <1>9

(* What lane 0 may hand to the units in one cycle. *)
Dispatched(a, l, m) ==
  /\ a \in Entry /\ l \in Request /\ m \in MduState
  /\ ~(a.v /\ l.v) /\ ~(a.v /\ m.busy) /\ ~(l.v /\ m.busy)
  /\ a.v \/ l.v \/ m.busy => Issue0
  /\ a.w => a.v /\ WritesRd(buf0) /\ a.rd = buf0.rd
  /\ l.load => l.v
  /\ l.w <=> l.load /\ l.rd # X0
  /\ l.w => WritesRd(buf0) /\ l.rd = buf0.rd
  /\ m.busy => buf0.cls = "mdu"
  /\ m.w => m.busy /\ WritesRd(buf0) /\ m.rd = buf0.rd

LEMMA AdvanceType ==
  ASSUME TypeOK, NEW a, NEW l, NEW m, Dispatched(a, l, m), Advance(a, l, m)
  PROVE  /\ alu0' \in Entry /\ alu1' \in Entry /\ lsu' \in Request
         /\ mdu' \in MduState /\ ret0' \in Entry /\ ret1' \in Entry
         /\ arf' \in [Reg -> Word] /\ cnt' \in [Reg -> 0..CntMod - 1]
         /\ pend' \in SUBSET Reg /\ mem' \in [Word -> Word] /\ rdy' \in BOOLEAN
<1>. USE DEF Advance
<1>1. alu0' \in Entry /\ alu1' \in Entry /\ ret0' \in Entry /\ ret1' \in Entry
  BY WireTypes DEF TypeOK, Dispatched
<1>2. lsu' \in Request
  BY UopAssumption DEF TypeOK, Dispatched, NoRequest, Request
<1>3. mdu' \in MduState
  <2>1. MduIdle \in MduState
    BY UopAssumption DEF MduIdle, MduState
  <2>2. mdu.busy /\ ~MduDone => [mdu EXCEPT !.left = @ - 1] \in MduState
    BY DEF TypeOK, MduState, MduDone
  <2>. QED BY <2>1, <2>2 DEF TypeOK, Dispatched, MduReady
<1>4. arf' \in [Reg -> Word]
  BY WireTypes
<1>5. \A S, C : Scoreboard(S, C) \in [Reg -> 0..CntMod - 1]
  <2>. SUFFICES ASSUME NEW r \in Reg
       PROVE  (cnt[r] + 1) % 8 \in 0..7 /\ (cnt[r] - 1) % 8 \in 0..7
    BY DEF Scoreboard, TypeOK, CntMod
  <2>. QED BY DEF TypeOK, CntMod
<1>6. cnt' \in [Reg -> 0..CntMod - 1]
  BY <1>5
<1>7. pend' \in SUBSET Reg
  BY DEF TypeOK, Pending, Dispatched, MduState
<1>8. mem' \in [Word -> Word]
  BY DEF TypeOK, Request
<1>9. rdy' \in BOOLEAN
  OBVIOUS
<1>. QED BY <1>1, <1>2, <1>3, <1>4, <1>6, <1>7, <1>8, <1>9

(* The buffer only ever holds instructions fetch delivered. *)
LEMMA RefillType ==
  ASSUME TypeOK, Refill
  PROVE  buf0' \in Uops \cup {Bubble} /\ buf1' \in Uops \cup {Bubble} /\ fpc' \in Word
<1>1. \A u \in Uops : PredNext(u) \in Word
  BY BubbleType, PredNextType
<1>. QED BY <1>1, WireTypes DEF Refill, TypeOK, Fetched

----------------------------------------------------------------------------
(* Lane 1 hands ALU1 a result only beside lane 0, and never one that       *)
(* lane 0 is writing too.                                                  *)
LEMMA Lane1Facts ==
  ASSUME IInv
  PROVE  /\ ToAlu1.v => Issue0 /\ buf0.cls # "mdu"
         /\ ToAlu1.w => /\ ToAlu1.v /\ WritesRd(buf1) /\ ToAlu1.rd = buf1.rd
                        /\ ToAlu1.rd # X0
                        /\ WritesRd(buf0) => buf0.rd # ToAlu1.rd
BY DEF IInv, BufferOk, ToAlu1, EntryOf, NoEntry, Issue1, PairOk, WawHazard, WritesRd

(* Issue dispatches only when the units ahead of it are free to move. *)
LEMMA IssueFacts == Issue0 => ~LsuStall /\ ~mdu.busy
BY DEF Issue0, DownstreamStall, MduReady

LEMMA AdvanceUnits ==
  ASSUME IInv, NEW a, NEW l, NEW m, Dispatched(a, l, m), Advance(a, l, m)
  PROVE  UnitsExclusive'
<1>1. ~(alu0'.v /\ lsu'.v)
  BY IssueFacts DEF IInv, UnitsExclusive, Advance, Dispatched, LsuStall, LsuDone,
     NoRequest, MduDone
<1>2. mdu'.busy => ~alu0'.v /\ ~lsu'.v
  BY IssueFacts DEF IInv, UnitsExclusive, Advance, Dispatched, LsuStall, LsuDone,
     NoRequest, MduDone, MduReady, MduIdle, TypeOK, MduState
<1>3. mdu'.busy => ~alu1'.v
  BY Lane1Facts, IssueFacts DEF IInv, UnitsExclusive, Advance, Dispatched, LsuStall,
     MduDone, MduReady, MduIdle, TypeOK, MduState
<1>. QED BY <1>1, <1>2, <1>3 DEF UnitsExclusive

LEMMA AdvanceWellFormed ==
  ASSUME IInv, NEW a, NEW l, NEW m, Dispatched(a, l, m), Advance(a, l, m)
  PROVE  WellFormed'
<1>. USE DEF IInv, WellFormed
<1>1. (alu0'.w => alu0'.v /\ alu0'.rd # X0) /\ (alu1'.w => alu1'.v /\ alu1'.rd # X0)
  BY Lane1Facts DEF Advance, Dispatched, WritesRd
<1>2. (ret0'.w => ret0'.v /\ ret0'.rd # X0) /\ (ret1'.w => ret1'.v /\ ret1'.rd # X0)
  BY DEF Advance, Retire0, Retire1, NoEntry, LsuDone
<1>3. (lsu'.load => lsu'.v) /\ (lsu'.w <=> lsu'.load /\ lsu'.rd # X0)
  BY DEF Advance, Dispatched, NoRequest
<1>4. mdu'.w => mdu'.busy /\ mdu'.rd # X0
  BY DEF Advance, Dispatched, WritesRd, MduIdle, MduReady, TypeOK, MduState
<1>5. rdy' => lsu'.v
  BY DEF Advance
<1>. QED BY <1>1, <1>2, <1>3, <1>4, <1>5

LEMMA AdvancePend ==
  ASSUME IInv, NEW a, NEW l, NEW m, Dispatched(a, l, m), Advance(a, l, m)
  PROVE  PendExact'
<1>1. CASE m.busy
  BY <1>1, IssueFacts DEF IInv, PendExact, WellFormed, Advance, Pending, Dispatched,
     MduReady, MduDone
<1>2. CASE ~m.busy /\ MduDone
  BY <1>2 DEF IInv, PendExact, Advance, Pending, MduReady, MduDone, MduIdle
<1>3. CASE ~m.busy /\ ~MduDone
  BY <1>3 DEF IInv, PendExact, Advance, Pending, MduReady, MduDone, MduIdle,
     TypeOK, MduState, WellFormed
<1>. QED BY <1>1, <1>2, <1>3 DEF Dispatched, MduState

LEMMA AdvanceWriters ==
  ASSUME IInv, NEW a, NEW l, NEW m, Dispatched(a, l, m), Advance(a, l, m)
  PROVE  WritersDistinct'
<1>. SUFFICES ASSUME NEW r \in Reg
     PROVE  /\ ~(Ret0Hit(r) /\ Ret1Hit(r))'
            /\ ~(Alu0Hit(r) /\ Alu1Hit(r))'
            /\ ~(Alu1Hit(r) /\ lsu.w /\ lsu.rd = r)'
  BY DEF WritersDistinct
<1>. USE DEF Alu0Hit, Alu1Hit, Ret0Hit, Ret1Hit
<1>1. ~(Ret0Hit(r) /\ Ret1Hit(r))'
  BY DEF IInv, WritersDistinct, UnitsExclusive, WellFormed, Advance, Retire0, Retire1,
     NoEntry, Alu0Done, Alu1Done, LsuDone, MduDone
<1>2. CASE LsuStall
  <2>1. alu0' = alu0 /\ alu1' = alu1
    BY <1>2 DEF Advance
  <2>2. ~l.v
    BY <1>2, IssueFacts DEF Dispatched
  <2>3. lsu' = lsu
    BY <1>2, <2>2 DEF Advance, LsuStall, LsuDone
  <2>. QED BY <1>1, <2>1, <2>3 DEF IInv, WritersDistinct
<1>3. CASE ~LsuStall
  <2>1. alu1' = ToAlu1
    BY <1>3 DEF Advance
  <2>2. alu0'.v => alu0' = a
    BY <1>3 DEF Advance, IInv, UnitsExclusive, MduDone
  <2>3. lsu'.w => lsu' = l
    BY <1>3 DEF Advance, IInv, WellFormed, LsuStall, LsuDone, NoRequest, TypeOK
  <2>. QED BY <1>1, <2>1, <2>2, <2>3, Lane1Facts DEF Dispatched
<1>. QED BY <1>1, <1>2, <1>3

(* The registers that a cycle's dispatches add to the scoreboard. *)
SetBy(a, l, m) == Sets(a) \cup Sets(ToAlu1) \cup Sets(l)
                    \cup (IF m.busy /\ m.w THEN {m.rd} ELSE {})
ClearedNow == Sets(ret0) \cup Sets(ret1)

LEMMA ClearedIsRetiring ==
  ASSUME IInv, NEW r \in Reg \ {X0}
  PROVE  r \in ClearedNow <=> Retiring(r)
BY DEF IInv, WellFormed, ClearedNow, Sets, Retiring, Ret0Hit, Ret1Hit

(* While a unit holds the pipeline, writers stay and none joins. *)
LEMMA HeldCycle ==
  ASSUME IInv, NEW a, NEW l, NEW m, Dispatched(a, l, m), Advance(a, l, m),
         LsuStall \/ (mdu.busy /\ ~MduDone), NEW r \in Reg \ {X0}
  PROVE  r \notin SetBy(a, l, m) /\ (Executing(r)' <=> Executing(r)) /\ ~Retiring(r)'
<1>1. ~a.v /\ ~l.v /\ ~m.busy /\ ~ToAlu1.v
  BY IssueFacts, Lane1Facts DEF Dispatched
<1>2. r \notin SetBy(a, l, m)
  BY <1>1 DEF SetBy, Sets
<1>3. ~a.w /\ ~ToAlu1.w
  BY <1>1, Lane1Facts DEF Dispatched
<1>4. ~Retiring(r)'
  BY DEF IInv, UnitsExclusive, WellFormed, Advance, Retire0, Retire1, NoEntry,
     Alu0Done, Alu1Done, LsuDone, LsuStall, MduDone, Retiring, Ret0Hit, Ret1Hit
<1>5. CASE LsuStall
  <2>1. alu0' = alu0 /\ alu1' = alu1 /\ lsu' = lsu
    BY <1>1, <1>5 DEF Advance, LsuStall, LsuDone
  <2>2. mdu' = mdu
    BY <1>1, <1>5 DEF Advance, IInv, UnitsExclusive, LsuStall, MduReady
  <2>. QED BY <1>2, <1>4, <2>1, <2>2 DEF Executing, Alu0Hit, Alu1Hit
<1>6. CASE ~LsuStall /\ mdu.busy /\ ~MduDone
  <2>1. ~alu0.v /\ ~alu1.v /\ ~lsu.v
    BY <1>6 DEF IInv, UnitsExclusive
  <2>2. ~alu0'.v /\ ~alu1'.v /\ lsu' = lsu
    BY <1>1, <1>6, <2>1 DEF Advance, LsuDone
  <2>3. mdu'.w = mdu.w /\ mdu'.rd = mdu.rd
    BY <1>6 DEF Advance, MduReady, IInv, TypeOK, MduState
  <2>. QED BY <1>2, <1>4, <2>1, <2>2, <2>3 DEF Executing, Alu0Hit, Alu1Hit
<1>. QED BY <1>5, <1>6

(* Otherwise every writer in an execution unit moves on to retire and      *)
(* makes room for the writers dispatched.                                  *)
LEMMA FreeCycle ==
  ASSUME IInv, NEW a, NEW l, NEW m, Dispatched(a, l, m), Advance(a, l, m),
         ~LsuStall, mdu.busy => MduDone, NEW r \in Reg \ {X0}
  PROVE  /\ Retiring(r)' <=> Executing(r)
         /\ Executing(r)' <=> r \in SetBy(a, l, m)
<1>1. alu1' = ToAlu1 /\ ret1' = Retire1
  BY DEF Advance
<1>2. Ret1Hit(r)' <=> Alu1Hit(r)
  BY <1>1 DEF Ret1Hit, Alu1Hit, Retire1, Alu1Done, NoEntry, IInv, WellFormed
<1>3. Ret0Hit(r)' <=> Alu0Hit(r) \/ (lsu.w /\ lsu.rd = r) \/ (mdu.w /\ mdu.rd = r)
  <2>1. CASE mdu.busy
    BY <2>1 DEF Advance, Ret0Hit, Alu0Hit, Retire0, IInv, WellFormed, UnitsExclusive
  <2>2. CASE ~mdu.busy
    BY <2>2 DEF Advance, Ret0Hit, Alu0Hit, Retire0, IInv, WellFormed, UnitsExclusive,
       Alu0Done, LsuDone, LsuStall, MduDone, NoEntry
  <2>. QED BY <2>1, <2>2 DEF IInv, TypeOK, MduState
<1>4. Alu1Hit(r)' <=> r \in Sets(ToAlu1)
  BY <1>1 DEF Alu1Hit, Sets
<1>5. Alu0Hit(r)' <=> r \in Sets(a)
  <2>1. CASE MduDone
    BY <2>1, IssueFacts DEF Advance, MduDone, IInv, UnitsExclusive, Dispatched,
       Alu0Hit, Sets
  <2>2. CASE ~MduDone
    BY <2>2 DEF Advance, Alu0Hit, Sets
  <2>. QED BY <2>1, <2>2
<1>6. (lsu'.w /\ lsu'.rd = r) <=> r \in Sets(l)
  BY DEF Advance, LsuStall, LsuDone, NoRequest, Sets, Dispatched, IInv, WellFormed
<1>7. (mdu'.w /\ mdu'.rd = r) <=> r \in (IF m.busy /\ m.w THEN {m.rd} ELSE {})
  BY IssueFacts DEF Advance, MduIdle, MduReady, MduDone, Dispatched, IInv, WellFormed
<1>. QED BY <1>2, <1>3, <1>4, <1>5, <1>6, <1>7 DEF Retiring, Executing, SetBy

LEMMA AdvanceScoreboard ==
  ASSUME IInv, NEW a, NEW l, NEW m, Dispatched(a, l, m), Advance(a, l, m)
  PROVE  ScoreboardExact' /\ cnt'[X0] = 0
<1>1. cnt' = Scoreboard(SetBy(a, l, m), ClearedNow)
  BY DEF Advance, SetBy, ClearedNow
<1>2. X0 \notin SetBy(a, l, m) /\ X0 \notin ClearedNow
  BY DEF SetBy, ClearedNow, Sets, Dispatched, WritesRd
<1>3. cnt'[X0] = 0
  BY <1>1, <1>2, UopAssumption DEF Scoreboard, IInv
<1>4. ASSUME NEW r \in Reg \ {X0}
      PROVE  cnt'[r] = (IF Executing(r)' THEN 1 ELSE 0) + (IF Retiring(r)' THEN 1 ELSE 0)
  <2>1. cnt[r] = (IF Executing(r) THEN 1 ELSE 0) + (IF Retiring(r) THEN 1 ELSE 0)
    BY DEF IInv, ScoreboardExact
  <2>2. cnt'[r] = IF r \in SetBy(a, l, m) /\ ~Retiring(r) THEN (cnt[r] + 1) % 8
                  ELSE IF Retiring(r) /\ r \notin SetBy(a, l, m) THEN (cnt[r] - 1) % 8
                  ELSE cnt[r]
    BY <1>1, ClearedIsRetiring DEF Scoreboard, CntMod
  <2>3. CASE LsuStall \/ (mdu.busy /\ ~MduDone)
    <3>1. r \notin SetBy(a, l, m) /\ (Executing(r)' <=> Executing(r)) /\ ~Retiring(r)'
      BY <2>3, HeldCycle
    <3>. QED BY <2>1, <2>2, <3>1
  <2>4. CASE ~(LsuStall \/ (mdu.busy /\ ~MduDone))
    <3>1. /\ Retiring(r)' <=> Executing(r)
          /\ Executing(r)' <=> r \in SetBy(a, l, m)
      BY <2>4, FreeCycle
    <3>2. CASE Executing(r) /\ Retiring(r)
      BY <2>1, <2>2, <3>1, <3>2
    <3>3. CASE Executing(r) /\ ~Retiring(r)
      BY <2>1, <2>2, <3>1, <3>3
    <3>4. CASE ~Executing(r) /\ Retiring(r)
      BY <2>1, <2>2, <3>1, <3>4
    <3>5. CASE ~Executing(r) /\ ~Retiring(r)
      BY <2>1, <2>2, <3>1, <3>5
    <3>. QED BY <3>2, <3>3, <3>4, <3>5
  <2>. QED BY <2>3, <2>4
<1>5. ScoreboardExact'
  BY <1>4 DEF ScoreboardExact
<1>. QED BY <1>3, <1>5

LEMMA RefillBuffer ==
  ASSUME IInv, Refill
  PROVE  BufferOk'
<1>1. ~Bubble.valid /\ \A u \in Uops : u.valid
  BY BubbleType, UopsAssumption
<1>. QED BY <1>1 DEF Refill, BufferOk, IInv, Fetched

----------------------------------------------------------------------------
LEMMA EmptyDispatch == Dispatched(NoEntry, NoRequest, MduIdle)
BY UopAssumption DEF Dispatched, NoEntry, NoRequest, MduIdle, Entry, Request, MduState

(* What each kind of uop in lane 0 dispatches is a legal dispatch. *)
LEMMA EntryDispatch ==
  ASSUME IInv, Issue0, NEW x \in Word
  PROVE  Dispatched(EntryOf(buf0, x), NoRequest, MduIdle)
<1>1. WritesRd(buf0) \in BOOLEAN /\ buf0.rd \in Reg
  BY SlotType DEF IInv, TypeOK, WritesRd, Uop
<1>. QED BY <1>1, EmptyDispatch DEF EntryOf, Dispatched, Entry, NoRequest, MduIdle

LEMMA MemDispatch ==
  ASSUME IInv, Issue0, IsMem(buf0), NEW x \in Word, NEW y \in Word
  PROVE  Dispatched(NoEntry,
           [v |-> TRUE, load |-> buf0.cls = "load", w |-> WritesRd(buf0),
            rd |-> buf0.rd, addr |-> x, data |-> y], MduIdle)
<1>1. WritesRd(buf0) \in BOOLEAN /\ buf0.rd \in Reg
  BY SlotType DEF IInv, TypeOK, WritesRd, Uop
<1>2. WritesRd(buf0) <=> buf0.cls = "load" /\ buf0.rd # X0
  BY DEF WritesRd, IsMem, AluClass
<1>. QED BY <1>1, <1>2, EmptyDispatch DEF Dispatched, Request, NoEntry, MduIdle

LEMMA MduDispatch ==
  ASSUME IInv, Issue0, buf0.cls = "mdu", NEW x \in Word, NEW n \in MduLatency
  PROVE  Dispatched(NoEntry, NoRequest,
           [busy |-> TRUE, left |-> n - 1, w |-> WritesRd(buf0),
            rd |-> buf0.rd, val |-> x])
<1>1. WritesRd(buf0) \in BOOLEAN /\ buf0.rd \in Reg
  BY SlotType DEF IInv, TypeOK, WritesRd, Uop
<1>2. n - 1 \in Nat
  BY BackendAssumption
<1>. QED BY <1>1, <1>2, EmptyDispatch DEF Dispatched, MduState, NoEntry, NoRequest

(* Every action is a legal dispatch, an Advance and a Refill. *)
LEMMA NextDispatches ==
  ASSUME IInv, Next
  PROVE  /\ Refill /\ csr' \in Word
         /\ \E a, l, m : Dispatched(a, l, m) /\ Advance(a, l, m)
<1>. DEFINE Goal == \E a, l, m : Dispatched(a, l, m) /\ Advance(a, l, m)
<1>1. Fwd \in [Reg -> Word] /\ buf0 \in Uop /\ csr \in Word /\ buf0.pc \in Word
  BY WireTypes, SlotType DEF IInv, TypeOK, Uop
<1>2. /\ Computed(buf0, Fwd) \in Word /\ Op1(buf0, Fwd) \in Word
      /\ Op2(buf0, Fwd) \in Word /\ Add(csr, Zero) \in Word
      /\ Add(Op1(buf0, Fwd), buf0.imm) \in Word
  BY <1>1, ComputedType, OperandType, AddType, UopAssumption DEF Uop
<1>3. CASE IssueNone
  BY <1>1, <1>3, EmptyDispatch DEF IssueNone
<1>4. CASE IssueAlu
  <2>1. Dispatched(EntryOf(buf0, Computed(buf0, Fwd)), NoRequest, MduIdle)
    BY <1>2, <1>4, EntryDispatch DEF IssueAlu
  <2>. QED BY <1>1, <1>4, <2>1 DEF IssueAlu
<1>5. CASE IssueMem
  <2>. DEFINE l == [v |-> TRUE, load |-> buf0.cls = "load", w |-> WritesRd(buf0),
                    rd |-> buf0.rd, addr |-> Add(Op1(buf0, Fwd), buf0.imm),
                    data |-> Op2(buf0, Fwd)]
  <2>1. Dispatched(NoEntry, l, MduIdle)
    BY <1>2, <1>5, MemDispatch DEF IssueMem
  <2>2. Advance(NoEntry, l, MduIdle) /\ Refill /\ csr' = csr
    BY <1>5 DEF IssueMem
  <2>. HIDE DEF l
  <2>. QED BY <1>1, <2>1, <2>2
<1>6. CASE IssueMdu
  <2>1. PICK n \in MduLatency :
          Advance(NoEntry, NoRequest,
                  [busy |-> TRUE, left |-> n - 1, w |-> WritesRd(buf0),
                   rd |-> buf0.rd, val |-> Computed(buf0, Fwd)])
    BY <1>6 DEF IssueMdu
  <2>. DEFINE m == [busy |-> TRUE, left |-> n - 1, w |-> WritesRd(buf0),
                    rd |-> buf0.rd, val |-> Computed(buf0, Fwd)]
  <2>2. Dispatched(NoEntry, NoRequest, m)
    BY <1>2, <1>6, MduDispatch DEF IssueMdu
  <2>3. Advance(NoEntry, NoRequest, m) /\ Refill /\ csr' = csr
    BY <1>6, <2>1 DEF IssueMdu
  <2>. HIDE DEF m
  <2>. QED BY <1>1, <2>2, <2>3
<1>7. CASE IssueBranch
  BY <1>1, <1>7, EmptyDispatch DEF IssueBranch
<1>8. CASE IssueSystem
  <2>1. csr' \in Word
    BY <1>1, <1>8 DEF IssueSystem, Uop
  <2>2. Goal
    <3>1. CASE IsCsr(buf0)
      BY <1>2, <1>8, <3>1, EntryDispatch DEF IssueSystem
    <3>2. CASE ~IsCsr(buf0)
      BY <1>8, <3>2, EmptyDispatch DEF IssueSystem
    <3>. QED BY <3>1, <3>2
  <2>. QED BY <1>8, <2>1, <2>2 DEF IssueSystem
<1>. QED BY <1>3, <1>4, <1>5, <1>6, <1>7, <1>8 DEF Next

LEMMA InitIInv == Init => IInv
<1>. SUFFICES ASSUME Init PROVE IInv
  OBVIOUS
<1>. USE DEF Init, NoEntry, NoRequest, MduIdle
<1>1. TypeOK
  <2>1. arf \in [Reg -> Word] /\ cnt \in [Reg -> 0..CntMod - 1]
    BY UopAssumption DEF CntMod
  <2>2. mem \in [Word -> Word]
    BY UopAssumption
  <2>3. alu0 \in Entry /\ alu1 \in Entry /\ ret0 \in Entry /\ ret1 \in Entry
    BY UopAssumption DEF Entry
  <2>4. lsu \in Request /\ mdu \in MduState
    BY UopAssumption DEF Request, MduState
  <2>5. fpc \in Word /\ csr \in Word /\ pend \in SUBSET Reg /\ rdy \in BOOLEAN
    BY UopAssumption
  <2>. QED BY <2>1, <2>2, <2>3, <2>4, <2>5 DEF TypeOK
<1>2. WellFormed /\ PendExact /\ UnitsExclusive /\ WritersDistinct
  BY DEF WellFormed, PendExact, UnitsExclusive, WritersDistinct, Alu0Hit, Alu1Hit,
     Ret0Hit, Ret1Hit
<1>3. BufferOk
  BY BubbleType DEF BufferOk
<1>4. ScoreboardExact /\ cnt[X0] = 0
  BY UopAssumption DEF ScoreboardExact, Executing, Retiring, Alu0Hit, Alu1Hit,
     Ret0Hit, Ret1Hit
<1>. QED BY <1>1, <1>2, <1>3, <1>4 DEF IInv

LEMMA NextIInv == IInv /\ [Next]_vars => IInv'
<1>1. ASSUME IInv, Next PROVE IInv'
  <2>1. PICK a, l, m : Dispatched(a, l, m) /\ Advance(a, l, m)
    BY <1>1, NextDispatches
  <2>2. Refill /\ csr' \in Word
    BY <1>1, NextDispatches
  <2>3. TypeOK'
    BY <1>1, <2>1, <2>2, AdvanceType, RefillType DEF IInv, TypeOK
  <2>4. WellFormed' /\ PendExact' /\ UnitsExclusive' /\ WritersDistinct'
    BY <1>1, <2>1, AdvanceWellFormed, AdvancePend, AdvanceUnits, AdvanceWriters
  <2>5. ScoreboardExact' /\ cnt'[X0] = 0
    BY <1>1, <2>1, AdvanceScoreboard
  <2>6. BufferOk'
    BY <1>1, <2>2, RefillBuffer
  <2>. QED BY <2>3, <2>4, <2>5, <2>6 DEF IInv
<1>2. ASSUME IInv, UNCHANGED vars PROVE IInv'
  BY <1>2 DEF IInv, vars, TypeOK, WellFormed, PendExact, BufferOk, UnitsExclusive,
     WritersDistinct, ScoreboardExact, Executing, Retiring, Alu0Hit, Alu1Hit,
     Ret0Hit, Ret1Hit
<1>. QED BY <1>1, <1>2

(* The pipeline's bookkeeping is consistent in every reachable state. *)
THEOREM Consistent == Spec => []IInv
<1>. QED BY InitIInv, NextIInv, PTL DEF Spec

(* Every variable keeps its type; the counters stay within three bits. *)
THEOREM TypeCorrect == Spec => []TypeOK
<1>1. IInv => TypeOK
  BY DEF IInv
<1>. QED BY <1>1, Consistent, PTL

(* The scoreboard counts exactly the writes in flight. *)
THEOREM ScoreboardCorrect == Spec => []ScoreboardExact
<1>1. IInv => ScoreboardExact
  BY DEF IInv
<1>. QED BY <1>1, Consistent, PTL

----------------------------------------------------------------------------
(* When Issue may dispatch, the units hold only finished results. *)
LEMMA QuietUnits ==
  ASSUME IInv, ~DownstreamStall
  PROVE  ~mdu.busy /\ ~mdu.w /\ pend = {} /\ (lsu.v => LsuDone)
BY DEF IInv, DownstreamStall, MduReady, LsuStall, LsuDone, PendExact, WellFormed

LEMMA OperandsCurrentHolds == IInv => OperandsCurrent
<1>. SUFFICES ASSUME IInv, ~DownstreamStall, NEW r \in Reg
     PROVE  Bypass(r) = ArchReg(r)
  BY DEF OperandsCurrent
<1>1. ~mdu.busy
  BY QuietUnits
<1>2. LsuHit(r) <=> lsu.v /\ lsu.load /\ lsu.rd = r
  BY QuietUnits DEF LsuHit, LsuDone
<1>. QED BY <1>1, <1>2 DEF Bypass, ArchReg

(* A register the scoreboard reports busy is on the bypass network. *)
LEMMA BusyIsBypassed ==
  ASSUME IInv, ~DownstreamStall, NEW r \in Reg
  PROVE  ~Busy(r) \/ Hit(r)
<1>1. CASE r = X0
  BY <1>1 DEF Hit
<1>2. CASE r # X0 /\ ~Executing(r) /\ ~Retiring(r)
  <2>1. cnt[r] = 0
    BY <1>2 DEF IInv, ScoreboardExact
  <2>. QED BY <2>1 DEF Busy
<1>3. CASE r # X0 /\ Retiring(r)
  BY <1>3 DEF Retiring, Hit
<1>4. CASE r # X0 /\ Executing(r)
  <2>1. ~mdu.w
    BY QuietUnits
  <2>2. lsu.w /\ lsu.rd = r => LsuHit(r)
    BY QuietUnits DEF IInv, WellFormed, LsuHit
  <2>. QED BY <1>4, <2>1, <2>2 DEF Executing, Hit
<1>. QED BY <1>1, <1>2, <1>3, <1>4

LEMMA Lane1KeepsUpHolds == IInv => Lane1KeepsUp
<1>. SUFFICES ASSUME IInv, Issue0, buf1.valid, ~Redirect
     PROVE  OpsReady(buf1)
  BY DEF Lane1KeepsUp, Issue1
<1>1. ~DownstreamStall
  BY DEF Issue0
<1>2. buf1.rs1 \in Reg /\ buf1.rs2 \in Reg
  BY SlotType DEF IInv, TypeOK, Uop
<1>3. OpReady(UsesRs1(buf1), buf1.rs1) /\ OpReady(UsesRs2(buf1), buf1.rs2)
  BY <1>1, <1>2, BusyIsBypassed DEF OpReady
<1>4. \A uses, r : ~BlockedByMdu(uses, r)
  BY <1>1, QuietUnits DEF BlockedByMdu
<1>. QED BY <1>3, <1>4 DEF OpsReady

(* Nothing that Issue dispatches ever reads an operand older than program  *)
(* order gives it.                                                         *)
THEOREM OperandsAlwaysCurrent == Spec => []OperandsCurrent
<1>. QED BY Consistent, OperandsCurrentHolds, PTL

(* The younger instruction of a bundle is never dropped. *)
THEOREM BundlesStayWhole == Spec => []Lane1KeepsUp
<1>. QED BY Consistent, Lane1KeepsUpHolds, PTL

(* The three units that share retire lane 0 never hold results together. *)
THEOREM SharedLaneIsFree == Spec => []UnitsExclusive
<1>1. IInv => UnitsExclusive
  BY DEF IInv
<1>. QED BY <1>1, Consistent, PTL

(* No two results written together go to the same register. *)
THEOREM WritersStayDistinct == Spec => []WritersDistinct
<1>1. IInv => WritersDistinct
  BY DEF IInv
<1>. QED BY <1>1, Consistent, PTL

------------------------------------------------------------------------------
(* When Issue dispatches, the bypassed operands are the architectural      *)
(* registers.                                                              *)
LEMMA FwdIsArch == IInv /\ ~DownstreamStall => Fwd = ArchState.regs
BY OperandsCurrentHolds DEF OperandsCurrent, Fwd, ArchState

(* Instructions do not overtake: the result that a cycle dispatches lies   *)
(* over the registers and the memory as the writes in flight leave them.   *)
Over(a, l, m, r) ==
  IF r = X0 THEN Zero
  ELSE IF ToAlu1.w /\ ToAlu1.rd = r THEN ToAlu1.val
  ELSE IF a.w /\ a.rd = r THEN a.val
  ELSE IF m.w /\ m.rd = r THEN m.val
  ELSE IF l.w /\ l.rd = r THEN ArchState.mem[l.addr]
  ELSE ArchReg(r)
OverMem(l) ==
  IF l.v /\ ~l.load THEN [ArchState.mem EXCEPT ![l.addr] = l.data]
  ELSE ArchState.mem

LEMMA WriteBackValue ==
  ASSUME IInv, NEW r \in Reg \ {X0}
  PROVE  WriteBack[r] = IF Ret1Hit(r) THEN ret1.val
                        ELSE IF Ret0Hit(r) THEN ret0.val ELSE arf[r]
BY DEF IInv, WellFormed, WriteBack, Ret0Hit, Ret1Hit

(* While a unit holds the pipeline, nothing changes architecturally. *)
LEMMA HeldArch ==
  ASSUME IInv, NEW a, NEW l, NEW m, Dispatched(a, l, m), Advance(a, l, m),
         LsuStall \/ mdu.busy, NEW r \in Reg \ {X0}
  PROVE  ArchReg(r)' = ArchReg(r)
<1>1. ~a.v /\ ~l.v /\ ~m.busy /\ ~ToAlu1.v /\ ~ToAlu1.w /\ ~a.w
  BY IssueFacts, Lane1Facts DEF Dispatched
<1>2. arf'[r] = IF Ret1Hit(r) THEN ret1.val ELSE IF Ret0Hit(r) THEN ret0.val ELSE arf[r]
  BY WriteBackValue DEF Advance
<1>3. CASE LsuStall
  <2>1. alu0' = alu0 /\ alu1' = alu1 /\ lsu' = lsu /\ mem' = mem
    BY <1>1, <1>3 DEF Advance, LsuStall, LsuDone
  <2>2. ~mdu.busy /\ ~mdu'.busy
    BY <1>1, <1>3 DEF Advance, IInv, UnitsExclusive, LsuStall, MduReady
  <2>3. ~Ret0Hit(r)' /\ ~Ret1Hit(r)'
    BY <1>3, <2>2 DEF Advance, Retire0, Retire1, NoEntry, Alu0Done, Alu1Done, LsuDone,
       LsuStall, MduDone, Ret0Hit, Ret1Hit
  <2>. QED BY <1>2, <2>1, <2>2, <2>3 DEF ArchReg, Alu0Hit, Alu1Hit, LoadData
<1>4. CASE ~LsuStall /\ mdu.busy
  <2>1. ~alu0.v /\ ~alu1.v /\ ~lsu.v
    BY <1>4 DEF IInv, UnitsExclusive
  <2>2. ~alu0'.v /\ ~alu1'.v /\ lsu' = lsu
    BY <1>1, <1>4, <2>1 DEF Advance, LsuDone
  <2>3. ~Ret1Hit(r)'
    BY <2>1 DEF Advance, Retire1, Alu1Done, NoEntry, Ret1Hit
  <2>4. CASE MduDone
    <3>1. ret0' = [v |-> TRUE, w |-> mdu.w, rd |-> mdu.rd, val |-> mdu.val]
      BY <2>4 DEF Advance, Retire0
    <3>2. ~mdu'.busy
      BY <1>4, <2>4 DEF Advance, MduReady, MduIdle
    <3>. QED BY <1>2, <1>4, <2>1, <2>2, <2>3, <3>1, <3>2
             DEF ArchReg, Alu0Hit, Alu1Hit, Ret0Hit
  <2>5. CASE ~MduDone
    <3>1. mdu'.busy /\ mdu'.w = mdu.w /\ mdu'.rd = mdu.rd /\ mdu'.val = mdu.val
      BY <1>4, <2>5 DEF Advance, MduReady, IInv, TypeOK, MduState
    <3>2. ~Ret0Hit(r)'
      BY <2>1, <2>5 DEF Advance, Retire0, Alu0Done, LsuDone, NoEntry, Ret0Hit
    <3>. QED BY <1>2, <1>4, <2>1, <2>2, <2>3, <3>1, <3>2
             DEF ArchReg, Alu0Hit, Alu1Hit
  <2>. QED BY <2>4, <2>5
<1>. QED BY <1>3, <1>4

(* Otherwise every result in flight moves one stage on. *)
LEMMA FreeArch ==
  ASSUME IInv, NEW a, NEW l, NEW m, Dispatched(a, l, m), Advance(a, l, m),
         ~LsuStall, ~mdu.busy, NEW r \in Reg \ {X0}
  PROVE  ArchReg(r)' = Over(a, l, m, r)
<1>1. alu0' = a /\ alu1' = ToAlu1 /\ mem' = ArchState.mem
  BY DEF Advance, MduDone, LsuStall, LsuDone, ArchState
<1>2. arf'[r] = IF Ret1Hit(r) THEN ret1.val ELSE IF Ret0Hit(r) THEN ret0.val ELSE arf[r]
  BY WriteBackValue DEF Advance
<1>3. (lsu'.v /\ lsu'.load /\ lsu'.rd = r <=> l.w /\ l.rd = r) /\ (l.w => lsu' = l)
  BY DEF Advance, LsuStall, LsuDone, NoRequest, Dispatched, IInv, WellFormed
<1>4. (mdu'.busy /\ mdu'.w /\ mdu'.rd = r <=> m.w /\ m.rd = r) /\ (m.w => mdu' = m)
  BY DEF Advance, MduReady, MduIdle, Dispatched, IInv, WellFormed
<1>5. (Ret1Hit(r)' <=> Alu1Hit(r)) /\ (Alu1Hit(r) => ret1'.val = alu1.val)
  BY DEF Advance, Ret1Hit, Alu1Hit, Retire1, Alu1Done, NoEntry, IInv, WellFormed
<1>6. /\ Ret0Hit(r)' <=> Alu0Hit(r) \/ (lsu.v /\ lsu.load /\ lsu.rd = r)
      /\ Alu0Hit(r) => ret0'.val = alu0.val
      /\ lsu.v /\ lsu.load /\ lsu.rd = r => ret0'.val = LoadData
  <2>1. CASE alu0.v
    BY <2>1 DEF Advance, Ret0Hit, Alu0Hit, Retire0, Alu0Done, MduDone, IInv, UnitsExclusive
  <2>2. CASE ~alu0.v
    BY <2>2 DEF Advance, Ret0Hit, Alu0Hit, Retire0, Alu0Done, LsuDone, LsuStall, MduDone,
       NoEntry, IInv, WellFormed
  <2>. QED BY <2>1, <2>2
<1>7. ~(Alu0Hit(r) /\ lsu.v /\ lsu.load /\ lsu.rd = r)
  BY DEF IInv, UnitsExclusive, Alu0Hit
<1>8. ArchReg(r)' = IF ToAlu1.w /\ ToAlu1.rd = r THEN ToAlu1.val
                    ELSE IF a.w /\ a.rd = r THEN a.val
                    ELSE IF m.w /\ m.rd = r THEN m.val
                    ELSE IF l.w /\ l.rd = r THEN ArchState.mem[l.addr]
                    ELSE IF Ret1Hit(r)' THEN ret1'.val
                    ELSE IF Ret0Hit(r)' THEN ret0'.val ELSE arf'[r]
  BY <1>1, <1>3, <1>4, Lane1Facts DEF ArchReg, Alu0Hit, Alu1Hit, Dispatched, LoadData
<1>9. ArchReg(r) = IF Alu1Hit(r) THEN alu1.val ELSE IF Alu0Hit(r) THEN alu0.val
                   ELSE IF lsu.v /\ lsu.load /\ lsu.rd = r THEN LoadData
                   ELSE IF Ret1Hit(r) THEN ret1.val
                   ELSE IF Ret0Hit(r) THEN ret0.val ELSE arf[r]
  BY DEF ArchReg
<1>. QED BY <1>2, <1>5, <1>6, <1>7, <1>8, <1>9 DEF Over

LEMMA AdvanceRegs ==
  ASSUME IInv, NEW a, NEW l, NEW m, Dispatched(a, l, m), Advance(a, l, m),
         NEW r \in Reg
  PROVE  ArchReg(r)' = Over(a, l, m, r)
<1>1. CASE r = X0
  BY <1>1 DEF ArchReg, Over
<1>2. CASE r # X0 /\ (LsuStall \/ mdu.busy)
  <2>1. ~a.v /\ ~l.v /\ ~m.busy /\ ~ToAlu1.v
    BY <1>2, IssueFacts, Lane1Facts DEF Dispatched
  <2>2. ~a.w /\ ~l.w /\ ~m.w /\ ~ToAlu1.w
    BY <2>1, Lane1Facts DEF Dispatched
  <2>. QED BY <1>2, <2>2, HeldArch DEF Over
<1>3. CASE r # X0 /\ ~LsuStall /\ ~mdu.busy
  BY <1>3, FreeArch
<1>. QED BY <1>1, <1>2, <1>3

LEMMA AdvanceMem ==
  ASSUME IInv, NEW a, NEW l, NEW m, Dispatched(a, l, m), Advance(a, l, m)
  PROVE  ArchState.mem' = OverMem(l)
<1>1. CASE LsuStall
  <2>1. ~l.v
    BY <1>1, IssueFacts DEF Dispatched
  <2>2. lsu' = lsu /\ mem' = mem
    BY <1>1, <2>1 DEF Advance, LsuStall, LsuDone
  <2>. QED BY <2>1, <2>2 DEF ArchState, OverMem
<1>2. CASE ~LsuStall
  <2>1. mem' = ArchState.mem
    BY <1>2 DEF Advance, LsuStall, LsuDone, ArchState
  <2>2. l.v => lsu' = l
    BY <1>2 DEF Advance, LsuStall, LsuDone
  <2>3. ~l.v => ~lsu'.v
    BY <1>2 DEF Advance, LsuStall, LsuDone, NoRequest
  <2>. QED BY <2>1, <2>2, <2>3 DEF ArchState, OverMem
<1>. QED BY <1>1, <1>2

----------------------------------------------------------------------------
(* What lane 0 dispatches is the effect of its instruction. *)
Over0(a, l, m, r) ==
  IF a.w /\ a.rd = r THEN a.val
  ELSE IF m.w /\ m.rd = r THEN m.val
  ELSE IF l.w /\ l.rd = r THEN ArchState.mem[l.addr]
  ELSE ArchReg(r)
Effect0(a, l, m) ==
  LET s == Program!Exec(ArchState, buf0) IN
  /\ \A r \in Reg \ {X0} : Over0(a, l, m, r) = s.regs[r]
  /\ OverMem(l) = s.mem
  /\ csr' = s.csr

LEMMA ArchRegsAre == ArchState.regs = [r \in Reg |-> ArchReg(r)] /\ ArchState.csr = csr
BY DEF ArchState

(* Isa and Backend read an instruction alike. *)
LEMMA SameReading ==
  /\ \A a, b : Program!Add(a, b) = Add(a, b)
  /\ \A u : /\ Program!WritesRd(u) = WritesRd(u)
            /\ Program!Traps(u) = Traps(u)
BY DEF Program!Add, Add, Program!WritesRd, WritesRd, Program!Traps, Traps,
   Program!AluClass, AluClass

(* The registers after one instruction. *)
LEMMA ExecRegs ==
  ASSUME NEW u \in Uop, NEW r \in Reg
  PROVE  Program!Exec(ArchState, u).regs[r] =
           IF WritesRd(u) /\ u.rd = r THEN Program!Result(ArchState, u) ELSE ArchReg(r)
BY ArchRegsAre, SameReading DEF Program!Exec, Uop

LEMMA AluEffect ==
  ASSUME IInv, Issue0, WritesRd(buf0),
         buf0.cls \in AluClass \cup {"jal", "jalr"}
  PROVE  Computed(buf0, Fwd) = Program!Result(ArchState, buf0)
<1>1. Fwd = ArchState.regs /\ buf0 \in Uop
  BY FwdIsArch, SlotType DEF Issue0, IInv, TypeOK
<1>2. CASE buf0.cls \in {"op", "opimm"}
  BY <1>1, <1>2 DEF Computed, Op1, Op2, UsesRs1, IsJump, IsImmediate, Program!Result
<1>3. CASE buf0.cls = "lui"
  BY <1>1, <1>3, UopAssumption DEF Computed, Op1, Op2, UsesRs1, IsJump, IsImmediate,
     Program!Result, Uop
<1>4. CASE buf0.cls = "auipc"
  BY <1>1, <1>4 DEF Computed, Op1, Op2, UsesRs1, IsJump, IsImmediate, Program!Result, Add,
     Program!Add
<1>5. CASE IsJump(buf0)
  BY <1>1, <1>5 DEF Computed, Op1, Op2, UsesRs1, IsJump, IsImmediate, Program!Result, Add,
     Program!Add
<1>. QED BY <1>2, <1>3, <1>4, <1>5 DEF AluClass, IsJump

LEMMA NoWriteEffect ==
  ASSUME IInv, ~WritesRd(buf0), NEW r \in Reg
  PROVE  Program!Exec(ArchState, buf0).regs[r] = ArchReg(r)
BY ExecRegs, SlotType DEF IInv, TypeOK

LEMMA MemKept == OverMem(NoRequest) = ArchState.mem
BY DEF OverMem, NoRequest

LEMMA AluIssue ==
  ASSUME IInv, IssueAlu
  PROVE  Effect0(EntryOf(buf0, Computed(buf0, Fwd)), NoRequest, MduIdle)
<1>1. buf0 \in Uop
  BY SlotType DEF IInv, TypeOK
<1>2. ASSUME NEW r \in Reg \ {X0}
      PROVE  Over0(EntryOf(buf0, Computed(buf0, Fwd)), NoRequest, MduIdle, r)
               = Program!Exec(ArchState, buf0).regs[r]
  <2>1. CASE WritesRd(buf0)
    <3>1. buf0.cls \in AluClass \cup {"jal", "jalr"}
      BY <2>1 DEF IssueAlu, WritesRd
    <3>. QED BY <1>1, <2>1, <3>1, AluEffect, ExecRegs DEF IssueAlu, Over0, EntryOf,
             NoRequest, MduIdle
  <2>2. CASE ~WritesRd(buf0)
    BY <1>1, <2>2, NoWriteEffect DEF Over0, EntryOf, NoRequest, MduIdle
  <2>. QED BY <2>1, <2>2
<1>3. OverMem(NoRequest) = Program!Exec(ArchState, buf0).mem
  BY MemKept DEF IssueAlu, AluClass, Program!Exec
<1>4. csr' = Program!Exec(ArchState, buf0).csr
  BY ArchRegsAre, SameReading DEF IssueAlu, AluClass, Program!Exec
<1>. QED BY <1>2, <1>3, <1>4 DEF Effect0

LEMMA MemIssue ==
  ASSUME IInv, Issue0, IsMem(buf0), UNCHANGED csr
  PROVE  Effect0(NoEntry,
           [v |-> TRUE, load |-> buf0.cls = "load", w |-> WritesRd(buf0),
            rd |-> buf0.rd, addr |-> Add(Op1(buf0, Fwd), buf0.imm),
            data |-> Op2(buf0, Fwd)], MduIdle)
<1>. DEFINE l == [v |-> TRUE, load |-> buf0.cls = "load", w |-> WritesRd(buf0),
                  rd |-> buf0.rd, addr |-> Add(Op1(buf0, Fwd), buf0.imm),
                  data |-> Op2(buf0, Fwd)]
<1>1. buf0 \in Uop /\ Fwd = ArchState.regs
  BY FwdIsArch, SlotType DEF Issue0, IInv, TypeOK
<1>2. l.addr = Add(ArchState.regs[buf0.rs1], buf0.imm)
  BY <1>1 DEF Op1, UsesRs1, IsMem
<1>3. ASSUME NEW r \in Reg \ {X0}
      PROVE  Over0(NoEntry, l, MduIdle, r) = Program!Exec(ArchState, buf0).regs[r]
  <2>1. CASE WritesRd(buf0)
    <3>1. buf0.cls = "load"
      BY <2>1 DEF IsMem, WritesRd, AluClass
    <3>2. Program!Result(ArchState, buf0) = ArchState.mem[l.addr]
      BY <1>2, <3>1, SameReading DEF Program!Result
    <3>. QED BY <1>1, <2>1, <3>2, ExecRegs DEF Over0, NoEntry, MduIdle
  <2>2. CASE ~WritesRd(buf0)
    BY <1>1, <2>2, NoWriteEffect DEF Over0, NoEntry, MduIdle
  <2>. QED BY <2>1, <2>2
<1>4. OverMem(l) = Program!Exec(ArchState, buf0).mem
  <2>1. CASE buf0.cls = "store"
    <3>1. l.data = ArchState.regs[buf0.rs2]
      BY <1>1, <2>1 DEF Op2, IsJump, IsImmediate
    <3>2. Program!Exec(ArchState, buf0).mem = [ArchState.mem EXCEPT ![l.addr] = l.data]
      BY <1>2, <2>1, <3>1, SameReading DEF Program!Exec
    <3>. QED BY <2>1, <3>2 DEF OverMem
  <2>2. CASE buf0.cls = "load"
    BY <2>2 DEF OverMem, Program!Exec
  <2>. QED BY <2>1, <2>2 DEF IsMem
<1>5. csr' = Program!Exec(ArchState, buf0).csr
  BY ArchRegsAre, SameReading DEF IsMem, Program!Exec, Traps
<1>. QED BY <1>3, <1>4, <1>5 DEF Effect0

LEMMA MduIssue ==
  ASSUME IInv, Issue0, buf0.cls = "mdu", UNCHANGED csr, NEW n
  PROVE  Effect0(NoEntry, NoRequest,
           [busy |-> TRUE, left |-> n, w |-> WritesRd(buf0),
            rd |-> buf0.rd, val |-> Computed(buf0, Fwd)])
<1>1. buf0 \in Uop /\ Fwd = ArchState.regs
  BY FwdIsArch, SlotType DEF Issue0, IInv, TypeOK
<1>2. Computed(buf0, Fwd) = Program!Result(ArchState, buf0)
  BY <1>1 DEF Computed, Op1, Op2, UsesRs1, IsJump, IsImmediate, Program!Result
<1>3. ASSUME NEW r \in Reg \ {X0}
      PROVE  Over0(NoEntry, NoRequest,
                   [busy |-> TRUE, left |-> n, w |-> WritesRd(buf0),
                    rd |-> buf0.rd, val |-> Computed(buf0, Fwd)], r)
               = Program!Exec(ArchState, buf0).regs[r]
  BY <1>1, <1>2, ExecRegs DEF Over0, NoEntry, NoRequest
<1>4. OverMem(NoRequest) = Program!Exec(ArchState, buf0).mem
  BY MemKept DEF Program!Exec
<1>5. csr' = Program!Exec(ArchState, buf0).csr
  BY ArchRegsAre, SameReading DEF Program!Exec, Traps
<1>. QED BY <1>3, <1>4, <1>5 DEF Effect0

LEMMA BranchIssue ==
  ASSUME IInv, IssueBranch
  PROVE  Effect0(NoEntry, NoRequest, MduIdle)
<1>1. ~WritesRd(buf0)
  BY DEF IssueBranch, WritesRd, AluClass
<1>2. OverMem(NoRequest) = Program!Exec(ArchState, buf0).mem
  BY MemKept DEF IssueBranch, Program!Exec
<1>3. csr' = Program!Exec(ArchState, buf0).csr
  BY ArchRegsAre, SameReading DEF IssueBranch, Program!Exec, Traps
<1>. QED BY <1>1, <1>2, <1>3, NoWriteEffect DEF Effect0, Over0, NoEntry, NoRequest, MduIdle

LEMMA SystemIssue ==
  ASSUME IInv, IssueSystem
  PROVE  Effect0(IF IsCsr(buf0) THEN EntryOf(buf0, Add(csr, Zero)) ELSE NoEntry,
                 NoRequest, MduIdle)
<1>. DEFINE a == IF IsCsr(buf0) THEN EntryOf(buf0, Add(csr, Zero)) ELSE NoEntry
<1>1. buf0 \in Uop /\ Fwd = ArchState.regs /\ csr \in Word
  BY FwdIsArch, SlotType DEF IssueSystem, Issue0, IInv, TypeOK
<1>2. Add(csr, Zero) = csr
  BY <1>1, UopAssumption DEF Add
<1>3. ASSUME NEW r \in Reg \ {X0}
      PROVE  Over0(a, NoRequest, MduIdle, r) = Program!Exec(ArchState, buf0).regs[r]
  <2>1. CASE IsCsr(buf0) /\ WritesRd(buf0)
    <3>1. Program!Result(ArchState, buf0) = csr
      BY <2>1, ArchRegsAre DEF IsCsr, Program!Result
    <3>. QED BY <1>1, <1>2, <2>1, <3>1, ExecRegs DEF Over0, EntryOf, NoRequest, MduIdle
  <2>2. CASE ~WritesRd(buf0)
    BY <2>2, NoWriteEffect DEF Over0, EntryOf, NoEntry, NoRequest, MduIdle
  <2>3. CASE ~IsCsr(buf0)
    BY <2>2, <2>3 DEF IssueSystem, WritesRd, AluClass
  <2>. QED BY <2>1, <2>2, <2>3
<1>4. OverMem(NoRequest) = Program!Exec(ArchState, buf0).mem
  BY MemKept DEF IssueSystem, IsCsr, Program!Exec
<1>5. csr' = Program!Exec(ArchState, buf0).csr
  BY <1>1, ArchRegsAre, SameReading DEF IssueSystem, IsCsr, Traps, Program!Exec
<1>. QED BY <1>3, <1>4, <1>5 DEF Effect0

(* Every action dispatches the effect of lane 0's instruction, if it       *)
(* issues at all.                                                          *)
LEMMA NextEffects ==
  ASSUME IInv, Next
  PROVE  \E a, l, m : /\ Dispatched(a, l, m) /\ Advance(a, l, m)
                      /\ Issue0 => Effect0(a, l, m)
                      /\ ~Issue0 => csr' = csr
<1>. DEFINE Goal == \E a, l, m : /\ Dispatched(a, l, m) /\ Advance(a, l, m)
                                 /\ Issue0 => Effect0(a, l, m)
                                 /\ ~Issue0 => csr' = csr
<1>1. Fwd \in [Reg -> Word] /\ buf0 \in Uop /\ csr \in Word
  BY WireTypes, SlotType DEF IInv, TypeOK, Uop
<1>2. /\ Computed(buf0, Fwd) \in Word /\ Op1(buf0, Fwd) \in Word
      /\ Op2(buf0, Fwd) \in Word /\ Add(csr, Zero) \in Word
      /\ Add(Op1(buf0, Fwd), buf0.imm) \in Word
  BY <1>1, ComputedType, OperandType, AddType, UopAssumption DEF Uop
<1>3. CASE IssueNone
  BY <1>3, EmptyDispatch DEF IssueNone
<1>4. CASE IssueAlu
  <2>1. Dispatched(EntryOf(buf0, Computed(buf0, Fwd)), NoRequest, MduIdle)
    BY <1>2, <1>4, EntryDispatch DEF IssueAlu
  <2>. QED BY <1>4, <2>1, AluIssue DEF IssueAlu
<1>5. CASE IssueMem
  <2>. DEFINE l == [v |-> TRUE, load |-> buf0.cls = "load", w |-> WritesRd(buf0),
                    rd |-> buf0.rd, addr |-> Add(Op1(buf0, Fwd), buf0.imm),
                    data |-> Op2(buf0, Fwd)]
  <2>1. Dispatched(NoEntry, l, MduIdle)
    BY <1>2, <1>5, MemDispatch DEF IssueMem
  <2>2. Effect0(NoEntry, l, MduIdle)
    BY <1>5, MemIssue DEF IssueMem
  <2>3. Advance(NoEntry, l, MduIdle) /\ Issue0
    BY <1>5 DEF IssueMem
  <2>. HIDE DEF l
  <2>. QED BY <2>1, <2>2, <2>3
<1>6. CASE IssueMdu
  <2>1. PICK n \in MduLatency :
          Advance(NoEntry, NoRequest,
                  [busy |-> TRUE, left |-> n - 1, w |-> WritesRd(buf0),
                   rd |-> buf0.rd, val |-> Computed(buf0, Fwd)])
    BY <1>6 DEF IssueMdu
  <2>. DEFINE m == [busy |-> TRUE, left |-> n - 1, w |-> WritesRd(buf0),
                    rd |-> buf0.rd, val |-> Computed(buf0, Fwd)]
  <2>2. Dispatched(NoEntry, NoRequest, m)
    BY <1>2, <1>6, MduDispatch DEF IssueMdu
  <2>3. Effect0(NoEntry, NoRequest, m)
    BY <1>6, MduIssue DEF IssueMdu
  <2>4. Advance(NoEntry, NoRequest, m) /\ Issue0
    BY <1>6, <2>1 DEF IssueMdu
  <2>. HIDE DEF m
  <2>. QED BY <2>2, <2>3, <2>4
<1>7. CASE IssueBranch
  <2>1. Effect0(NoEntry, NoRequest, MduIdle)
    BY <1>7, BranchIssue
  <2>. QED BY <1>7, <2>1, EmptyDispatch DEF IssueBranch
<1>8. CASE IssueSystem
  <2>. DEFINE a == IF IsCsr(buf0) THEN EntryOf(buf0, Add(csr, Zero)) ELSE NoEntry
  <2>1. Effect0(a, NoRequest, MduIdle)
    BY <1>8, SystemIssue
  <2>2. Dispatched(a, NoRequest, MduIdle)
    BY <1>2, <1>8, EntryDispatch, EmptyDispatch DEF IssueSystem
  <2>3. Advance(a, NoRequest, MduIdle) /\ Issue0
    BY <1>8 DEF IssueSystem
  <2>. HIDE DEF a
  <2>. QED BY <2>1, <2>2, <2>3
<1>. QED BY <1>3, <1>4, <1>5, <1>6, <1>7, <1>8 DEF Next

----------------------------------------------------------------------------
(* Control: where the next instruction comes from. *)
LEMMA Resolved ==
  ASSUME IInv, Issue0
  PROVE  /\ Redirect => RedirectPC = Program!NextPC(ArchState, buf0)
         /\ ~Redirect => PredNext(buf0) = Program!NextPC(ArchState, buf0)
<1>1. Fwd = ArchState.regs /\ csr = ArchState.csr
  BY FwdIsArch, ArchRegsAre DEF Issue0
<1>2. buf0 \in Uop /\ buf0.valid /\ WellPredicted(buf0)
  BY SlotType, UopsAssumption, BubbleType DEF Issue0, IInv, TypeOK
<1>3. CASE Traps(buf0) \/ buf0.cls = "mret"
  <2>1. Redirect
    BY <1>3 DEF Redirect
  <2>2. CASE Traps(buf0)
    BY <2>1, <2>2, SameReading DEF RedirectPC, Traps, Program!NextPC,
       ActualTaken, IsJump
  <2>3. CASE buf0.cls = "mret"
    BY <1>1, <2>1, <2>3, SameReading DEF RedirectPC, Traps, Program!NextPC,
       ActualTaken, IsJump
  <2>. QED BY <1>3, <2>2, <2>3
<1>4. CASE buf0.cls \in {"jal", "jalr"}
  BY <1>1, <1>4, SameReading DEF Redirect, RedirectPC, Traps, Program!NextPC, IsJump,
     Mispredicted, ActualTaken, ActualTarget, PredNext
<1>5. CASE buf0.cls = "branch"
  <2>1. Op1(buf0, Fwd) = ArchState.regs[buf0.rs1] /\ Op2(buf0, Fwd) = ArchState.regs[buf0.rs2]
    BY <1>1, <1>5 DEF Op1, Op2, UsesRs1, IsJump, IsImmediate
  <2>2. ActualTaken(buf0, Fwd) <=>
          Cond[buf0.op][ArchState.regs[buf0.rs1]][ArchState.regs[buf0.rs2]]
    BY <1>5, <2>1 DEF ActualTaken, IsJump
  <2>3. ActualTarget(buf0, Fwd) = Add(buf0.pc, buf0.imm)
    BY <1>5 DEF ActualTarget
  <2>4. Program!NextPC(ArchState, buf0) =
          IF ActualTaken(buf0, Fwd) THEN Add(buf0.pc, buf0.imm) ELSE Add(buf0.pc, Four)
    BY <1>5, <2>2, SameReading DEF Program!NextPC, Traps
  <2>. QED BY <1>2, <1>5, <2>3, <2>4 DEF Redirect, RedirectPC, Mispredicted, Traps,
           IsJump, PredNext, Uop
<1>6. CASE buf0.cls \in AluClass \cup {"mdu", "load", "store", "fence", "csr", "csri"}
  BY <1>2, <1>6, SameReading DEF Redirect, Mispredicted, Traps, IsJump, PredNext,
     Program!NextPC, WellPredicted, AluClass
<1>. QED BY <1>2, <1>3, <1>4, <1>5, <1>6 DEF Uop, Class, Traps

LEMMA Lane1Next ==
  ASSUME IInv, Issue1, NEW s
  PROVE  Program!NextPC(s, buf1) = PredNext(buf1)
<1>1. buf1 \in Uop /\ WellPredicted(buf1)
  BY UopsAssumption, BubbleType DEF Issue1, IInv, TypeOK
<1>2. buf1.cls \in AluClass
  BY DEF Issue1, IInv, BufferOk, PairOk, Lane1Capable
<1>. QED BY <1>1, <1>2, SameReading DEF Program!NextPC, WellPredicted, PredNext, Traps, AluClass

(* Issue meets instructions in program order. *)
LEMMA IssueInOrder == IInv => Program!InProgramOrder(ArchState, Issuing)
<1>. SUFFICES ASSUME IInv PROVE Program!InProgramOrder(ArchState, Issuing)
  OBVIOUS
<1>1. Issue1 => Issue0 /\ buf1.valid /\ ~Redirect
  BY DEF Issue1
<1>2. /\ buf0.valid => buf0 \in Uops /\ buf0.pc = ArchState.pc
      /\ buf1.valid => buf1 \in Uops /\ buf1.pc = PredNext(buf0)
  BY BubbleType DEF IInv, TypeOK, BufferOk, ArchState
<1>3. Issue1 => buf1.pc = Program!Exec(ArchState, buf0).pc
  BY <1>1, <1>2, Resolved DEF Program!Exec
<1>4. CASE Issue1
  BY <1>1, <1>2, <1>3, <1>4 DEF Issuing, Program!InProgramOrder, Issue0
<1>5. CASE ~Issue1 /\ Issue0
  BY <1>2, <1>5 DEF Issuing, Program!InProgramOrder, Issue0
<1>6. CASE ~Issue1 /\ ~Issue0
  BY <1>6 DEF Issuing, Program!InProgramOrder
<1>. QED BY <1>4, <1>5, <1>6

(* The program counter behind the buffer. *)
LEMMA RefillPC ==
  ASSUME IInv, Refill
  PROVE  ArchState.pc' =
           IF Issue1 THEN PredNext(buf1)
           ELSE IF Issue0 THEN Program!NextPC(ArchState, buf0) ELSE ArchState.pc
<1>1. \A u \in Uops : u.valid
  BY UopsAssumption
<1>2. CASE Redirect
  <2>1. Issue0 /\ ~Issue1
    BY <1>2 DEF Redirect, Issue1
  <2>2. ~buf0'.valid /\ fpc' = RedirectPC
    BY <1>2, <2>1 DEF Refill, CanLatch, Bubble
  <2>. QED BY <1>2, <2>1, <2>2, Resolved DEF ArchState
<1>3. CASE ~Redirect /\ Issue0
  <2>1. Issue1 <=> buf1.valid
    BY <1>3, Lane1KeepsUpHolds DEF Lane1KeepsUp, Issue1
  <2>2. ArchState.pc' = fpc
    BY <1>1, <1>3 DEF Refill, Fetched, Bubble, ArchState
  <2>3. fpc = IF Issue1 THEN PredNext(buf1) ELSE PredNext(buf0)
    BY <1>3, <2>1 DEF IInv, BufferOk, Issue0
  <2>. QED BY <1>3, <2>2, <2>3, Resolved
<1>4. CASE ~Issue0
  <2>1. ~Redirect /\ ~Issue1
    BY <1>4 DEF Redirect, Issue1
  <2>2. CASE CanLatch
    <3>1. ~buf0.valid
      BY <1>4, <2>2 DEF CanLatch
    <3>. QED BY <1>1, <1>4, <2>1, <3>1 DEF Refill, Fetched, ArchState
  <2>3. CASE ~CanLatch
    BY <1>4, <2>1, <2>3 DEF Refill, ArchState
  <2>. QED BY <1>4, <2>1, <2>2, <2>3
<1>. QED BY <1>2, <1>3, <1>4

----------------------------------------------------------------------------
(* Lane 1 executes on top of lane 0. *)
LEMMA Lane1Effect ==
  ASSUME IInv, Issue1, NEW s,
         \A r \in Reg : ~(WritesRd(buf0) /\ buf0.rd = r) => s.regs[r] = ArchReg(r)
  PROVE  /\ WritesRd(buf1) => Computed(buf1, Fwd) = Program!Result(s, buf1)
         /\ Program!Exec(s, buf1).regs =
              IF WritesRd(buf1) THEN [s.regs EXCEPT ![buf1.rd] = Computed(buf1, Fwd)]
              ELSE s.regs
         /\ Program!Exec(s, buf1).mem = s.mem
         /\ Program!Exec(s, buf1).csr = s.csr
<1>1. /\ buf1 \in Uop /\ buf1.cls \in AluClass
      /\ ~RawHazard(buf0, buf1) /\ Fwd = ArchState.regs
  BY SlotType, FwdIsArch DEF Issue1, Issue0, IInv, TypeOK, BufferOk, PairOk, Lane1Capable
<1>2. /\ UsesRs1(buf1) => s.regs[buf1.rs1] = Fwd[buf1.rs1]
      /\ UsesRs2(buf1) => s.regs[buf1.rs2] = Fwd[buf1.rs2]
  BY <1>1, ArchRegsAre DEF RawHazard, Uop
<1>3. Computed(buf1, Fwd) = Program!Result(s, buf1)
  <2>1. CASE buf1.cls = "op"
    BY <1>1, <1>2, <2>1 DEF Computed, Op1, Op2, UsesRs1, UsesRs2, IsJump, IsImmediate,
       Program!Result
  <2>2. CASE buf1.cls = "opimm"
    BY <1>1, <1>2, <2>2 DEF Computed, Op1, Op2, UsesRs1, IsJump, IsImmediate,
       Program!Result
  <2>3. CASE buf1.cls = "lui"
    BY <1>1, <2>3, UopAssumption DEF Computed, Op1, Op2, UsesRs1, IsJump, IsImmediate,
       Program!Result, Uop
  <2>4. CASE buf1.cls = "auipc"
    BY <1>1, <2>4 DEF Computed, Op1, Op2, UsesRs1, IsJump, IsImmediate,
       Program!Result, Program!Add
  <2>. QED BY <1>1, <2>1, <2>2, <2>3, <2>4 DEF AluClass
<1>4. Program!Exec(s, buf1).regs =
        IF WritesRd(buf1) THEN [s.regs EXCEPT ![buf1.rd] = Computed(buf1, Fwd)]
        ELSE s.regs
  BY <1>3, SameReading DEF Program!Exec
<1>5. Program!Exec(s, buf1).mem = s.mem /\ Program!Exec(s, buf1).csr = s.csr
  BY <1>1, SameReading DEF Program!Exec, AluClass, Traps
<1>. QED BY <1>3, <1>4, <1>5

(* A clock edge executes the instructions that issue, and nothing else. *)
LEMMA StepExecutes ==
  ASSUME IInv, Next
  PROVE  ArchState' = Program!ExecAll(ArchState, Issuing)
<1>. DEFINE s0 == Program!Exec(ArchState, buf0)
            s1 == Program!Exec(s0, buf1)
<1>1. PICK a, l, m : /\ Dispatched(a, l, m) /\ Advance(a, l, m)
                     /\ Issue0 => Effect0(a, l, m)
                     /\ ~Issue0 => csr' = csr
  BY NextEffects
<1>2. Refill
  BY NextDispatches
<1>3. /\ ArchState'.regs = [r \in Reg |-> Over(a, l, m, r)]
      /\ ArchState'.mem = OverMem(l)
      /\ ArchState'.csr = csr'
  BY <1>1, AdvanceRegs, AdvanceMem DEF ArchState
<1>4. \A r \in Reg : Over(a, l, m, r) =
        IF r = X0 THEN Zero
        ELSE IF ToAlu1.w /\ ToAlu1.rd = r THEN ToAlu1.val ELSE Over0(a, l, m, r)
  BY DEF Over, Over0
<1>5. ArchState' = [pc |-> ArchState.pc', regs |-> ArchState.regs',
                    mem |-> ArchState.mem', csr |-> ArchState.csr']
  BY DEF ArchState
<1>6. \A s, u : Program!Exec(s, u) =
        [pc |-> Program!Exec(s, u).pc, regs |-> Program!Exec(s, u).regs,
         mem |-> Program!Exec(s, u).mem, csr |-> Program!Exec(s, u).csr]
  BY DEF Program!Exec
<1>7. CASE ~Issue0
  <2>1. ~Issue1 /\ ~l.v /\ ~ToAlu1.w /\ ~a.w /\ ~m.w /\ ~l.w
    BY <1>1, <1>7, Lane1Facts DEF Issue1, Dispatched
  <2>2. ArchState.regs' = ArchState.regs
    BY <1>3, <2>1 DEF Over, ArchReg, ArchState
  <2>3. ArchState.mem' = ArchState.mem /\ ArchState.csr' = ArchState.csr
    BY <1>1, <1>3, <1>7, <2>1 DEF OverMem, ArchState
  <2>4. ArchState.pc' = ArchState.pc
    BY <1>2, <1>7, <2>1, RefillPC
  <2>5. ArchState' = ArchState
    BY <1>5, <2>2, <2>3, <2>4 DEF ArchState
  <2>. QED BY <1>7, <2>1, <2>5 DEF Issuing, Program!ExecAll
<1>8. ASSUME Issue0
      PROVE  /\ s0.regs = [r \in Reg |-> IF r = X0 THEN Zero ELSE Over0(a, l, m, r)]
             /\ s0.mem = ArchState.mem' /\ s0.csr = ArchState.csr'
             /\ s0.pc = Program!NextPC(ArchState, buf0)
             /\ \A r \in Reg : ~(WritesRd(buf0) /\ buf0.rd = r) => s0.regs[r] = ArchReg(r)
  <2>1. buf0 \in Uop
    BY SlotType DEF IInv, TypeOK
  <2>2. s0.regs = [r \in Reg |-> s0.regs[r]]
    BY ArchRegsAre DEF Program!Exec
  <2>3. X0 \in Reg => s0.regs[X0] = Zero
    BY <2>1, ExecRegs DEF ArchReg, WritesRd
  <2>4. \A r \in Reg \ {X0} : s0.regs[r] = Over0(a, l, m, r)
    BY <1>1, <1>8 DEF Effect0
  <2>5. s0.regs = [r \in Reg |-> IF r = X0 THEN Zero ELSE Over0(a, l, m, r)]
    BY <2>2, <2>3, <2>4
  <2>6. s0.mem = ArchState.mem' /\ s0.csr = ArchState.csr'
    BY <1>1, <1>3, <1>8 DEF Effect0
  <2>7. s0.pc = Program!NextPC(ArchState, buf0)
    BY DEF Program!Exec
  <2>. QED BY <2>1, <2>5, <2>6, <2>7, ExecRegs
<1>9. CASE Issue0 /\ ~Issue1
  <2>1. ~ToAlu1.w
    BY <1>9 DEF ToAlu1, NoEntry
  <2>2. ArchState.regs' = s0.regs
    BY <1>3, <1>4, <1>8, <1>9, <2>1
  <2>3. ArchState.pc' = s0.pc
    BY <1>2, <1>8, <1>9, RefillPC
  <2>4. ArchState' = s0
    BY <1>5, <1>6, <1>8, <1>9, <2>2, <2>3
  <2>. QED BY <1>9, <2>4 DEF Issuing, Program!ExecAll
<1>10. CASE Issue1
  <2>1. Issue0 /\ buf1 \in Uop
    BY <1>10, SlotType DEF Issue1, IInv, TypeOK
  <2>2. ToAlu1 = EntryOf(buf1, Computed(buf1, Fwd))
    BY <1>10 DEF ToAlu1
  <2>3. /\ s1.regs = IF WritesRd(buf1) THEN [s0.regs EXCEPT ![buf1.rd] = Computed(buf1, Fwd)]
                     ELSE s0.regs
        /\ s1.mem = s0.mem /\ s1.csr = s0.csr
    BY <1>8, <1>10, <2>1, Lane1Effect
  <2>4. ArchState.regs' = s1.regs
    BY <1>3, <1>4, <1>8, <2>1, <2>2, <2>3 DEF EntryOf, WritesRd, Uop
  <2>5. ArchState.pc' = s1.pc
    BY <1>2, <1>10, RefillPC, Lane1Next DEF Program!Exec
  <2>6. ArchState' = s1
    BY <1>5, <1>6, <1>8, <2>1, <2>3, <2>4, <2>5
  <2>. QED BY <1>10, <2>6 DEF Issuing, Program!ExecAll
<1>. QED BY <1>7, <1>9, <1>10

LEMMA InitProgram == Init => Program!Init
<1>. SUFFICES ASSUME Init PROVE Program!Init
  OBVIOUS
<1>1. Issuing = << >>
  BY DEF Init, Issuing, Issue0, Issue1, Bubble
<1>2. ArchState = [pc |-> ResetPC, regs |-> [r \in Reg |-> Zero], mem |-> mem, csr |-> Zero]
  BY DEF Init, ArchState, ArchReg, Bubble, NoEntry, NoRequest, MduIdle, Alu0Hit, Alu1Hit,
     Ret0Hit, Ret1Hit
<1>. QED BY <1>1, <1>2 DEF Init, Program!Init

(* The pipeline executes the program in order: it implements Isa. *)
THEOREM Implements == Spec => ExecutesInOrder
<1>1. ASSUME IInv, [Next]_vars
      PROVE  [Program!Next]_<<ArchState, Issuing>>
  <2>1. CASE Next
    BY <1>1, <2>1, IssueInOrder, StepExecutes DEF Program!Next
  <2>2. CASE UNCHANGED vars
    BY <2>2 DEF vars, ArchState, Issuing, ArchReg, LoadData, Alu0Hit, Alu1Hit, Ret0Hit,
       Ret1Hit, Issue0, Issue1, DownstreamStall, LsuStall, MduReady, MduDone, OpsReady,
       BlockedByMdu, OpReady, Busy, Hit, LsuHit, LsuDone, Redirect, Fwd, Bypass
  <2>. QED BY <1>1, <2>1, <2>2
<1>. QED BY <1>1, InitProgram, Consistent, PTL DEF Spec, ExecutesInOrder, Program!Spec
==============================================================================
