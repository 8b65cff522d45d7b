---------------------------- MODULE TracerProofs ----------------------------
(* Proofs about the tracer, for every program and prediction, and for a    *)
(* queue of any length.                                                    *)
EXTENDS Tracer, BackendProofs, NaturalFacts

----------------------------------------------------------------------------
(* Sequences that occur in order in others. *)
LEMMA OrderGrows ==
  ASSUME NEW s \in Seq(Word), NEW q \in Seq(Word), NEW r \in Seq(Word), InOrderIn(s, q)
  PROVE  InOrderIn(s \o r, q \o r)
<1>1. PICK at : /\ at \in [DOMAIN s -> DOMAIN q]
                /\ \A i \in DOMAIN s : q[at[i]] = s[i]
                /\ \A i, j \in DOMAIN s : i < j => at[i] < at[j]
  BY DEF InOrderIn
<1>2. /\ DOMAIN s = 1..Len(s) /\ DOMAIN q = 1..Len(q)
      /\ DOMAIN (s \o r) = 1..(Len(s) + Len(r)) /\ DOMAIN (q \o r) = 1..(Len(q) + Len(r))
      /\ Len(s) \in Nat /\ Len(q) \in Nat /\ Len(r) \in Nat
  OBVIOUS
<1>3. PICK m \in Nat, n \in Nat, k \in Nat : m = Len(s) /\ n = Len(q) /\ k = Len(r)
  BY <1>2
<1>. DEFINE to == [i \in 1..(m + k) |-> IF i <= m THEN at[i] ELSE i - m + n]
<1>4. at \in [1..m -> 1..n] /\ \A i, j \in 1..m : i < j => at[i] < at[j]
  BY <1>1, <1>2, <1>3
<1>5. \A i \in 1..(m + k) : /\ i <= m => i \in 1..m /\ to[i] = at[i] /\ to[i] \in 1..n
                            /\ ~(i <= m) => to[i] = i - m + n /\ i - m \in 1..k
  BY <1>4
<1>6. to \in [1..(m + k) -> 1..(n + k)]
  BY <1>4, <1>5
<1>7. \A i \in 1..(m + k) : (q \o r)[to[i]] = (s \o r)[i]
  <2>. SUFFICES ASSUME NEW i \in 1..(m + k) PROVE (q \o r)[to[i]] = (s \o r)[i]
    OBVIOUS
  <2>1. CASE i <= m
    <3>1. (s \o r)[i] = s[i] /\ (q \o r)[at[i]] = q[at[i]]
      BY <1>3, <1>5, <2>1
    <3>. QED BY <1>1, <1>2, <1>3, <1>5, <2>1, <3>1
  <2>2. CASE ~(i <= m)
    <3>1. (s \o r)[i] = r[i - m] /\ (q \o r)[i - m + n] = r[i - m]
      BY <1>3, <1>5, <2>2
    <3>. QED BY <1>5, <2>2, <3>1
  <2>. QED BY <2>1, <2>2
<1>8. \A i, j \in 1..(m + k) : i < j => to[i] < to[j]
  <2>. SUFFICES ASSUME NEW i \in 1..(m + k), NEW j \in 1..(m + k), i < j PROVE to[i] < to[j]
    OBVIOUS
  <2>1. CASE j <= m
    <3>1. i \in 1..m /\ j \in 1..m
      BY <2>1
    <3>2. at[i] < at[j]
      BY <1>4, <3>1
    <3>. QED BY <2>1, <3>1, <3>2
  <2>2. CASE ~(j <= m)
    BY <1>5, <2>2
  <2>. QED BY <2>1, <2>2
<1>. HIDE DEF to
<1>. QED BY <1>2, <1>3, <1>6, <1>7, <1>8 DEF InOrderIn

LEMMA OrderComposes ==
  ASSUME NEW s \in Seq(Word), NEW t \in Seq(Word), NEW q \in Seq(Word),
         InOrderIn(s, t), InOrderIn(t, q)
  PROVE  InOrderIn(s, q)
<1>1. PICK at : /\ at \in [DOMAIN s -> DOMAIN t]
                /\ \A i \in DOMAIN s : t[at[i]] = s[i]
                /\ \A i, j \in DOMAIN s : i < j => at[i] < at[j]
  BY DEF InOrderIn
<1>2. PICK on : /\ on \in [DOMAIN t -> DOMAIN q]
                /\ \A i \in DOMAIN t : q[on[i]] = t[i]
                /\ \A i, j \in DOMAIN t : i < j => on[i] < on[j]
  BY DEF InOrderIn
<1>. DEFINE to == [i \in DOMAIN s |-> on[at[i]]]
<1>3. to \in [DOMAIN s -> DOMAIN q]
  BY <1>1, <1>2
<1>4. /\ \A i \in DOMAIN s : q[to[i]] = s[i]
      /\ \A i, j \in DOMAIN s : i < j => to[i] < to[j]
  BY <1>1, <1>2
<1>. HIDE DEF to
<1>. QED BY <1>3, <1>4 DEF InOrderIn

(* The tracer finds what is due next, and behind it what is due later. *)
LEMMA PopFinds ==
  ASSUME NEW s \in Seq(Word), NEW q \in Seq(Word), s # << >>, InOrderIn(s, q)
  PROVE  /\ Contains(q, s[1])
         /\ PopMatching(q, s[1]) \in Seq(Word)
         /\ InOrderIn(Tail(s), PopMatching(q, s[1]))
<1>1. PICK at : /\ at \in [DOMAIN s -> DOMAIN q]
                /\ \A i \in DOMAIN s : q[at[i]] = s[i]
                /\ \A i, j \in DOMAIN s : i < j => at[i] < at[j]
  BY DEF InOrderIn
<1>2. PICK m \in Nat, n \in Nat : m = Len(s) /\ n = Len(q)
  OBVIOUS
<1>3. DOMAIN s = 1..m /\ DOMAIN q = 1..n /\ m > 0
  BY <1>2
<1>. DEFINE pc == s[1]
            Is(k) == k \in DOMAIN q /\ q[k] = pc /\ \A j \in 1..(k - 1) : q[j] # pc
            first == CHOOSE i \in DOMAIN q : q[i] = pc /\ \A j \in 1..(i - 1) : q[j] # pc
<1>4. \E k : Is(k)
  <2>. DEFINE S == {i \in 1..n : q[i] = pc}
  <2>1. S \in SUBSET Nat /\ S # {}
    <3>1. at[1] \in S
      BY <1>1, <1>3
    <3>. QED BY <3>1
  <2>2. PICK k \in S : \A i \in S : k <= i
    BY <2>1, FirstOf
  <2>3. \A j \in 1..(k - 1) : q[j] # pc
    BY <2>2
  <2>. QED BY <1>3, <2>3
<1>5. Is(first)
  BY <1>4
<1>6. Contains(q, pc)
  BY <1>2, <1>3, <1>4 DEF Contains
<1>7. PopMatching(q, pc) = SubSeq(q, 1 + first, Len(q))
  BY <1>4 DEF PopMatching
<1>8. PICK k \in 1..n : k = first /\ q[k] = pc /\ \A j \in 1..(k - 1) : q[j] # pc
  BY <1>3, <1>5
<1>. HIDE DEF first, Is
<1>9. k <= at[1]
  BY <1>1, <1>3, <1>8
<1>. DEFINE p == SubSeq(q, k + 1, n)
            to == [i \in 1..(m - 1) |-> at[i + 1] - k]
<1>10. p \in Seq(Word) /\ Len(p) = n - k /\ \A i \in 1..(n - k) : p[i] = q[k + i]
  BY <1>2, <1>8
<1>11. /\ Tail(s) \in Seq(Word) /\ Len(Tail(s)) = m - 1
       /\ \A i \in 1..(m - 1) : Tail(s)[i] = s[i + 1]
  BY <1>2, <1>3
<1>12. \A i \in 1..(m - 1) : /\ i + 1 \in 1..m /\ at[i + 1] \in 1..n /\ at[1] < at[i + 1]
                             /\ at[1] \in 1..n
  <2>. SUFFICES ASSUME NEW i \in 1..(m - 1)
       PROVE  i + 1 \in 1..m /\ at[i + 1] \in 1..n /\ at[1] < at[i + 1] /\ at[1] \in 1..n
    OBVIOUS
  <2>1. i + 1 \in 1..m /\ 1 \in 1..m /\ 1 < i + 1
    BY <1>3
  <2>. QED BY <1>1, <1>3, <2>1
<1>13. to \in [1..(m - 1) -> 1..(n - k)]
  BY <1>9, <1>12
<1>14. \A i \in 1..(m - 1) : p[to[i]] = Tail(s)[i]
  <2>. SUFFICES ASSUME NEW i \in 1..(m - 1) PROVE p[to[i]] = Tail(s)[i]
    OBVIOUS
  <2>1. to[i] \in 1..(n - k) /\ k + to[i] = at[i + 1]
    BY <1>12, <1>13
  <2>2. p[to[i]] = q[at[i + 1]]
    BY <1>10, <2>1
  <2>. QED BY <1>1, <1>3, <1>11, <1>12, <2>2
<1>15. \A i, j \in 1..(m - 1) : i < j => to[i] < to[j]
  <2>. SUFFICES ASSUME NEW i \in 1..(m - 1), NEW j \in 1..(m - 1), i < j PROVE to[i] < to[j]
    OBVIOUS
  <2>1. i + 1 \in 1..m /\ j + 1 \in 1..m /\ i + 1 < j + 1
    BY <1>12
  <2>2. at[i + 1] < at[j + 1]
    BY <1>1, <1>3, <2>1
  <2>3. at[i + 1] \in 1..n /\ at[j + 1] \in 1..n
    BY <1>12
  <2>. QED BY <1>8, <2>2, <2>3
<1>16. DOMAIN Tail(s) = 1..(m - 1) /\ DOMAIN p = 1..(n - k)
  BY <1>10, <1>11
<1>17. PopMatching(q, pc) = p
  BY <1>2, <1>7, <1>8
<1>. HIDE DEF p, to
<1>18. InOrderIn(Tail(s), p)
  BY <1>13, <1>14, <1>15, <1>16 DEF InOrderIn
<1>. QED BY <1>6, <1>10, <1>17, <1>18

----------------------------------------------------------------------------
(* Lines have their type, and so have the PCs of lines. *)
CommitLine == [pc : Word, reg : SUBSET (Reg \X Word), addr : SUBSET Word, data : SUBSET Word]
If(event, x) == IF event THEN <<x>> ELSE << >>

LEMMA LineTypes ==
  ASSUME NEW pc \in Word, NEW w, NEW rd \in Reg, NEW x \in Word
  PROVE  PlainLine(pc, RegPart(w, rd, x)) \in CommitLine /\ PlainLine(pc, {}) \in CommitLine
BY DEF PlainLine, Line, RegPart, CommitLine

(* What the tracer has written, and what its queue holds in order. *)
Tracing(s, out, rest) ==
  s = [queue |-> s.queue, out |-> out] /\ s.queue \in Seq(Word) /\ InOrderIn(rest, s.queue)

(* One completion of a cycle: its line is written, and the queue goes on   *)
(* to hold what comes after it.                                            *)
LEMMA Matches ==
  ASSUME NEW event, NEW line \in CommitLine, NEW o \in Seq(CommitLine),
         NEW rest \in Seq(Word), NEW s, Tracing(s, o, If(event, line.pc) \o rest)
  PROVE  Tracing(On(event, s, line), o \o If(event, line), rest)
<1>1. line.pc \in Word
  BY DEF CommitLine
<1>2. CASE ~event
  <2>1. << >> \o rest = rest /\ o \o << >> = o
    OBVIOUS
  <2>. QED BY <1>2, <2>1 DEF On, If
<1>3. CASE event
  <2>. DEFINE all == <<line.pc>> \o rest
  <2>1. all \in Seq(Word) /\ all # << >> /\ all[1] = line.pc /\ Tail(all) = rest
    BY <1>1
  <2>2. InOrderIn(all, s.queue) /\ s.queue \in Seq(Word) /\ s.out = o
    BY <1>3 DEF If, Tracing
  <2>3. /\ Contains(s.queue, line.pc) /\ PopMatching(s.queue, line.pc) \in Seq(Word)
        /\ InOrderIn(rest, PopMatching(s.queue, line.pc))
    <3>. HIDE DEF all
    <3>. QED BY <2>1, <2>2, PopFinds
  <2>4. Append(o, line) = o \o <<line>>
    OBVIOUS
  <2>. QED BY <1>3, <2>2, <2>3, <2>4 DEF On, Emit, If, Tracing
<1>. QED BY <1>2, <1>3

(* The wires that start a line are Booleans, and all lines have their type. *)
LEMMA LinesNow ==
  ASSUME TraceInv
  PROVE  /\ {Alu0Done, LsuDone, Alu1Done, BranchDone, alu0.v, alu1.v, lsu.v, Issue0, Issue1}
              \subseteq BOOLEAN
         /\ AluLine(alu0pc, alu0) \in CommitLine /\ AluLine(alu0pc, alu0).pc = alu0pc
         /\ AluLine(alu1pc, alu1) \in CommitLine /\ AluLine(alu1pc, alu1).pc = alu1pc
         /\ LsuLine \in CommitLine /\ LsuLine.pc = lsupc
         /\ BranchLine \in CommitLine /\ BranchLine.pc = buf0.pc
<1>1. TypeOK /\ {alu0pc, alu1pc, lsupc} \subseteq Word /\ LoadData \in Word
  BY WireTypes DEF TraceInv, IInv
<1>2. buf0 \in Uop /\ buf0.pc \in Word
  BY <1>1, SlotType DEF TypeOK, Uop
<1>3. AluLine(alu0pc, alu0) \in CommitLine /\ AluLine(alu1pc, alu1) \in CommitLine
  BY <1>1, LineTypes DEF AluLine, TypeOK, Entry
<1>4. LsuLine \in CommitLine
  <2>1. lsu.addr \in Word /\ lsu.data \in Word /\ lsu.rd \in Reg
    BY <1>1 DEF TypeOK, Request
  <2>. QED BY <1>1, <2>1 DEF LsuLine, Line, RegPart, CommitLine
<1>5. BranchLine \in CommitLine
  BY <1>2, LineTypes, UopAssumption DEF BranchLine
<1>6. /\ AluLine(alu0pc, alu0).pc = alu0pc /\ AluLine(alu1pc, alu1).pc = alu1pc
      /\ LsuLine.pc = lsupc /\ BranchLine.pc = buf0.pc
  BY DEF AluLine, LsuLine, BranchLine, PlainLine, Line
<1>7. {Alu0Done, LsuDone, Alu1Done, BranchDone, alu0.v, alu1.v, lsu.v, Issue0, Issue1}
        \subseteq BOOLEAN
  BY <1>1 DEF TypeOK, Entry, Request, Alu0Done, Alu1Done, LsuDone, BranchDone, Issue0, Issue1
<1>. QED BY <1>3, <1>4, <1>5, <1>6, <1>7

(* The four completions of a cycle, one after the other. *)
LEMMA MatchesAll ==
  ASSUME TraceInv, NEW q \in Seq(Word), NEW rest \in Seq(Word),
         InOrderIn(If(Alu0Done, alu0pc) \o (If(LsuDone, lsupc) \o (If(Alu1Done, alu1pc)
                     \o (If(BranchDone, buf0.pc) \o rest))), q)
  PROVE  /\ Traced(q).out = ((If(Alu0Done, AluLine(alu0pc, alu0)) \o If(LsuDone, LsuLine))
                               \o If(Alu1Done, AluLine(alu1pc, alu1)))
                               \o If(BranchDone, BranchLine)
         /\ Traced(q).queue \in Seq(Word) /\ InOrderIn(rest, Traced(q).queue)
<1>. DEFINE l0 == AluLine(alu0pc, alu0)
            l1 == LsuLine
            l2 == AluLine(alu1pc, alu1)
            l3 == BranchLine
            r3 == If(BranchDone, l3.pc) \o rest
            r2 == If(Alu1Done, l2.pc) \o r3
            r1 == If(LsuDone, l1.pc) \o r2
            s0 == [queue |-> q, out |-> << >>]
            s1 == On(Alu0Done, s0, l0)
            s2 == On(LsuDone, s1, l1)
            s3 == On(Alu1Done, s2, l2)
            s4 == On(BranchDone, s3, l3)
            o1 == << >> \o If(Alu0Done, l0)
            o2 == o1 \o If(LsuDone, l1)
            o3 == o2 \o If(Alu1Done, l2)
<1>1. /\ {l0, l1, l2, l3} \subseteq CommitLine
      /\ {Alu0Done, LsuDone, Alu1Done, BranchDone} \subseteq BOOLEAN
      /\ l0.pc = alu0pc /\ l1.pc = lsupc /\ l2.pc = alu1pc /\ l3.pc = buf0.pc
  BY LinesNow
<1>2. Traced(q) = s4
  BY DEF Traced
<1>3. \A e : \A x \in Word : If(e, x) \in Seq(Word)
  BY DEF If
<1>4. \A e : \A x \in CommitLine : If(e, x) \in Seq(CommitLine)
  BY DEF If
<1>5. {l0.pc, l1.pc, l2.pc, l3.pc} \subseteq Word
  BY <1>1 DEF CommitLine
<1>6. r3 \in Seq(Word)
  BY <1>3, <1>5
<1>7. r2 \in Seq(Word)
  <2>. HIDE DEF r3
  <2>. QED BY <1>3, <1>5, <1>6
<1>8. r1 \in Seq(Word)
  <2>. HIDE DEF r2
  <2>. QED BY <1>3, <1>5, <1>7
<1>9. << >> \in Seq(CommitLine)
  OBVIOUS
<1>10. o1 \in Seq(CommitLine) /\ o1 = If(Alu0Done, l0)
  BY <1>1, <1>4, <1>9
<1>11. o2 \in Seq(CommitLine)
  <2>. HIDE DEF o1
  <2>. QED BY <1>1, <1>4, <1>10
<1>12. o3 \in Seq(CommitLine)
  <2>. HIDE DEF o2
  <2>. QED BY <1>1, <1>4, <1>11
<1>13. InOrderIn(If(Alu0Done, l0.pc) \o r1, q)
  BY <1>1
<1>14. Tracing(s0, << >>, If(Alu0Done, l0.pc) \o r1)
  BY <1>13 DEF Tracing
<1>. HIDE DEF l0, l1, l2, l3, s0, r1
<1>15. Tracing(s1, o1, r1)
  BY <1>1, <1>8, <1>9, <1>14, Matches
<1>. HIDE DEF s1, o1, r2
<1>16. Tracing(s2, o2, r2)
  <2>1. Tracing(s1, o1, If(LsuDone, l1.pc) \o r2)
    BY <1>15 DEF r1
  <2>. QED BY <1>1, <1>7, <1>10, <2>1, Matches
<1>. HIDE DEF s2, o2, r3
<1>17. Tracing(s3, o3, r3)
  <2>1. Tracing(s2, o2, If(Alu1Done, l2.pc) \o r3)
    BY <1>16 DEF r2
  <2>. QED BY <1>1, <1>6, <1>11, <2>1, Matches
<1>. HIDE DEF s3, o3
<1>18. Tracing(s4, o3 \o If(BranchDone, l3), rest)
  <2>1. Tracing(s3, o3, If(BranchDone, l3.pc) \o rest)
    BY <1>17 DEF r3
  <2>. QED BY <1>1, <1>12, <2>1, Matches
<1>19. /\ s4.out = o3 \o If(BranchDone, l3)
       /\ s4.queue \in Seq(Word) /\ InOrderIn(rest, s4.queue)
  <2>. HIDE DEF s4
  <2>. QED BY <1>18 DEF Tracing
<1>. QED BY <1>2, <1>10, <1>19 DEF o3, o2, l0, l1, l2, l3

----------------------------------------------------------------------------
(* A stalled LSU holds everything; otherwise all results complete.         *)
LEMMA DoneNow ==
  ASSUME IInv
  PROVE  /\ LsuStall => ~Alu0Done /\ ~LsuDone /\ ~Alu1Done /\ ~Issue0 /\ ~CanLatch
         /\ ~LsuStall => (Alu0Done <=> alu0.v) /\ (LsuDone <=> lsu.v) /\ (Alu1Done <=> alu1.v)
         /\ ~(alu0.v /\ lsu.v)
         /\ Issue1 => Issue0 /\ buf1.valid
BY DEF IInv, UnitsExclusive, TypeOK, Entry, Request, LsuStall, LsuDone, Alu0Done, Alu1Done,
       MduDone, Issue0, Issue1, CanLatch, DownstreamStall

(* The lines of what a clock edge hands to the units. *)
MemLine(pc, l) ==
  Line(pc, RegPart(l.w, l.rd, ArchState.mem[l.addr]), {l.addr},
       IF l.load THEN {} ELSE {l.data})

LEMMA LatchedLines ==
  ASSUME TraceInv, ~LsuStall, LatchPCs,
         NEW a, NEW l, NEW m, Dispatched(a, l, m), Advance(a, l, m)
  PROVE  /\ InLane0' = IF a.v THEN <<AluLine(buf0.pc, a)>>
                       ELSE IF l.v THEN <<MemLine(buf0.pc, l)>> ELSE << >>
         /\ InLane1' = IF ToAlu1.v THEN <<AluLine(buf1.pc, ToAlu1)>> ELSE << >>
<1>. IInv
  BY DEF TraceInv
<1>1. (alu0'.v <=> a.v) /\ (a.v => alu0' = a /\ alu0pc' = buf0.pc)
  <2>1. CASE MduDone
    <3>1. alu0' = alu0 /\ ~alu0.v /\ ~Issue0
      BY <2>1 DEF Advance, MduDone, IInv, UnitsExclusive, Issue0, DownstreamStall
    <3>. QED BY <3>1 DEF Dispatched
  <2>2. CASE ~MduDone
    BY <2>2 DEF Advance, LatchPCs
  <2>. QED BY <2>1, <2>2
<1>2. (lsu'.v <=> l.v) /\ (l.v => lsu' = l /\ lsupc' = buf0.pc)
  BY DEF Advance, LatchPCs, LsuStall, LsuDone, NoRequest
<1>3. alu1' = ToAlu1 /\ (ToAlu1.v => alu1pc' = buf1.pc)
  BY DEF Advance, LatchPCs
<1>4. mem' = ArchState.mem
  BY DEF Advance, LsuStall, LsuDone, ArchState
<1>5. InLane1' = IF ToAlu1.v THEN <<AluLine(buf1.pc, ToAlu1)>> ELSE << >>
  BY <1>3 DEF InLane1, AluLine
<1>6. CASE a.v
  BY <1>1, <1>5, <1>6 DEF InLane0, AluLine
<1>7. CASE ~a.v /\ l.v
  <2>1. LsuLine' = MemLine(buf0.pc, l)
    BY <1>2, <1>4, <1>7 DEF LsuLine, LoadData, MemLine
  <2>. QED BY <1>1, <1>2, <1>5, <1>7, <2>1 DEF InLane0
<1>8. CASE ~a.v /\ ~l.v
  BY <1>1, <1>2, <1>5, <1>8 DEF InLane0
<1>. QED BY <1>6, <1>7, <1>8

(* They are the lines of the architecture. *)
LEMMA AluLineIsExpected ==
  ASSUME NEW u, NEW x, ~IsMem(u), u.cls # "branch",
         x = IF IsCsr(u) THEN csr ELSE Computed(u, ArchRegs)
  PROVE  AluLine(u.pc, EntryOf(u, x)) = Expected(u)
BY DEF AluLine, EntryOf, Expected

LEMMA FwdIsArchRegs == IInv /\ Issue0 => Fwd = ArchRegs
BY FwdIsArch DEF Issue0, ArchRegs, ArchState

LEMMA Lane1Line ==
  ASSUME IInv
  PROVE  LineOf(Issue1, buf1) = IF ToAlu1.v THEN <<AluLine(buf1.pc, ToAlu1)>> ELSE << >>
<1>1. CASE ~Issue1
  BY <1>1 DEF LineOf, ToAlu1, NoEntry
<1>2. CASE Issue1
  <2>1. buf1.cls \in AluClass /\ Issue0
    BY <1>2 DEF IInv, BufferOk, PairOk, Lane1Capable, Issue1
  <2>2. ToAlu1 = EntryOf(buf1, Computed(buf1, ArchRegs)) /\ ToAlu1.v
    BY <1>2, <2>1, FwdIsArchRegs DEF ToAlu1, EntryOf
  <2>3. ~IsMem(buf1) /\ ~IsCsr(buf1) /\ buf1.cls # "branch" /\ Watched(buf1)
    BY <2>1 DEF AluClass, IsMem, IsCsr, Watched
  <2>4. AluLine(buf1.pc, ToAlu1) = Expected(buf1)
    BY <2>2, <2>3, AluLineIsExpected
  <2>. QED BY <1>2, <2>2, <2>3, <2>4 DEF LineOf
<1>. QED BY <1>1, <1>2

LEMMA NewLines ==
  ASSUME TraceInv, ~LsuStall, Next, LatchPCs
  PROVE  /\ InLane0' = IF BranchDone THEN << >> ELSE LineOf(Issue0, buf0)
         /\ InLane1' = LineOf(Issue1, buf1)
         /\ BranchDone => LineOf(Issue0, buf0) = <<BranchLine>>
<1>. IInv
  BY DEF TraceInv
<1>1. Fwd \in [Reg -> Word] /\ buf0 \in Uop /\ csr \in Word
  BY WireTypes, SlotType DEF IInv, TypeOK, Uop
<1>2. /\ Computed(buf0, Fwd) \in Word /\ Op1(buf0, Fwd) \in Word
      /\ Op2(buf0, Fwd) \in Word /\ Add(csr, Zero) \in Word
      /\ Add(Op1(buf0, Fwd), buf0.imm) \in Word
  BY <1>1, ComputedType, OperandType, AddType, UopAssumption DEF Uop
<1>3. Issue0 => Fwd = ArchRegs
  BY FwdIsArchRegs
<1>4. BranchDone => LineOf(Issue0, buf0) = <<BranchLine>>
  BY DEF BranchDone, LineOf, Watched, Expected, IsMem, BranchLine
<1>. DEFINE Goal == InLane0' = IF BranchDone THEN << >> ELSE LineOf(Issue0, buf0)
<1>5. SUFFICES Goal /\ InLane1' = LineOf(Issue1, buf1)
  BY <1>4
<1>6. CASE IssueNone
  <2>1. /\ InLane0' = << >>
        /\ InLane1' = IF ToAlu1.v THEN <<AluLine(buf1.pc, ToAlu1)>> ELSE << >>
    BY <1>6, EmptyDispatch, LatchedLines DEF IssueNone, NoEntry, NoRequest
  <2>2. ~BranchDone /\ LineOf(Issue0, buf0) = << >>
    BY <1>6 DEF IssueNone, BranchDone, LineOf
  <2>. QED BY <2>1, <2>2, Lane1Line
<1>7. CASE IssueAlu
  <2>. DEFINE a == EntryOf(buf0, Computed(buf0, Fwd))
  <2>1. Dispatched(a, NoRequest, MduIdle) /\ Advance(a, NoRequest, MduIdle) /\ Issue0
    BY <1>2, <1>7, EntryDispatch DEF IssueAlu
  <2>2. a.v
    BY DEF EntryOf
  <2>3. ~IsMem(buf0) /\ ~IsCsr(buf0) /\ buf0.cls # "branch" /\ Watched(buf0)
    BY <1>7 DEF IssueAlu, AluClass, IsMem, IsCsr, Watched
  <2>4. AluLine(buf0.pc, a) = Expected(buf0)
    BY <1>3, <2>1, <2>3, AluLineIsExpected
  <2>. HIDE DEF a
  <2>5. /\ InLane0' = <<Expected(buf0)>>
        /\ InLane1' = IF ToAlu1.v THEN <<AluLine(buf1.pc, ToAlu1)>> ELSE << >>
    BY <2>1, <2>2, <2>4, LatchedLines
  <2>. QED BY <2>1, <2>3, <2>5, Lane1Line DEF BranchDone, LineOf
<1>8. CASE IssueMem
  <2>. DEFINE l == [v |-> TRUE, load |-> buf0.cls = "load", w |-> WritesRd(buf0),
                    rd |-> buf0.rd, addr |-> Add(Op1(buf0, Fwd), buf0.imm),
                    data |-> Op2(buf0, Fwd)]
  <2>1. Dispatched(NoEntry, l, MduIdle) /\ Advance(NoEntry, l, MduIdle) /\ Issue0
    BY <1>2, <1>8, MemDispatch DEF IssueMem
  <2>2. IsMem(buf0) /\ buf0.cls # "branch" /\ Watched(buf0)
    BY <1>8 DEF IssueMem, IsMem, Watched
  <2>3. MemLine(buf0.pc, l) = Expected(buf0) /\ l.v
    BY <1>3, <2>1, <2>2 DEF MemLine, Expected
  <2>. HIDE DEF l
  <2>4. /\ InLane0' = <<Expected(buf0)>>
        /\ InLane1' = IF ToAlu1.v THEN <<AluLine(buf1.pc, ToAlu1)>> ELSE << >>
    BY <2>1, <2>3, LatchedLines DEF NoEntry
  <2>. QED BY <2>1, <2>2, <2>4, Lane1Line DEF BranchDone, LineOf
<1>9. CASE IssueMdu
  <2>1. PICK n \in MduLatency :
          Advance(NoEntry, NoRequest,
                  [busy |-> TRUE, left |-> n - 1, w |-> WritesRd(buf0),
                   rd |-> buf0.rd, val |-> Computed(buf0, Fwd)])
    BY <1>9 DEF IssueMdu
  <2>. DEFINE m == [busy |-> TRUE, left |-> n - 1, w |-> WritesRd(buf0),
                    rd |-> buf0.rd, val |-> Computed(buf0, Fwd)]
  <2>2. Dispatched(NoEntry, NoRequest, m)
    BY <1>2, <1>9, MduDispatch DEF IssueMdu
  <2>3. Advance(NoEntry, NoRequest, m)
    BY <2>1
  <2>. HIDE DEF m
  <2>4. /\ InLane0' = << >>
        /\ InLane1' = IF ToAlu1.v THEN <<AluLine(buf1.pc, ToAlu1)>> ELSE << >>
    BY <2>2, <2>3, LatchedLines DEF NoEntry, NoRequest
  <2>5. ~BranchDone /\ LineOf(Issue0, buf0) = << >>
    BY <1>9 DEF IssueMdu, BranchDone, LineOf, Watched
  <2>. QED BY <2>4, <2>5, Lane1Line
<1>10. CASE IssueBranch
  <2>1. /\ InLane0' = << >>
        /\ InLane1' = IF ToAlu1.v THEN <<AluLine(buf1.pc, ToAlu1)>> ELSE << >>
    BY <1>10, EmptyDispatch, LatchedLines DEF IssueBranch, NoEntry, NoRequest
  <2>. QED BY <1>10, <2>1, Lane1Line DEF IssueBranch, BranchDone
<1>11. CASE IssueSystem
  <2>. DEFINE a == IF IsCsr(buf0) THEN EntryOf(buf0, Add(csr, Zero)) ELSE NoEntry
  <2>1. Dispatched(a, NoRequest, MduIdle) /\ Advance(a, NoRequest, MduIdle) /\ Issue0
    BY <1>2, <1>11, EntryDispatch, EmptyDispatch DEF IssueSystem
  <2>2. Add(csr, Zero) = csr
    BY <1>1, UopAssumption DEF Add
  <2>3. ~IsMem(buf0) /\ buf0.cls # "branch"
    BY <1>11 DEF IssueSystem, IsMem, IsCsr
  <2>4. CASE IsCsr(buf0)
    <3>1. a.v /\ Watched(buf0) /\ a = EntryOf(buf0, csr)
      BY <2>2, <2>4 DEF EntryOf, IsCsr, Watched
    <3>2. AluLine(buf0.pc, a) = Expected(buf0)
      BY <2>3, <2>4, <3>1, AluLineIsExpected
    <3>. HIDE DEF a
    <3>3. /\ InLane0' = <<Expected(buf0)>>
          /\ InLane1' = IF ToAlu1.v THEN <<AluLine(buf1.pc, ToAlu1)>> ELSE << >>
      BY <2>1, <3>1, <3>2, LatchedLines
    <3>. QED BY <2>1, <2>3, <3>1, <3>3, Lane1Line DEF BranchDone, LineOf
  <2>5. CASE ~IsCsr(buf0)
    <3>1. ~a.v /\ ~NoRequest.v
      BY <2>5 DEF NoEntry, NoRequest
    <3>. HIDE DEF a
    <3>2. /\ InLane0' = << >>
          /\ InLane1' = IF ToAlu1.v THEN <<AluLine(buf1.pc, ToAlu1)>> ELSE << >>
      BY <2>1, <3>1, LatchedLines
    <3>3. ~BranchDone /\ LineOf(Issue0, buf0) = << >>
      BY <1>11, <2>3, <2>5 DEF IssueSystem, BranchDone, LineOf, Watched
    <3>. QED BY <3>2, <3>3, Lane1Line
  <2>. QED BY <2>4, <2>5
<1>. QED BY <1>6, <1>7, <1>8, <1>9, <1>10, <1>11 DEF Next

----------------------------------------------------------------------------
(* What is due, and what has been written of it. *)
LEMMA Cut ==
  ASSUME NEW s \in Seq(CommitLine), NEW t \in Seq(CommitLine)
  PROVE  /\ SubSeq(s \o t, 1, Len(s)) = s
         /\ SubSeq(s \o t, Len(s) + 1, Len(s \o t)) = t
<1>1. PICK m \in Nat, n \in Nat : m = Len(s) /\ n = Len(t)
  OBVIOUS
<1>. DEFINE all == s \o t
<1>2. /\ all \in Seq(CommitLine) /\ Len(all) = m + n
      /\ \A i \in 1..m : all[i] = s[i]
      /\ \A i \in 1..n : all[i + m] = t[i]
  BY <1>1
<1>. HIDE DEF all
<1>3. SubSeq(all, 1, m) = s
  <2>1. SubSeq(all, 1, m) \in Seq(CommitLine) /\ Len(SubSeq(all, 1, m)) = m
        /\ \A i \in 1..m : SubSeq(all, 1, m)[i] = all[i]
    BY <1>2
  <2>. QED BY <1>1, <1>2, <2>1
<1>4. SubSeq(all, m + 1, m + n) = t
  <2>. DEFINE u == SubSeq(all, m + 1, m + n)
  <2>1. u = [i \in 1..n |-> all[m + i]]
    <3>1. (m + n) - (m + 1) + 1 = n /\ \A i \in 1..n : i + (m + 1) - 1 = m + i
      OBVIOUS
    <3>2. u = [i \in 1..((m + n) - (m + 1) + 1) |-> all[i + (m + 1) - 1]]
      OBVIOUS
    <3>. QED BY <3>1, <3>2
  <2>2. \A i \in 1..n : all[m + i] = t[i] /\ m + i = i + m
    BY <1>2
  <2>3. t = [i \in 1..n |-> t[i]]
    BY <1>1
  <2>. HIDE DEF u
  <2>. QED BY <2>1, <2>2, <2>3
<1>. QED BY <1>1, <1>2, <1>3, <1>4 DEF all

LEMMA LaneTypes ==
  ASSUME TraceInv
  PROVE  /\ InLane0 \in Seq(CommitLine) /\ Len(InLane0) = One(alu0.v \/ lsu.v)
         /\ InLane1 \in Seq(CommitLine) /\ Len(InLane1) = One(alu1.v)
BY LinesNow DEF InLane0, InLane1, One

LEMMA ExpectedTypes ==
  ASSUME IInv
  PROVE  /\ Issue0 => Expected(buf0) \in CommitLine
         /\ Issue1 => Expected(buf1) \in CommitLine
<1>1. ASSUME NEW u \in {buf0, buf1}, Issue0 PROVE Expected(u) \in CommitLine
  <2>1. u \in Uop /\ Fwd = ArchRegs /\ ArchRegs \in [Reg -> Word] /\ csr \in Word
    BY <1>1, SlotType, WireTypes, FwdIsArchRegs DEF IInv, TypeOK
  <2>2. u.pc \in Word /\ u.imm \in Word /\ u.rd \in Reg
    BY <2>1 DEF Uop
  <2>3. /\ Op1(u, ArchRegs) \in Word /\ Op2(u, ArchRegs) \in Word
        /\ Computed(u, ArchRegs) \in Word
    BY <2>1, OperandType, ComputedType
  <2>. DEFINE a == Add(Op1(u, ArchRegs), u.imm)
  <2>4. a \in Word
    BY <2>2, <2>3, AddType
  <2>5. ArchState.mem \in [Word -> Word]
    BY DEF IInv, TypeOK, Request, ArchState
  <2>6. ArchState.mem[a] \in Word
    BY <2>4, <2>5
  <2>7. \A w, x : x \in Word => RegPart(w, u.rd, x) \in SUBSET (Reg \X Word)
    BY <2>2 DEF RegPart
  <2>8. CASE IsMem(u)
    <3>1. Expected(u) = Line(u.pc, RegPart(WritesRd(u), u.rd, ArchState.mem[a]), {a},
                             IF u.cls = "load" THEN {} ELSE {Op2(u, ArchRegs)})
      BY <2>8 DEF Expected
    <3>. HIDE DEF a
    <3>. QED BY <2>2, <2>3, <2>4, <2>6, <2>7, <3>1 DEF Line, CommitLine
  <2>9. CASE ~IsMem(u)
    BY <2>1, <2>2, <2>3, <2>9, LineTypes DEF Expected
  <2>. QED BY <2>8, <2>9
<1>. QED BY <1>1, DoneNow

(* Without a stall the lines of all results are written. *)
LEMMA LanesComplete ==
  ASSUME TraceInv, ~LsuStall
  PROVE  /\ If(Alu0Done, AluLine(alu0pc, alu0)) \o If(LsuDone, LsuLine) = InLane0
         /\ If(Alu1Done, AluLine(alu1pc, alu1)) = InLane1
         /\ NumDone = Len(InLane0) + Len(InLane1) + One(BranchDone)
<1>1. /\ Alu0Done <=> alu0.v
      /\ LsuDone <=> lsu.v
      /\ Alu1Done <=> alu1.v
      /\ ~(alu0.v /\ lsu.v)
  BY DoneNow DEF TraceInv
<1>2. If(Alu1Done, AluLine(alu1pc, alu1)) = InLane1
  BY <1>1 DEF If, InLane1
<1>3. If(Alu0Done, AluLine(alu0pc, alu0)) \o If(LsuDone, LsuLine) = InLane0
  <2>1. \A x \in CommitLine : /\ <<x>> \o << >> = <<x>>
                              /\ << >> \o <<x>> = <<x>>
    OBVIOUS
  <2>2. << >> \o << >> = << >>
    OBVIOUS
  <2>3. AluLine(alu0pc, alu0) \in CommitLine /\ LsuLine \in CommitLine
    BY LinesNow
  <2>. QED BY <1>1, <2>1, <2>2, <2>3 DEF If, InLane0
<1>4. NumDone = Len(InLane0) + Len(InLane1) + One(BranchDone)
  <2>1. One(alu0.v \/ lsu.v) = One(Alu0Done) + One(LsuDone) /\ One(alu1.v) = One(Alu1Done)
    BY <1>1 DEF One
  <2>2. {One(Alu0Done), One(LsuDone), One(Alu1Done), One(BranchDone)} \subseteq Nat
    BY DEF One
  <2>. QED BY <2>1, <2>2, LaneTypes DEF NumDone
<1>. QED BY <1>2, <1>3, <1>4

LEMMA HeldLines ==
  ASSUME TraceInv, LsuStall, Next, LatchPCs
  PROVE  UNCHANGED <<InLane0, InLane1>>
<1>1. PICK a, l, m : Dispatched(a, l, m) /\ Advance(a, l, m)
  BY NextDispatches DEF TraceInv
<1>2. ~l.v
  BY <1>1, DoneNow DEF Dispatched, TraceInv
<1>3. /\ UNCHANGED <<alu0, alu1, lsu, mem>>
      /\ UNCHANGED <<alu0pc, alu1pc, lsupc>>
  BY <1>1, <1>2 DEF Advance, LatchPCs, LsuStall, LsuDone
<1>4. UNCHANGED <<AluLine(alu0pc, alu0), AluLine(alu1pc, alu1), LsuLine>>
  BY <1>3 DEF AluLine, LsuLine, LoadData
<1>. QED BY <1>3, <1>4 DEF InLane0, InLane1

(* What is written in a cycle. *)
Written == ((If(Alu0Done, AluLine(alu0pc, alu0)) \o If(LsuDone, LsuLine))
             \o If(Alu1Done, AluLine(alu1pc, alu1))) \o If(BranchDone, BranchLine)

LEMMA DueMoves ==
  ASSUME TraceInv, Next, LatchPCs, Trace
  PROVE  /\ due' = InLane0' \o InLane1'
         /\ Written = SubSeq(due \o DispatchedLines, 1, NumDone)
<1>1. due = InLane0 \o InLane1 /\ due \in Seq(CommitLine)
      /\ Len(due) = Len(InLane0) + Len(InLane1)
      /\ Len(InLane0) \in Nat /\ Len(InLane1) \in Nat
  BY LaneTypes DEF TraceInv
<1>2. due' = SubSeq(due \o DispatchedLines, NumDone + 1, Len(due \o DispatchedLines))
  BY DEF Trace
<1>3. CASE LsuStall
  <2>1. ~Alu0Done /\ ~LsuDone /\ ~Alu1Done /\ ~BranchDone /\ ~Issue0 /\ ~Issue1
    BY <1>3, DoneNow DEF TraceInv, BranchDone
  <2>2. << >> \o << >> = << >> /\ << >> \in Seq(CommitLine) /\ Len(<< >>) = 0
    OBVIOUS
  <2>3. DispatchedLines = << >> /\ NumDone = 0
    BY <2>1, <2>2 DEF DispatchedLines, LineOf, NumDone, One
  <2>4. Written = << >>
    BY <2>1, <2>2 DEF Written, If
  <2>5. /\ SubSeq(<< >> \o due, 1, 0) = << >>
        /\ SubSeq(<< >> \o due, 0 + 1, Len(<< >> \o due)) = due
    <3>1. << >> \in Seq(CommitLine) /\ due \in Seq(CommitLine)
      BY <1>1
    <3>. QED BY <2>2, <3>1, Cut
  <2>6. << >> \o due = due /\ due \o << >> = due
    BY <1>1
  <2>. QED BY <1>1, <1>2, <1>3, <2>3, <2>4, <2>5, <2>6, HeldLines
<1>4. CASE ~LsuStall
  <2>1. /\ InLane0' = IF BranchDone THEN << >> ELSE LineOf(Issue0, buf0)
        /\ InLane1' = LineOf(Issue1, buf1)
        /\ BranchDone => LineOf(Issue0, buf0) = <<BranchLine>>
    BY <1>4, NewLines
  <2>2. /\ Written = due \o If(BranchDone, BranchLine)
        /\ NumDone = Len(due) + One(BranchDone)
    BY <1>1, <1>4, LanesComplete DEF Written
  <2>3. BranchLine \in CommitLine
    BY LinesNow
  <2>. DEFINE l0 == LineOf(Issue0, buf0)
              l1 == LineOf(Issue1, buf1)
  <2>4. l0 \in Seq(CommitLine) /\ l1 \in Seq(CommitLine)
    BY ExpectedTypes DEF LineOf, TraceInv
  <2>. HIDE DEF l0, l1
  <2>5. CASE BranchDone
    <3>. DEFINE done == due \o <<BranchLine>>
    <3>1. done \in Seq(CommitLine) /\ Len(done) = Len(due) + 1 /\ NumDone = Len(done)
      BY <1>1, <2>2, <2>3, <2>5 DEF One
    <3>2. due \o DispatchedLines = done \o l1
      <4>1. DispatchedLines = <<BranchLine>> \o l1
        BY <2>1, <2>5 DEF DispatchedLines, l0, l1
      <4>. QED BY <1>1, <2>3, <2>4, <4>1, SMTT(30)
    <3>3. Written = done /\ InLane0' = << >> /\ InLane1' = l1
      BY <2>1, <2>2, <2>5 DEF If, l1
    <3>4. << >> \o l1 = l1
      BY <2>4
    <3>. HIDE DEF done
    <3>. QED BY <1>2, <2>4, <3>1, <3>2, <3>3, <3>4, Cut
  <2>6. CASE ~BranchDone
    <3>1. NumDone = Len(due) /\ Written = due /\ InLane0' = l0 /\ InLane1' = l1
      BY <1>1, <2>1, <2>2, <2>6 DEF One, If, l0, l1
    <3>2. DispatchedLines = l0 \o l1 /\ l0 \o l1 \in Seq(CommitLine)
      BY <2>4 DEF DispatchedLines, l0, l1
    <3>. DEFINE new == l0 \o l1
    <3>3. /\ SubSeq(due \o new, 1, Len(due)) = due
          /\ SubSeq(due \o new, Len(due) + 1, Len(due \o new)) = new
      BY <1>1, <3>2, Cut
    <3>. HIDE DEF new
    <3>. QED BY <1>2, <3>1, <3>2, <3>3 DEF new
  <2>. QED BY <2>5, <2>6
<1>. QED BY <1>3, <1>4

----------------------------------------------------------------------------
(* PCs in the units, in the bundle buffer and in the queue. *)
LEMMA PCsOfLines ==
  ASSUME NEW s \in Seq(CommitLine), NEW t \in Seq(CommitLine)
  PROVE  /\ PCsOf(s) \in Seq(Word) /\ PCsOf(s \o t) \in Seq(Word)
         /\ PCsOf(s \o t) = PCsOf(s) \o PCsOf(t)
<1>1. PICK m \in Nat, n \in Nat : m = Len(s) /\ n = Len(t)
  OBVIOUS
<1>. DEFINE all == s \o t
<1>2. /\ all \in Seq(CommitLine) /\ Len(all) = m + n
      /\ \A i \in 1..(m + n) : all[i] = IF i <= m THEN s[i] ELSE t[i - m]
  BY <1>1
<1>3. \A x \in Seq(CommitLine) : /\ PCsOf(x) \in Seq(Word) /\ Len(PCsOf(x)) = Len(x)
                                 /\ DOMAIN PCsOf(x) = 1..Len(x)
                                 /\ \A i \in 1..Len(x) : PCsOf(x)[i] = x[i].pc
  <2>. SUFFICES ASSUME NEW x \in Seq(CommitLine), NEW k \in Nat, k = Len(x)
       PROVE  /\ PCsOf(x) \in Seq(Word) /\ Len(PCsOf(x)) = k /\ DOMAIN PCsOf(x) = 1..k
              /\ \A i \in 1..k : PCsOf(x)[i] = x[i].pc
    OBVIOUS
  <2>1. PCsOf(x) = [i \in 1..k |-> x[i].pc]
    BY DEF PCsOf
  <2>2. \A i \in 1..k : x[i].pc \in Word
    <3>1. \A i \in 1..k : x[i] \in CommitLine
      OBVIOUS
    <3>. QED BY <3>1 DEF CommitLine
  <2>. QED BY <2>1, <2>2
<1>. HIDE DEF all
<1>4. PCsOf(all) = PCsOf(s) \o PCsOf(t)
  <2>. DEFINE a == PCsOf(s)
              b == PCsOf(t)
              c == PCsOf(all)
  <2>1. /\ a \in Seq(Word) /\ Len(a) = m /\ \A i \in 1..m : a[i] = s[i].pc
        /\ b \in Seq(Word) /\ Len(b) = n /\ \A i \in 1..n : b[i] = t[i].pc
        /\ c \in Seq(Word) /\ Len(c) = m + n /\ \A i \in 1..(m + n) : c[i] = all[i].pc
    BY <1>1, <1>2, <1>3
  <2>. HIDE DEF a, b, c
  <2>2. a \o b \in Seq(Word) /\ Len(a \o b) = m + n
    <3>1. a \in Seq(Word) /\ b \in Seq(Word)
      BY <2>1
    <3>2. a \o b \in Seq(Word) /\ Len(a \o b) = Len(a) + Len(b)
      BY <3>1
    <3>. QED BY <2>1, <3>2
  <2>3. \A i \in 1..(m + n) : c[i] = (a \o b)[i]
    <3>1. a \in Seq(Word) /\ b \in Seq(Word)
      BY <2>1
    <3>2. \A i \in 1..(Len(a) + Len(b)) :
            (a \o b)[i] = IF i <= Len(a) THEN a[i] ELSE b[i - Len(a)]
      BY <3>1
    <3>3. \A i \in 1..(m + n) : /\ i <= m => i \in 1..m
                                /\ ~(i <= m) => i - m \in 1..n
      OBVIOUS
    <3>. SUFFICES ASSUME NEW i \in 1..(m + n) PROVE c[i] = (a \o b)[i]
      OBVIOUS
    <3>4. c[i] = all[i].pc /\ (a \o b)[i] = IF i <= m THEN a[i] ELSE b[i - m]
      BY <2>1, <3>2
    <3>5. i \in 1..m => a[i] = s[i].pc
      BY <2>1
    <3>6. i - m \in 1..n => b[i - m] = t[i - m].pc
      BY <2>1
    <3>7. all[i] = IF i <= m THEN s[i] ELSE t[i - m]
      BY <1>2
    <3>. QED BY <3>3, <3>4, <3>5, <3>6, <3>7
  <2>4. c = a \o b
    <3>. DEFINE d == a \o b
    <3>1. d \in Seq(Word) /\ Len(d) = m + n /\ \A i \in 1..(m + n) : c[i] = d[i]
      BY <2>2, <2>3
    <3>. HIDE DEF d
    <3>2. c = [i \in 1..(m + n) |-> c[i]] /\ d = [i \in 1..(m + n) |-> d[i]]
      <4>1. c \in Seq(Word) /\ Len(c) = m + n
        BY <2>1
      <4>2. d \in Seq(Word) /\ Len(d) = m + n
        BY <3>1
      <4>. QED BY <4>1, <4>2
    <3>3. c = d
      BY <3>1, <3>2
    <3>. QED BY <3>3 DEF d
  <2>. QED BY <2>4 DEF a, b, c
<1>. QED BY <1>2, <1>3, <1>4 DEF all

LEMMA OnePC == \A x \in CommitLine : PCsOf(<<x>>) = <<x.pc>>
<1>. SUFFICES ASSUME NEW x \in CommitLine PROVE PCsOf(<<x>>) = <<x.pc>>
  OBVIOUS
<1>1. DOMAIN <<x>> = 1..1 /\ <<x>>[1] = x
  OBVIOUS
<1>. QED BY <1>1 DEF PCsOf

LEMMA NoPC == PCsOf(<< >>) = << >>
BY DEF PCsOf

LEMMA Associative ==
  ASSUME NEW a \in Seq(Word), NEW b \in Seq(Word), NEW c \in Seq(Word)
  PROVE  (a \o b) \o c = a \o (b \o c) /\ a \o b \in Seq(Word) /\ << >> \o a = a /\ a \o << >> = a
OBVIOUS

LEMMA IfType == \A e : \A x \in Word : If(e, x) \in Seq(Word)
BY DEF If

(* Some of two entries occur in order in more of them. *)
LEMMA OrderOfTwo ==
  ASSUME NEW x \in Word, NEW y \in Word, NEW e, NEW f, NEW g, NEW h, e => g, f => h
  PROVE  InOrderIn(If(e, x) \o If(f, y), If(g, x) \o If(h, y))
<1>. DEFINE s == If(e, x) \o If(f, y)
            q == If(g, x) \o If(h, y)
            shift == IF g /\ ~e THEN 1 ELSE 0
            at == [i \in DOMAIN s |-> i + shift]
<1>1. /\ << >> \o << >> = << >> /\ <<x>> \o << >> = <<x>> /\ << >> \o <<y>> = <<y>>
      /\ <<x>> \o <<y>> = <<x, y>>
  <2>1. << >> \in Seq(Word) /\ <<x>> \in Seq(Word) /\ <<y>> \in Seq(Word)
    OBVIOUS
  <2>2. << >> \o << >> = << >> /\ <<x>> \o << >> = <<x>> /\ << >> \o <<y>> = <<y>>
    BY <2>1, Associative
  <2>3. <<x>> \o <<y>> = Append(<<x>>, y)
    BY <2>1
  <2>4. Append(<<x>>, y) = <<x, y>>
    <3>1. <<x>> \in Seq(Word) /\ Len(<<x>>) = 1
      OBVIOUS
    <3>2. Append(<<x>>, y) = [i \in 1..2 |-> IF i = 2 THEN y ELSE x]
      BY <3>1
    <3>3. <<x, y>> = [i \in 1..2 |-> IF i = 2 THEN y ELSE x]
      OBVIOUS
    <3>. QED BY <3>2, <3>3
  <2>. QED BY <2>2, <2>3, <2>4
<1>2. /\ s = IF e THEN IF f THEN <<x, y>> ELSE <<x>> ELSE IF f THEN <<y>> ELSE << >>
      /\ q = IF g THEN IF h THEN <<x, y>> ELSE <<x>> ELSE IF h THEN <<y>> ELSE << >>
  BY <1>1 DEF If
<1>3. /\ DOMAIN <<x, y>> = 1..2 /\ DOMAIN <<x>> = 1..1 /\ DOMAIN <<y>> = 1..1
      /\ DOMAIN << >> = 1..0 /\ <<x, y>>[1] = x /\ <<x, y>>[2] = y /\ <<x>>[1] = x /\ <<y>>[1] = y
  OBVIOUS
<1>. HIDE DEF s, q
<1>4. \A i \in DOMAIN s : i \in 1..2 /\ i + shift \in DOMAIN q /\ q[i + shift] = s[i]
  <2>1. CASE e /\ f
    BY <1>2, <1>3, <2>1
  <2>2. CASE e /\ ~f
    BY <1>2, <1>3, <2>2
  <2>3. CASE ~e /\ f /\ g
    BY <1>2, <1>3, <2>3
  <2>4. CASE ~e /\ f /\ ~g
    BY <1>2, <1>3, <2>4
  <2>5. CASE ~e /\ ~f
    BY <1>2, <1>3, <2>5
  <2>. QED BY <2>1, <2>2, <2>3, <2>4, <2>5
<1>5. shift \in Nat
  OBVIOUS
<1>. HIDE DEF shift
<1>6. at \in [DOMAIN s -> DOMAIN q]
  BY <1>4
<1>7. /\ \A i \in DOMAIN s : q[at[i]] = s[i]
      /\ \A i, j \in DOMAIN s : i < j => at[i] < at[j]
  BY <1>4, <1>5
<1>. HIDE DEF at
<1>8. InOrderIn(s, q)
  BY <1>6, <1>7 DEF InOrderIn
<1>. QED BY <1>8 DEF s, q

(* What Issue accepts enters the buffer behind what is in it, or replaces  *)
(* what it dispatches.                                                     *)
LEMMA BufferMoves ==
  ASSUME IInv, IInv', Next
  PROVE  /\ InBuffer \in Seq(Word) /\ InBuffer' \in Seq(Word) /\ Accepted \in Seq(Word)
         /\ Issue0 => InBuffer' = Accepted
         /\ ~Issue0 => InBuffer' = InBuffer \o Accepted
<1>1. Refill
  BY NextDispatches
<1>2. buf0.pc \in Word /\ buf1.pc \in Word /\ buf0'.pc \in Word /\ buf1'.pc \in Word
  BY SlotType DEF IInv, TypeOK, Uop
<1>3. \A x, y \in Word : /\ <<x>> \o << >> \in Seq(Word) /\ <<x>> \o <<y>> \in Seq(Word)
  OBVIOUS
<1>4. InBuffer \in Seq(Word) /\ InBuffer' \in Seq(Word) /\ Accepted \in Seq(Word)
  BY <1>2, <1>3 DEF InBuffer, Accepted
<1>5. CASE CanLatch
  <2>1. InBuffer' = Accepted
    BY <1>5 DEF InBuffer, Accepted
  <2>2. ~Issue0 => InBuffer = << >>
    BY <1>5 DEF CanLatch, InBuffer
  <2>. QED BY <1>4, <2>1, <2>2
<1>6. CASE ~CanLatch
  <2>1. Accepted = << >>
    BY <1>6 DEF Accepted
  <2>2. Issue0 => InBuffer' = << >>
    BY <1>1, <1>6, BubbleType DEF Refill, InBuffer
  <2>3. ~Issue0 => InBuffer' = InBuffer
    BY <1>1, <1>6 DEF Refill, InBuffer, Redirect
  <2>. QED BY <1>4, <2>1, <2>2, <2>3
<1>. QED BY <1>5, <1>6

LEMMA OrderOfItself == ASSUME NEW s \in Seq(Word) PROVE InOrderIn(s, s)
<1>. DEFINE at == [i \in DOMAIN s |-> i]
<1>1. at \in [DOMAIN s -> DOMAIN s]
  OBVIOUS
<1>2. /\ \A i \in DOMAIN s : s[at[i]] = s[i]
      /\ \A i, j \in DOMAIN s : i < j => at[i] < at[j]
  OBVIOUS
<1>. HIDE DEF at
<1>. QED BY <1>1, <1>2 DEF InOrderIn

LEMMA OrderOfPrefix ==
  ASSUME NEW s \in Seq(Word), NEW r \in Seq(Word)
  PROVE  s \o r \in Seq(Word) /\ InOrderIn(s, s \o r)
<1>1. PICK m \in Nat, n \in Nat : m = Len(s) /\ n = Len(r)
  OBVIOUS
<1>. DEFINE q == s \o r
            at == [i \in 1..m |-> i]
<1>2. /\ q \in Seq(Word) /\ DOMAIN q = 1..(m + n) /\ DOMAIN s = 1..m
      /\ \A i \in 1..m : q[i] = s[i]
  BY <1>1
<1>. HIDE DEF q
<1>3. at \in [DOMAIN s -> DOMAIN q]
  <2>1. \A i \in 1..m : i \in 1..(m + n)
    BY <1>1
  <2>. QED BY <1>2, <2>1
<1>4. /\ \A i \in DOMAIN s : q[at[i]] = s[i]
      /\ \A i, j \in DOMAIN s : i < j => at[i] < at[j]
  BY <1>2
<1>. HIDE DEF at
<1>5. InOrderIn(s, q)
  BY <1>3, <1>4 DEF InOrderIn
<1>. QED BY <1>2, <1>5 DEF q

LEMMA LanePCs ==
  ASSUME TraceInv, ~LsuStall
  PROVE  /\ PCsOf(InLane0) = If(Alu0Done, alu0pc) \o If(LsuDone, lsupc)
         /\ PCsOf(InLane1) = If(Alu1Done, alu1pc)
<1>1. /\ Alu0Done <=> alu0.v
      /\ LsuDone <=> lsu.v
      /\ Alu1Done <=> alu1.v
      /\ ~(alu0.v /\ lsu.v)
  BY DoneNow DEF TraceInv
<1>2. /\ PCsOf(<<AluLine(alu0pc, alu0)>>) = <<alu0pc>>
      /\ PCsOf(<<AluLine(alu1pc, alu1)>>) = <<alu1pc>>
      /\ PCsOf(<<LsuLine>>) = <<lsupc>> /\ PCsOf(<< >>) = << >>
  BY LinesNow, OnePC, NoPC
<1>3. alu0pc \in Word /\ lsupc \in Word
  BY DEF TraceInv
<1>4. /\ << >> \o << >> = << >>
      /\ <<alu0pc>> \o << >> = <<alu0pc>> /\ << >> \o <<lsupc>> = <<lsupc>>
  BY <1>3
<1>. QED BY <1>1, <1>2, <1>4 DEF InLane0, InLane1, If

LEMMA NewPCs ==
  ASSUME TraceInv, ~LsuStall, Next, LatchPCs, Issue0
  PROVE  /\ PCsOf(InLane0') = If(~BranchDone /\ Watched(buf0), buf0.pc)
         /\ PCsOf(InLane1') = If(Issue1 /\ Watched(buf1), buf1.pc)
<1>1. /\ InLane0' = IF BranchDone THEN << >> ELSE LineOf(Issue0, buf0)
      /\ InLane1' = LineOf(Issue1, buf1)
  BY NewLines
<1>2. \A u : Expected(u).pc = u.pc
  BY DEF Expected, PlainLine, Line
<1>3. /\ Expected(buf0) \in CommitLine
      /\ Issue1 => Expected(buf1) \in CommitLine
  BY ExpectedTypes DEF TraceInv
<1>4. /\ PCsOf(<<Expected(buf0)>>) = <<buf0.pc>> /\ PCsOf(<< >>) = << >>
      /\ Issue1 => PCsOf(<<Expected(buf1)>>) = <<buf1.pc>>
  BY <1>2, <1>3, OnePC, NoPC
<1>. QED BY <1>1, <1>4 DEF LineOf, If

LEMMA NewLaneTypes ==
  ASSUME TraceInv, Next, LatchPCs
  PROVE  InLane0' \in Seq(CommitLine) /\ InLane1' \in Seq(CommitLine)
<1>1. CASE LsuStall
  <2>1. InLane0' = InLane0 /\ InLane1' = InLane1
    BY <1>1, HeldLines
  <2>2. InLane0 \in Seq(CommitLine) /\ InLane1 \in Seq(CommitLine)
    BY LaneTypes
  <2>. QED BY <2>1, <2>2
<1>2. CASE ~LsuStall
  <2>1. /\ InLane0' = IF BranchDone THEN << >> ELSE LineOf(Issue0, buf0)
        /\ InLane1' = LineOf(Issue1, buf1)
    BY <1>2, NewLines
  <2>2. LineOf(Issue0, buf0) \in Seq(CommitLine) /\ LineOf(Issue1, buf1) \in Seq(CommitLine)
    BY ExpectedTypes DEF LineOf, TraceInv
  <2>3. << >> \in Seq(CommitLine)
    OBVIOUS
  <2>. QED BY <2>1, <2>2, <2>3
<1>. QED BY <1>1, <1>2

(* The lines of a cycle are found in the queue, and what is then in units  *)
(* and buffer is still in it.                                              *)
LEMMA QueueMoves ==
  ASSUME TraceInv, IInv', Next, LatchPCs, Trace
  PROVE  /\ Traced(queue \o Accepted).out = Written
         /\ queue' \in Seq(Word) /\ InOrderIn(PCsOf(due') \o InBuffer', queue')
<1>. DEFINE before == PCsOf(due)
            after == PCsOf(due')
            q == queue \o Accepted
            e0 == If(Alu0Done, alu0pc)
            e1 == If(LsuDone, lsupc)
            e2 == If(Alu1Done, alu1pc)
            e3 == If(BranchDone, buf0.pc)
<1>1. /\ InBuffer \in Seq(Word) /\ InBuffer' \in Seq(Word) /\ Accepted \in Seq(Word)
      /\ Issue0 => InBuffer' = Accepted
      /\ ~Issue0 => InBuffer' = InBuffer \o Accepted
  BY BufferMoves DEF TraceInv
<1>2. /\ InLane0 \in Seq(CommitLine) /\ InLane1 \in Seq(CommitLine)
      /\ due = InLane0 \o InLane1 /\ due' = InLane0' \o InLane1'
      /\ queue \in Seq(Word) /\ InOrderIn(before \o InBuffer, queue)
  BY LaneTypes, DueMoves DEF TraceInv
<1>3. before \in Seq(Word) /\ before = PCsOf(InLane0) \o PCsOf(InLane1)
      /\ PCsOf(InLane0) \in Seq(Word) /\ PCsOf(InLane1) \in Seq(Word)
  BY <1>2, PCsOfLines
<1>4. q \in Seq(Word) /\ InOrderIn(before \o (InBuffer \o Accepted), q)
  <2>. HIDE DEF before
  <2>1. before \o InBuffer \in Seq(Word)
    BY <1>1, <1>3
  <2>2. InOrderIn((before \o InBuffer) \o Accepted, queue \o Accepted)
    BY <1>1, <1>2, <2>1, OrderGrows
  <2>3. (before \o InBuffer) \o Accepted = before \o (InBuffer \o Accepted)
    <3>1. before \in Seq(Word) /\ InBuffer \in Seq(Word) /\ Accepted \in Seq(Word)
      BY <1>1, <1>3
    <3>. QED BY <3>1
  <2>4. q \in Seq(Word)
    BY <1>1, <1>2
  <2>. QED BY <2>2, <2>3, <2>4
<1>5. {alu0pc, lsupc, alu1pc, buf0.pc, buf1.pc} \subseteq Word
  BY SlotType DEF TraceInv, IInv, TypeOK, Uop
<1>6. {e0, e1, e2, e3} \subseteq Seq(Word)
  BY <1>5, IfType
<1>7. queue' = Traced(q).queue
  BY DEF Trace
<1>8. after = PCsOf(InLane0') \o PCsOf(InLane1') /\ after \in Seq(Word)
      /\ PCsOf(InLane0') \in Seq(Word) /\ PCsOf(InLane1') \in Seq(Word)
  <2>1. InLane0' \in Seq(CommitLine) /\ InLane1' \in Seq(CommitLine)
    BY NewLaneTypes
  <2>. QED BY <1>2, <2>1, PCsOfLines
<1>. DEFINE Goal == /\ Traced(q).out = Written
                    /\ queue' \in Seq(Word) /\ InOrderIn(after \o InBuffer', queue')
<1>9. ASSUME NEW rest \in Seq(Word),
             before \o (InBuffer \o Accepted) = e0 \o (e1 \o (e2 \o (e3 \o rest))),
             InOrderIn(after \o InBuffer', rest)
      PROVE  Goal
  <2>1. InOrderIn(e0 \o (e1 \o (e2 \o (e3 \o rest))), q)
    BY <1>4, <1>9
  <2>2. /\ Traced(q).out = Written /\ Traced(q).queue \in Seq(Word)
        /\ InOrderIn(rest, Traced(q).queue)
    <3>. HIDE DEF q
    <3>. QED BY <1>4, <2>1, MatchesAll DEF Written
  <2>3. after \o InBuffer' \in Seq(Word)
    <3>. HIDE DEF after
    <3>. QED BY <1>1, <1>8
  <2>. HIDE DEF after, q
  <2>4. InOrderIn(after \o InBuffer', queue')
    BY <1>7, <1>9, <2>2, <2>3, OrderComposes
  <2>. QED BY <1>7, <2>2, <2>4
<1>. HIDE DEF Goal
<1>10. ASSUME LsuStall PROVE Goal
  <2>1. ~Alu0Done /\ ~LsuDone /\ ~Alu1Done /\ ~BranchDone /\ ~Issue0
    BY <1>10, DoneNow DEF TraceInv, BranchDone
  <2>. DEFINE rest == before \o (InBuffer \o Accepted)
  <2>2. e0 = << >> /\ e1 = << >> /\ e2 = << >> /\ e3 = << >>
    BY <2>1 DEF If
  <2>3. rest \in Seq(Word)
    <3>. HIDE DEF before
    <3>. QED BY <1>1, <1>3
  <2>4. rest = e0 \o (e1 \o (e2 \o (e3 \o rest)))
    <3>. HIDE DEF rest, e0, e1, e2, e3
    <3>. QED BY <2>2, <2>3, Associative
  <2>5. after = before
    BY <1>2, <1>10, HeldLines
  <2>6. InOrderIn(after \o InBuffer', rest)
    <3>1. after \o InBuffer' = rest
      BY <1>1, <2>1, <2>5
    <3>. HIDE DEF after, rest
    <3>. QED BY <2>3, <3>1, OrderOfItself
  <2>. HIDE DEF before, after, rest, e0, e1, e2, e3
  <2>. QED BY <1>9, <2>3, <2>4, <2>6 DEF rest
<1>11. ASSUME ~LsuStall PROVE Goal
  <2>1. PCsOf(InLane0) = e0 \o e1 /\ PCsOf(InLane1) = e2
    BY <1>11, LanePCs
  <2>2. before \o (InBuffer \o Accepted) = e0 \o (e1 \o (e2 \o (InBuffer \o Accepted)))
    <3>. DEFINE b == InBuffer \o Accepted
    <3>1. b \in Seq(Word)
      BY <1>1
    <3>. HIDE DEF b, before, e0, e1, e2, e3
    <3>2. before = (e0 \o e1) \o e2
      BY <1>3, <2>1
    <3>3. ((e0 \o e1) \o e2) \o b = e0 \o (e1 \o (e2 \o b))
      <4>1. /\ e0 \in Seq(Word) /\ e1 \in Seq(Word) /\ e2 \in Seq(Word)
            /\ e0 \o e1 \in Seq(Word) /\ e2 \o b \in Seq(Word)
        BY <1>6, <3>1, Associative
      <4>. DEFINE c == e0 \o e1
                  d == e2 \o b
      <4>2. (c \o e2) \o b = c \o (e2 \o b)
        <5>1. c \in Seq(Word) /\ e2 \in Seq(Word) /\ b \in Seq(Word)
          BY <3>1, <4>1
        <5>. HIDE DEF c
        <5>. QED BY <5>1
      <4>3. (e0 \o e1) \o d = e0 \o (e1 \o d)
        <5>1. d \in Seq(Word) /\ e0 \in Seq(Word) /\ e1 \in Seq(Word)
          BY <4>1
        <5>. HIDE DEF d
        <5>. QED BY <5>1
      <4>. QED BY <4>2, <4>3
    <3>. QED BY <3>2, <3>3 DEF b
  <2>3. CASE ~Issue0
    <3>1. InLane0' = << >> /\ InLane1' = << >> /\ ~BranchDone
      BY <1>11, <2>3, NewLines, DoneNow DEF BranchDone, LineOf, TraceInv
    <3>2. after = << >> /\ e3 = << >>
      BY <1>8, <3>1, NoPC DEF If
    <3>. DEFINE rest == InBuffer \o Accepted
    <3>3. rest \in Seq(Word) /\ InBuffer' = rest
      BY <1>1, <2>3
    <3>. HIDE DEF after, before, rest, e0, e1, e2, e3
    <3>4. after \o InBuffer' = rest /\ e3 \o rest = rest
      BY <3>2, <3>3, Associative
    <3>5. InOrderIn(after \o InBuffer', rest)
      BY <3>3, <3>4, OrderOfItself
    <3>6. before \o (InBuffer \o Accepted) = e0 \o (e1 \o (e2 \o (e3 \o rest)))
      BY <2>2, <3>4 DEF rest
    <3>. QED BY <1>9, <3>3, <3>5, <3>6
  <2>4. CASE Issue0
    <3>. DEFINE left == If(~BranchDone, buf0.pc) \o If(buf1.valid, buf1.pc)
                rest == left \o Accepted
    <3>1. left \in Seq(Word) /\ rest \in Seq(Word)
      <4>1. If(~BranchDone, buf0.pc) \in Seq(Word) /\ If(buf1.valid, buf1.pc) \in Seq(Word)
        BY <1>5, IfType
      <4>2. left \in Seq(Word)
        BY <4>1, Associative
      <4>. HIDE DEF left
      <4>. QED BY <1>1, <4>2, Associative
    <3>2. InBuffer = e3 \o left
      <4>1. InBuffer = <<buf0.pc>> \o If(buf1.valid, buf1.pc)
        BY <2>4 DEF InBuffer, Issue0, If
      <4>2. If(buf1.valid, buf1.pc) \in Seq(Word) /\ <<buf0.pc>> \in Seq(Word)
        BY <1>5, IfType
      <4>3. CASE BranchDone
        <5>1. e3 = <<buf0.pc>> /\ If(~BranchDone, buf0.pc) = << >>
          BY <4>3 DEF If
        <5>. QED BY <4>1, <4>2, <5>1, Associative
      <4>4. CASE ~BranchDone
        <5>1. e3 = << >> /\ If(~BranchDone, buf0.pc) = <<buf0.pc>>
          BY <4>4 DEF If
        <5>2. left = <<buf0.pc>> \o If(buf1.valid, buf1.pc)
          BY <5>1
        <5>. HIDE DEF left
        <5>. QED BY <3>1, <4>1, <5>1, <5>2, Associative
      <4>. QED BY <4>3, <4>4
    <3>3. after = If(~BranchDone /\ Watched(buf0), buf0.pc) \o If(Issue1 /\ Watched(buf1), buf1.pc)
      BY <1>8, <1>11, <2>4, NewPCs
    <3>4. InOrderIn(after, left)
      <4>1. Issue1 /\ Watched(buf1) => buf1.valid
        BY DoneNow DEF TraceInv
      <4>. HIDE DEF after
      <4>. QED BY <1>5, <3>3, <4>1, OrderOfTwo
    <3>. HIDE DEF left, after
    <3>5. InOrderIn(after \o InBuffer', rest)
      BY <1>1, <1>8, <2>4, <3>1, <3>4, OrderGrows
    <3>6. InBuffer \o Accepted = e3 \o rest
      <4>1. e3 \in Seq(Word) /\ left \in Seq(Word) /\ Accepted \in Seq(Word)
        BY <1>1, <1>6, <3>1
      <4>. HIDE DEF e3
      <4>2. (e3 \o left) \o Accepted = e3 \o (left \o Accepted)
        BY <4>1
      <4>. QED BY <3>2, <4>2
    <3>. HIDE DEF rest, before, e0, e1, e2, e3
    <3>7. before \o (InBuffer \o Accepted) = e0 \o (e1 \o (e2 \o (e3 \o rest)))
      BY <2>2, <3>6
    <3>. QED BY <1>9, <3>1, <3>5, <3>7
  <2>. QED BY <2>3, <2>4
<1>. QED BY <1>10, <1>11 DEF Goal

----------------------------------------------------------------------------
LEMMA InitTraceInv == TraceInit => TraceInv
<1>. SUFFICES ASSUME TraceInit PROVE TraceInv
  OBVIOUS
<1>1. IInv
  BY InitIInv DEF TraceInit
<1>2. {alu0pc, alu1pc, lsupc} \subseteq Word /\ queue \in Seq(Word)
  BY UopAssumption DEF TraceInit
<1>3. ~alu0.v /\ ~alu1.v /\ ~lsu.v /\ ~buf0.valid
  BY DEF TraceInit, Init, NoEntry, NoRequest, Bubble
<1>4. << >> \o << >> = << >> /\ << >> \in Seq(Word)
  OBVIOUS
<1>5. due = InLane0 \o InLane1 /\ InBuffer = << >> /\ PCsOf(due) = << >> /\ queue = << >>
  BY <1>3, <1>4, NoPC DEF TraceInit, InLane0, InLane1, InBuffer
<1>6. InOrderIn(PCsOf(due) \o InBuffer, queue)
  BY <1>4, <1>5, OrderOfItself
<1>. QED BY <1>1, <1>2, <1>5, <1>6 DEF TraceInv

LEMMA PCTypes ==
  ASSUME TraceInv, LatchPCs PROVE {alu0pc', alu1pc', lsupc'} \subseteq Word
<1>1. buf0.pc \in Word /\ buf1.pc \in Word
  BY SlotType DEF TraceInv, IInv, TypeOK, Uop
<1>. QED BY <1>1, UopAssumption DEF LatchPCs, TraceInv

LEMMA TraceInvInductive == TraceInv /\ [TraceNext]_tvars => TraceInv'
<1>1. ASSUME TraceInv, TraceNext PROVE TraceInv'
  <2>1. IInv'
    BY <1>1, NextIInv DEF TraceInv, TraceNext
  <2>2. due' = InLane0' \o InLane1'
    BY <1>1, DueMoves DEF TraceNext
  <2>3. queue' \in Seq(Word) /\ InOrderIn(PCsOf(due') \o InBuffer', queue')
    BY <1>1, <2>1, QueueMoves DEF TraceNext
  <2>4. {alu0pc', alu1pc', lsupc'} \subseteq Word
    BY <1>1, PCTypes DEF TraceNext
  <2>5. InOrderIn(PCsOf(due) \o InBuffer, queue)'
    BY <2>3 DEF InOrderIn, PCsOf
  <2>. QED BY <2>1, <2>2, <2>3, <2>4, <2>5 DEF TraceInv
<1>2. ASSUME TraceInv, UNCHANGED tvars PROVE TraceInv'
  <2>1. IInv'
    BY <1>2, NextIInv DEF TraceInv, tvars, vars
  <2>2. /\ UNCHANGED <<alu0pc, alu1pc, lsupc, queue, due>>
        /\ UNCHANGED <<InLane0, InLane1, InBuffer>>
    BY <1>2 DEF tvars, InLane0, InLane1, InBuffer, AluLine, LsuLine, LoadData
  <2>3. InOrderIn(PCsOf(due) \o InBuffer, queue)'
    <3>1. InOrderIn(PCsOf(due') \o InBuffer', queue')
      <4>1. due' = due /\ InBuffer' = InBuffer /\ queue' = queue
        BY <2>2
      <4>. QED BY <1>2, <4>1 DEF TraceInv
    <3>. QED BY <3>1 DEF InOrderIn, PCsOf
  <2>. QED BY <1>2, <2>1, <2>2, <2>3 DEF TraceInv
<1>. QED BY <1>1, <1>2

LEMMA TraceInvariant == TraceSpec => []TraceInv
BY InitTraceInv, TraceInvInductive, PTL DEF TraceSpec

(* What the tracer still waits for is in its queue, in order, however many *)
(* flushed instructions stand before it and between.                       *)
THEOREM NothingDueIsLost == TraceSpec => []DueIsQueued
<1>1. TraceInv => DueIsQueued
  <2>. SUFFICES ASSUME TraceInv PROVE DueIsQueued
    OBVIOUS
  <2>. DEFINE s == PCsOf(due)
              t == PCsOf(due) \o InBuffer
  <2>1. due \in Seq(CommitLine)
    BY LaneTypes DEF TraceInv
  <2>2. s \in Seq(Word)
    BY <2>1, PCsOfLines
  <2>3. InBuffer \in Seq(Word)
    <3>1. buf0.pc \in Word /\ buf1.pc \in Word
      BY SlotType DEF TraceInv, IInv, TypeOK, Uop
    <3>. QED BY <3>1 DEF InBuffer
  <2>. HIDE DEF s
  <2>4. t \in Seq(Word) /\ InOrderIn(s, t)
    BY <2>2, <2>3, OrderOfPrefix DEF s
  <2>5. InOrderIn(t, queue) /\ queue \in Seq(Word)
    BY DEF TraceInv
  <2>. HIDE DEF t
  <2>6. InOrderIn(s, queue)
    BY <2>2, <2>4, <2>5, OrderComposes
  <2>. QED BY <2>6 DEF DueIsQueued, s
<1>. QED BY <1>1, TraceInvariant, PTL

(* The lines of every cycle are the next lines of the architectural        *)
(* execution: none is lost, repeated, out of order or of a flushed         *)
(* instruction.                                                            *)
THEOREM TraceIsTheProgram == TraceSpec => TraceFollowsProgram
<1>. DEFINE Says == Traced(queue \o Accepted).out = SubSeq(due \o DispatchedLines, 1, NumDone)
<1>1. TraceInv /\ TraceInv' /\ [TraceNext]_tvars => [Says]_tvars
  <2>1. ASSUME TraceInv, TraceInv', TraceNext PROVE Says
    <3>1. IInv'
      BY <2>1 DEF TraceInv
    <3>2. Traced(queue \o Accepted).out = Written
      BY <2>1, <3>1, QueueMoves DEF TraceNext
    <3>3. Written = SubSeq(due \o DispatchedLines, 1, NumDone)
      BY <2>1, DueMoves DEF TraceNext
    <3>. QED BY <3>2, <3>3
  <2>. HIDE DEF Says
  <2>. QED BY <2>1
<1>. QED BY <1>1, TraceInvariant, PTL DEF TraceSpec, TraceFollowsProgram
=============================================================================
