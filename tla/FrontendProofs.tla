--------------------------- MODULE FrontendProofs ---------------------------
(* Proofs about the front end, for every program, queue depth, prediction  *)
(* and choice of redirect targets.                                         *)
EXTENDS Frontend, SequenceTheorems, TLAPS

E == Stream!Entry

----------------------------------------------------------------------------
(* Addresses: words, blocks, and the instruction after one.                *)

LEMMA AddressFacts ==
  ASSUME NEW p \in Addr
  PROVE  /\ p \in Nat /\ Word(p) \in Addr /\ Block(p) \in Addr /\ Block(p) + 2 \in Addr
         /\ Word(Block(p)) = Block(p) /\ Word(Block(p) + 2) = Block(p) + 2
         /\ p % 4 < 2 => Word(p) = Block(p)
         /\ p % 4 >= 2 => Word(p) = Block(p) + 2
         /\ Word(Word(p)) = Word(p)
<1>1. Size \in Nat /\ Size > 0 /\ Size % 4 = 0
  BY FrontendAssumption
<1>2. p \in Nat /\ p < Size
  BY <1>1 DEF Addr
<1>. QED BY <1>1, <1>2, SMTT(30) DEF Addr, Word, Block

LEMMA AfterFacts ==
  ASSUME NEW p \in Addr
  PROVE  /\ After(p) \in Addr
         /\ p + 2 \in Addr => After(p) = p + 2
<1>1. Size \in Nat /\ Size > 0
  BY FrontendAssumption
<1>. QED BY <1>1, SMTT(30) DEF Addr, After

LEMMA StreamNames ==
  /\ Stream!Addr = Addr
  /\ \A a : Stream!Word(a) = Word(a) /\ Stream!After(a) = After(a)
  /\ Stream!Words = {Word(a) : a \in Addr}
BY DEF Stream!Addr, Addr, Stream!Word, Word, Stream!After, After, Stream!Words

LEMMA ProgramType ==
  ASSUME NEW a \in Addr, Word(a) = a
  PROVE  a \in Stream!Words /\ Program[a] \in Stream!Instr
BY FrontendAssumption, StreamNames

----------------------------------------------------------------------------
(* What a fetch pushes: at most two entries, a legal path from pc_q to     *)
(* where pc_q goes on.                                                     *)
Extends(g, from, to) ==
  /\ g \in Seq(E) /\ Len(g) <= 2 /\ Path(g)
  /\ g = << >> => to = from
  /\ g # << >> => g[1].pc = Word(from) /\ to = g[Len(g)].predTarget

(* A correct entry for the instruction at a. *)
EntryOk(e, a) ==
  /\ e \in E /\ Stream!Legal(e) /\ e.pc = a
  /\ ~e.predTaken => e.predTarget = After(a)

LEMMA EntryFacts ==
  ASSUME NEW a \in Addr, Word(a) = a, NEW asked \in BOOLEAN, NEW retOk \in BOOLEAN,
         NEW h \in Hint
  PROVE  EntryOk(EntryAt(a, Program[a], asked, retOk, h), a)
<1>. DEFINE i == Program[a]
            e == EntryAt(a, i, asked, retOk, h)
            taken == Predicted(i, asked, retOk, h)
<1>1. /\ i \in [kind : {"seq", "branch", "jal", "jalr"}, target : Addr, ret : BOOLEAN]
      /\ a \in Stream!Words /\ After(a) \in Addr
  BY ProgramType, AfterFacts, StreamNames DEF Stream!Instr
<1>2. /\ h.bpuTaken \in BOOLEAN /\ h.rasValid \in BOOLEAN
      /\ h.bpuTarget \in Addr /\ h.rasTop \in Addr
  BY FrontendAssumption DEF Hint
<1>3. taken \in BOOLEAN
  BY <1>1, <1>2 DEF Predicted
<1>4. e = [pc |-> a, instr |-> i, predTaken |-> taken,
           predTarget |-> IF taken THEN Target(i, h) ELSE After(a)]
  BY DEF EntryAt
<1>5. Target(i, h) \in Addr /\ (i.kind = "jal" => Target(i, h) = i.target)
  BY <1>1, <1>2 DEF Target
<1>6. i \in Stream!Instr
  BY <1>1, StreamNames DEF Stream!Instr
<1>7. e \in E
  BY <1>1, <1>3, <1>4, <1>5, <1>6, StreamNames DEF E, Stream!Entry
<1>8. /\ taken => i.kind # "seq" /\ (i.kind = "jalr" => i.ret)
      /\ i.kind = "jal" => taken
  BY <1>1 DEF Predicted
<1>9. Stream!Legal(e)
  BY <1>3, <1>4, <1>5, <1>8, StreamNames DEF Stream!Legal
<1>. QED BY <1>3, <1>4, <1>7, <1>9 DEF EntryOk

LEMMA GroupFacts ==
  ASSUME NEW p \in Addr, NEW h \in Hint, NEW g, g = Group(p, Block(p), h)
  PROVE  /\ g # << >> /\ g[Len(g)].predTarget \in Addr
         /\ Extends(g, p, g[Len(g)].predTarget)
<1>. DEFINE s0 == Slot0(p, Block(p), h)
            s1 == Slot1(p, Block(p), h)
<1>0. /\ Block(p) \in Addr /\ Word(Block(p)) = Block(p)
      /\ Block(p) + 2 \in Addr /\ Word(Block(p) + 2) = Block(p) + 2
  BY AddressFacts
<1>1. s0 \in E /\ Stream!Legal(s0) /\ s0.pc = Block(p)
      /\ (~s0.predTaken => s0.predTarget = Block(p) + 2)
  <2>1. s0 = EntryAt(Block(p), Program[Block(p)], TRUE, TRUE, h)
    BY DEF Slot0
  <2>2. After(Block(p)) = Block(p) + 2
    BY <1>0, AfterFacts
  <2>3. EntryOk(s0, Block(p))
    BY <1>0, <2>1, EntryFacts
  <2>. QED BY <2>2, <2>3 DEF EntryOk
<1>2. s1 \in E /\ Stream!Legal(s1) /\ s1.pc = Block(p) + 2
  <2>. DEFINE a == Block(p) + 2
              asked == p % 4 < 2 => Program[Block(p)].kind \notin {"branch", "jal"}
              retOk == p % 4 < 2 => Program[Block(p)].kind # "jalr"
  <2>1. s1 = EntryAt(a, Program[a], asked, retOk, h)
    BY DEF Slot1
  <2>2. a \in Addr /\ Word(a) = a /\ asked \in BOOLEAN /\ retOk \in BOOLEAN
    BY <1>0
  <2>. HIDE DEF a, asked, retOk, s1
  <2>3. EntryOk(s1, a)
    BY <2>1, <2>2, EntryFacts
  <2>. QED BY <2>3 DEF EntryOk, a
<1>3. s0.predTarget \in Addr /\ s1.predTarget \in Addr
  BY <1>1, <1>2, StreamNames DEF E, Stream!Entry
<1>4. p % 4 < 2 \/ p % 4 >= 2
  BY AddressFacts
<1>5. ASSUME NEW e \in E, Stream!Legal(e), e.pc = Word(p), g = <<e>>,
             e.predTarget \in Addr
      PROVE  /\ g # << >> /\ g[Len(g)].predTarget \in Addr
             /\ Extends(g, p, g[Len(g)].predTarget)
  BY <1>5 DEF Extends, Path
<1>6. CASE p % 4 >= 2
  <2>1. g = <<s1>> /\ s1.pc = Word(p)
    BY <1>2, <1>6, AddressFacts DEF Group
  <2>. HIDE DEF s1
  <2>. QED BY <1>2, <1>3, <1>5, <2>1
<1>7. CASE p % 4 < 2 /\ s0.predTaken
  <2>1. g = <<s0>> /\ s0.pc = Word(p)
    BY <1>1, <1>4, <1>7, AddressFacts DEF Group
  <2>. HIDE DEF s0
  <2>. QED BY <1>1, <1>3, <1>5, <2>1
<1>8. CASE p % 4 < 2 /\ ~s0.predTaken
  <2>1. g = <<s0, s1>> /\ s0.pc = Word(p) /\ s1.pc = Word(s0.predTarget)
    BY <1>1, <1>2, <1>4, <1>8, AddressFacts DEF Group
  <2>. HIDE DEF s0, s1
  <2>2. g \in Seq(E) /\ Len(g) = 2 /\ g[1] = s0 /\ g[2] = s1
    BY <1>1, <1>2, <2>1
  <2>3. Path(g)
    BY <1>1, <1>2, <2>1, <2>2 DEF Path
  <2>. QED BY <1>3, <2>1, <2>2, <2>3 DEF Extends
<1>. QED BY <1>4, <1>6, <1>7, <1>8

----------------------------------------------------------------------------
(* Paths: their parts and their extension.                                 *)

LEMMA Regroup ==
  ASSUME NEW s \in Seq(E), NEW t \in Seq(E), NEW u \in Seq(E)
  PROVE  (s \o t) \o u = s \o (t \o u)
BY ConcatAssociative

LEMMA CutInTwo ==
  ASSUME NEW s \in Seq(E), NEW k \in 0..Len(s)
  PROVE  SubSeq(s, 1, k) \o SubSeq(s, k + 1, Len(s)) = s
<1>1. 1 \in 1..Len(s) + 1 /\ k \in 1 - 1..Len(s) /\ Len(s) \in k..Len(s)
  BY LenProperties
<1>2. SubSeq(s, 1, k) \o SubSeq(s, k + 1, Len(s)) = SubSeq(s, 1, Len(s))
  BY <1>1, ConcatAdjacentSubSeq, Zenon
<1>. QED BY <1>2, SubSeqFull, Zenon

(* Behind a prefix, a path is still a path and ends where it ended.        *)
LEMMA SuffixOfPath ==
  ASSUME NEW s \in Seq(E), NEW t \in Seq(E), NEW p, Path(s \o t), EndsAt(s \o t, p)
  PROVE  Path(t) /\ EndsAt(t, p)
<1>. DEFINE u == s \o t
<1>1. /\ Len(s) \in Nat /\ Len(t) \in Nat /\ Len(u) = Len(s) + Len(t)
      /\ \A i \in 1..Len(t) : t[i] = u[Len(s) + i]
  BY ConcatProperties, LenProperties
<1>2. Path(u) /\ EndsAt(u, p)
  OBVIOUS
<1>. HIDE DEF u
<1>3. ASSUME NEW i \in 1..Len(t) PROVE Stream!Legal(t[i])
  BY <1>1, <1>2, Len(s) + i \in 1..Len(u) DEF Path
<1>4. ASSUME NEW i \in 1..Len(t) - 1 PROVE t[i + 1].pc = Word(t[i].predTarget)
  <2>1. /\ Len(s) + i \in 1..Len(u) - 1 /\ i \in 1..Len(t) /\ i + 1 \in 1..Len(t)
        /\ Len(s) + (i + 1) = (Len(s) + i) + 1
    BY <1>1
  <2>2. u[(Len(s) + i) + 1].pc = Word(u[Len(s) + i].predTarget)
    BY <1>2, <2>1 DEF Path
  <2>. QED BY <1>1, <2>1, <2>2
<1>5. ASSUME t # << >> PROVE Word(p) = Word(t[Len(t)].predTarget)
  <2>1. Len(t) \in 1..Len(t) /\ Len(u) > 0
    BY <1>1, <1>5, EmptySeq
  <2>2. u # << >> /\ t[Len(t)] = u[Len(u)]
    BY <1>1, <2>1
  <2>. QED BY <1>2, <2>2 DEF EndsAt
<1>. QED BY <1>3, <1>4, <1>5 DEF Path, EndsAt

(* What comes first of a path is a path.                                   *)
LEMMA PrefixOfPath ==
  ASSUME NEW s \in Seq(E), NEW t \in Seq(E), Path(s \o t)
  PROVE  Path(s)
<1>. DEFINE u == s \o t
<1>1. /\ Len(s) \in Nat /\ Len(t) \in Nat /\ Len(u) = Len(s) + Len(t)
      /\ \A i \in 1..Len(s) : u[i] = s[i]
  BY ConcatProperties, LenProperties
<1>2. Path(u)
  OBVIOUS
<1>. HIDE DEF u
<1>3. ASSUME NEW i \in 1..Len(s) PROVE Stream!Legal(s[i])
  BY <1>1, <1>2, i \in 1..Len(u) DEF Path
<1>4. ASSUME NEW i \in 1..Len(s) - 1 PROVE s[i + 1].pc = Word(s[i].predTarget)
  <2>1. i \in 1..Len(u) - 1 /\ i \in 1..Len(s) /\ i + 1 \in 1..Len(s)
    BY <1>1
  <2>. QED BY <1>1, <1>2, <2>1 DEF Path
<1>. QED BY <1>3, <1>4 DEF Path

(* A path that ends at pc_q, extended by a fetched group, is a path that   *)
(* ends at the new pc_q.                                                   *)
LEMMA ExtendedPath ==
  ASSUME NEW s \in Seq(E), NEW g, NEW p, NEW q,
         Path(s), EndsAt(s, p), Extends(g, p, q)
  PROVE  s \o g \in Seq(E) /\ Path(s \o g) /\ EndsAt(s \o g, q)
<1>. DEFINE u == s \o g
<1>1. g \in Seq(E) /\ Path(g)
  BY DEF Extends
<1>2. /\ u \in Seq(E) /\ Len(s) \in Nat /\ Len(g) \in Nat /\ Len(u) = Len(s) + Len(g)
      /\ \A i \in 1..Len(u) : u[i] = IF i <= Len(s) THEN s[i] ELSE g[i - Len(s)]
  BY <1>1, ConcatProperties, LenProperties
<1>3. g = << >> => u = s
  BY ConcatEmptySeq
<1>. HIDE DEF u
<1>4. CASE g = << >>
  BY <1>2, <1>3, <1>4 DEF Extends, u
<1>5. CASE g # << >>
  <2>1. Len(g) > 0 /\ g[1].pc = Word(p) /\ q = g[Len(g)].predTarget
    BY <1>1, <1>2, <1>5, EmptySeq DEF Extends
  <2>2. ASSUME NEW i \in 1..Len(u) PROVE Stream!Legal(u[i])
    <3>1. CASE i <= Len(s)
      BY <1>2, <3>1, i \in 1..Len(s) DEF Path
    <3>2. CASE ~(i <= Len(s))
      BY <1>1, <1>2, <3>2, i - Len(s) \in 1..Len(g) DEF Path
    <3>. QED BY <3>1, <3>2
  <2>3. ASSUME NEW i \in 1..Len(u) - 1 PROVE u[i + 1].pc = Word(u[i].predTarget)
    <3>0. i \in Nat /\ i \in 1..Len(u) /\ i + 1 \in 1..Len(u)
      BY <1>2
    <3>1. CASE i + 1 <= Len(s)
      <4>1. i \in 1..Len(s) - 1 /\ u[i] = s[i] /\ u[i + 1] = s[i + 1]
        BY <1>2, <3>0, <3>1
      <4>. QED BY <4>1 DEF Path
    <3>2. CASE i = Len(s)
      <4>1. u[i] = s[Len(s)] /\ u[i + 1] = g[1] /\ Len(s) > 0
        BY <1>2, <3>0, <3>2
      <4>2. s # << >>
        BY <4>1
      <4>. QED BY <2>1, <4>1, <4>2 DEF EndsAt
    <3>3. CASE i > Len(s)
      <4>1. /\ i - Len(s) \in 1..Len(g) - 1 /\ u[i] = g[i - Len(s)]
            /\ u[i + 1] = g[(i - Len(s)) + 1]
        BY <1>2, <3>0, <3>3, (i + 1) - Len(s) = (i - Len(s)) + 1
      <4>. QED BY <1>1, <4>1 DEF Path
    <3>. QED BY <1>2, <3>0, <3>1, <3>2, <3>3
  <2>4. EndsAt(u, q)
    <3>1. u[Len(u)] = g[Len(g)]
      BY <1>2, <2>1
    <3>. QED BY <2>1, <3>1 DEF EndsAt
  <2>. QED BY <1>2, <2>2, <2>3, <2>4 DEF Path, u
<1>. QED BY <1>4, <1>5

----------------------------------------------------------------------------
(* One clock edge.                                                         *)

(* Memory and fetch stay in their types, and what is pushed extends the    *)
(* path: a block counts only if it is the one asked for.                   *)
LEMMA FetchStep ==
  ASSUME FrontInv, NEW pops \in 0..Len(queue), Fetch(pops)
  PROVE  /\ pc' \in Addr /\ slave' \in Addr \cup {Idle} /\ bus' \in Bus
         /\ \E g : /\ Extends(g, pc, pc')
                   /\ queue' = SubSeq(queue, pops + 1, Len(queue)) \o g
                   /\ Len(queue) - pops + Len(g) <= Depth
<1>. DEFINE valid == ~Full(pops)
            req   == Block(pc)
            fire(answer) == answer /\ Answers(req, valid)
            group(answer, h) == IF fire(answer) THEN Group(pc, slave, h) ELSE << >>
<1>1. PICK h \in Hint, answer \in BOOLEAN :
        /\ queue' = SubSeq(queue, pops + 1, Len(queue)) \o group(answer, h)
        /\ pc' = IF fire(answer) THEN group(answer, h)[Len(group(answer, h))].predTarget
                 ELSE pc
        /\ slave' = Captured(req, valid, answer)
        /\ bus' = [valid |-> valid, addr |-> req, flush |-> FALSE, ready |-> fire(answer)]
  BY DEF Fetch
<1>2. /\ pc \in Addr /\ slave \in Addr \cup {Idle} /\ req \in Addr
      /\ queue \in Seq(E) /\ Len(queue) \in Nat /\ Len(queue) <= Depth
      /\ Depth \in Nat
  BY AddressFacts, LenProperties, FrontendAssumption DEF FrontInv, E
<1>3. slave' \in Addr \cup {Idle}
  BY <1>1, <1>2 DEF Captured
<1>4. bus' \in Bus
  BY <1>1, <1>2 DEF Bus, Full, Answers
<1>5. CASE fire(answer)
  <2>1. slave = Block(pc) /\ valid
    BY <1>5 DEF Answers
  <2>2. Len(queue) - pops + 2 <= Depth
    BY <1>2, <2>1 DEF Full
  <2>. DEFINE g == Group(pc, Block(pc), h)
  <2>3. queue' = SubSeq(queue, pops + 1, Len(queue)) \o g /\ pc' = g[Len(g)].predTarget
    BY <1>1, <1>5, <2>1
  <2>4. g[Len(g)].predTarget \in Addr /\ Extends(g, pc, g[Len(g)].predTarget)
    BY <1>2, GroupFacts
  <2>. HIDE DEF g
  <2>5. Len(g) \in Nat /\ Len(g) <= 2
    BY <2>4, LenProperties DEF Extends
  <2>6. Len(queue) - pops + Len(g) <= Depth
    BY <1>2, <2>2, <2>5
  <2>. QED BY <1>3, <1>4, <2>3, <2>4, <2>6
<1>6. CASE ~fire(answer)
  <2>0. group(answer, h) = << >>
    BY <1>6
  <2>. HIDE DEF fire, group
  <2>1. queue' = SubSeq(queue, pops + 1, Len(queue)) \o << >> /\ pc' = pc
    BY <1>1, <1>6, <2>0, Zenon
  <2>3. Len(queue) - pops + Len(<< >>) <= Depth
    BY <1>2
  <2>2. Extends(<< >>, pc, pc')
    BY <2>1, EmptySeq DEF Extends, Path
  <2>. QED BY <1>2, <1>3, <1>4, <2>1, <2>2, <2>3
<1>. QED BY <1>5, <1>6

(* Decode moves entries from the queue to its buffer without a change in   *)
(* their order.                                                            *)
LEMMA RefillStep ==
  ASSUME FrontInv, NEW n \in 0..Len(id), Refill(n)
  PROVE  /\ pc' \in Addr /\ slave' \in Addr \cup {Idle} /\ bus' \in Bus
         /\ id' \in Seq(E) /\ Len(id') <= 2
         /\ queue' \in Seq(E) /\ Len(queue') <= Depth
         /\ \E g : /\ Extends(g, pc, pc')
                   /\ id' \o queue' = (SubSeq(id, n + 1, Len(id)) \o queue) \o g
<1>. DEFINE keep == SubSeq(id, n + 1, Len(id))
            room == 2 - Len(keep)
            pops == IF Len(queue) < room THEN Len(queue) ELSE room
            front == SubSeq(queue, 1, pops)
            back == SubSeq(queue, pops + 1, Len(queue))
<1>1. /\ queue \in Seq(E) /\ Len(queue) \in Nat /\ id \in Seq(E) /\ Len(id) \in Nat
      /\ Len(id) <= 2
      /\ \A i \in 1..Len(queue) : queue[i] \in E
      /\ \A i \in 1..Len(id) : id[i] \in E
  BY LenProperties, ElementOfSeq DEF FrontInv, E
<1>2. keep \in Seq(E) /\ Len(keep) = Len(id) - n
  BY <1>1, SubSeqProperties
<1>3. pops \in 0..Len(queue) /\ Len(keep) + pops <= 2
  BY <1>1, <1>2, SMTT(30)
<1>4. id' = keep \o front /\ Fetch(pops)
  BY DEF Refill
<1>. HIDE DEF keep, pops
<1>5. /\ front \in Seq(E) /\ Len(front) = pops
      /\ back \in Seq(E) /\ Len(back) = Len(queue) - pops
  BY <1>1, <1>3, SubSeqProperties
<1>6. front \o back = queue
  BY <1>1, <1>3, CutInTwo, Zenon
<1>7. /\ pc' \in Addr /\ slave' \in Addr \cup {Idle} /\ bus' \in Bus
      /\ \E g : /\ Extends(g, pc, pc') /\ queue' = back \o g
                /\ Len(queue) - pops + Len(g) <= Depth
  BY <1>3, <1>4, FetchStep
<1>8. PICK g : /\ Extends(g, pc, pc') /\ queue' = back \o g
               /\ Len(queue) - pops + Len(g) <= Depth
  BY <1>7
<1>. HIDE DEF front, back
<1>9. g \in Seq(E)
  BY <1>8 DEF Extends
<1>10. queue' \in Seq(E) /\ Len(queue') = Len(back) + Len(g)
  BY <1>5, <1>8, <1>9, ConcatProperties
<1>11. id' \in Seq(E) /\ Len(id') = Len(keep) + Len(front)
  BY <1>2, <1>4, <1>5, ConcatProperties
<1>12. id' \o queue' = (keep \o queue) \o g
  <2>1. (keep \o front) \o (back \o g) = keep \o (front \o (back \o g))
    BY <1>2, <1>5, <1>8, <1>9, <1>10, Regroup, ZenonT(30)
  <2>2. front \o (back \o g) = queue \o g
    BY <1>5, <1>6, <1>9, Regroup, Zenon
  <2>3. keep \o (queue \o g) = (keep \o queue) \o g
    BY <1>1, <1>2, <1>9, Regroup, Zenon
  <2>. QED BY <1>4, <1>8, <2>1, <2>2, <2>3
<1>. QED BY <1>3, <1>5, <1>7, <1>8, <1>10, <1>11, <1>12 DEF keep

(* The path behind Issue, and where it begins. *)
Rest == id \o queue
First(r, p) == IF r # << >> THEN r[1].pc ELSE Word(p)

LEMMA RestFacts ==
  ASSUME FrontInv
  PROVE  /\ bundle \in Seq(E) /\ Rest \in Seq(E)
         /\ UnderWay = bundle \o Rest
         /\ Path(bundle \o Rest) /\ EndsAt(bundle \o Rest, pc)
         /\ Path(Rest) /\ EndsAt(Rest, pc)
<1>1. bundle \in Seq(E) /\ id \in Seq(E) /\ queue \in Seq(E)
  BY DEF FrontInv, E
<1>2. Rest \in Seq(E)
  BY <1>1, ConcatProperties DEF Rest
<1>3. UnderWay = bundle \o Rest
  BY <1>1, Regroup DEF UnderWay, Rest
<1>4. Path(bundle \o Rest) /\ EndsAt(bundle \o Rest, pc)
  BY <1>3 DEF FrontInv
<1>. QED BY <1>1, <1>2, <1>3, <1>4, SuffixOfPath

(* A step that leaves s, and extends it by what was fetched.               *)
LEMMA StepPreserves ==
  ASSUME FrontInv, NEW s \in Seq(E), Path(s), EndsAt(s, pc),
         NEW g, Extends(g, pc, pc'), UnderWay' = s \o g,
         pc' \in Addr, slave' \in Addr \cup {Idle}, bus' \in Bus,
         queue' \in Seq(E), Len(queue') <= Depth, id' \in Seq(E), Len(id') <= 2,
         bundle' \in Seq(E), Len(bundle') <= 2
  PROVE  FrontInv'
<1>1. Path(UnderWay') /\ EndsAt(UnderWay', pc')
  BY ExtendedPath
<1>2. Path(UnderWay)' /\ EndsAt(UnderWay, pc)'
  BY <1>1 DEF Path, EndsAt, Stream!Legal, Stream!After, Word
<1>. QED BY <1>2 DEF FrontInv, E, Addr, Idle, Bus

(* Decode's refill, whatever Issue has taken before.                       *)
LEMMA RefillPreserves ==
  ASSUME FrontInv, NEW n \in 0..Len(id), Refill(n),
         bundle' \in Seq(E), Len(bundle') <= 2,
         NEW r, r = SubSeq(id, n + 1, Len(id)) \o queue,
         Path(bundle' \o r), EndsAt(bundle' \o r, pc)
  PROVE  FrontInv' /\ \E g : Extends(g, pc, pc') /\ Rest' = r \o g
<1>1. /\ pc' \in Addr /\ slave' \in Addr \cup {Idle} /\ bus' \in Bus
      /\ id' \in Seq(E) /\ Len(id') <= 2
      /\ queue' \in Seq(E) /\ Len(queue') <= Depth
      /\ \E g : Extends(g, pc, pc') /\ id' \o queue' = r \o g
  BY RefillStep
<1>2. PICK g : Extends(g, pc, pc') /\ id' \o queue' = r \o g
  BY <1>1
<1>3. r \in Seq(E) /\ g \in Seq(E)
  <2>1. /\ id \in Seq(E) /\ queue \in Seq(E) /\ Len(id) \in Nat
        /\ \A i \in 1..Len(id) : id[i] \in E
    BY LenProperties, ElementOfSeq DEF FrontInv, E
  <2>2. SubSeq(id, n + 1, Len(id)) \in Seq(E)
    BY <2>1, SubSeqProperties
  <2>. QED BY <1>2, <2>1, <2>2, ConcatProperties DEF Extends
<1>4. bundle' \o r \in Seq(E)
  BY <1>3, ConcatProperties
<1>5. UnderWay' = (bundle' \o r) \o g
  <2>1. UnderWay' = bundle' \o (id' \o queue')
    BY <1>1, Regroup DEF UnderWay
  <2>2. bundle' \o (r \o g) = (bundle' \o r) \o g
    BY <1>3, Regroup
  <2>. QED BY <1>2, <2>1, <2>2
<1>6. FrontInv'
  BY <1>1, <1>2, <1>4, <1>5, StepPreserves
<1>. QED BY <1>2, <1>6 DEF Rest

LEMMA InitFrontInv == Init => FrontInv
<1>. SUFFICES ASSUME Init PROVE FrontInv
  OBVIOUS
<1>1. UnderWay = << >>
  BY DEF Init, UnderWay
<1>2. Path(UnderWay) /\ EndsAt(UnderWay, pc)
  BY <1>1 DEF Path, EndsAt
<1>3. 0 \in Addr /\ ResetPC \in Addr /\ Depth \in Nat
  BY FrontendAssumption DEF Addr
<1>4. {queue, id, bundle} \subseteq Seq(Stream!Entry)
  BY DEF Init
<1>. QED BY <1>2, <1>3, <1>4 DEF FrontInv, Init, Bus, Idle

(* Issue holds: what it is offered grows at its end.                       *)
LEMMA HoldPreserves ==
  ASSUME FrontInv, Hold
  PROVE  FrontInv' /\ \E g : Extends(g, pc, pc') /\ Rest' = Rest \o g
<1>1. /\ bundle' = bundle /\ Refill(0) /\ Len(id) \in Nat /\ Len(bundle) <= 2
      /\ id \in Seq(E)
  BY LenProperties DEF Hold, FrontInv, E
<1>2. Rest = SubSeq(id, 0 + 1, Len(id)) \o queue
  BY <1>1, SubSeqFull DEF Rest
<1>3. 0 \in 0..Len(id) /\ bundle' \in Seq(E) /\ Len(bundle') <= 2
  BY <1>1, RestFacts
<1>4. Path(bundle' \o Rest) /\ EndsAt(bundle' \o Rest, pc)
  BY <1>1, RestFacts
<1>5. PICK r : r = Rest
  OBVIOUS
<1>6. FrontInv' /\ \E g : Extends(g, pc, pc') /\ Rest' = r \o g
  BY <1>1, <1>2, <1>3, <1>4, <1>5, RefillPreserves
<1>. QED BY <1>5, <1>6

(* Issue drains: the path behind the bundle is what remains.               *)
LEMMA DrainPreserves ==
  ASSUME FrontInv, Drain
  PROVE  FrontInv' /\ \E g : Extends(g, pc, pc') /\ Rest' = Rest \o g
<1>1. bundle' = << >> /\ Refill(0) /\ Len(id) \in Nat /\ id \in Seq(E)
  BY LenProperties DEF Drain, FrontInv, E
<1>2. Rest = SubSeq(id, 0 + 1, Len(id)) \o queue
  BY <1>1, SubSeqFull DEF Rest
<1>3. bundle' \in Seq(E) /\ Len(bundle') <= 2 /\ bundle' \o Rest = Rest
  BY <1>1, RestFacts, ConcatEmptySeq
<1>4. Path(bundle' \o Rest) /\ EndsAt(bundle' \o Rest, pc) /\ 0 \in 0..Len(id)
  BY <1>1, <1>3, RestFacts
<1>5. PICK r : r = Rest
  OBVIOUS
<1>6. FrontInv' /\ \E g : Extends(g, pc, pc') /\ Rest' = r \o g
  BY <1>1, <1>2, <1>3, <1>4, <1>5, RefillPreserves
<1>. QED BY <1>5, <1>6

(* Issue takes the first one or two of what it is offered.                 *)
LEMMA TakePreserves ==
  ASSUME FrontInv, NEW n \in 1..Len(id), bundle' = SubSeq(id, 1, n), Refill(n)
  PROVE  /\ FrontInv' /\ bundle' \in Seq(E) /\ Len(bundle') = n /\ bundle'[1] = id[1]
<1>1. /\ id \in Seq(E) /\ queue \in Seq(E) /\ Len(id) \in Nat /\ Len(id) <= 2
      /\ \A i \in 1..Len(id) : id[i] \in E
  BY LenProperties, ElementOfSeq DEF FrontInv, E
<1>. DEFINE keep == SubSeq(id, n + 1, Len(id))
            r == keep \o queue
<1>2. bundle' \in Seq(E) /\ Len(bundle') = n /\ bundle'[1] = id[1] /\ keep \in Seq(E)
  BY <1>1, SubSeqProperties
<1>3. bundle' \o r = Rest
  <2>1. (bundle' \o keep) \o queue = bundle' \o r
    BY <1>1, <1>2, Regroup, ZenonT(30)
  <2>2. bundle' \o keep = id
    BY <1>1, CutInTwo
  <2>. QED BY <2>1, <2>2 DEF Rest
<1>4. Path(bundle' \o r) /\ EndsAt(bundle' \o r, pc)
  BY <1>3, RestFacts
<1>5. n \in 0..Len(id) /\ Len(bundle') <= 2
  BY <1>1, <1>2
<1>. HIDE DEF keep
<1>6. FrontInv'
  BY <1>2, <1>4, <1>5, RefillPreserves DEF keep
<1>. QED BY <1>2, <1>6

(* Issue redirects: nothing is left under way.                             *)
LEMMA RedirectPreserves == FrontInv /\ Redirect => FrontInv'
<1>. SUFFICES ASSUME FrontInv, Redirect PROVE FrontInv'
  OBVIOUS
<1>1. /\ pc' \in Addr /\ slave' \in Addr \cup {Idle} /\ bus' \in Bus
  BY AddressFacts, FrontendAssumption DEF Redirect, FrontInv, Bus
<1>2. UnderWay' = << >>
  BY DEF Redirect, UnderWay
<1>3. Path(UnderWay)' /\ EndsAt(UnderWay, pc)'
  BY <1>2 DEF Path, EndsAt
<1>4. ({queue, id, bundle} \subseteq Seq(Stream!Entry))'
  BY DEF Redirect
<1>5. Depth \in Nat
  BY FrontendAssumption
<1>. QED BY <1>1, <1>3, <1>4, <1>5 DEF FrontInv, Redirect, Addr, Idle, Bus

LEMMA NextFrontInv == FrontInv /\ [Next]_vars => FrontInv'
<1>. SUFFICES ASSUME FrontInv, [Next]_vars PROVE FrontInv'
  OBVIOUS
<1>1. CASE Hold
  BY <1>1, HoldPreserves
<1>2. CASE Take
  BY <1>2, TakePreserves DEF Take
<1>3. CASE Drain
  BY <1>3, DrainPreserves
<1>4. CASE Redirect
  BY <1>4, RedirectPreserves
<1>5. CASE UNCHANGED vars
  <2>1. UnderWay' = UnderWay /\ pc' = pc
    BY <1>5 DEF vars, UnderWay
  <2>2. Path(UnderWay)' /\ EndsAt(UnderWay, pc)'
    BY <2>1 DEF FrontInv, Path, EndsAt, Stream!Legal, Stream!After, Word
  <2>. QED BY <1>5, <2>2 DEF vars, FrontInv, Addr, Idle, Bus
<1>. QED BY <1>1, <1>2, <1>3, <1>4, <1>5 DEF Next

(* FrontInv holds in every reachable state.                                *)
THEOREM FrontInvariant == Spec => []FrontInv
BY InitFrontInv, NextFrontInv, PTL DEF Spec

(* Every register keeps its type and the fetch queue never overflows: a    *)
(* group that arrives always finds room, though the request is gated by    *)
(* what decode pops in the same cycle.                                     *)
THEOREM QueueNeverOverflows == Spec => []TypeOK
<1>1. FrontInv => TypeOK
  <2>. SUFFICES ASSUME FrontInv PROVE TypeOK
    OBVIOUS
  <2>1. Depth \in Nat
    BY FrontendAssumption
  <2>2. ASSUME NEW s \in {queue, id, bundle}
        PROVE  Len(s) \in Nat /\ \A i \in DOMAIN s : s[i] \in Stream!Entry
    <3>1. s \in Seq(Stream!Entry)
      BY DEF FrontInv
    <3>. QED BY <3>1, LenProperties, ElementOfSeq
  <2>3. /\ pc \in Addr /\ slave \in Addr \cup {Idle} /\ bus \in Bus
        /\ Len(queue) <= Depth /\ Len(id) <= 2 /\ Len(bundle) <= 2
    BY DEF FrontInv
  <2>4. Len(queue) \in Nat /\ Len(id) \in Nat /\ Len(bundle) \in Nat
    BY <2>2
  <2>5. Len(queue) \in 0..Depth /\ Len(id) \in 0..2 /\ Len(bundle) \in 0..2
    <3>1. \A m, n \in Nat : m <= n => m \in 0..n
      OBVIOUS
    <3>. QED BY <2>1, <2>3, <2>4, <3>1
  <2>6. \A s \in {queue, id, bundle} : \A i \in DOMAIN s : s[i] \in Stream!Entry
    BY <2>2, Zenon
  <2>. QED BY <2>3, <2>5, <2>6 DEF TypeOK
<1>. QED BY <1>1, FrontInvariant, PTL

(* What is under way to Issue is one unbroken, legal path that ends at     *)
(* pc_q, whatever was flushed, held or dropped before.                     *)
THEOREM UnbrokenPath == Spec => []PathContinuous
<1>1. FrontInv => PathContinuous
  <2>. SUFFICES ASSUME FrontInv PROVE PathContinuous
    OBVIOUS
  <2>1. /\ bundle \in Seq(E) /\ id \in Seq(E) /\ queue \in Seq(E) /\ Rest \in Seq(E)
        /\ EndsAt(Rest, pc) /\ Path(UnderWay)
        /\ Path(Rest)
    BY RestFacts DEF FrontInv, E
  <2>2. EndsAt(queue, pc)
    BY <2>1, SuffixOfPath DEF Rest
  <2>3. queue = << >> => Rest = id
    BY <2>1, ConcatEmptySeq DEF Rest
  <2>. QED BY <2>1, <2>2, <2>3 DEF PathContinuous, EndsAt
<1>. QED BY <1>1, FrontInvariant, PTL

----------------------------------------------------------------------------
(* Issue receives the predicted path.                                      *)

(* Behind a bundle the path goes on where its last instruction leads.      *)
LEMMA BehindBundle ==
  ASSUME NEW b \in Seq(E), NEW r \in Seq(E), NEW p, b # << >>,
         Path(b \o r), EndsAt(b \o r, p)
  PROVE  First(r, p) = Word(b[Len(b)].predTarget)
<1>. DEFINE u == b \o r
<1>1. /\ u \in Seq(E) /\ Len(b) \in Nat /\ Len(r) \in Nat /\ Len(u) = Len(b) + Len(r)
      /\ \A i \in 1..Len(u) : u[i] = IF i <= Len(b) THEN b[i] ELSE r[i - Len(b)]
  BY ConcatProperties, LenProperties
<1>2. Len(b) > 0 /\ (r # << >> => Len(r) > 0)
  BY <1>1, EmptySeq
<1>3. CASE r = << >>
  <2>1. u = b
    BY <1>3, ConcatEmptySeq
  <2>. QED BY <1>3, <2>1 DEF First, EndsAt
<1>4. CASE r # << >>
  <2>. HIDE DEF u
  <2>0. /\ Len(b) \in 1..Len(u) - 1 /\ Len(b) \in 1..Len(u) /\ Len(b) + 1 \in 1..Len(u)
        /\ Len(b) <= Len(b) /\ ~(Len(b) + 1 <= Len(b)) /\ (Len(b) + 1) - Len(b) = 1
    BY <1>1, <1>2, <1>4
  <2>1. u[Len(b)] = b[Len(b)] /\ u[Len(b) + 1] = r[1]
    BY <1>1, <2>0
  <2>2. u[Len(b) + 1].pc = Word(u[Len(b)].predTarget)
    BY <2>0 DEF Path, u
  <2>. QED BY <1>4, <2>1, <2>2 DEF First
<1>. QED BY <1>3, <1>4

(* The address the front end goes on at is where the path begins.          *)
LEMMA FirstOfJoin ==
  ASSUME NEW i \in Seq(E), NEW q \in Seq(E), NEW p
  PROVE  First(i \o q, p) = IF i # << >> THEN i[1].pc
                            ELSE IF q # << >> THEN q[1].pc ELSE p - (p % 2)
<1>1. CASE i = << >>
  <2>1. i \o q = q
    BY <1>1, ConcatEmptySeq
  <2>. QED BY <1>1, <2>1 DEF First, Word
<1>2. CASE i # << >>
  <2>1. Len(i) \in Nat /\ Len(i) > 0 /\ Len(q) \in Nat
    BY <1>2, EmptySeq, LenProperties
  <2>2. (i \o q)[1] = i[1] /\ i \o q # << >>
    BY <1>2, <2>1, ConcatProperties, ConcatEqualIffEmpty
  <2>. QED BY <1>2, <2>2 DEF First
<1>. QED BY <1>1, <1>2

(* The head of a path outlives the path's extension.                       *)
LEMMA FirstOfExtension ==
  ASSUME NEW r \in Seq(E), NEW g, NEW p, NEW q, Extends(g, p, q)
  PROVE  First(r \o g, q) = First(r, p)
<1>1. g \in Seq(E)
  BY DEF Extends
<1>2. First(r \o g, q) = IF r # << >> THEN r[1].pc
                         ELSE IF g # << >> THEN g[1].pc ELSE q - (q % 2)
  BY <1>1, FirstOfJoin
<1>3. CASE r # << >>
  BY <1>2, <1>3 DEF First
<1>4. CASE r = << >> /\ g # << >>
  BY <1>2, <1>4 DEF First, Extends
<1>5. CASE r = << >> /\ g = << >>
  BY <1>2, <1>5 DEF First, Extends, Word
<1>. QED BY <1>3, <1>4, <1>5

(* Every edge is a step of the stream, or none.                            *)
LEMMA EdgeIsStreamStep ==
  FrontInv /\ [Next]_vars => [Stream!Next]_<<bundle, NextPc>>
<1>. SUFFICES ASSUME FrontInv, [Next]_vars PROVE [Stream!Next]_<<bundle, NextPc>>
  OBVIOUS
<1>1. FrontInv'
  BY NextFrontInv
<1>2. /\ bundle \in Seq(E) /\ id \in Seq(E) /\ queue \in Seq(E) /\ Rest \in Seq(E)
      /\ bundle' \in Seq(E) /\ id' \in Seq(E) /\ queue' \in Seq(E)
  BY <1>1, RestFacts DEF FrontInv, E
<1>3. NextPc = First(Rest, pc) /\ NextPc' = First(Rest', pc')
  BY <1>2, FirstOfJoin DEF NextPc, Rest
<1>4. ASSUME NEW g, Extends(g, pc, pc'), Rest' = Rest \o g PROVE NextPc' = NextPc
  BY <1>2, <1>3, <1>4, FirstOfExtension
<1>5. CASE Hold
  <2>1. bundle' = bundle /\ \E g : Extends(g, pc, pc') /\ Rest' = Rest \o g
    BY <1>5, HoldPreserves DEF Hold
  <2>. QED BY <1>4, <2>1
<1>6. CASE Drain
  <2>1. bundle' = << >> /\ \E g : Extends(g, pc, pc') /\ Rest' = Rest \o g
    BY <1>6, DrainPreserves DEF Drain
  <2>. QED BY <1>4, <2>1 DEF Stream!Next, Stream!Drain
<1>7. CASE Redirect
  <2>1. bundle # << >> /\ bundle' = << >> /\ id' = << >> /\ queue' = << >>
    BY <1>7 DEF Redirect
  <2>2. NextPc' = Word(pc') /\ pc' \in Addr
    BY <1>1, <2>1 DEF NextPc, Word, FrontInv, Addr
  <2>. QED BY <2>1, <2>2, StreamNames DEF Stream!Next, Stream!Redirect
<1>8. CASE Take
  <2>1. PICK n \in 1..Len(id) : bundle' = SubSeq(id, 1, n) /\ Refill(n)
    BY <1>8 DEF Take
  <2>2. Len(bundle') = n /\ bundle'[1] = id[1]
    BY <2>1, TakePreserves
  <2>3. Len(id) \in Nat /\ Len(id) <= 2 /\ id # << >>
    BY <1>2, <2>1, LenProperties DEF FrontInv
  <2>4. Len(bundle') \in 1..2 /\ bundle' # << >>
    BY <2>2, <2>3
  <2>5. bundle'[1].pc = NextPc
    BY <2>2, <2>3 DEF NextPc
  <2>6. Rest' \in Seq(E)
    BY <1>2, ConcatProperties DEF Rest
  <2>7. Path(bundle' \o Rest') /\ EndsAt(bundle' \o Rest', pc')
    <3>1. UnderWay' = bundle' \o Rest'
      <4>1. bundle' \in Seq(E) /\ id' \in Seq(E) /\ queue' \in Seq(E)
        BY <1>2
      <4>2. (bundle' \o id') \o queue' = bundle' \o (id' \o queue')
        BY <4>1, Regroup
      <4>. QED BY <4>2 DEF UnderWay, Rest
    <3>2. Path(UnderWay)' /\ EndsAt(UnderWay, pc)'
      BY <1>1 DEF FrontInv
    <3>. QED BY <3>1, <3>2 DEF Path, EndsAt, Stream!Legal, Stream!After, Word
  <2>8. NextPc' = Word(bundle'[Len(bundle')].predTarget)
    BY <1>2, <1>3, <2>4, <2>6, <2>7, BehindBundle
  <2>9. Path(bundle')
    BY <1>2, <2>6, <2>7, PrefixOfPath
  <2>10. DOMAIN bundle' = 1..Len(bundle')
    BY <1>2, LenProperties
  <2>11. Stream!Load
    BY <2>4, <2>5, <2>8, <2>9, <2>10, StreamNames DEF Path, Stream!Load
  <2>. QED BY <2>11 DEF Stream!Next
<1>9. CASE UNCHANGED vars
  BY <1>9 DEF vars, NextPc
<1>. QED BY <1>5, <1>6, <1>7, <1>8, <1>9 DEF Next

(* The front end delivers what FetchStream promises: the bundles Issue     *)
(* takes follow the predicted path, and a redirect restarts it.            *)
THEOREM StreamDelivered == Spec => DeliversStream
<1>1. Init => Stream!Init
  <2>. SUFFICES ASSUME Init PROVE Stream!Init
    OBVIOUS
  <2>1. bundle = << >> /\ NextPc = Word(ResetPC) /\ ResetPC \in Addr
    BY FrontendAssumption DEF Init, NextPc, Word
  <2>. QED BY <2>1, StreamNames DEF Stream!Init
<1>. QED BY <1>1, EdgeIsStreamStep, FrontInvariant, PTL DEF Spec, DeliversStream, Stream!Spec

----------------------------------------------------------------------------
(* The request of fetch stands until it is answered or flushed.            *)

(* An open request is for pc_q's block, and the queue has room for its     *)
(* answer even if decode pops nothing.                                     *)
OpenRequest ==
  bus.valid /\ ~bus.ready => bus.addr = Block(pc) /\ Len(queue) + 2 <= Depth

(* What fetch drives in a cycle in which decode pops. *)
LEMMA FetchDrives ==
  ASSUME FrontInv, NEW pops \in 0..Len(queue), Fetch(pops)
  PROVE  /\ bus'.valid = ~Full(pops) /\ bus'.addr = Block(pc)
         /\ bus'.valid /\ ~bus'.ready => pc' = pc /\ Len(queue') + 2 <= Depth
<1>. DEFINE valid == ~Full(pops)
            req   == Block(pc)
            fire(answer) == answer /\ Answers(req, valid)
            group(answer, h) == IF fire(answer) THEN Group(pc, slave, h) ELSE << >>
            back == SubSeq(queue, pops + 1, Len(queue))
<1>1. PICK h \in Hint, answer \in BOOLEAN :
        /\ queue' = back \o group(answer, h)
        /\ pc' = IF fire(answer) THEN group(answer, h)[Len(group(answer, h))].predTarget
                 ELSE pc
        /\ bus' = [valid |-> valid, addr |-> req, flush |-> FALSE, ready |-> fire(answer)]
  BY DEF Fetch
<1>2. /\ queue \in Seq(E) /\ Len(queue) \in Nat /\ Depth \in Nat
      /\ \A i \in 1..Len(queue) : queue[i] \in E
  BY LenProperties, ElementOfSeq, FrontendAssumption DEF FrontInv, E
<1>3. back \in Seq(E) /\ Len(back) = Len(queue) - pops
  BY <1>2, SubSeqProperties
<1>4. bus'.valid = valid /\ bus'.addr = req /\ bus'.ready = fire(answer)
  BY <1>1
<1>5. ASSUME valid, ~fire(answer) PROVE pc' = pc /\ Len(queue') + 2 <= Depth
  <2>1. group(answer, h) = << >> /\ pc' = pc
    BY <1>1, <1>5
  <2>. HIDE DEF group, back, fire
  <2>2. queue' = back
    BY <1>1, <1>3, <2>1, ConcatEmptySeq
  <2>3. Len(queue') = Len(queue) - pops
    BY <1>3, <2>2
  <2>. QED BY <1>2, <1>5, <2>1, <2>3 DEF Full
<1>. HIDE DEF fire
<1>. QED BY <1>4, <1>5

(* Decode pops some number of entries in every cycle but that of a flush.  *)
LEMMA EveryCycle ==
  ASSUME FrontInv, Next
  PROVE  Redirect \/ \E pops \in 0..Len(queue) : Fetch(pops)
<1>1. ASSUME NEW n \in 0..Len(id), Refill(n)
      PROVE  \E pops \in 0..Len(queue) : Fetch(pops)
  <2>. DEFINE keep == SubSeq(id, n + 1, Len(id))
              room == 2 - Len(keep)
              pops == IF Len(queue) < room THEN Len(queue) ELSE room
  <2>1. /\ Len(queue) \in Nat /\ Len(id) \in Nat /\ Len(id) <= 2
        /\ \A i \in 1..Len(id) : id[i] \in E
    BY LenProperties, ElementOfSeq DEF FrontInv, E
  <2>2. Len(keep) = Len(id) - n
    BY <2>1, SubSeqProperties
  <2>3. pops \in 0..Len(queue)
    BY <2>1, <2>2
  <2>4. Fetch(pops)
    BY <1>1 DEF Refill
  <2>. QED BY <2>3, <2>4
<1>2. Len(id) \in Nat
  BY LenProperties DEF FrontInv
<1>. QED BY <1>1, <1>2 DEF Next, Hold, Take, Drain

(* A request is never withdrawn and never moves, though both its valid and *)
(* its address follow combinationally from what decode pops.               *)
THEOREM RequestStands == Spec => RequestStable
<1>. DEFINE Stable == bus.valid /\ ~bus.ready /\ ~bus'.flush
                        => bus'.valid /\ bus'.addr = bus.addr
<1>1. Init => OpenRequest
  BY DEF Init, OpenRequest
<1>2. FrontInv /\ OpenRequest /\ [Next]_vars => OpenRequest' /\ [Stable]_vars
  <2>. SUFFICES ASSUME FrontInv, OpenRequest, [Next]_vars PROVE OpenRequest' /\ [Stable]_vars
    OBVIOUS
  <2>1. CASE UNCHANGED vars
    BY <2>1 DEF vars, OpenRequest, Block
  <2>2. CASE Redirect
    BY <2>2 DEF Redirect, OpenRequest
  <2>3. ASSUME NEW pops \in 0..Len(queue), Fetch(pops)
        PROVE  OpenRequest' /\ Stable
    <3>1. /\ bus'.valid = ~Full(pops) /\ bus'.addr = Block(pc)
          /\ bus'.valid /\ ~bus'.ready => pc' = pc /\ Len(queue') + 2 <= Depth
      BY <2>3, FetchDrives
    <3>2. OpenRequest'
      BY <3>1 DEF OpenRequest, Block
    <3>3. Len(queue) + 2 <= Depth => ~Full(pops)
      <4>1. Len(queue) \in Nat /\ Depth \in Nat
        BY LenProperties, FrontendAssumption DEF FrontInv
      <4>. QED BY <4>1 DEF Full
    <3>. QED BY <3>1, <3>2, <3>3 DEF OpenRequest
  <2>. QED BY <2>1, <2>2, <2>3, EveryCycle
<1>. QED BY <1>1, <1>2, FrontInvariant, PTL DEF Spec, RequestStable
=============================================================================
