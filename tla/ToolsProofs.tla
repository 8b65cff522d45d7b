----------------------------- MODULE ToolsProofs -----------------------------
(* Proofs about the tools around the core.  A benchmark result is of the   *)
(* program it is filed under, for all programs and readings; a hex file of *)
(* any sections is in every memory as it is in the file; and the verdict   *)
(* on an RTL trace is true, for all programs.                              *)
EXTENDS Reports, Images, SpikeTrace, NaturalFacts, TLAPS

LEMMA InitReportsInv == ReportsInit => ReportsInv
BY DEF ReportsInit, ReportsInv, ResultsAreOfTheirProgram, LogIsDescribed, BoardIsOpened

(* The steps of simulate_c.sh: they report nothing, and the log and the    *)
(* description move together.                                              *)
LEMMA SimulationFlow ==
  ASSUME ReportsInv,
         Simulate \/ Compile \/ Describe \/ Reference \/ RunSimulation
  PROVE  ReportsInv'
<1>. USE DEF ReportsInv, ResultsAreOfTheirProgram, LogIsDescribed, BoardIsOpened
<1>1. CASE Simulate
  BY <1>1 DEF Simulate
<1>2. CASE Compile
  BY <1>2, ReportsAssumption DEF Compile, Done
<1>3. CASE Describe
  BY <1>3 DEF Describe, Done
<1>4. CASE Reference
  BY <1>4 DEF Reference, Done
<1>5. CASE RunSimulation
  <2>1. meta' = elf /\ elf # Absent /\ meta = elf /\ at' = "idle"
    BY <1>5 DEF RunSimulation, Done
  <2>2. \A l \in simlog' : l.of = elf
    BY <1>5 DEF RunSimulation
  <2>. QED BY <1>5, <2>1, <2>2 DEF RunSimulation
<1>. QED BY <1>1, <1>2, <1>3, <1>4, <1>5

(* bench_report: the description matches the ELF, and the log matches the  *)
(* description.                                                            *)
LEMMA ReportIsTrue == ReportsInv /\ Report => ReportsInv'
<1>. SUFFICES ASSUME ReportsInv, Report PROVE ReportsInv'
  OBVIOUS
<1>1. PICK l \in simlog : /\ Matches(meta) /\ l.cycles # 0
                          /\ result' = Result(l.of, elf, meta, l.cycles, "pass")
  BY DEF Report
<1>2. l.of = meta /\ meta = elf
  BY <1>1 DEF ReportsInv, LogIsDescribed, Matches
<1>3. ResultsAreOfTheirProgram'
  BY <1>1, <1>2 DEF ResultsAreOfTheirProgram, Result
<1>4. UNCHANGED <<elf, meta, hwmeta, simlog, at, opened, board>>
  BY DEF Report
<1>. QED BY <1>3, <1>4 DEF ReportsInv, LogIsDescribed, BoardIsOpened

(* build_benchmark and loadprog: what is uploaded is what was opened, with *)
(* its description, even if the ELF is rebuilt by then.                    *)
LEMMA HardwareFlow ==
  ASSUME ReportsInv,
         BuildFirmware \/ ValidateFirmware \/ OpenElf \/ UploadElf \/ Interrupt
  PROVE  ReportsInv'
<1>. USE DEF ReportsInv, ResultsAreOfTheirProgram, LogIsDescribed, BoardIsOpened
<1>1. CASE BuildFirmware
  BY <1>1 DEF BuildFirmware
<1>2. CASE ValidateFirmware
  BY <1>2 DEF ValidateFirmware, Done
<1>3. CASE OpenElf
  BY <1>3 DEF OpenElf, Matches
<1>4. CASE UploadElf
  BY <1>4 DEF UploadElf, Done
<1>5. CASE Interrupt
  BY <1>5 DEF Interrupt, Done
<1>. QED BY <1>1, <1>2, <1>3, <1>4, <1>5

LEMMA CaptureIsTrue == ReportsInv /\ Capture => ReportsInv'
<1>. SUFFICES ASSUME ReportsInv, Capture PROVE ReportsInv'
  OBVIOUS
<1>1. PICK c \in Readings \ {Missing}, x \in Readings \ {Missing} :
        result' = IF c = 0 THEN result
                  ELSE Result(board, opened.elf, opened.build, c,
                              IF x = 0 THEN "pass" ELSE "errors")
  BY DEF Capture
<1>2. board = opened.elf /\ opened.build \in {Absent, opened.elf}
  BY DEF ReportsInv, BoardIsOpened, Capture
<1>3. ResultsAreOfTheirProgram'
  BY <1>1, <1>2 DEF ReportsInv, ResultsAreOfTheirProgram, Result
<1>. QED BY <1>3 DEF ReportsInv, LogIsDescribed, BoardIsOpened, Capture, Done

(* A result is of the program it is filed under and a measurement, and the *)
(* build conditions beside it are that program's, whatever has failed,     *)
(* been interrupted or been rebuilt since by either flow.                  *)
THEOREM NoStaleResult == ReportsSpec => []ResultsAreOfTheirProgram
<1>1. ReportsInv /\ [ReportsNext]_rvars => ReportsInv'
  <2>1. ReportsInv /\ UNCHANGED rvars => ReportsInv'
    BY DEF ReportsInv, ResultsAreOfTheirProgram, LogIsDescribed, BoardIsOpened, rvars
  <2>. QED BY <2>1, SimulationFlow, ReportIsTrue, HardwareFlow, CaptureIsTrue DEF ReportsNext
<1>2. ReportsInv => ResultsAreOfTheirProgram
  BY DEF ReportsInv
<1>. QED BY <1>1, <1>2, InitReportsInv, PTL DEF ReportsSpec

----------------------------------------------------------------------------
(* The first and the last number of a set. *)
LEMMA MinIs ==
  ASSUME NEW S \in SUBSET Nat, S # {}
  PROVE  Min(S) \in S /\ \A y \in S : Min(S) <= y
BY FirstOf DEF Min

LEMMA MaxIs ==
  ASSUME NEW S \in SUBSET Nat, S # {}, NEW n \in Nat, \A x \in S : x <= n
  PROVE  Max(S) \in S /\ \A y \in S : Max(S) >= y
BY LastOf DEF Max

(* The word that holds a byte. *)
LEMMA WordOf ==
  ASSUME NEW W \in Nat \ {0}, NEW a \in Nat
  PROVE  /\ a - (a % W) \in Nat /\ (a - (a % W)) % W = 0 /\ a - (a % W) <= a
         /\ (a - (a % W)) \div W = a \div W /\ a < (a - (a % W)) + W
         /\ a % W \in 0..(W - 1) /\ (a - (a % W)) + (a % W) = a
<1>1. a - (a % W) = (a \div W) * W + 0
  BY Division
<1>2. /\ ((a \div W) * W + 0) \div W = a \div W
      /\ ((a \div W) * W + 0) % W = 0
  BY Division, Quotient
<1>3. /\ a - (a % W) \in Nat /\ a % W \in Nat /\ a % W < W
  BY Division
<1>4. a - (a % W) <= a /\ a < (a - (a % W)) + W /\ a % W \in 0..(W - 1)
      /\ (a - (a % W)) + (a % W) = a
  BY <1>3
<1>. QED BY <1>1, <1>2, <1>3, <1>4

LEMMA OneWord ==
  ASSUME NEW W \in Nat \ {0}, NEW b \in Nat, NEW i \in 0..(W - 1), b % W = 0
  PROVE  (b + i) - ((b + i) % W) = b
<1>1. PICK q \in Nat : b = q * W
  BY Multiple
<1>2. (q * W + i) % W = i
  BY Quotient
<1>. QED BY <1>1, <1>2

----------------------------------------------------------------------------
(* A memory is a function on addresses; packing it loses no byte.          *)
IsMemory(f) == f = [a \in DOMAIN f |-> f[a]] /\ DOMAIN f \subseteq Nat

LEMMA PackHolds ==
  ASSUME NEW f, IsMemory(f), NEW W \in Nat \ {0}, NEW a \in DOMAIN f
  PROVE  a - (a % W) \in DOMAIN Pack(f, W) /\ Pack(f, W)[a - (a % W)][a % W] = f[a]
<1>1. a \in Nat
  BY DEF IsMemory
<1>. DEFINE b == a - (a % W)
<1>2. b \in DOMAIN Pack(f, W) /\ Pack(f, W)[b] = Word(f, b, W)
  BY DEF Pack
<1>3. Word(f, b, W)[a % W] = At(f, b + (a % W))
  BY <1>1, WordOf DEF Word
<1>4. b + (a % W) = a
  BY <1>1, WordOf
<1>. QED BY <1>2, <1>3, <1>4 DEF At

LEMMA PackIsMemory ==
  ASSUME NEW f, IsMemory(f), NEW W \in Nat \ {0}
  PROVE  /\ DOMAIN Pack(f, W) = {a - (a % W) : a \in DOMAIN f}
         /\ DOMAIN Pack(f, W) \subseteq Nat
<1>1. \A a \in DOMAIN f : a - (a % W) \in Nat
  BY WordOf DEF IsMemory
<1>. QED BY <1>1 DEF Pack

(* Without collisions, an array returns at a word's index that word.       *)
LEMMA ArrayHolds ==
  ASSUME NEW words, DOMAIN words \subseteq Nat, NEW W \in Nat \ {0},
         NEW depth \in Nat \ {0}, NEW fill, Collisions(words, depth, W) = {},
         NEW b \in DOMAIN words
  PROVE  Array(words, depth, W, fill)[Index(b, W, depth)] = words[b]
<1>. DEFINE i == Index(b, W, depth)
            here == {a \in DOMAIN words : Index(a, W, depth) = i}
<1>1. i \in 0..(depth - 1)
  BY Division DEF Index
<1>2. here = {b}
  <2>1. b \in here
    OBVIOUS
  <2>2. ASSUME NEW a \in here, a # b PROVE FALSE
    <3>1. a \in DOMAIN words /\ a \in Nat /\ b \in Nat
          /\ Index(a, W, depth) = Index(b, W, depth)
      OBVIOUS
    <3>2. a < b \/ b < a
      BY <2>2, <3>1
    <3>3. CASE a < b
      <4>1. <<a, b>> \in Collisions(words, depth, W)
        BY <3>1, <3>3 DEF Collisions
      <4>. QED BY <4>1
    <3>4. CASE b < a
      <4>1. <<b, a>> \in Collisions(words, depth, W)
        BY <3>1, <3>4 DEF Collisions
      <4>. QED BY <4>1
    <3>. QED BY <3>2, <3>3, <3>4
  <2>. QED BY <2>1, <2>2
<1>3. Max({b}) = b
  BY DEF Max
<1>. QED BY <1>1, <1>2, <1>3 DEF Array

(* A byte read back from an array built of a memory's words. *)
LEMMA BakedByte ==
  ASSUME NEW f, IsMemory(f), NEW W \in Nat \ {0}, NEW depth \in Nat \ {0}, NEW fill,
         Collisions(Pack(f, W), depth, W) = {}, NEW a \in DOMAIN f
  PROVE  Array(Pack(f, W), depth, W, fill)[Index(a, W, depth)][a % W] = f[a]
<1>. DEFINE b == a - (a % W)
<1>1. a \in Nat /\ Index(a, W, depth) = Index(b, W, depth)
  BY WordOf DEF IsMemory, Index
<1>2. b \in DOMAIN Pack(f, W) /\ Pack(f, W)[b][a % W] = f[a]
  BY PackHolds
<1>3. Array(Pack(f, W), depth, W, fill)[Index(b, W, depth)] = Pack(f, W)[b]
  <2>1. DOMAIN Pack(f, W) \subseteq Nat
    BY PackIsMemory
  <2>. QED BY <1>2, <2>1, ArrayHolds
<1>. QED BY <1>1, <1>2, <1>3

----------------------------------------------------------------------------
LEMMA Parameters ==
  /\ Base \in Nat /\ DWidth \in Nat \ {0} /\ IWidth \in Nat \ {0} /\ IWidth % DWidth = 0
  /\ Depths \subseteq Nat /\ \A e \in Ends \cup {NoElf} : e \in Int
<1>1. IWidth \in Nat \ {0}
  BY ImagesAssumption
<1>. QED BY <1>1, ImagesAssumption DEF NoElf

(* What a hex file of whole sections loads.                                *)
LEMMA Loaded ==
  ASSUME NEW h \in SeqOf(SectionsOf, MaxSections)
  PROVE  /\ IsMemory(LoadHex(h))
         /\ \A i \in DOMAIN h : h[i].at \in Nat
         /\ \A a : a \in DOMAIN LoadHex(h) <=>
              \E i \in DOMAIN h : a \in Span(h[i])
         /\ \A i \in DOMAIN h : \A a \in Span(h[i]) : a \in Nat
<1>1. \A i \in DOMAIN h : h[i] \in SectionsOf
  BY DEF SeqOf
<1>2. \A t \in SectionsOf : t.at \in Nat /\ t.bytes \in Seq(Nat) /\ Len(t.bytes) \in Nat
  BY ImagesAssumption DEF SectionsOf
<1>3. \A t \in SectionsOf : \A a \in Span(t) : a \in Nat
  BY <1>2 DEF Span
<1>. DEFINE D == UNION {Span(h[i]) : i \in DOMAIN h}
<1>4. DOMAIN LoadHex(h) = D
  BY DEF LoadHex
<1>5. LoadHex(h) = [a \in DOMAIN LoadHex(h) |-> LoadHex(h)[a]]
  BY DEF LoadHex
<1>6. D \subseteq Nat
  BY <1>1, <1>3
<1>7. \A a : a \in D <=> \E i \in DOMAIN h : a \in Span(h[i])
  OBVIOUS
<1>. QED BY <1>1, <1>2, <1>3, <1>4, <1>5, <1>6, <1>7, Zenon DEF IsMemory

LEMMA NotEmpty ==
  ASSUME NEW f, IsMemory(f), f # NoBytes
  PROVE  DOMAIN f # {}
BY DEF IsMemory, NoBytes

(* The testbench's data-side packer keeps the words that pack_words keeps. *)
LEMMA DmemIsPack ==
  ASSUME NEW h, IsMemory(LoadHex(h)), LoadHex(h) # NoBytes,
         NEW n \in Nat, \A a \in DOMAIN LoadHex(h) : a <= n
  PROVE  DmemLoad(h) = Pack(LoadHex(h), DWidth)
<1>. DEFINE f  == LoadHex(h)
            lo == Min(DOMAIN f) - (Min(DOMAIN f) % DWidth)
            known == {a \in lo..Max(DOMAIN f) : /\ (a - lo) % DWidth = 0
                                                /\ \E i \in 0..(DWidth - 1) : a + i \in DOMAIN f}
            packed == {a - (a % DWidth) : a \in DOMAIN f}
<1>1. DmemLoad(h) = [a \in known |-> Word(f, a, DWidth)]
  BY DEF DmemLoad
<1>. HIDE DEF f
<1>2. IsMemory(f) /\ DOMAIN f \in SUBSET Nat /\ DOMAIN f # {} /\ DWidth \in Nat \ {0}
      /\ \A a \in DOMAIN f : a <= n
  BY NotEmpty, Parameters DEF IsMemory, f
<1>3. Min(DOMAIN f) \in DOMAIN f /\ \A a \in DOMAIN f : Min(DOMAIN f) <= a
  BY <1>2, MinIs
<1>4. Max(DOMAIN f) \in DOMAIN f /\ \A a \in DOMAIN f : Max(DOMAIN f) >= a
  BY <1>2, MaxIs
<1>5. lo \in Nat /\ lo % DWidth = 0 /\ lo <= Min(DOMAIN f)
  BY <1>2, <1>3, WordOf
<1>6. Min(DOMAIN f) < lo + DWidth /\ Min(DOMAIN f) \in Nat /\ Max(DOMAIN f) \in Nat
  <2>1. Min(DOMAIN f) \in Nat /\ Max(DOMAIN f) \in Nat
    BY <1>2, <1>3, <1>4
  <2>. QED BY <1>2, <2>1, WordOf
<1>. HIDE DEF lo
<1>7. ASSUME NEW a \in DOMAIN f PROVE a - (a % DWidth) \in known
  <2>. DEFINE b == a - (a % DWidth)
  <2>1. /\ a \in Nat /\ b \in Nat /\ b % DWidth = 0 /\ b <= a
        /\ a % DWidth \in 0..(DWidth - 1) /\ b + (a % DWidth) = a
    BY <1>2, WordOf
  <2>2. a \in Nat /\ Min(DOMAIN f) <= a /\ a <= Max(DOMAIN f)
    BY <1>3, <1>4, <2>1
  <2>. HIDE DEF b
  <2>3. lo <= b
    <3>. SUFFICES ASSUME b < lo PROVE FALSE
      BY <1>5, <2>1
    <3>1. b + DWidth <= lo
      BY <1>2, <1>5, <2>1, Differences
    <3>. QED BY <1>2, <1>5, <1>6, <2>1, <2>2, <3>1
  <2>4. (b - lo) % DWidth = 0
    BY <1>2, <1>5, <2>1, <2>3, Differences
  <2>5. b \in lo..Max(DOMAIN f)
    BY <1>5, <1>6, <2>1, <2>2, <2>3
  <2>6. \E i \in 0..(DWidth - 1) : b + i \in DOMAIN f
    BY <2>1
  <2>. QED BY <2>4, <2>5, <2>6 DEF b
<1>8. ASSUME NEW b \in known PROVE \E a \in DOMAIN f : b = a - (a % DWidth)
  <2>1. PICK i \in 0..(DWidth - 1) : b + i \in DOMAIN f
    OBVIOUS
  <2>2. b \in Nat /\ lo <= b /\ (b - lo) % DWidth = 0
    BY <1>5, <1>6
  <2>3. b % DWidth = 0
    BY <1>2, <1>5, <2>2, Differences
  <2>4. (b + i) - ((b + i) % DWidth) = b
    BY <1>2, <2>2, <2>3, OneWord
  <2>. QED BY <2>1, <2>4
<1>9. known = packed
  BY <1>7, <1>8
<1>10. Pack(f, DWidth) = [a \in packed |-> Word(f, a, DWidth)]
  BY DEF Pack
<1>. QED BY <1>1, <1>9, <1>10 DEF f

(* So does the instruction-side one, for sections that start at a word.    *)
LEMMA ImemIsPack ==
  ASSUME NEW h \in SeqOf(SectionsOf, MaxSections),
         \A i \in DOMAIN h : h[i].at % DWidth = 0
  PROVE  ImemLoad(h) = Pack(LoadHex(h), DWidth)
<1>. DEFINE f == LoadHex(h)
            firsts == {a \in DOMAIN f : a % DWidth = 0}
            packed == {a - (a % DWidth) : a \in DOMAIN f}
<1>1. ImemLoad(h) = [a \in firsts |-> Word(f, a, DWidth)]
  BY DEF ImemLoad
<1>2. Pack(f, DWidth) = [a \in packed |-> Word(f, a, DWidth)]
  BY DEF Pack
<1>3. /\ DOMAIN f \subseteq Nat
      /\ \A i \in DOMAIN h : h[i].at \in Nat
      /\ \A a : a \in DOMAIN f <=> \E i \in DOMAIN h : a \in Span(h[i])
      /\ \A i \in DOMAIN h : \A a \in Span(h[i]) : a \in Nat
  BY Loaded DEF IsMemory
<1>. HIDE DEF f
<1>4. ASSUME NEW a \in firsts PROVE a \in packed
  <2>1. a \in DOMAIN f /\ a \in Nat /\ a % DWidth = 0
    BY <1>3
  <2>2. a - (a % DWidth) = a
    BY <2>1
  <2>. QED BY <2>1, <2>2
<1>5. ASSUME NEW a \in DOMAIN f PROVE a - (a % DWidth) \in firsts
  <2>. DEFINE b == a - (a % DWidth)
  <2>1. PICK i \in DOMAIN h : a \in Span(h[i])
    BY <1>3
  <2>2. /\ a \in Nat /\ b \in Nat /\ b % DWidth = 0 /\ b <= a /\ a < b + DWidth
        /\ DWidth \in Nat \ {0}
    BY <1>3, Parameters, WordOf
  <2>. HIDE DEF b
  <2>3. h[i].at \in Nat /\ h[i].at % DWidth = 0 /\ h[i].at <= a
    BY <1>3, <2>1, <2>2 DEF Span
  <2>4. h[i].at <= b
    <3>. SUFFICES ASSUME b < h[i].at PROVE FALSE
      BY <2>2, <2>3
    <3>1. b + DWidth <= h[i].at
      BY <2>2, <2>3, Differences
    <3>. QED BY <2>2, <2>3, <3>1
  <2>5. b \in Span(h[i])
    BY <2>1, <2>2, <2>3, <2>4 DEF Span
  <2>6. b \in DOMAIN f
    BY <1>3, <2>5
  <2>. QED BY <2>2, <2>6 DEF b
<1>6. firsts = packed
  BY <1>4, <1>5
<1>. QED BY <1>1, <1>2, <1>6 DEF f

----------------------------------------------------------------------------
(* What validation guarantees: every byte in use lies below the reserved   *)
(* word, and the memories are not empty.                                   *)
LEMMA ValidLayout ==
  ASSUME ImagesTypeOK, Valid
  PROVE  /\ idepth \in Nat \ {0} /\ ddepth \in Nat \ {0} /\ end \in Int
         /\ Base + ddepth * DWidth \in Nat /\ ddepth * DWidth \in Nat \ {0}
         /\ DataLimit = Base + ddepth * DWidth - DWidth
         /\ mem # NoBytes
         /\ \A a \in (DOMAIN mem) \cup (Base..(end - 1)) : Base <= a /\ a < DataLimit
<1>1. idepth \in Nat /\ ddepth \in Nat /\ end \in Int
  BY Parameters DEF ImagesTypeOK
<1>2. idepth # 0 /\ ddepth # 0
  <2>1. ~PowerOfTwo(0)
    BY DEF PowerOfTwo
  <2>. QED BY <2>1 DEF Valid
<1>3. ddepth * DWidth \in Nat \ {0}
  BY <1>1, <1>2, Parameters
<1>4. \A a \in DOMAIN mem : Base <= a /\ a < DataLimit
  BY DEF Valid
<1>5. \A a \in Base..(end - 1) : Base <= a /\ a < DataLimit
  <2>1. DataLimit \in Int
    BY <1>3, Parameters DEF DataLimit
  <2>2. end = -1 \/ end <= DataLimit
    BY DEF Valid, NoElf
  <2>. QED BY <1>1, <2>1, <2>2, Parameters
<1>6. Base + ddepth * DWidth \in Nat
  <2>. DEFINE M == ddepth * DWidth
  <2>. HIDE DEF M
  <2>1. M \in Nat
    BY <1>3 DEF M
  <2>2. Base + M \in Nat
    BY <2>1, Parameters
  <2>. QED BY <2>2 DEF M
<1>7. DataLimit = Base + ddepth * DWidth - DWidth /\ mem # NoBytes
  BY DEF DataLimit, Valid
<1>8. \A a \in (DOMAIN mem) \cup (Base..(end - 1)) : Base <= a /\ a < DataLimit
  BY <1>4, <1>5, Zenon
<1>9. idepth \in Nat \ {0} /\ ddepth \in Nat \ {0} /\ end \in Int
  BY <1>1, <1>2
<1>. QED BY <1>3, <1>6, <1>7, <1>8, <1>9, Zenon

LEMMA InitImagesInv == ImagesInit => ImagesInv
BY DEF ImagesInit, ImagesInv, ImagesTypeOK

LEMMA ImagesInvInductive == ImagesInv /\ [ImagesNext]_ivars => ImagesInv'
<1>. SUFFICES ASSUME ImagesInv, [ImagesNext]_ivars PROVE ImagesInv'
  OBVIOUS
<1>1. CASE ReadHex
  BY <1>1 DEF ReadHex, ImagesInv, ImagesTypeOK
<1>2. CASE Validate
  <2>1. /\ step = "validate" /\ step' = IF Valid THEN "build" ELSE "error"
        /\ UNCHANGED <<hex, end, idepth, ddepth, mem, imem, dmem>>
    BY <1>2 DEF Validate
  <2>2. Valid' = Valid
    BY <2>1 DEF Valid, Limit, DataLimit
  <2>. QED BY <2>1, <2>2 DEF ImagesInv, ImagesTypeOK
<1>3. CASE Build
  <2>. DEFINE iwords == Pack(mem, IWidth)
              dwords == Pack(mem, DWidth)
              ok == Collisions(iwords, idepth, IWidth) \cup Collisions(dwords, ddepth, DWidth) = {}
  <2>1. /\ step = "build" /\ UNCHANGED <<hex, end, idepth, ddepth, mem>>
        /\ ok => /\ imem' = Array(iwords, idepth, IWidth, Nop)
                 /\ dmem' = Array(dwords, ddepth, DWidth, Zeros(DWidth))
                 /\ step' = "done"
        /\ ~ok => step' = "error"
    BY <1>3 DEF Build
  <2>2. Valid' = Valid
    BY <2>1 DEF Valid, Limit, DataLimit
  <2>3. ImagesTypeOK' /\ mem' = LoadHex(hex')
    BY <2>1 DEF ImagesInv, ImagesTypeOK
  <2>4. Valid
    BY <2>1 DEF ImagesInv
  <2>5. CASE ok
    <3>1. /\ Collisions(iwords, idepth, IWidth) = {}
          /\ Collisions(dwords, ddepth, DWidth) = {}
      BY <2>5
    <3>2. step' = "done" /\ imem' = Array(iwords, idepth, IWidth, Nop)
          /\ dmem' = Array(dwords, ddepth, DWidth, Zeros(DWidth))
      BY <2>1, <2>5
    <3>3. /\ Pack(mem, IWidth)' = iwords /\ Pack(mem, DWidth)' = dwords
          /\ idepth' = idepth /\ ddepth' = ddepth
      BY <2>1
    <3>. QED BY <2>2, <2>3, <2>4, <3>1, <3>2, <3>3 DEF ImagesInv
  <2>6. CASE ~ok
    BY <2>1, <2>3, <2>6 DEF ImagesInv
  <2>. QED BY <2>5, <2>6
<1>4. CASE UNCHANGED ivars
  BY <1>4 DEF ivars, ImagesInv, ImagesTypeOK, Valid, Limit, DataLimit
<1>. QED BY <1>1, <1>2, <1>3, <1>4 DEF ImagesNext

LEMMA ImagesInvariant == ImagesSpec => []ImagesInv
BY InitImagesInv, ImagesInvInductive, PTL DEF ImagesSpec

----------------------------------------------------------------------------
(* Above an aligned base, and no further than one period, remainders are   *)
(* distances from the base.                                                *)
LEMMA PlaceOf ==
  ASSUME NEW M \in Nat \ {0}, NEW B \in Nat, B % M = 0, NEW a \in Nat, B <= a, a < B + M
  PROVE  a % M = a - B
<1>1. PICK q \in Nat : B = q * M
  BY Multiple
<1>2. a - B \in Nat /\ a - B < M
  OBVIOUS
<1>3. (q * M + (a - B)) % M = a - B
  BY <1>2, Quotient
<1>. QED BY <1>1, <1>3

LEMMA BaseIsAligned ==
  ASSUME ImagesTypeOK, Valid
  PROVE  Base % (ddepth * DWidth) = 0
<1>1. ddepth \in Nat \ {0} /\ Base % (ddepth * IWidth) = 0 /\ ddepth * IWidth \in Nat \ {0}
  <2>1. ddepth \in Depths /\ PowerOfTwo(ddepth)
    BY DEF ImagesTypeOK, Valid
  <2>2. ddepth \in Nat \ {0}
    BY ValidLayout
  <2>. QED BY <2>1, <2>2, Parameters, ImagesAssumption
<1>2. PICK k \in Nat : IWidth = k * DWidth
  BY Parameters, Multiple
<1>3. PICK q \in Nat : Base = q * (ddepth * IWidth)
  BY <1>1, Parameters, Multiple
<1>4. ddepth * DWidth \in Nat \ {0} /\ q * k \in Nat
  BY ValidLayout
<1>5. q * (ddepth * (k * DWidth)) = (q * k) * (ddepth * DWidth)
  BY <1>1, <1>2, Parameters
<1>6. Base = (q * k) * (ddepth * DWidth)
  BY <1>2, <1>3, <1>5
<1>. QED BY <1>4, <1>6, Multiple, Parameters

LEMMA ValidUnaliased ==
  ASSUME ImagesInv
  PROVE  Unaliased
<1>. SUFFICES ASSUME step = "done" PROVE Unaliased
  BY DEF Unaliased
<1>. DEFINE M == ddepth * DWidth
            used == (DOMAIN mem) \cup (Base..(end - 1))
            place(a) == a % M
<1>1. ImagesTypeOK /\ Valid /\ mem = LoadHex(hex)
  BY DEF ImagesInv
<1>2. /\ M \in Nat \ {0} /\ Base \in Nat /\ Base % M = 0 /\ end \in Int
      /\ DWidth \in Nat \ {0} /\ ddepth \in Nat
      /\ DataLimit = Base + M - DWidth
      /\ \A a \in used : Base <= a /\ a < DataLimit
  BY <1>1, ValidLayout, BaseIsAligned, Parameters
<1>3. \A a \in used : a \in Nat
  <2>1. DOMAIN mem \subseteq Nat
    BY <1>1, Loaded DEF ImagesTypeOK, IsMemory
  <2>. QED BY <1>2, <2>1
<1>4. (ddepth - 1) * DWidth = M - DWidth
  BY <1>2
<1>. HIDE DEF M, used
<1>5. \A a \in used : place(a) = a - Base /\ place(a) < M - DWidth
  <2>. SUFFICES ASSUME NEW a \in used PROVE place(a) = a - Base /\ place(a) < M - DWidth
    OBVIOUS
  <2>1. a \in Nat /\ Base <= a /\ a < Base + M /\ a - Base < M - DWidth
    BY <1>2, <1>3
  <2>2. a % M = a - Base
    BY <1>2, <2>1, PlaceOf
  <2>. QED BY <2>1, <2>2
<1>6. \A a, b \in used : place(a) = place(b) => a = b
  BY <1>2, <1>3, <1>5
<1>7. \A a \in used : place(a) < (ddepth - 1) * DWidth
  BY <1>4, <1>5
<1>. QED BY <1>6, <1>7 DEF Unaliased, used, M

(* The image, BSS and stack of an accepted program keep distinct places in *)
(* data memory, and leave the reserved word alone, whatever the depths.    *)
THEOREM ProgramsUnaliased == ImagesSpec => []Unaliased
<1>1. ImagesInv => Unaliased
  BY ValidUnaliased
<1>. QED BY <1>1, ImagesInvariant, PTL

----------------------------------------------------------------------------
LEMMA DoneAgrees ==
  ASSUME ImagesInv
  PROVE  MemoriesAgree
<1>. SUFFICES ASSUME step = "done" PROVE MemoriesAgree
  BY DEF MemoriesAgree
<1>1. /\ ImagesTypeOK /\ Valid /\ mem = LoadHex(hex)
      /\ Collisions(Pack(mem, IWidth), idepth, IWidth) = {}
      /\ Collisions(Pack(mem, DWidth), ddepth, DWidth) = {}
      /\ imem = Array(Pack(mem, IWidth), idepth, IWidth, Nop)
      /\ dmem = Array(Pack(mem, DWidth), ddepth, DWidth, Zeros(DWidth))
  BY DEF ImagesInv
<1>2. /\ hex \in SeqOf(SectionsOf, MaxSections) /\ IsMemory(mem) /\ mem # NoBytes
      /\ DOMAIN mem \in SUBSET Nat
  BY <1>1, Loaded DEF ImagesTypeOK, Valid, IsMemory
<1>3. /\ IWidth \in Nat \ {0} /\ DWidth \in Nat \ {0}
      /\ idepth \in Nat \ {0} /\ ddepth \in Nat \ {0}
      /\ Base \in Nat /\ Base + ddepth * DWidth \in Nat
      /\ \A a \in DOMAIN mem : Base <= a /\ a <= Base + ddepth * DWidth
  <2>1. /\ DataLimit = Base + ddepth * DWidth - DWidth
        /\ \A a \in DOMAIN mem : Base <= a /\ a < DataLimit
        /\ idepth \in Nat \ {0} /\ ddepth \in Nat \ {0} /\ Base + ddepth * DWidth \in Nat
    BY <1>1, ValidLayout
  <2>2. ddepth * DWidth \in Nat
    BY <2>1, Parameters
  <2>3. \A a \in DOMAIN mem : a <= Base + ddepth * DWidth
    BY <1>2, <2>1, <2>2, Parameters
  <2>. QED BY <2>1, <2>3, Parameters
<1>4. Pack(mem, DWidth) = DmemLoad(hex)
  <2>. DEFINE n == Base + ddepth * DWidth
  <2>1. n \in Nat /\ \A a \in DOMAIN mem : a <= n
    BY <1>3
  <2>. HIDE DEF n
  <2>2. IsMemory(LoadHex(hex)) /\ LoadHex(hex) # NoBytes
        /\ \A a \in DOMAIN LoadHex(hex) : a <= n
    BY <1>1, <1>2, <2>1
  <2>3. DmemLoad(hex) = Pack(LoadHex(hex), DWidth)
    BY <2>1, <2>2, DmemIsPack
  <2>. QED BY <1>1, <2>3
<1>5. ASSUME NEW a \in DOMAIN mem
      PROVE  /\ InImem(a) = mem[a] /\ InDmem(a) = mem[a]
             /\ Payload[a - Base] = mem[a]
             /\ DmemLoad(hex)[a - (a % DWidth)][a % DWidth] = mem[a]
  <2>1. InImem(a) = mem[a]
    BY <1>1, <1>2, <1>3, BakedByte DEF InImem
  <2>2. InDmem(a) = mem[a]
    BY <1>1, <1>2, <1>3, BakedByte DEF InDmem
  <2>3. Payload[a - Base] = mem[a]
    <3>1. Max(DOMAIN mem) \in DOMAIN mem /\ \A b \in DOMAIN mem : Max(DOMAIN mem) >= b
      BY <1>2, <1>3, MaxIs
    <3>2. a \in Nat /\ Max(DOMAIN mem) \in Nat /\ Base <= a /\ a <= Max(DOMAIN mem)
      BY <1>2, <1>3, <3>1
    <3>3. a - Base \in 0..(Max(DOMAIN mem) - Base) /\ Base + (a - Base) = a
      BY <1>3, <3>2
    <3>4. Payload[a - Base] = At(mem, Base + (a - Base))
      BY <3>3 DEF Payload
    <3>. QED BY <3>3, <3>4 DEF At
  <2>4. DmemLoad(hex)[a - (a % DWidth)][a % DWidth] = mem[a]
    <3>1. Pack(mem, DWidth)[a - (a % DWidth)][a % DWidth] = mem[a]
      BY <1>2, <1>3, PackHolds
    <3>. QED BY <1>4, <3>1
  <2>. QED BY <2>1, <2>2, <2>3, <2>4
<1>6. (\A i \in DOMAIN hex : hex[i].at % DWidth = 0) => ImemLoad(hex) = DmemLoad(hex)
  BY <1>1, <1>2, <1>4, ImemIsPack
<1>. QED BY <1>4, <1>5, <1>6 DEF MemoriesAgree

(* Every byte of an accepted program is at its address in both arrays of   *)
(* the bitstream, in the payload of an upload and in the testbench's       *)
(* memories, for every depth, width and list of sections.                  *)
THEOREM BytesAtTheirAddresses == ImagesSpec => []MemoriesAgree
<1>1. ImagesInv => MemoriesAgree
  BY DoneAgrees
<1>. QED BY <1>1, ImagesInvariant, PTL

----------------------------------------------------------------------------
(* The trace comparison: reading the log.                                  *)

(* There is a reader of every log: otherwise there would be a shortest     *)
(* beginning that has none.                                                *)
IsReader(g, s, k) == g = [n \in 0..k |-> IF n = 0 THEN Start ELSE ReadLine(g[n - 1], s[n])]

LEMMA ReaderExists ==
  ASSUME NEW s, NEW N \in Nat
  PROVE  \E g : IsReader(g, s, N)
<1>. DEFINE Failing == {k \in 0..N : ~ \E g : IsReader(g, s, k)}
<1>1. SUFFICES ASSUME Failing # {} PROVE FALSE
  <2>1. N \in 0..N
    OBVIOUS
  <2>. QED BY <2>1
<1>2. PICK k \in Failing : \A j \in Failing : k <= j
  <2>1. Failing \in SUBSET Nat
    OBVIOUS
  <2>. QED BY <1>1, <2>1, FirstOf
<1>3. k \in Nat /\ k \in 0..N
  OBVIOUS
<1>4. k # 0
  <2>. SUFFICES ASSUME k = 0 PROVE FALSE
    OBVIOUS
  <2>. DEFINE g == [n \in 0..0 |-> Start]
  <2>1. g = [n \in 0..0 |-> IF n = 0 THEN Start ELSE ReadLine(g[n - 1], s[n])]
    OBVIOUS
  <2>2. IsReader(g, s, 0)
    BY <2>1 DEF IsReader
  <2>. QED BY <2>2
<1>5. PICK g : IsReader(g, s, k - 1)
  <2>1. k - 1 \in 0..N /\ ~(k <= k - 1)
    BY <1>3, <1>4
  <2>2. k - 1 \notin Failing
    BY <1>2, <2>1
  <2>. QED BY <2>1, <2>2, Zenon
<1>. DEFINE h == [n \in 0..k |-> IF n = k THEN ReadLine(g[k - 1], s[k]) ELSE g[n]]
<1>6. ASSUME NEW n \in 0..k
      PROVE  h[n] = IF n = 0 THEN Start ELSE ReadLine(h[n - 1], s[n])
  <2>1. n # 0 => n - 1 \in 0..(k - 1) /\ n - 1 \in 0..k /\ n - 1 # k
    BY <1>3
  <2>2. n # 0 => h[n - 1] = g[n - 1]
    BY <2>1
  <2>3. CASE n = k
    <3>1. h[n] = ReadLine(g[k - 1], s[k])
      BY <2>3
    <3>. QED BY <1>4, <2>2, <2>3, <3>1, Zenon
  <2>4. CASE n # k
    <3>1. n \in 0..(k - 1)
      BY <1>3, <2>4
    <3>2. g[n] = IF n = 0 THEN Start ELSE ReadLine(g[n - 1], s[n])
      <4>. DEFINE G == [x \in 0..(k - 1) |-> IF x = 0 THEN Start ELSE ReadLine(g[x - 1], s[x])]
      <4>1. g = G
        BY <1>5 DEF IsReader
      <4>2. G[n] = IF n = 0 THEN Start ELSE ReadLine(g[n - 1], s[n])
        BY <3>1
      <4>. QED BY <4>1, <4>2, Zenon
    <3>3. h[n] = g[n]
      BY <2>4
    <3>. QED BY <2>2, <3>2, <3>3, Zenon
  <2>. QED BY <2>3, <2>4
<1>7. IsReader(h, s, k)
  <2>1. h = [n \in 0..k |-> h[n]]
    OBVIOUS
  <2>. HIDE DEF h
  <2>2. [n \in 0..k |-> h[n]] = [n \in 0..k |-> IF n = 0 THEN Start ELSE ReadLine(h[n - 1], s[n])]
    BY <1>6, Zenon
  <2>. QED BY <2>1, <2>2, Zenon DEF IsReader
<1>. QED BY <1>2, <1>7

Reads(g, s, N) == g[0] = Start /\ \A n \in 1..N : g[n] = ReadLine(g[n - 1], s[n])

LEMMA ReaderOf ==
  ASSUME NEW s, NEW N \in Nat, Len(s) = N
  PROVE  \E g : ReadLines(s) = g[N] /\ Reads(g, s, N)
<1>. DEFINE g == CHOOSE p : p = [n \in 0..N |-> IF n = 0 THEN Start ELSE ReadLine(p[n - 1], s[n])]
<1>1. g = [n \in 0..N |-> IF n = 0 THEN Start ELSE ReadLine(g[n - 1], s[n])]
  BY ReaderExists DEF IsReader
<1>2. ReadLines(s) = g[N]
  BY DEF ReadLines
<1>. HIDE DEF g
<1>3. \A n \in 0..N : g[n] = IF n = 0 THEN Start ELSE ReadLine(g[n - 1], s[n])
  <2>. DEFINE G == [n \in 0..N |-> IF n = 0 THEN Start ELSE ReadLine(g[n - 1], s[n])]
  <2>1. \A n \in 0..N : G[n] = IF n = 0 THEN Start ELSE ReadLine(g[n - 1], s[n])
    BY Zenon
  <2>. QED BY <1>1, <2>1, Zenon
<1>4. g[0] = Start
  <2>1. 0 \in 0..N
    OBVIOUS
  <2>. QED BY <1>3, <2>1, Zenon
<1>5. \A n \in 1..N : g[n] = ReadLine(g[n - 1], s[n])
  <2>1. \A n \in 1..N : n \in 0..N /\ n # 0
    OBVIOUS
  <2>. QED BY <1>3, <2>1, Zenon
<1>. QED BY <1>2, <1>4, <1>5 DEF Reads

LEMMA ReadsNothing == ReadLines(<< >>) = Start
BY ReaderOf DEF Reads

(* One more line is one more reading. *)
LEMMA SameReadings ==
  ASSUME NEW N \in Nat, NEW s, NEW g, NEW h, Reads(g, s, N), Reads(h, s, N)
  PROVE  g[N] = h[N]
<1>1. \A n \in 1..N : g[n - 1] = h[n - 1] => g[n] = h[n]
  BY Zenon DEF Reads
<1>2. g[0] = h[0]
  BY DEF Reads
<1>3. \A n \in 0..N : g[n] = h[n]
  BY <1>1, <1>2, SameRecursion
<1>. QED BY <1>3

LEMMA ReadsOn ==
  ASSUME NEW s, NEW t, NEW N \in Nat, Len(s) = N, Len(t) = N + 1,
         \A n \in 1..N : t[n] = s[n]
  PROVE  ReadLines(t) = ReadLine(ReadLines(s), t[N + 1])
<1>1. PICK g : ReadLines(s) = g[N] /\ Reads(g, s, N)
  BY ReaderOf
<1>2. N + 1 \in Nat /\ (N + 1) - 1 = N /\ N + 1 \in 1..(N + 1)
      /\ \A n \in 1..N : n \in 1..(N + 1)
  OBVIOUS
<1>3. PICK h : ReadLines(t) = h[N + 1] /\ Reads(h, t, N + 1)
  BY <1>2, ReaderOf
<1>4. Reads(h, s, N)
  BY <1>2, <1>3, Zenon DEF Reads
<1>5. g[N] = h[N]
  BY <1>1, <1>4, SameReadings
<1>6. h[N + 1] = ReadLine(h[N], t[N + 1])
  BY <1>2, <1>3, Zenon DEF Reads
<1>. QED BY <1>1, <1>3, <1>5, <1>6, Zenon

----------------------------------------------------------------------------
Csrs == Seq(Addresses)
Written ==
  [line : {"core", "commit", "illegal", "tval", "exception"}, pc : Int,
   op : {"", "auipc", "jr", "sw", "wfi", "add", "lw", "unimp", "ecall"},
   gpr : Seq((Regs \cup {"x5"}) \X (Values \cup {0})), csr : Csrs]
Ops == {"sw", "wfi", "add", "lw", "unimp", "ecall"}
IsOp(pc, op) == pc \in Int /\ op \in Ops
Gprs == Seq({AbiName[r] : r \in Regs} \X Values)
Named == [pc : Int, op : Ops,
          gpr : Gprs, csr : Csrs]
Readers == [trampoline : BOOLEAN, instr : Seq(Named), rows : Seq(Named), stop : BOOLEAN]

LEMMA AfterTwo ==
  ASSUME NEW s \in Seq(Written), NEW a \in Written, NEW b \in Written
  PROVE  ReadLines(s \o <<a, b>>) = ReadLine(ReadLine(ReadLines(s), a), b)
<1>1. PICK n \in Nat : Len(s) = n
  OBVIOUS
<1>2. PICK m \in Nat : m = n + 1
  OBVIOUS
<1>3. PICK one, two : one = s \o <<a>> /\ two = s \o <<a, b>>
  OBVIOUS
<1>4. Len(one) = n + 1 /\ one[n + 1] = a /\ \A k \in 1..n : one[k] = s[k]
  <2>1. /\ Len(s \o <<a>>) = n + 1 /\ (s \o <<a>>)[n + 1] = a
        /\ \A k \in 1..n : (s \o <<a>>)[k] = s[k]
    BY <1>1
  <2>. QED BY <1>3, <2>1, Zenon
<1>5. Len(two) = m + 1 /\ two[m + 1] = b /\ \A k \in 1..m : two[k] = one[k]
  <2>1. /\ Len(s \o <<a, b>>) = (n + 1) + 1 /\ (s \o <<a, b>>)[(n + 1) + 1] = b
        /\ \A k \in 1..(n + 1) : (s \o <<a, b>>)[k] = (s \o <<a>>)[k]
    BY <1>1
  <2>. QED BY <1>2, <1>3, <2>1, Zenon
<1>6. ReadLines(one) = ReadLine(ReadLines(s), a)
  BY <1>1, <1>4, ReadsOn
<1>7. ReadLines(two) = ReadLine(ReadLines(one), b)
  BY <1>2, <1>4, <1>5, ReadsOn
<1>. QED BY <1>3, <1>6, <1>7, Zenon

LEMMA AfterThree ==
  ASSUME NEW s \in Seq(Written), NEW a \in Written, NEW b \in Written, NEW c \in Written
  PROVE  ReadLines(s \o <<a, b, c>>) = ReadLine(ReadLine(ReadLine(ReadLines(s), a), b), c)
<1>1. PICK t \in Seq(Written) : t = s \o <<a, b>>
  <2>1. s \o <<a, b>> \in Seq(Written)
    OBVIOUS
  <2>. QED BY <2>1, Zenon
<1>2. PICK u \in Seq(Written) : u = s \o <<a, b, c>>
  <2>1. s \o <<a, b, c>> \in Seq(Written)
    OBVIOUS
  <2>. QED BY <2>1, Zenon
<1>3. PICK n \in Nat : Len(t) = n
  OBVIOUS
<1>4. Len(u) = n + 1 /\ u[n + 1] = c /\ \A k \in 1..n : u[k] = t[k]
  <2>1. u = Append(t, c)
    <3>1. s \o <<a, b, c>> = Append(s \o <<a, b>>, c)
      OBVIOUS
    <3>. QED BY <1>1, <1>2, <3>1, Zenon
  <2>. QED BY <1>3, <2>1
<1>5. ReadLines(u) = ReadLine(ReadLines(t), c)
  BY <1>3, <1>4, ReadsOn
<1>6. ReadLines(t) = ReadLine(ReadLine(ReadLines(s), a), b)
  BY <1>1, AfterTwo
<1>. QED BY <1>1, <1>2, <1>5, <1>6, Zenon

(* A reader past the trampoline, with these rows, this instruction in hand.*)
Stands(p, rows, instr, stop) ==
  p \in Readers /\ p.trampoline = FALSE /\ p.rows = rows /\ p.instr = instr /\ p.stop = stop
NamedRow(pc, op, gpr, csr_col) == [pc |-> pc, op |-> op, gpr |-> gpr, csr |-> csr_col]

LEMMA NamedRows ==
  ASSUME NEW pc, NEW op, IsOp(pc, op), NEW u \in Gprs, NEW c \in Csrs
  PROVE  /\ NamedRow(pc, op, u, c) \in Named
         /\ NamedRow(pc, op, u, c).gpr = u /\ NamedRow(pc, op, u, c).csr = c
BY DEF Named, NamedRow, IsOp

EmptyRow(pc, op) == NamedRow(pc, op, << >>, << >>)

LEMMA EmptyRows ==
  ASSUME NEW pc, NEW op, IsOp(pc, op)
  PROVE  /\ EmptyRow(pc, op) \in Named
         /\ EmptyRow(pc, op).gpr = << >> /\ EmptyRow(pc, op).csr = << >>
<1>1. << >> \in Gprs /\ << >> \in Csrs
  BY DEF Gprs, Csrs
<1>. QED BY <1>1, NamedRows DEF EmptyRow

LEMMA AfterCore ==
  ASSUME NEW p, NEW rows, NEW instr, Stands(p, rows, instr, FALSE), NEW pc, NEW op, IsOp(pc, op)
  PROVE  Stands(ReadLine(p, Core(pc, op)), rows \o instr, <<EmptyRow(pc, op)>>, op = "ecall")
<1>. pc \in Int /\ op \in Ops
  BY DEF IsOp
<1>. rows \in Seq(Named) /\ instr \in Seq(Named)
  BY DEF Stands, Readers
<1>1. PICK b \in BOOLEAN : b = (op = "ecall")
  OBVIOUS
<1>2. PICK r \in Seq(Named) : r = rows \o instr
  <2>1. rows \o instr \in Seq(Named)
    OBVIOUS
  <2>. QED BY <2>1, Zenon
<1>3. PICK y \in Named : y = EmptyRow(pc, op)
  BY EmptyRows, Zenon
<1>4. /\ RowOf(Core(pc, op)) = y /\ Core(pc, op).op = op
      /\ Core(pc, op).line = "core"
  BY <1>3 DEF RowOf, Core, EmptyRow, NamedRow
<1>5. ReadLine(p, Core(pc, op)) = ReadCore(p, Core(pc, op))
  BY <1>4 DEF ReadLine, Stands
<1>6. ReadCore(p, Core(pc, op)) = [p EXCEPT !.rows = r, !.instr = <<y>>, !.stop = b]
  BY <1>2, <1>4, <1>1, Zenon DEF ReadCore, Stands
<1>7. <<y>> \in Seq(Named)
  OBVIOUS
<1>. DEFINE q == [p EXCEPT !.rows = r, !.instr = <<y>>, !.stop = b]
<1>8. q \in Readers
  BY <1>7 DEF Stands, Readers
<1>9. q.trampoline = FALSE /\ q.rows = r /\ q.instr = <<y>> /\ q.stop = b
  BY DEF Stands, Readers
<1>. QED BY <1>2, <1>3, <1>1, <1>5, <1>6, <1>8, <1>9, Zenon DEF Stands

IsUpdate(g, c, u) == u \in Gprs /\ c \in Csrs /\ u = AbiNamed(g)

LEMMA PutGpr ==
  \A pc, op, g, c, new :
    [NamedRow(pc, op, g, c) EXCEPT !.gpr = new] = NamedRow(pc, op, new, c)
BY DEF NamedRow

LEMMA FilledRow ==
  ASSUME NEW pc, NEW op, NEW g, NEW c, NEW u, IsUpdate(g, c, u)
  PROVE  ReadEffect(EmptyRow(pc, op), Commit(g, c)) = NamedRow(pc, op, u, c)
<1>. DEFINE l == Commit(g, c)
            y == EmptyRow(pc, op)
<1>1. l.gpr = g /\ l.csr = c
  BY DEF Commit
<1>2. << >> \o u = u /\ << >> \o c = c
  BY DEF IsUpdate, Gprs, Csrs
<1>3. y.gpr = << >> /\ y.csr = << >>
  BY DEF EmptyRow, NamedRow
<1>4. ReadEffect(y, l) = [y EXCEPT !.gpr = y.gpr \o AbiNamed(l.gpr), !.csr = y.csr \o l.csr]
  BY DEF ReadEffect, EmptyRow, NamedRow
<1>5. [y EXCEPT !.gpr = u, !.csr = c] = NamedRow(pc, op, u, c)
  <2>. HIDE DEF y, l
  <2>1. \A z : [z EXCEPT !.gpr = u, !.csr = c] = [[z EXCEPT !.gpr = u] EXCEPT !.csr = c]
    OBVIOUS
  <2>2. [y EXCEPT !.gpr = u] = NamedRow(pc, op, u, << >>)
    <3>1. y = NamedRow(pc, op, << >>, << >>)
      BY DEF y, EmptyRow
    <3>. QED BY <3>1, PutGpr
  <2>3. [NamedRow(pc, op, u, << >>) EXCEPT !.csr = c] = NamedRow(pc, op, u, c)
    BY DEF NamedRow
  <2>. QED BY <2>1, <2>2, <2>3, Zenon
<1>. HIDE DEF y, l
<1>6. ReadEffect(y, l) = NamedRow(pc, op, u, c)
  BY <1>1, <1>2, <1>3, <1>4, <1>5, Zenon DEF IsUpdate
<1>. QED BY <1>6 DEF y, l

LEMMA AfterCommit ==
  ASSUME NEW p, NEW rows, NEW pc, NEW op, Stands(p, rows, <<EmptyRow(pc, op)>>, FALSE),
         IsOp(pc, op), NEW g, NEW c, NEW u, IsUpdate(g, c, u)
  PROVE  Stands(ReadLine(p, Commit(g, c)), rows, <<NamedRow(pc, op, u, c)>>, FALSE)
<1>. pc \in Int /\ op \in Ops
  BY DEF IsOp
<1>1. Commit(g, c).line = "commit"
  BY DEF Commit
<1>2. PICK y \in Named : y = EmptyRow(pc, op)
  BY EmptyRows, Zenon
<1>3. PICK z \in Named : z = NamedRow(pc, op, u, c)
  BY NamedRows, Zenon DEF IsUpdate
<1>4. ReadEffect(y, Commit(g, c)) = z
  BY <1>2, <1>3, FilledRow, Zenon
<1>5. p.instr = <<y>>
  BY <1>2, Zenon DEF Stands
<1>6. <<y>>[1] = y /\ <<y>> # << >>
  OBVIOUS
<1>7. ReadLine(p, Commit(g, c)) = [p EXCEPT !.instr = <<ReadEffect(p.instr[1], Commit(g, c))>>]
  BY <1>1, <1>5, <1>6 DEF ReadLine, Stands
<1>8. PICK instr \in Seq(Named) : instr = <<z>>
  <2>1. <<z>> \in Seq(Named)
    OBVIOUS
  <2>. QED BY <2>1, Zenon
<1>9. ReadLine(p, Commit(g, c)) = [p EXCEPT !.instr = instr]
  BY <1>4, <1>5, <1>6, <1>7, <1>8, Zenon
<1>10. [p EXCEPT !.instr = instr] \in Readers
  BY DEF Stands, Readers
<1>11. LET q == [p EXCEPT !.instr = instr]
       IN  q.trampoline = p.trampoline /\ q.rows = p.rows /\ q.instr = instr /\ q.stop = p.stop
  BY DEF Stands, Readers
<1>. QED BY <1>3, <1>8, <1>9, <1>10, <1>11, Zenon DEF Stands

LEMMA AfterTrap ==
  ASSUME NEW rows \in Seq(Named), NEW instr \in Seq(Named), NEW p, Stands(p, rows, instr, FALSE)
  PROVE  /\ Stands(ReadLine(p, Trap("illegal")), rows \o instr, << >>, FALSE)
         /\ Stands(ReadLine(p, Trap("tval")), rows, instr, FALSE)
<1>1. \A w : Trap(w).line = w
  BY DEF Trap
<1>2. ReadLine(p, Trap("tval")) = p
  BY <1>1 DEF ReadLine, Stands
<1>3. PICK r \in Seq(Named) : r = rows \o instr
  <2>1. rows \o instr \in Seq(Named)
    OBVIOUS
  <2>. QED BY <2>1, Zenon
<1>. DEFINE q == [p EXCEPT !.rows = r, !.instr = << >>]
<1>4. CASE instr = << >>
  <2>1. rows \o instr = rows
    BY <1>4
  <2>2. ReadLine(p, Trap("illegal")) = p
    BY <1>1, <1>4 DEF ReadLine, Stands
  <2>. QED BY <1>2, <1>4, <2>1, <2>2, Zenon
<1>5. CASE instr # << >>
  <2>1. ReadLine(p, Trap("illegal")) = [p EXCEPT !.rows = p.rows \o p.instr, !.instr = << >>]
    BY <1>1, <1>5 DEF ReadLine, Stands
  <2>2. [p EXCEPT !.rows = p.rows \o p.instr, !.instr = << >>] = q
    BY <1>3, Zenon DEF Stands
  <2>3. << >> \in Seq(Named)
    OBVIOUS
  <2>4. q \in Readers
    BY <2>3 DEF Stands, Readers
  <2>5. q.trampoline = p.trampoline /\ q.rows = r /\ q.instr = << >> /\ q.stop = p.stop
    BY DEF Stands, Readers
  <2>6. Stands(ReadLine(p, Trap("illegal")), rows \o instr, << >>, FALSE)
    BY <1>3, <2>1, <2>2, <2>4, <2>5, Zenon DEF Stands
  <2>. QED BY <1>2, <2>6, Zenon
<1>. QED BY <1>4, <1>5, Zenon

LEMMA AfterStop == ASSUME NEW p, NEW l, p.stop PROVE ReadLine(p, l) = p
BY DEF ReadLine

LEMMA LineTypes ==
  /\ \A pc \in Int, op \in {"auipc", "jr", "sw", "wfi", "add", "lw", "unimp", "ecall"} :
       Core(pc, op) \in Written
  /\ \A gpr \in Seq((Regs \cup {"x5"}) \X (Values \cup {0})), c \in Csrs :
       Commit(gpr, c) \in Written
  /\ \A what \in {"illegal", "tval", "exception"} : Trap(what) \in Written
<1>1. << >> \in Seq((Regs \cup {"x5"}) \X (Values \cup {0})) /\ << >> \in Csrs
  BY DEF Csrs
<1>2. ASSUME NEW pc \in Int, NEW op \in {"auipc", "jr", "sw", "wfi", "add", "lw", "unimp", "ecall"}
      PROVE  Core(pc, op) \in Written
  BY <1>1 DEF Core, Written
<1>3. ASSUME NEW gpr \in Seq((Regs \cup {"x5"}) \X (Values \cup {0})), NEW c \in Csrs
      PROVE  Commit(gpr, c) \in Written
  BY DEF Commit, Written
<1>4. ASSUME NEW what \in {"illegal", "tval", "exception"} PROVE Trap(what) \in Written
  BY <1>1 DEF Trap, Written
<1>. QED BY <1>2, <1>3, <1>4

IsOneMore(s, t, l, n) ==
  Len(s) = n /\ Len(t) = n + 1 /\ t[n + 1] = l /\ \A k \in 1..n : t[k] = s[k]

LEMMA AfterOne ==
  ASSUME NEW s, NEW t, NEW l, NEW n \in Nat, IsOneMore(s, t, l, n)
  PROVE  ReadLines(t) = ReadLine(ReadLines(s), l)
BY ReadsOn DEF IsOneMore

LEMMA TrampolineType == Trampoline \in Seq(Written)
<1>. DEFINE a == Core(-2, "auipc")
            b == Commit(<<<<"x5", 0>>>>, << >>)
            c == Core(-1, "jr")
            d == Commit(<< >>, << >>)
<1>1. /\ <<<<"x5", 0>>>> \in Seq((Regs \cup {"x5"}) \X (Values \cup {0}))
      /\ << >> \in Seq((Regs \cup {"x5"}) \X (Values \cup {0})) /\ << >> \in Csrs
  BY DEF Csrs
<1>2. a \in Written /\ c \in Written
  BY LineTypes
<1>3. b \in Written /\ d \in Written
  BY <1>1, LineTypes, Zenon
<1>. HIDE DEF a, b, c, d
<1>4. <<a, b, c, d>> \in Seq(Written)
  BY <1>2, <1>3
<1>. QED BY <1>4 DEF a, b, c, d, Trampoline

LEMMA AfterTrampoline == Stands(ReadLines(Trampoline), << >>, << >>, FALSE)
<1>. DEFINE a == Core(-2, "auipc")
            b == Commit(<<<<"x5", 0>>>>, << >>)
            c == Core(-1, "jr")
            d == Commit(<< >>, << >>)
<1>1. Start \in Readers /\ Start.trampoline /\ ~Start.stop
  <2>1. << >> \in Seq(Named)
    OBVIOUS
  <2>. QED BY <2>1 DEF Start, Readers
<1>2. PICK p \in Readers : p = Start
  BY <1>1, Zenon
<1>3. p.trampoline = TRUE /\ p.stop = FALSE /\ p.rows = << >> /\ p.instr = << >>
  BY <1>2 DEF Start
<1>4. ReadLine(p, a) = p /\ ReadLine(p, b) = p
  <2>1. ~EndsTrampoline(a) /\ ~EndsTrampoline(b)
    BY DEF EndsTrampoline, Core, Commit
  <2>2. [p EXCEPT !.trampoline = TRUE] = p
    BY <1>3 DEF Readers
  <2>. QED BY <1>3, <2>1, <2>2 DEF ReadLine
<1>5. Stands(ReadLine(p, c), << >>, << >>, FALSE)
  <2>1. EndsTrampoline(c)
    BY DEF EndsTrampoline, Core
  <2>2. ReadLine(p, c) = [p EXCEPT !.trampoline = FALSE]
    BY <1>3, <2>1 DEF ReadLine
  <2>. QED BY <1>3, <2>2 DEF Stands, Readers
<1>6. ReadLine(ReadLine(p, c), d) = ReadLine(p, c)
  BY <1>5 DEF ReadLine, Stands, Commit
<1>7. Trampoline = <<a, b, c, d>>
  BY DEF Trampoline
<1>. HIDE DEF a, b, c, d
<1>8. ReadLines(<< >>) = p
  BY <1>2, ReadsNothing
<1>9. ReadLines(<<a>>) = ReadLine(ReadLines(<< >>), a)
  <2>1. IsOneMore(<< >>, <<a>>, a, 0)
    BY DEF IsOneMore
  <2>. QED BY <2>1, AfterOne
<1>10. ReadLines(<<a, b>>) = ReadLine(ReadLines(<<a>>), b)
  <2>1. IsOneMore(<<a>>, <<a, b>>, b, 1)
    BY DEF IsOneMore
  <2>. QED BY <2>1, AfterOne
<1>11. ReadLines(<<a, b, c>>) = ReadLine(ReadLines(<<a, b>>), c)
  <2>1. IsOneMore(<<a, b>>, <<a, b, c>>, c, 2)
    BY DEF IsOneMore
  <2>. QED BY <2>1, AfterOne
<1>12. ReadLines(<<a, b, c, d>>) = ReadLine(ReadLines(<<a, b, c>>), d)
  <2>1. IsOneMore(<<a, b, c>>, <<a, b, c, d>>, d, 3)
    BY DEF IsOneMore
  <2>. QED BY <2>1, AfterOne
<1>. QED BY <1>4, <1>5, <1>6, <1>7, <1>8, <1>9, <1>10, <1>11, <1>12, Zenon

LEMMA InstrType ==
  ASSUME NEW pc \in Int, NEW i \in Instr(pc)
  PROVE  /\ i.pc = pc /\ i.op \in {"sw", "wfi", "add", "lw", "illegal", "ecall"}
         /\ i.gpr \in Seq(Regs \X Values) /\ i.csr \in Csrs
         /\ i.op \notin {"add", "lw"} => i.gpr = << >> /\ i.csr = << >>
         /\ i.gpr = << >> \/ \E r \in Regs, v \in Values : i.gpr = <<<<r, v>>>>
<1>1. CASE \E op \in {"sw", "wfi", "illegal", "ecall"} :
              i = [pc |-> pc, op |-> op, gpr |-> << >>, csr |-> << >>]
  BY <1>1 DEF Csrs
<1>2. CASE \E r \in Regs, v \in Values :
              i = [pc |-> pc, op |-> "add", gpr |-> <<<<r, v>>>>, csr |-> << >>]
  <2>1. PICK r \in Regs, v \in Values :
               i = [pc |-> pc, op |-> "add", gpr |-> <<<<r, v>>>>, csr |-> << >>]
    BY <1>2
  <2>2. <<<<r, v>>>> \in Seq(Regs \X Values) /\ << >> \in Csrs
    BY DEF Csrs
  <2>3. i.pc = pc /\ i.op = "add" /\ i.gpr = <<<<r, v>>>> /\ i.csr = << >>
    BY <2>1
  <2>. QED BY <2>2, <2>3
<1>3. CASE \E r \in Regs, v \in Values, a \in Addresses :
              i = [pc |-> pc, op |-> "lw", gpr |-> <<<<r, v>>>>, csr |-> <<a>>]
  <2>1. PICK r \in Regs, v \in Values, a \in Addresses :
               i = [pc |-> pc, op |-> "lw", gpr |-> <<<<r, v>>>>, csr |-> <<a>>]
    BY <1>3
  <2>2. <<<<r, v>>>> \in Seq(Regs \X Values) /\ <<a>> \in Csrs
    BY DEF Csrs
  <2>3. i.pc = pc /\ i.op = "lw" /\ i.gpr = <<<<r, v>>>> /\ i.csr = <<a>>
    BY <2>1
  <2>. QED BY <2>2, <2>3
<1>. QED BY <1>1, <1>2, <1>3 DEF Instr

LEMMA UpdateType ==
  ASSUME NEW g \in Seq(Regs \X Values)
  PROVE  /\ AbiNamed(g) \in Gprs
         /\ g \in Seq((Regs \cup {"x5"}) \X (Values \cup {0}))
<1>1. PICK n \in Nat : Len(g) = n
  OBVIOUS
<1>2. \A k \in 1..n : g[k] \in Regs \X Values
  BY <1>1
<1>3. DOMAIN g = 1..n
  BY <1>1
<1>4. \A k \in 1..n : <<AbiName[g[k][1]], g[k][2]>> \in {AbiName[r] : r \in Regs} \X Values
  BY <1>2
<1>5. [k \in 1..n |-> <<AbiName[g[k][1]], g[k][2]>>] \in Gprs
  BY <1>4 DEF Gprs
<1>6. g = [k \in 1..n |-> g[k]]
  BY <1>1
<1>7. [k \in 1..n |-> g[k]] \in Seq((Regs \cup {"x5"}) \X (Values \cup {0}))
  BY <1>2
<1>. QED BY <1>3, <1>5, <1>6, <1>7, Zenon DEF AbiNamed

(* What is read of one instruction: its row. *)
LEMMA ReadsInstruction ==
  ASSUME NEW s \in Seq(Written), NEW pc \in Nat, NEW i \in Instr(pc),
         NEW rows \in Seq(Named), NEW instr \in Seq(Named), Stands(ReadLines(s), rows, instr, FALSE)
  PROVE  \E r \in Seq(Named), h \in Seq(Named) :
           /\ Stands(ReadLines(s \o Lines(i)), r, h, i.op = "ecall")
           /\ r \o h = Append(rows \o instr, RowFor(i, AbiName))
<1>. DEFINE Goal == \E r \in Seq(Named), h \in Seq(Named) :
           /\ Stands(ReadLines(s \o Lines(i)), r, h, i.op = "ecall")
           /\ r \o h = Append(rows \o instr, RowFor(i, AbiName))
<1>1. /\ i.pc = pc /\ i.op \in {"sw", "wfi", "add", "lw", "illegal", "ecall"}
      /\ i.gpr \in Seq(Regs \X Values) /\ i.csr \in Csrs
      /\ i.op \notin {"add", "lw"} => i.gpr = << >> /\ i.csr = << >>
  BY InstrType
<1>2. PICK g \in Seq(Regs \X Values) : g = i.gpr
  BY <1>1, Zenon
<1>. PICK c \in Csrs : c = i.csr
  BY <1>1, Zenon
<1>3. PICK u \in Gprs : u = AbiNamed(g)
  BY UpdateType, Zenon
<1>4. Core(pc, i.op) \in Written \/ i.op = "illegal"
  BY <1>1, LineTypes
<1>5. Commit(g, c) \in Written
  BY UpdateType, LineTypes, Zenon
<1>6. PICK r \in Seq(Named) : r = rows \o instr
  <2>1. rows \o instr \in Seq(Named)
    OBVIOUS
  <2>. QED BY <2>1, Zenon
<1>7. ASSUME i.op \in {"sw", "wfi", "add", "lw"} PROVE Goal
  <2>1. Lines(i) = <<Core(pc, i.op), Commit(g, c)>>
    BY <1>1, <1>2, <1>7 DEF Lines
  <2>2. ReadLines(s \o Lines(i)) = ReadLine(ReadLine(ReadLines(s), Core(pc, i.op)), Commit(g, c))
    BY <1>4, <1>5, <1>7, <2>1, AfterTwo
  <2>3. PICK op \in Ops : op = i.op
    BY <1>7 DEF Ops
  <2>4. (op = "ecall") = FALSE /\ IsOp(pc, op)
    BY <1>7, <2>3 DEF IsOp
  <2>5. Stands(ReadLines(s \o Lines(i)), r, <<NamedRow(pc, i.op, u, c)>>, FALSE)
    <3>1. Stands(ReadLine(ReadLines(s), Core(pc, op)), rows \o instr, <<EmptyRow(pc, op)>>,
             op = "ecall")
      BY <2>4, AfterCore, Zenon
    <3>2. Stands(ReadLine(ReadLines(s), Core(pc, op)), r, <<EmptyRow(pc, op)>>, FALSE)
      BY <1>6, <2>4, <3>1, Zenon
    <3>3. Stands(ReadLine(ReadLine(ReadLines(s), Core(pc, op)), Commit(g, c)), r,
             <<NamedRow(pc, op, u, c)>>, FALSE)
      BY <1>3, <2>4, <3>2, AfterCommit, Zenon DEF IsUpdate
    <3>. QED BY <2>2, <2>3, <3>3, Zenon
  <2>6. RowFor(i, AbiName) = NamedRow(pc, i.op, u, c)
    BY <1>1, <1>2, <1>3, <1>7 DEF RowFor, NamedRow, AbiNamed
  <2>7. PICK y \in Named : y = NamedRow(pc, i.op, u, c)
    BY <2>3, <2>4, NamedRows, Zenon
  <2>8. r \o <<y>> = Append(r, y) /\ <<y>> \in Seq(Named)
    OBVIOUS
  <2>. QED BY <1>6, <2>3, <2>5, <2>6, <2>7, <2>8, <2>4, Zenon
<1>8. i.op \notin {"add", "lw"} => u = << >> /\ c = << >>
  BY <1>1, <1>2, <1>3 DEF AbiNamed
<1>9. ASSUME i.op = "illegal" PROVE Goal
  <2>1. Lines(i) = <<Core(pc, "unimp"), Trap("illegal"), Trap("tval")>>
    BY <1>1, <1>9 DEF Lines
  <2>2. Core(pc, "unimp") \in Written /\ Trap("illegal") \in Written /\ Trap("tval") \in Written
    BY LineTypes
  <2>3. ReadLines(s \o Lines(i)) =
          ReadLine(ReadLine(ReadLine(ReadLines(s), Core(pc, "unimp")), Trap("illegal")),
                    Trap("tval"))
    BY <2>1, <2>2, AfterThree
  <2>4. PICK op \in Ops : op = "unimp"
    BY DEF Ops
  <2>5. (op = "ecall") = FALSE /\ IsOp(pc, op)
    BY <2>4 DEF IsOp
  <2>6. PICK y \in Named : y = NamedRow(pc, "unimp", u, c)
    BY <2>4, <2>5, NamedRows, Zenon
  <2>7. Stands(ReadLine(ReadLines(s), Core(pc, "unimp")), r, <<y>>, FALSE)
    <3>1. Stands(ReadLine(ReadLines(s), Core(pc, op)), rows \o instr, <<EmptyRow(pc, op)>>,
             op = "ecall")
      BY <2>5, AfterCore, Zenon
    <3>2. u = << >> /\ c = << >>
      BY <1>8, <1>9
    <3>. QED BY <1>6, <2>6, <2>4, <2>5, <3>1, <3>2, Zenon DEF EmptyRow
  <2>8. <<y>> \in Seq(Named) /\ r \o <<y>> = Append(r, y) /\ << >> \in Seq(Named)
    OBVIOUS
  <2>9. PICK q \in Seq(Named) : q = r \o <<y>>
    <3>1. r \o <<y>> \in Seq(Named)
      BY <2>8
    <3>. QED BY <3>1, Zenon
  <2>10. Stands(ReadLine(ReadLine(ReadLines(s), Core(pc, "unimp")), Trap("illegal")),
                q, << >>, FALSE)
    BY <2>7, <2>8, <2>9, AfterTrap
  <2>11. Stands(ReadLines(s \o Lines(i)), q, << >>, FALSE)
    BY <2>3, <2>8, <2>10, AfterTrap
  <2>12. RowFor(i, AbiName) = y
    BY <1>1, <1>2, <1>3, <1>9, <2>6 DEF RowFor, NamedRow, AbiNamed
  <2>13. q \o << >> = q
    OBVIOUS
  <2>14. (i.op = "ecall") = FALSE
    BY <1>9
  <2>. QED BY <1>6, <2>8, <2>9, <2>11, <2>12, <2>13, <2>14, Zenon
<1>10. ASSUME i.op = "ecall" PROVE Goal
  <2>1. Lines(i) = <<Core(pc, "ecall"), Trap("exception")>>
    BY <1>1, <1>10 DEF Lines
  <2>2. Core(pc, "ecall") \in Written /\ Trap("exception") \in Written
    BY LineTypes
  <2>3. ReadLines(s \o Lines(i)) =
          ReadLine(ReadLine(ReadLines(s), Core(pc, "ecall")), Trap("exception"))
    BY <2>1, <2>2, AfterTwo
  <2>4. PICK op \in Ops : op = "ecall"
    BY DEF Ops
  <2>5. (op = "ecall") = TRUE /\ IsOp(pc, op)
    BY <2>4 DEF IsOp
  <2>6. PICK y \in Named : y = NamedRow(pc, "ecall", u, c)
    BY <2>4, <2>5, NamedRows, Zenon
  <2>7. Stands(ReadLine(ReadLines(s), Core(pc, "ecall")), r, <<y>>, TRUE)
    <3>1. Stands(ReadLine(ReadLines(s), Core(pc, op)), rows \o instr, <<EmptyRow(pc, op)>>,
             op = "ecall")
      BY <2>5, AfterCore, Zenon
    <3>2. u = << >> /\ c = << >>
      BY <1>8, <1>10
    <3>. QED BY <1>6, <2>6, <2>4, <2>5, <3>1, <3>2, Zenon DEF EmptyRow
  <2>8. Stands(ReadLines(s \o Lines(i)), r, <<y>>, TRUE)
    BY <2>3, <2>7, AfterStop DEF Stands
  <2>9. RowFor(i, AbiName) = y
    BY <1>1, <1>2, <1>3, <1>10, <2>6 DEF RowFor, NamedRow, AbiNamed
  <2>10. <<y>> \in Seq(Named) /\ r \o <<y>> = Append(r, y)
    OBVIOUS
  <2>11. (i.op = "ecall") = TRUE
    BY <1>10
  <2>. QED BY <1>6, <2>8, <2>9, <2>10, <2>11, Zenon
<1>. QED BY <1>1, <1>7, <1>9, <1>10

----------------------------------------------------------------------------
(* The program's part of a run grows with the run until it has ended. *)
Ended(s) == \E k \in DOMAIN s : s[k].op = "ecall"
ProgramOf(s) ==
  LET ends == {k \in DOMAIN s : s[k].op = "ecall"}
  IN  IF ends = {} THEN s ELSE SubSeq(s, 1, Min(ends))

LEMMA ProgramGrows ==
  ASSUME NEW s \in Seq(Instructions), NEW i \in Instructions, ~Ended(s)
  PROVE  ProgramOf(s) = s /\ ProgramOf(Append(s, i)) = Append(s, i)
<1>1. ProgramOf(s) = s
  BY DEF ProgramOf, Ended
<1>2. PICK n \in Nat : Len(s) = n
  OBVIOUS
<1>3. /\ Append(s, i) \in Seq(Instructions) /\ Len(Append(s, i)) = n + 1
      /\ Append(s, i)[n + 1] = i
      /\ \A k \in 1..n : Append(s, i)[k] = s[k]
  BY <1>2
<1>4. CASE i.op # "ecall"
  <2>1. {k \in DOMAIN Append(s, i) : Append(s, i)[k].op = "ecall"} = {}
    BY <1>2, <1>3, <1>4 DEF Ended
  <2>. QED BY <1>1, <2>1 DEF ProgramOf
<1>5. CASE i.op = "ecall"
  <2>1. {k \in DOMAIN Append(s, i) : Append(s, i)[k].op = "ecall"} = {n + 1}
    BY <1>2, <1>3, <1>5 DEF Ended
  <2>2. Min({n + 1}) = n + 1
    <3>1. {n + 1} \in SUBSET Nat /\ {n + 1} # {}
      OBVIOUS
    <3>. QED BY <3>1, MinIs
  <2>3. SubSeq(Append(s, i), 1, n + 1) = Append(s, i)
    BY <1>2, <1>3
  <2>. QED BY <1>1, <2>1, <2>2, <2>3 DEF ProgramOf
<1>. QED BY <1>4, <1>5

LEMMA ProgramStays ==
  ASSUME NEW s \in Seq(Instructions), NEW i \in Instructions, Ended(s)
  PROVE  ProgramOf(Append(s, i)) = ProgramOf(s) /\ Ended(Append(s, i))
<1>1. PICK n \in Nat : Len(s) = n
  OBVIOUS
<1>. DEFINE E == {k \in 1..n : s[k].op = "ecall"}
            t == Append(s, i)
            F == {k \in 1..(n + 1) : t[k].op = "ecall"}
<1>2. /\ t \in Seq(Instructions) /\ Len(t) = n + 1 /\ DOMAIN t = 1..(n + 1)
      /\ DOMAIN s = 1..n /\ \A k \in 1..n : t[k] = s[k]
  BY <1>1
<1>. HIDE DEF t
<1>3. E # {} /\ E \in SUBSET Nat /\ F \in SUBSET Nat /\ E \subseteq F
      /\ F \subseteq E \cup {n + 1} /\ \A k \in E : k <= n
  BY <1>2 DEF Ended
<1>. HIDE DEF E, F
<1>4. PICK m \in E : m = Min(E) /\ \A k \in E : m <= k
  BY <1>3, MinIs
<1>5. PICK l \in F : l = Min(F) /\ \A k \in F : l <= k
  <2>1. F # {}
    BY <1>3
  <2>. QED BY <1>3, <2>1, MinIs
<1>6. m \in 1..n /\ l = m
  <2>1. m \in 1..n
    BY DEF E
  <2>2. l <= m /\ l \in Nat /\ m \in Nat
    BY <1>3, <1>5
  <2>3. l # n + 1
    BY <2>1, <2>2
  <2>4. m <= l
    BY <1>3, <1>4, <2>3
  <2>. QED BY <2>1, <2>2, <2>4
<1>7. SubSeq(t, 1, m) = SubSeq(s, 1, m)
  BY <1>1, <1>2, <1>6
<1>8. ProgramOf(s) = SubSeq(s, 1, m)
  <2>1. {k \in DOMAIN s : s[k].op = "ecall"} = E
    BY <1>2 DEF E
  <2>. QED BY <1>3, <1>4, <2>1 DEF ProgramOf
<1>9. ProgramOf(t) = SubSeq(t, 1, m)
  <2>1. {k \in DOMAIN t : t[k].op = "ecall"} = F
    BY <1>2 DEF F
  <2>. QED BY <1>3, <1>5, <1>6, <2>1 DEF ProgramOf
<1>10. Ended(t)
  BY <1>2 DEF Ended
<1>. QED BY <1>7, <1>8, <1>9, <1>10 DEF t

RowsOf(s, names) == [k \in DOMAIN ProgramOf(s) |-> RowFor(ProgramOf(s)[k], names)]

LEMMA RowsGrow ==
  ASSUME NEW s \in Seq(Instructions), NEW i \in Instructions, ~Ended(s)
  PROVE  RowsOf(Append(s, i), AbiName) = Append(RowsOf(s, AbiName), RowFor(i, AbiName))
<1>1. RowsOf(s, AbiName) = [k \in DOMAIN s |-> RowFor(s[k], AbiName)]
  BY ProgramGrows, Zenon DEF RowsOf
<1>2. RowsOf(Append(s, i), AbiName) =
        [k \in DOMAIN Append(s, i) |-> RowFor(Append(s, i)[k], AbiName)]
  BY ProgramGrows, Zenon DEF RowsOf
<1>3. PICK n \in Nat : Len(s) = n
  OBVIOUS
<1>4. /\ DOMAIN s = 1..n /\ DOMAIN Append(s, i) = 1..(n + 1)
      /\ \A k \in 1..n : Append(s, i)[k] = s[k]
      /\ Append(s, i)[n + 1] = i
  BY <1>3
<1>. DEFINE f == [k \in 1..n |-> RowFor(s[k], AbiName)]
            T == {RowFor(s[k], AbiName) : k \in 1..n} \cup {RowFor(i, AbiName)}
<1>5. f \in Seq(T) /\ Len(f) = n
  OBVIOUS
<1>6. Append(f, RowFor(i, AbiName)) =
        [k \in 1..(n + 1) |-> IF k = n + 1 THEN RowFor(i, AbiName) ELSE f[k]]
  BY <1>5
<1>7. \A k \in 1..(n + 1) : IF k = n + 1 THEN RowFor(i, AbiName) = RowFor(Append(s, i)[k], AbiName)
                            ELSE f[k] = RowFor(Append(s, i)[k], AbiName)
  <2>. SUFFICES ASSUME NEW k \in 1..(n + 1), k # n + 1 PROVE f[k] = RowFor(Append(s, i)[k], AbiName)
    BY <1>4, Zenon
  <2>1. k \in 1..n
    OBVIOUS
  <2>. QED BY <1>4, <2>1, Zenon
<1>. HIDE DEF f
<1>8. Append(f, RowFor(i, AbiName)) = [k \in 1..(n + 1) |-> RowFor(Append(s, i)[k], AbiName)]
  BY <1>6, <1>7, Zenon
<1>. QED BY <1>1, <1>2, <1>4, <1>8, Zenon DEF f

LEMMA RowsStay ==
  ASSUME NEW s \in Seq(Instructions), NEW i \in Instructions, Ended(s)
  PROVE  RowsOf(Append(s, i), AbiName) = RowsOf(s, AbiName)
BY ProgramStays DEF RowsOf

(* A reader of the log so far has made its row of each instruction. *)
Reading(l, s) ==
  /\ l \in Seq(Written)
  /\ \E rows \in Seq(Named), instr \in Seq(Named) :
       Stands(ReadLines(l), rows, instr, Ended(s)) /\ rows \o instr = RowsOf(s, AbiName)

LEMMA LinesAre ==
  ASSUME NEW pc \in Nat, NEW i \in Instr(pc)
  PROVE  \/ \E a, b \in Written : Lines(i) = <<a, b>>
         \/ \E a, b, c \in Written : Lines(i) = <<a, b, c>>
<1>1. /\ i.pc = pc /\ i.op \in {"sw", "wfi", "add", "lw", "illegal", "ecall"}
      /\ i.gpr \in Seq(Regs \X Values) /\ i.csr \in Csrs
  BY InstrType
<1>2. Commit(i.gpr, i.csr) \in Written
  BY <1>1, UpdateType, LineTypes
<1>3. \A op \in {"sw", "wfi", "add", "lw", "unimp", "ecall"} : Core(pc, op) \in Written
  BY LineTypes
<1>4. /\ Trap("illegal") \in Written /\ Trap("tval") \in Written
      /\ Trap("exception") \in Written
  BY LineTypes
<1>5. CASE i.op = "illegal"
  <2>1. Lines(i) = <<Core(pc, "unimp"), Trap("illegal"), Trap("tval")>>
    BY <1>1, <1>5 DEF Lines
  <2>. QED BY <1>3, <1>4, <2>1
<1>6. CASE i.op = "ecall"
  <2>1. Lines(i) = <<Core(pc, "ecall"), Trap("exception")>>
    BY <1>1, <1>6 DEF Lines
  <2>. QED BY <1>3, <1>4, <2>1
<1>7. CASE i.op \in {"sw", "wfi", "add", "lw"}
  <2>1. Lines(i) = <<Core(pc, i.op), Commit(i.gpr, i.csr)>>
    BY <1>1, <1>7 DEF Lines
  <2>2. Core(pc, i.op) \in Written
    BY <1>3, <1>7
  <2>. QED BY <1>2, <2>1, <2>2
<1>. QED BY <1>1, <1>5, <1>6, <1>7

LEMMA LinesType ==
  ASSUME NEW pc \in Nat, NEW i \in Instr(pc), NEW l \in Seq(Written)
  PROVE  l \o Lines(i) \in Seq(Written)
<1>1. ASSUME NEW a \in Written, NEW b \in Written PROVE l \o <<a, b>> \in Seq(Written)
  OBVIOUS
<1>2. ASSUME NEW a \in Written, NEW b \in Written, NEW c \in Written
      PROVE  l \o <<a, b, c>> \in Seq(Written)
  OBVIOUS
<1>. QED BY <1>1, <1>2, LinesAre, Zenon

LEMMA ReadsOnStopped ==
  ASSUME NEW pc \in Nat, NEW i \in Instr(pc), NEW l \in Seq(Written), ReadLines(l).stop
  PROVE  ReadLines(l \o Lines(i)) = ReadLines(l)
<1>1. \A line : ReadLine(ReadLines(l), line) = ReadLines(l)
  BY AfterStop, Zenon
<1>2. ASSUME NEW a \in Written, NEW b \in Written
      PROVE  ReadLines(l \o <<a, b>>) = ReadLines(l)
  <2>1. ReadLines(l \o <<a, b>>) = ReadLine(ReadLine(ReadLines(l), a), b)
    BY AfterTwo
  <2>. QED BY <1>1, <2>1, Zenon
<1>3. ASSUME NEW a \in Written, NEW b \in Written, NEW c \in Written
      PROVE  ReadLines(l \o <<a, b, c>>) = ReadLines(l)
  <2>1. ReadLines(l \o <<a, b, c>>) = ReadLine(ReadLine(ReadLine(ReadLines(l), a), b), c)
    BY AfterThree
  <2>. QED BY <1>1, <2>1, Zenon
<1>4. CASE \E a, b \in Written : Lines(i) = <<a, b>>
  <2>1. PICK a \in Written, b \in Written : Lines(i) = <<a, b>>
    BY <1>4, Zenon
  <2>2. ReadLines(l \o <<a, b>>) = ReadLines(l)
    BY <1>2
  <2>. QED BY <2>1, <2>2, Zenon
<1>5. CASE \E a, b, c \in Written : Lines(i) = <<a, b, c>>
  <2>1. PICK a \in Written, b \in Written, c \in Written : Lines(i) = <<a, b, c>>
    BY <1>5, Zenon
  <2>2. ReadLines(l \o <<a, b, c>>) = ReadLines(l)
    BY <1>3
  <2>. QED BY <2>1, <2>2, Zenon
<1>. QED BY <1>4, <1>5, LinesAre

LEMMA ReadingGoesOn ==
  ASSUME NEW l, NEW s \in Seq(Instructions), Reading(l, s),
         NEW pc \in 0..MaxRun, NEW i \in Instr(pc)
  PROVE  Reading(l \o Lines(i), Append(s, i))
<1>1. pc \in Nat /\ i \in Instructions
  BY TraceAssumption DEF Instructions
<1>2. PICK rows \in Seq(Named), instr \in Seq(Named) :
        Stands(ReadLines(l), rows, instr, Ended(s)) /\ rows \o instr = RowsOf(s, AbiName)
  BY DEF Reading
<1>3. l \in Seq(Written)
  BY DEF Reading
<1>4. l \o Lines(i) \in Seq(Written)
  BY <1>1, <1>3, LinesType
<1>5. CASE Ended(s)
  <2>1. Ended(Append(s, i)) /\ RowsOf(Append(s, i), AbiName) = RowsOf(s, AbiName)
    BY <1>1, <1>5, ProgramStays, RowsStay
  <2>2. ReadLines(l).stop
    BY <1>2, <1>5 DEF Stands
  <2>3. ReadLines(l \o Lines(i)) = ReadLines(l)
    BY <1>1, <1>3, <2>2, ReadsOnStopped
  <2>4. Ended(Append(s, i)) = Ended(s)
    BY <1>5, <2>1 DEF Ended
  <2>. QED BY <1>2, <1>4, <2>1, <2>3, <2>4, Zenon DEF Reading
<1>6. CASE ~Ended(s)
  <2>1. RowsOf(Append(s, i), AbiName) = Append(RowsOf(s, AbiName), RowFor(i, AbiName))
    BY <1>1, <1>6, RowsGrow
  <2>2. Stands(ReadLines(l), rows, instr, FALSE)
    BY <1>2, <1>6 DEF Stands
  <2>3. PICK r \in Seq(Named), h \in Seq(Named) :
          /\ Stands(ReadLines(l \o Lines(i)), r, h, i.op = "ecall")
          /\ r \o h = Append(rows \o instr, RowFor(i, AbiName))
    BY <1>1, <1>3, <2>2, ReadsInstruction
  <2>4. Ended(Append(s, i)) = (i.op = "ecall")
    <3>1. PICK n \in Nat : Len(s) = n
      OBVIOUS
    <3>2. /\ DOMAIN s = 1..n /\ DOMAIN Append(s, i) = 1..(n + 1)
          /\ Append(s, i)[n + 1] = i
          /\ \A k \in 1..n : Append(s, i)[k] = s[k]
      BY <1>1, <3>1
    <3>3. i.op = "ecall" => Ended(Append(s, i))
      <4>1. n + 1 \in DOMAIN Append(s, i)
        BY <3>2
      <4>. QED BY <3>2, <4>1, Zenon DEF Ended
    <3>4. Ended(Append(s, i)) => i.op = "ecall"
      BY <1>6, <3>2 DEF Ended
    <3>5. Ended(Append(s, i)) \in BOOLEAN
      BY DEF Ended
    <3>. QED BY <3>3, <3>4, <3>5
  <2>5. r \o h = RowsOf(Append(s, i), AbiName)
    BY <1>2, <2>1, <2>3, Zenon
  <2>. QED BY <1>4, <2>3, <2>4, <2>5, Zenon DEF Reading
<1>. QED BY <1>5, <1>6

(* While the program runs, the log is read as its instructions' rows.      *)
SpikeInv ==
  /\ phase \in {"run", "csv", "remapped", "done"} /\ full \in BOOLEAN
  /\ ran \in Seq(Instructions)
  /\ phase = "run" => Reading(log, ran)
  /\ RowsAreTheRun
  /\ phase # "done" => verdict = "none"

LEMMA RowsOfRan == \A names : ProgramRows(names) = RowsOf(ran, names)
BY DEF ProgramRows, RowsOf, Program, ProgramOf

LEMMA InitSpikeInv == LogInit => SpikeInv
<1>. SUFFICES ASSUME LogInit PROVE SpikeInv
  OBVIOUS
<1>1. PICK s \in Seq(Instructions) : s = << >> /\ ran = s
  <2>1. << >> \in Seq(Instructions)
    OBVIOUS
  <2>. QED BY <2>1 DEF LogInit
<1>2. ~Ended(s) /\ Ended(s) \in BOOLEAN
  BY <1>1 DEF Ended
<1>3. RowsOf(s, AbiName) = << >>
  <2>1. ProgramOf(s) = << >>
    BY <1>1, <1>2 DEF ProgramOf, Ended
  <2>. QED BY <2>1 DEF RowsOf
<1>4. << >> \in Seq(Named) /\ << >> \o << >> = << >>
  OBVIOUS
<1>5. Reading(Trampoline, s)
  <2>1. Stands(ReadLines(Trampoline), << >>, << >>, Ended(s))
    BY <1>2, AfterTrampoline
  <2>. QED BY <1>3, <1>4, <2>1, TrampolineType, Zenon DEF Reading
<1>. QED BY <1>1, <1>5 DEF LogInit, SpikeInv, RowsAreTheRun

LEMMA SpikeInvInductive == SpikeInv /\ [LogNext]_svars => SpikeInv'
<1>. SUFFICES ASSUME SpikeInv, [LogNext]_svars PROVE SpikeInv'
  OBVIOUS
<1>1. CASE Execute
  <2>1. PICK pc \in 0..MaxRun : pc = Len(ran) /\ pc < MaxRun
    BY <1>1, TraceAssumption DEF Execute, SpikeInv
  <2>2. PICK i \in Instr(pc) : ran' = Append(ran, i) /\ log' = log \o Lines(i)
    BY <1>1, <2>1 DEF Execute
  <2>3. Reading(log \o Lines(i), Append(ran, i))
    BY <1>1, ReadingGoesOn DEF SpikeInv, Execute
  <2>4. Append(ran, i) \in Seq(Instructions)
    <3>1. i \in Instructions
      BY DEF Instructions
    <3>. QED BY <3>1 DEF SpikeInv
  <2>5. Reading(log', ran')
    BY <2>2, <2>3, Zenon
  <2>. QED BY <1>1, <2>2, <2>4, <2>5 DEF Execute, SpikeInv, RowsAreTheRun
<1>2. CASE ConvertLog
  <2>1. Reading(log, ran)
    BY <1>2 DEF SpikeInv, ConvertLog
  <2>2. ReadTrace(log) = ProgramRows(AbiName)
    BY <2>1, RowsOfRan DEF Reading, Stands, ReadTrace
  <2>3. csv' = Expected(AbiName)
    BY <1>2, <2>2, Zenon DEF ConvertLog, Expected
  <2>4. Expected(AbiName)' = Expected(AbiName)
    BY <1>2 DEF ConvertLog, Expected, ProgramRows, Program, Matching, Kept
  <2>. QED BY <1>2, <2>3, <2>4 DEF ConvertLog, SpikeInv, RowsAreTheRun
<1>3. CASE RemapCsv
  BY <1>3 DEF RemapCsv, SpikeInv, RowsAreTheRun
<1>4. CASE CompareLogs
  BY <1>4 DEF CompareLogs, SpikeInv, RowsAreTheRun
<1>5. CASE UNCHANGED svars
  <2>1. Expected(AbiName)' = Expected(AbiName)
    BY <1>5 DEF svars, Expected, ProgramRows, Program, Matching, Kept
  <2>2. Reading(log, ran)' <=> Reading(log, ran)
    BY <1>5 DEF svars, Reading
  <2>. QED BY <1>5, <2>1, <2>2 DEF svars, SpikeInv, RowsAreTheRun
<1>. QED BY <1>1, <1>2, <1>3, <1>4, <1>5 DEF LogNext

(* The inductive invariant says of a reader what LogInv says of it.        *)
LEMMA SpikeInvIsLogInv == SpikeInv => LogInv
<1>. SUFFICES ASSUME SpikeInv PROVE LogInv
  OBVIOUS
<1>1. ASSUME phase = "run" PROVE ReadSoFar
  <2>1. PICK rows \in Seq(Named), instr \in Seq(Named) :
          Stands(ReadLines(log), rows, instr, Ended(ran)) /\ rows \o instr = RowsOf(ran, AbiName)
    BY <1>1 DEF SpikeInv, Reading
  <2>2. ReadTrace(log) = ProgramRows(AbiName)
    BY <2>1, RowsOfRan DEF Stands, ReadTrace
  <2>3. ~ReadLines(log).trampoline /\ ReadLines(log).stop = Ended(ran)
    BY <2>1 DEF Stands
  <2>. QED BY <2>2, <2>3, Zenon DEF ReadSoFar, Ended
<1>2. ReadSoFar
  BY <1>1 DEF ReadSoFar
<1>. QED BY <1>2 DEF SpikeInv, LogInv

(* Types, and what spike_log_to_trace_csv.py has read of the log so far:   *)
(* past the trampoline, at the ECALL if there was one, one row for each    *)
(* instruction, a trapping one included.                                   *)
THEOREM LogInvariant == LogSpec => []LogInv
BY InitSpikeInv, SpikeInvInductive, SpikeInvIsLogInv, PTL DEF LogSpec

(* spike.csv has the program's instructions after the trampoline, each     *)
(* with its own register update, up to and including the final ECALL: no   *)
(* row is lost, doubled, or given the update of its neighbour, whatever    *)
(* the program and the registers it writes.                                *)
THEOREM CsvIsTheRun == LogSpec => []RowsAreTheRun
<1>1. SpikeInv => RowsAreTheRun
  BY DEF SpikeInv
<1>. QED BY <1>1, InitSpikeInv, SpikeInvInductive, PTL DEF LogSpec

----------------------------------------------------------------------------
(* A set with 0 and the successors of its numbers has all numbers. *)
LEMMA UpTo ==
  ASSUME NEW N \in Nat, NEW T, 0 \in T, \A n \in 1..N : n - 1 \in T => n \in T
  PROVE  \A n \in 0..N : n \in T
<1>. DEFINE Failing == {n \in 0..N : n \notin T}
<1>. SUFFICES ASSUME Failing # {} PROVE FALSE
  OBVIOUS
<1>1. PICK k \in Failing : \A j \in Failing : k <= j
  <2>1. Failing \in SUBSET Nat
    OBVIOUS
  <2>. QED BY <2>1, FirstOf
<1>2. k \in 1..N /\ k - 1 \in 0..N /\ ~(k <= k - 1)
  OBVIOUS
<1>. QED BY <1>1, <1>2

(* The rows that are kept, one row at a time. *)
KeepOne(kept, row) == IF Kept(row) THEN Append(kept, row) ELSE kept
IsKeeper(g, s, k) == g = [n \in 0..k |-> IF n = 0 THEN << >> ELSE KeepOne(g[n - 1], s[n])]
Keeps(g, s, N) == g[0] = << >> /\ \A n \in 1..N : g[n] = KeepOne(g[n - 1], s[n])

LEMMA KeeperGoesOn ==
  ASSUME NEW s, NEW k \in Nat \ {0}, NEW g, IsKeeper(g, s, k - 1)
  PROVE  \E h : IsKeeper(h, s, k)
<1>. DEFINE h == [n \in 0..k |-> IF n = k THEN KeepOne(g[k - 1], s[k]) ELSE g[n]]
<1>1. ASSUME NEW n \in 0..k
      PROVE  h[n] = IF n = 0 THEN << >> ELSE KeepOne(h[n - 1], s[n])
  <2>1. n # 0 => n - 1 \in 0..(k - 1) /\ n - 1 \in 0..k /\ n - 1 # k
    OBVIOUS
  <2>2. n # 0 => h[n - 1] = g[n - 1]
    BY <2>1
  <2>3. CASE n = k
    <3>1. h[n] = KeepOne(g[k - 1], s[k])
      BY <2>3
    <3>2. n # 0
      BY <2>3
    <3>. QED BY <2>2, <2>3, <3>1, <3>2, Zenon
  <2>4. CASE n # k
    <3>1. n \in 0..(k - 1)
      BY <2>4
    <3>2. g[n] = IF n = 0 THEN << >> ELSE KeepOne(g[n - 1], s[n])
      <4>. DEFINE G == [x \in 0..(k - 1) |-> IF x = 0 THEN << >> ELSE KeepOne(g[x - 1], s[x])]
      <4>1. g = G
        BY DEF IsKeeper
      <4>2. G[n] = IF n = 0 THEN << >> ELSE KeepOne(g[n - 1], s[n])
        BY <3>1
      <4>. QED BY <4>1, <4>2, Zenon
    <3>3. h[n] = g[n]
      BY <2>4
    <3>. QED BY <2>2, <3>2, <3>3, Zenon
  <2>. QED BY <2>3, <2>4
<1>2. h = [n \in 0..k |-> h[n]]
  OBVIOUS
<1>. HIDE DEF h
<1>3. [n \in 0..k |-> h[n]] = [n \in 0..k |-> IF n = 0 THEN << >> ELSE KeepOne(h[n - 1], s[n])]
  BY <1>1, Zenon
<1>. QED BY <1>2, <1>3, Zenon DEF IsKeeper

LEMMA KeeperExists ==
  ASSUME NEW s, NEW N \in Nat
  PROVE  \E g : IsKeeper(g, s, N)
<1>. DEFINE T == {n \in 0..N : \E g : IsKeeper(g, s, n)}
<1>1. 0 \in T
  <2>. DEFINE g == [n \in 0..0 |-> << >>]
  <2>1. g = [n \in 0..0 |-> IF n = 0 THEN << >> ELSE KeepOne(g[n - 1], s[n])]
    OBVIOUS
  <2>2. IsKeeper(g, s, 0)
    BY <2>1 DEF IsKeeper
  <2>. QED BY <2>2
<1>2. ASSUME NEW n \in 1..N, n - 1 \in T PROVE n \in T
  <2>1. PICK g : IsKeeper(g, s, n - 1)
    BY <1>2
  <2>2. n \in Nat \ {0}
    OBVIOUS
  <2>3. \E h : IsKeeper(h, s, n)
    BY <2>1, <2>2, KeeperGoesOn
  <2>. QED BY <2>3
<1>. HIDE DEF T
<1>3. N \in T
  BY <1>1, <1>2, UpTo
<1>. QED BY <1>3 DEF T

LEMMA KeeperOf ==
  ASSUME NEW s, NEW N \in Nat, Len(s) = N
  PROVE  \E g : Matching(s, Kept) = g[N] /\ Keeps(g, s, N)
<1>. DEFINE g == CHOOSE m : m = [n \in 0..N |-> IF n = 0 THEN << >> ELSE
                              IF Kept(s[n]) THEN Append(m[n - 1], s[n]) ELSE m[n - 1]]
<1>1. g = [n \in 0..N |-> IF n = 0 THEN << >> ELSE
                              IF Kept(s[n]) THEN Append(g[n - 1], s[n]) ELSE g[n - 1]]
  <2>1. PICK h : IsKeeper(h, s, N)
    BY KeeperExists
  <2>2. h = [n \in 0..N |-> IF n = 0 THEN << >> ELSE
                            IF Kept(s[n]) THEN Append(h[n - 1], s[n]) ELSE h[n - 1]]
    BY <2>1, Zenon DEF IsKeeper, KeepOne
  <2>. QED BY <2>2, Zenon
<1>2. Matching(s, Kept) = g[N]
  BY DEF Matching
<1>. HIDE DEF g
<1>3. \A n \in 0..N : g[n] = IF n = 0 THEN << >> ELSE KeepOne(g[n - 1], s[n])
  <2>. DEFINE G == [n \in 0..N |-> IF n = 0 THEN << >> ELSE
                              IF Kept(s[n]) THEN Append(g[n - 1], s[n]) ELSE g[n - 1]]
  <2>1. \A n \in 0..N : G[n] = IF n = 0 THEN << >> ELSE KeepOne(g[n - 1], s[n])
    BY Zenon DEF KeepOne
  <2>. QED BY <1>1, <2>1, Zenon
<1>4. g[0] = << >>
  <2>1. 0 \in 0..N
    OBVIOUS
  <2>. QED BY <1>3, <2>1, Zenon
<1>5. \A n \in 1..N : g[n] = KeepOne(g[n - 1], s[n])
  <2>1. \A n \in 1..N : n \in 0..N /\ n # 0
    OBVIOUS
  <2>. QED BY <1>3, <2>1, Zenon
<1>. QED BY <1>2, <1>4, <1>5 DEF Keeps

----------------------------------------------------------------------------
(* Every register that the program writes has a name that the regular      *)
(* expression finds.  A row then has no update or one, and remapping gives *)
(* it the number of its register.                                          *)
NamesAreFound == \A r \in Regs : r \in DOMAIN AbiName /\ AbiName[r] \in LetterDigit
GoodRow == {RowFor(i, AbiName) : i \in Instructions}
Numbered(row) ==
  [row EXCEPT !.gpr = IF @ = << >> THEN << >> ELSE <<<<RegisterMapping[@[1][1]], @[1][2]>>>>]
AllNumbered(rows) == [k \in DOMAIN rows |-> Numbered(rows[k])]

LEMMA NumberOfName ==
  ASSUME NEW r \in DOMAIN AbiName
  PROVE  RegisterMapping[AbiName[r]] = r /\ Numbers[r] = r
<1>1. RegisterMapping[AbiName[r]] = r
  BY DEF AbiName, RegisterMapping
<1>. QED BY <1>1 DEF Numbers

LEMMA InstructionIs ==
  ASSUME NEW i \in Instructions
  PROVE  i.gpr = << >> \/ \E r \in Regs, v \in Values : i.gpr = <<<<r, v>>>>
<1>1. PICK pc \in 0..MaxRun : i \in Instr(pc)
  BY DEF Instructions
<1>2. pc \in Int
  BY TraceAssumption
<1>. QED BY <1>1, <1>2, InstrType

RowOp(i) == IF i.op = "illegal" THEN "unimp" ELSE i.op

LEMMA RowIs ==
  ASSUME NEW i, NEW names
  PROVE  /\ i.gpr = << >> => RowFor(i, names) = NamedRow(i.pc, RowOp(i), << >>, i.csr)
         /\ \A r, v : i.gpr = <<<<r, v>>>> =>
              RowFor(i, names) = NamedRow(i.pc, RowOp(i), <<<<names[r], v>>>>, i.csr)
<1>1. ASSUME i.gpr = << >> PROVE RowFor(i, names) = NamedRow(i.pc, RowOp(i), << >>, i.csr)
  <2>1. [k \in DOMAIN i.gpr |-> <<names[i.gpr[k][1]], i.gpr[k][2]>>] = << >>
    BY <1>1
  <2>. QED BY <2>1, Zenon DEF RowFor, NamedRow, RowOp
<1>2. ASSUME NEW r, NEW v, i.gpr = <<<<r, v>>>>
      PROVE  RowFor(i, names) = NamedRow(i.pc, RowOp(i), <<<<names[r], v>>>>, i.csr)
  <2>1. [k \in DOMAIN i.gpr |-> <<names[i.gpr[k][1]], i.gpr[k][2]>>] = <<<<names[r], v>>>>
    BY <1>2
  <2>. QED BY <2>1, Zenon DEF RowFor, NamedRow, RowOp
<1>. QED BY <1>1, <1>2

LEMMA NamedRowFields ==
  \A pc, op, g, c : /\ NamedRow(pc, op, g, c).pc = pc /\ NamedRow(pc, op, g, c).op = op
                    /\ NamedRow(pc, op, g, c).gpr = g
BY DEF NamedRow

LEMMA NumberedRow ==
  ASSUME NamesAreFound, NEW i \in Instructions
  PROVE  /\ Numbered(RowFor(i, AbiName)) = RowFor(i, Numbers)
         /\ Kept(RowFor(i, AbiName)) <=> Kept(RowFor(i, Numbers))
<1>. DEFINE pc == i.pc
            op == RowOp(i)
            c == i.csr
<1>1. CASE i.gpr = << >>
  <2>1. RowFor(i, AbiName) = RowFor(i, Numbers) /\ RowFor(i, AbiName) = NamedRow(pc, op, << >>, c)
    BY <1>1, RowIs
  <2>2. Numbered(NamedRow(pc, op, << >>, c)) = [NamedRow(pc, op, << >>, c) EXCEPT !.gpr = << >>]
    <3>1. NamedRow(pc, op, << >>, c).gpr = << >>
      BY NamedRowFields
    <3>. QED BY <3>1, Zenon DEF Numbered
  <2>3. Numbered(NamedRow(pc, op, << >>, c)) = NamedRow(pc, op, << >>, c)
    BY <2>2, PutGpr
  <2>. QED BY <2>1, <2>3, Zenon
<1>2. CASE i.gpr # << >>
  <2>1. PICK r \in Regs, v \in Values : i.gpr = <<<<r, v>>>>
    BY <1>2, InstructionIs
  <2>2. /\ RowFor(i, AbiName) = NamedRow(pc, op, <<<<AbiName[r], v>>>>, c)
        /\ RowFor(i, Numbers) = NamedRow(pc, op, <<<<Numbers[r], v>>>>, c)
    BY <2>1, RowIs
  <2>3. RegisterMapping[AbiName[r]] = Numbers[r]
    BY NumberOfName DEF NamesAreFound
  <2>. HIDE DEF pc, op, c
  <2>4. PICK a, s : a = AbiName[r] /\ s = Numbers[r]
    OBVIOUS
  <2>5. /\ <<<<a, v>>>> # << >> /\ <<<<s, v>>>> # << >>
        /\ <<<<a, v>>>>[1][1] = a /\ <<<<a, v>>>>[1][2] = v
    OBVIOUS
  <2>6. /\ NamedRow(pc, op, <<<<a, v>>>>, c).gpr = <<<<a, v>>>>
        /\ NamedRow(pc, op, <<<<s, v>>>>, c).gpr = <<<<s, v>>>>
        /\ NamedRow(pc, op, <<<<a, v>>>>, c).op = op /\ NamedRow(pc, op, <<<<s, v>>>>, c).op = op
    BY NamedRowFields
  <2>7. Numbered(NamedRow(pc, op, <<<<a, v>>>>, c)) = NamedRow(pc, op, <<<<s, v>>>>, c)
    <3>1. Numbered(NamedRow(pc, op, <<<<a, v>>>>, c)) =
            [NamedRow(pc, op, <<<<a, v>>>>, c) EXCEPT !.gpr = <<<<s, v>>>>]
      BY <2>3, <2>4, <2>5, <2>6, Zenon DEF Numbered
    <3>2. [NamedRow(pc, op, <<<<a, v>>>>, c) EXCEPT !.gpr = <<<<s, v>>>>] =
            NamedRow(pc, op, <<<<s, v>>>>, c)
      BY PutGpr
    <3>. QED BY <3>1, <3>2, Zenon
  <2>8. Kept(NamedRow(pc, op, <<<<a, v>>>>, c)) <=> Kept(NamedRow(pc, op, <<<<s, v>>>>, c))
    BY <2>5, <2>6, Zenon DEF Kept
  <2>. QED BY <2>2, <2>4, <2>7, <2>8, Zenon
<1>. QED BY <1>1, <1>2

LEMMA NumberedOneMore ==
  ASSUME NEW a \in Seq(GoodRow), NEW row \in GoodRow
  PROVE  AllNumbered(Append(a, row)) = Append(AllNumbered(a), Numbered(row))
<1>1. PICK n \in Nat : Len(a) = n
  OBVIOUS
<1>2. /\ DOMAIN a = 1..n /\ DOMAIN Append(a, row) = 1..(n + 1)
      /\ \A k \in 1..n : Append(a, row)[k] = a[k]
      /\ Append(a, row)[n + 1] = row
  BY <1>1
<1>. DEFINE f == [k \in 1..n |-> Numbered(a[k])]
            T == {Numbered(a[k]) : k \in 1..n} \cup {Numbered(row)}
<1>3. f \in Seq(T) /\ Len(f) = n
  OBVIOUS
<1>4. Append(f, Numbered(row)) = [k \in 1..(n + 1) |-> IF k = n + 1 THEN Numbered(row) ELSE f[k]]
  BY <1>3
<1>5. \A k \in 1..(n + 1) : IF k = n + 1 THEN Numbered(row) = Numbered(Append(a, row)[k])
                            ELSE f[k] = Numbered(Append(a, row)[k])
  <2>. SUFFICES ASSUME NEW k \in 1..(n + 1), k # n + 1 PROVE f[k] = Numbered(Append(a, row)[k])
    BY <1>2, Zenon
  <2>1. k \in 1..n
    OBVIOUS
  <2>. QED BY <1>2, <2>1, Zenon
<1>6. f = AllNumbered(a)
  BY <1>2 DEF AllNumbered
<1>. HIDE DEF f
<1>7. Append(f, Numbered(row)) = [k \in 1..(n + 1) |-> Numbered(Append(a, row)[k])]
  BY <1>4, <1>5, Zenon
<1>. QED BY <1>2, <1>6, <1>7, Zenon DEF AllNumbered

(* Rows of the same instructions, with names and with numbers: the same    *)
(* ones are kept.                                                          *)
SameRows(P, Q, N) ==
  /\ Len(P) = N /\ Len(Q) = N
  /\ \A n \in 1..N : \E i \in Instructions : P[n] = RowFor(i, AbiName) /\ Q[n] = RowFor(i, Numbers)

LEMMA KeptAlike ==
  ASSUME NamesAreFound, NEW P, NEW Q, NEW N \in Nat, SameRows(P, Q, N)
  PROVE  /\ Matching(P, Kept) \in Seq(GoodRow)
         /\ Matching(Q, Kept) = AllNumbered(Matching(P, Kept))
<1>1. PICK g : Matching(P, Kept) = g[N] /\ Keeps(g, P, N)
  BY KeeperOf DEF SameRows
<1>2. PICK h : Matching(Q, Kept) = h[N] /\ Keeps(h, Q, N)
  BY KeeperOf DEF SameRows
<1>. DEFINE T == {n \in 0..N : g[n] \in Seq(GoodRow) /\ h[n] = AllNumbered(g[n])}
<1>3. 0 \in T
  <2>1. << >> \in Seq(GoodRow) /\ AllNumbered(<< >>) = << >> /\ 0 \in 0..N
    BY DEF AllNumbered
  <2>2. g[0] = << >> /\ h[0] = << >>
    BY <1>1, <1>2 DEF Keeps
  <2>. QED BY <2>1, <2>2, Zenon
<1>4. ASSUME NEW n \in 1..N, n - 1 \in T PROVE n \in T
  <2>1. PICK a \in Seq(GoodRow) : g[n - 1] = a /\ h[n - 1] = AllNumbered(a)
    BY <1>4, Zenon
  <2>2. PICK i \in Instructions : P[n] = RowFor(i, AbiName) /\ Q[n] = RowFor(i, Numbers)
    BY DEF SameRows
  <2>3. g[n] = KeepOne(a, P[n]) /\ h[n] = KeepOne(AllNumbered(a), Q[n])
    BY <1>1, <1>2, <2>1, Zenon DEF Keeps
  <2>4. PICK row \in GoodRow : row = P[n]
    BY <2>2, Zenon DEF GoodRow
  <2>5. Q[n] = Numbered(row) /\ (Kept(row) <=> Kept(Q[n]))
    BY <2>2, <2>4, NumberedRow
  <2>6. CASE Kept(row)
    <3>1. g[n] = Append(a, row) /\ h[n] = Append(AllNumbered(a), Numbered(row))
      BY <2>3, <2>4, <2>5, <2>6, Zenon DEF KeepOne
    <3>2. Append(a, row) \in Seq(GoodRow)
      OBVIOUS
    <3>3. h[n] = AllNumbered(g[n])
      BY <3>1, NumberedOneMore
    <3>4. n \in 0..N
      OBVIOUS
    <3>. QED BY <3>1, <3>2, <3>3, <3>4, Zenon
  <2>7. CASE ~Kept(row)
    <3>1. g[n] = a /\ h[n] = AllNumbered(a)
      BY <2>3, <2>4, <2>5, <2>7, Zenon DEF KeepOne
    <3>2. n \in 0..N
      OBVIOUS
    <3>. QED BY <3>1, <3>2, Zenon
  <2>. QED BY <2>6, <2>7
<1>. HIDE DEF T
<1>5. N \in T
  BY <1>3, <1>4, UpTo
<1>. QED BY <1>1, <1>2, <1>5, Zenon DEF T

(* A list of lists of one element each. *)
LEMMA FlatSingles ==
  ASSUME NEW n \in Nat, NEW x
  PROVE  FlattenSeq([i \in 1..n |-> <<x[i]>>]) = [i \in 1..n |-> x[i]]
<1>. DEFINE s == [i \in 1..n |-> <<x[i]>>]
            S == {x[i] : i \in 1..n}
            IsFlat(f) == f = [i \in 1..n |-> IF i = 1 THEN s[i] ELSE f[i - 1] \o s[i]]
            first == [i \in 1..n |-> [k \in 1..i |-> x[k]]]
<1>1. Len(s) = n
  OBVIOUS
<1>2. CASE n = 0
  <2>1. FlattenSeq(s) = s
    BY <1>1, <1>2 DEF FlattenSeq
  <2>2. s = [i \in 1..n |-> x[i]]
    BY <1>2
  <2>. QED BY <2>1, <2>2
<1>3. CASE n # 0
  <2>1. ASSUME NEW i \in 1..n, i # 1 PROVE first[i - 1] \o s[i] = first[i]
    <3>1. i - 1 \in 1..n /\ i - 1 \in Nat
      BY <2>1
    <3>. DEFINE a == [k \in 1..(i - 1) |-> x[k]]
    <3>2. first[i - 1] = a /\ s[i] = <<x[i]>> /\ first[i] = [k \in 1..i |-> x[k]]
      BY <3>1
    <3>3. a \in Seq(S) /\ Len(a) = i - 1 /\ x[i] \in S
      BY <3>1
    <3>4. a \o <<x[i]>> = [k \in 1..i |-> IF k <= i - 1 THEN a[k] ELSE x[i]]
      <4>. HIDE DEF a, S
      <4>. QED BY <3>1, <3>3
    <3>5. \A k \in 1..i : (IF k <= i - 1 THEN a[k] ELSE x[i]) = x[k]
      OBVIOUS
    <3>6. a \o <<x[i]>> = [k \in 1..i |-> x[k]]
      <4>. HIDE DEF a, S
      <4>. QED BY <3>4, <3>5, Zenon
    <3>. QED BY <3>2, <3>6, Zenon
  <2>2. first[1] = s[1]
    BY <1>3
  <2>3. IsFlat(first)
    <3>1. \A i \in 1..n : first[i] = IF i = 1 THEN s[i] ELSE first[i - 1] \o s[i]
      BY <2>1, <2>2, Zenon
    <3>2. first = [i \in 1..n |-> first[i]]
      OBVIOUS
    <3>. HIDE DEF first, s
    <3>. QED BY <3>1, <3>2, Zenon
  <2>. DEFINE f == CHOOSE f : IsFlat(f)
  <2>4. IsFlat(f)
    BY <2>3, Zenon
  <2>5. FlattenSeq(s) = f[n]
    BY <1>1, <1>3 DEF FlattenSeq
  <2>. HIDE DEF f
  <2>6. \A i \in 1..n : f[i] = IF i = 1 THEN s[i] ELSE f[i - 1] \o s[i]
    <3>. DEFINE G == [i \in 1..n |-> IF i = 1 THEN s[i] ELSE f[i - 1] \o s[i]]
    <3>1. f = G
      BY <2>4
    <3>. HIDE DEF s
    <3>2. \A i \in 1..n : G[i] = IF i = 1 THEN s[i] ELSE f[i - 1] \o s[i]
      BY Zenon
    <3>. QED BY <3>1, <3>2, Zenon
  <2>. DEFINE T == {i \in 0..n : i = 0 \/ f[i] = first[i]}
  <2>7. 0 \in T
    OBVIOUS
  <2>8. ASSUME NEW i \in 1..n, i - 1 \in T PROVE i \in T
    <3>. HIDE DEF first, s
    <3>1. i \in 0..n /\ (i = 1 \/ i - 1 # 0)
      OBVIOUS
    <3>2. CASE i = 1
      BY <2>2, <2>6, <3>1, <3>2, Zenon
    <3>3. CASE i # 1
      <4>1. f[i - 1] = first[i - 1]
        BY <2>8, <3>1, <3>3, Zenon
      <4>. QED BY <2>1, <2>6, <3>1, <3>3, <4>1, Zenon
    <3>. QED BY <3>2, <3>3
  <2>. HIDE DEF T
  <2>9. n \in T
    BY <2>7, <2>8, UpTo
  <2>10. f[n] = first[n] /\ n \in 1..n
    BY <1>3, <2>9 DEF T
  <2>11. first[n] = [k \in 1..n |-> x[k]]
    BY <2>10
  <2>. HIDE DEF first
  <2>. QED BY <2>5, <2>10, <2>11, Zenon
<1>. QED BY <1>2, <1>3

(* What the regular expression finds in no update and in one. *)
LEMMA FoundNothing == Found(<< >>) = << >>
<1>. DEFINE m == CHOOSE m : m = [n \in 0..0 |-> IF n = 0 THEN << >> ELSE
                              IF FindsName(<< >>[n]) THEN Append(m[n - 1], << >>[n]) ELSE m[n - 1]]
            w == [n \in 0..0 |-> << >>]
<1>1. w = [n \in 0..0 |-> IF n = 0 THEN << >> ELSE
                           IF FindsName(<< >>[n]) THEN Append(w[n - 1], << >>[n]) ELSE w[n - 1]]
  OBVIOUS
<1>2. m = [n \in 0..0 |-> IF n = 0 THEN << >> ELSE
                           IF FindsName(<< >>[n]) THEN Append(m[n - 1], << >>[n]) ELSE m[n - 1]]
  <2>. HIDE DEF w
  <2>. QED BY <1>1, Zenon
<1>3. Len(<< >>) = 0
  OBVIOUS
<1>4. Found(<< >>) = m[0]
  BY <1>3 DEF Found, Matching
<1>. HIDE DEF m
<1>. QED BY <1>2, <1>4

LEMMA FoundOne ==
  ASSUME NEW e, FindsName(e)
  PROVE  Found(<<e>>) = <<e>>
<1>. DEFINE m == CHOOSE m : m = [n \in 0..1 |-> IF n = 0 THEN << >> ELSE
                              IF FindsName(<<e>>[n]) THEN Append(m[n - 1], <<e>>[n]) ELSE m[n - 1]]
            w == [n \in 0..1 |-> IF n = 0 THEN << >> ELSE Append(<< >>, e)]
<1>1. ASSUME NEW n \in 0..1
      PROVE  w[n] = IF n = 0 THEN << >> ELSE
                    IF FindsName(<<e>>[n]) THEN Append(w[n - 1], <<e>>[n]) ELSE w[n - 1]
  <2>1. w[0] = << >>
    OBVIOUS
  <2>2. n # 0 => n - 1 = 0 /\ <<e>>[n] = e /\ w[n] = Append(<< >>, e)
    OBVIOUS
  <2>3. n = 0 => w[n] = << >>
    OBVIOUS
  <2>. HIDE DEF w
  <2>. QED BY <2>1, <2>2, <2>3, Zenon
<1>2. w = [n \in 0..1 |-> w[n]]
  OBVIOUS
<1>3. w = [n \in 0..1 |-> IF n = 0 THEN << >> ELSE
                           IF FindsName(<<e>>[n]) THEN Append(w[n - 1], <<e>>[n]) ELSE w[n - 1]]
  <2>. HIDE DEF w
  <2>. QED BY <1>1, <1>2, Zenon
<1>4. m = [n \in 0..1 |-> IF n = 0 THEN << >> ELSE
                           IF FindsName(<<e>>[n]) THEN Append(m[n - 1], <<e>>[n]) ELSE m[n - 1]]
  <2>. HIDE DEF w
  <2>. QED BY <1>3, Zenon
<1>5. Len(<<e>>) = 1
  OBVIOUS
<1>6. Found(<<e>>) = m[1]
  BY <1>5 DEF Found, Matching
<1>. HIDE DEF m
<1>7. \A n \in 0..1 : m[n] = IF n = 0 THEN << >> ELSE
                           IF FindsName(<<e>>[n]) THEN Append(m[n - 1], <<e>>[n]) ELSE m[n - 1]
  <2>. DEFINE G == [n \in 0..1 |-> IF n = 0 THEN << >> ELSE
                           IF FindsName(<<e>>[n]) THEN Append(m[n - 1], <<e>>[n]) ELSE m[n - 1]]
  <2>1. \A n \in 0..1 : G[n] = IF n = 0 THEN << >> ELSE
                           IF FindsName(<<e>>[n]) THEN Append(m[n - 1], <<e>>[n]) ELSE m[n - 1]
    BY Zenon
  <2>. QED BY <1>4, <2>1, Zenon
<1>8. 0 \in 0..1 /\ 1 \in 0..1 /\ 1 # 0 /\ 1 - 1 = 0 /\ <<e>>[1] = e /\ Append(<< >>, e) = <<e>>
  OBVIOUS
<1>9. m[0] = << >>
  BY <1>7, <1>8, Zenon
<1>10. m[1] = IF FindsName(<<e>>[1]) THEN Append(m[1 - 1], <<e>>[1]) ELSE m[1 - 1]
  BY <1>7, <1>8, Zenon
<1>11. m[1] = Append(<< >>, e)
  BY <1>8, <1>9, <1>10, Zenon
<1>. QED BY <1>6, <1>8, <1>11, Zenon

NameOf(row) == IF row.gpr = << >> THEN << >> ELSE <<RegisterMapping[row.gpr[1][1]]>>
DataOf(row) == IF row.gpr = << >> THEN << >> ELSE <<row.gpr[1][2]>>

LEMMA GoodRowIs ==
  ASSUME NamesAreFound, NEW row \in GoodRow
  PROVE  row.gpr = << >> \/ \E a \in LetterDigit, v \in Values : row.gpr = <<<<a, v>>>>
<1>1. PICK i \in Instructions : row = RowFor(i, AbiName)
  BY DEF GoodRow
<1>2. CASE i.gpr = << >>
  BY <1>1, <1>2, RowIs, NamedRowFields
<1>3. CASE i.gpr # << >>
  <2>1. PICK r \in Regs, v \in Values : i.gpr = <<<<r, v>>>>
    BY <1>3, InstructionIs
  <2>2. row = NamedRow(i.pc, RowOp(i), <<<<AbiName[r], v>>>>, i.csr)
    BY <1>1, <2>1, RowIs
  <2>3. row.gpr = <<<<AbiName[r], v>>>>
    BY <2>2, NamedRowFields
  <2>4. AbiName[r] \in LetterDigit
    BY DEF NamesAreFound
  <2>. QED BY <2>3, <2>4, Zenon
<1>. QED BY <1>2, <1>3

NamesFound(row) ==
  LET f == Found(row.gpr)
  IN  IF f = << >> THEN << <<>> >> ELSE [k \in DOMAIN f |-> <<RegisterMapping[f[k][1]]>>]
DataFound(row) ==
  LET f == Found(row.gpr)
  IN  IF row.gpr = << >> THEN << <<>> >> ELSE [k \in DOMAIN f |-> <<f[k][2]>>]

LEMMA OneEntry ==
  ASSUME NamesAreFound, NEW row \in GoodRow
  PROVE  NamesFound(row) = <<NameOf(row)>> /\ DataFound(row) = <<DataOf(row)>>
<1>. USE DEF NamesFound, DataFound
<1>1. CASE row.gpr = << >>
  BY <1>1, FoundNothing, Zenon DEF NameOf, DataOf
<1>2. CASE row.gpr # << >>
  <2>1. PICK a \in LetterDigit, v \in Values : row.gpr = <<<<a, v>>>>
    BY <1>2, GoodRowIs
  <2>2. PICK e : e = <<a, v>>
    OBVIOUS
  <2>3. e[1] = a /\ e[2] = v
    BY <2>2
  <2>4. Found(row.gpr) = <<e>>
    BY <2>1, <2>2, <2>3, FoundOne DEF FindsName
  <2>5. <<e>> # << >> /\ DOMAIN <<e>> = 1..1 /\ <<e>>[1] = e
    OBVIOUS
  <2>6. /\ [k \in DOMAIN <<e>> |-> <<RegisterMapping[<<e>>[k][1]]>>] = <<<<RegisterMapping[a]>>>>
        /\ [k \in DOMAIN <<e>> |-> <<<<e>>[k][2]>>] = <<<<v>>>>
    BY <2>3
  <2>7. NameOf(row) = <<RegisterMapping[a]>> /\ DataOf(row) = <<v>>
    BY <1>2, <2>1, <2>2, <2>3, <2>5, Zenon DEF NameOf, DataOf
  <2>. QED BY <1>2, <2>4, <2>5, <2>6, <2>7, Zenon
<1>. QED BY <1>1, <1>2

LEMMA ListsOf ==
  ASSUME NamesAreFound, NEW rows \in Seq(GoodRow), NEW n \in Nat, Len(rows) = n
  PROVE  /\ RegisterNames(rows) = [i \in 1..n |-> NameOf(rows[i])]
         /\ RegisterData(rows) = [i \in 1..n |-> DataOf(rows[i])]
<1>1. DOMAIN rows = 1..n /\ \A i \in 1..n : rows[i] \in GoodRow
  OBVIOUS
<1>. DEFINE x == [i \in 1..n |-> NameOf(rows[i])]
            y == [i \in 1..n |-> DataOf(rows[i])]
<1>2. \A i \in 1..n : x[i] = NameOf(rows[i]) /\ y[i] = DataOf(rows[i])
  BY Zenon
<1>. HIDE DEF x, y
<1>3. RegisterNames(rows) = FlattenSeq([i \in 1..n |-> <<x[i]>>])
  <2>1. RegisterNames(rows) = FlattenSeq([i \in DOMAIN rows |-> NamesFound(rows[i])])
    BY Zenon DEF RegisterNames, NamesFound
  <2>2. \A i \in 1..n : NamesFound(rows[i]) = <<x[i]>>
    BY <1>1, <1>2, OneEntry
  <2>3. [i \in 1..n |-> NamesFound(rows[i])] = [i \in 1..n |-> <<x[i]>>]
    BY <2>2, Zenon
  <2>. QED BY <1>1, <2>1, <2>3, Zenon
<1>4. RegisterData(rows) = FlattenSeq([i \in 1..n |-> <<y[i]>>])
  <2>1. RegisterData(rows) = FlattenSeq([i \in DOMAIN rows |-> DataFound(rows[i])])
    BY Zenon DEF RegisterData, DataFound
  <2>2. \A i \in 1..n : DataFound(rows[i]) = <<y[i]>>
    BY <1>1, <1>2, OneEntry
  <2>3. [i \in 1..n |-> DataFound(rows[i])] = [i \in 1..n |-> <<y[i]>>]
    BY <2>2, Zenon
  <2>. QED BY <1>1, <2>1, <2>3, Zenon
<1>5. RegisterNames(rows) = [i \in 1..n |-> x[i]] /\ RegisterData(rows) = [i \in 1..n |-> y[i]]
  BY <1>3, <1>4, FlatSingles
<1>. QED BY <1>2, <1>5, Zenon

LEMMA RemapNumbers ==
  ASSUME NamesAreFound, NEW rows \in Seq(GoodRow)
  PROVE  Remap(rows) = AllNumbered(rows)
<1>1. PICK n \in Nat : Len(rows) = n
  OBVIOUS
<1>2. DOMAIN rows = 1..n
  BY <1>1
<1>3. PICK names, data : names = RegisterNames(rows) /\ data = RegisterData(rows)
  OBVIOUS
<1>4. names = [i \in 1..n |-> NameOf(rows[i])] /\ data = [i \in 1..n |-> DataOf(rows[i])]
  BY <1>1, <1>3, ListsOf
<1>5. Len(names) = n /\ Len(data) = n
  BY <1>4
<1>6. \A i \in 1..n : ~(i > Len(names) \/ i > Len(data))
  BY <1>5
<1>7. \A i \in 1..n : names[i] = NameOf(rows[i]) /\ data[i] = DataOf(rows[i])
  BY <1>4, Zenon
<1>8. ASSUME NEW i \in 1..n
      PROVE  [rows[i] EXCEPT !.gpr = IF names[i] = << >> \/ data[i] = << >> THEN << >>
                                     ELSE <<<<names[i][1], data[i][1]>>>>] = Numbered(rows[i])
  <2>1. CASE rows[i].gpr = << >>
    <3>1. names[i] = << >>
      BY <1>7, <2>1, Zenon DEF NameOf
    <3>. QED BY <2>1, <3>1, Zenon DEF Numbered
  <2>2. CASE rows[i].gpr # << >>
    <3>1. PICK a, v : a = RegisterMapping[rows[i].gpr[1][1]] /\ v = rows[i].gpr[1][2]
      OBVIOUS
    <3>2. names[i] = <<a>> /\ data[i] = <<v>>
      BY <1>7, <2>2, <3>1, Zenon DEF NameOf, DataOf
    <3>3. <<a>> # << >> /\ <<v>> # << >> /\ <<a>>[1] = a /\ <<v>>[1] = v
      OBVIOUS
    <3>. QED BY <2>2, <3>1, <3>2, <3>3, Zenon DEF Numbered
  <2>. QED BY <2>1, <2>2
<1>9. Remap(rows) = [i \in DOMAIN rows |->
        IF i > Len(names) \/ i > Len(data) THEN rows[i]
        ELSE [rows[i] EXCEPT !.gpr = IF names[i] = << >> \/ data[i] = << >> THEN << >>
                                     ELSE <<<<names[i][1], data[i][1]>>>>]]
  BY <1>3, Zenon DEF Remap
<1>. QED BY <1>2, <1>6, <1>8, <1>9, Zenon DEF AllNumbered

----------------------------------------------------------------------------
LEMMA ProgramType ==
  ASSUME NEW s \in Seq(Instructions)
  PROVE  ProgramOf(s) \in Seq(Instructions)
<1>1. CASE ~Ended(s)
  BY <1>1 DEF ProgramOf, Ended
<1>2. CASE Ended(s)
  <2>1. PICK n \in Nat : Len(s) = n /\ DOMAIN s = 1..n
    OBVIOUS
  <2>. DEFINE E == {k \in DOMAIN s : s[k].op = "ecall"}
  <2>2. E \in SUBSET Nat /\ E # {} /\ \A k \in E : k \in 1..n
    BY <1>2, <2>1 DEF Ended
  <2>. HIDE DEF E
  <2>3. PICK m \in 1..n : m = Min(E)
    BY <2>2, MinIs
  <2>4. SubSeq(s, 1, m) \in Seq(Instructions)
    BY <2>1
  <2>5. ProgramOf(s) = SubSeq(s, 1, m)
    BY <2>2, <2>3 DEF ProgramOf, E
  <2>. QED BY <2>4, <2>5
<1>. QED BY <1>1, <1>2

LEMMA RowsAlike ==
  ASSUME NamesAreFound, NEW s \in Seq(Instructions), NEW n \in Nat, Len(ProgramOf(s)) = n
  PROVE  SameRows(RowsOf(s, AbiName), RowsOf(s, Numbers), n)
<1>1. PICK p \in Seq(Instructions) : p = ProgramOf(s)
  BY ProgramType, Zenon
<1>2. DOMAIN p = 1..n /\ \A k \in 1..n : p[k] \in Instructions
  BY <1>1
<1>3. /\ RowsOf(s, AbiName) = [k \in 1..n |-> RowFor(p[k], AbiName)]
      /\ RowsOf(s, Numbers) = [k \in 1..n |-> RowFor(p[k], Numbers)]
  BY <1>1, <1>2, Zenon DEF RowsOf
<1>4. Len(RowsOf(s, AbiName)) = n /\ Len(RowsOf(s, Numbers)) = n
  BY <1>3
<1>5. \A k \in 1..n : /\ RowsOf(s, AbiName)[k] = RowFor(p[k], AbiName)
                      /\ RowsOf(s, Numbers)[k] = RowFor(p[k], Numbers)
  BY <1>3, Zenon
<1>. QED BY <1>2, <1>4, <1>5, Zenon DEF SameRows

(* Remapping commutes with leaving out rows. *)
LEMMA RemapExpected ==
  ASSUME NamesAreFound, ran \in Seq(Instructions)
  PROVE  Remap(Expected(AbiName)) = Expected(Numbers)
<1>1. PICK n \in Nat : Len(ProgramOf(ran)) = n
  BY ProgramType
<1>2. SameRows(RowsOf(ran, AbiName), RowsOf(ran, Numbers), n)
  BY <1>1, RowsAlike
<1>3. PICK kept \in Seq(GoodRow) : /\ kept = Matching(RowsOf(ran, AbiName), Kept)
                                  /\ Matching(RowsOf(ran, Numbers), Kept) = AllNumbered(kept)
  BY <1>2, KeptAlike, Zenon
<1>4. Remap(kept) = AllNumbered(kept)
  BY RemapNumbers
<1>5. Expected(AbiName) = kept /\ Expected(Numbers) = AllNumbered(kept)
  BY <1>3, RowsOfRan, Zenon DEF Expected
<1>. QED BY <1>4, <1>5, Zenon

RemapInv == SpikeInv /\ RemapKeepsRows

LEMMA RemapInvInductive ==
  ASSUME NamesAreFound, RemapInv, [LogNext]_svars
  PROVE  RemapInv'
<1>1. SpikeInv'
  BY SpikeInvInductive DEF RemapInv
<1>2. RemapKeepsRows <=> (phase \in {"remapped", "done"} => csv = Expected(Numbers))
  BY Zenon DEF RemapKeepsRows, Numbers
<1>3. RemapKeepsRows' <=> (phase' \in {"remapped", "done"} => csv' = Expected(Numbers)')
  BY Zenon DEF RemapKeepsRows, Numbers
<1>4. CASE Execute
  BY <1>1, <1>4 DEF RemapInv, Execute, SpikeInv, RemapKeepsRows
<1>5. CASE ConvertLog
  BY <1>1, <1>5 DEF RemapInv, ConvertLog, RemapKeepsRows
<1>6. CASE RemapCsv
  <2>1. csv = Expected(AbiName) /\ csv' = Remap(csv)
    BY <1>6 DEF RemapInv, SpikeInv, RowsAreTheRun, RemapCsv
  <2>2. csv' = Expected(Numbers)
    BY <2>1, RemapExpected DEF RemapInv, SpikeInv
  <2>3. Expected(Numbers)' = Expected(Numbers)
    BY <1>6 DEF RemapCsv, Expected, ProgramRows, Program, Matching, Kept, Numbers
  <2>. QED BY <1>1, <1>3, <2>2, <2>3 DEF RemapInv
<1>7. CASE CompareLogs
  <2>1. Expected(Numbers)' = Expected(Numbers)
    BY <1>7 DEF CompareLogs, Expected, ProgramRows, Program, Matching, Kept, Numbers
  <2>. QED BY <1>1, <1>2, <1>3, <1>7, <2>1 DEF RemapInv, CompareLogs
<1>8. CASE UNCHANGED svars
  <2>1. Expected(Numbers)' = Expected(Numbers)
    BY <1>8 DEF svars, Expected, ProgramRows, Program, Matching, Kept, Numbers
  <2>. QED BY <1>1, <1>2, <1>3, <1>8, <2>1 DEF RemapInv, svars
<1>. QED BY <1>4, <1>5, <1>6, <1>7, <1>8 DEF LogNext

(* register_remapping.py gives every row the number of the register of its *)
(* own update, with its value: the two lists that it zips stay aligned, if *)
(* the regular expression finds every name.  With ra, sp or s10 among the  *)
(* registers they do not, which MCRemap.cfg shows.                         *)
THEOREM RemappedIsTheRun ==
  ASSUME NamesAreFound
  PROVE  LogSpec => []RemapKeepsRows
<1>1. LogInit => RemapInv
  BY InitSpikeInv DEF LogInit, RemapInv, RemapKeepsRows
<1>2. RemapInv /\ [LogNext]_svars => RemapInv'
  BY RemapInvInductive
<1>3. RemapInv => RemapKeepsRows
  BY DEF RemapInv
<1>. QED BY <1>1, <1>2, <1>3, PTL DEF LogSpec

----------------------------------------------------------------------------
(* compare_columns on columns of lengths n and m. *)
LEMMA LongerOf ==
  ASSUME NEW n \in Nat, NEW m \in Nat
  PROVE  Max({n, m}) = IF n < m THEN m ELSE n
<1>. DEFINE S == {n, m}
            b == IF n < m THEN m ELSE n
<1>1. S \in SUBSET Nat /\ S # {} /\ b \in Nat /\ b \in S /\ \A x \in S : x <= b
  OBVIOUS
<1>. HIDE DEF b
<1>2. Max(S) \in S /\ \A y \in S : Max(S) >= y
  BY <1>1, MaxIs
<1>3. \A x \in S : x \in Nat
  BY <1>1
<1>. HIDE DEF S
<1>4. Max(S) <= b /\ Max(S) >= b /\ Max(S) \in Nat
  BY <1>1, <1>2, <1>3
<1>5. Max(S) = b
  BY <1>1, <1>4
<1>. QED BY <1>5 DEF S, b

LEMMA BeginningGrows ==
  ASSUME NEW n \in Nat \ {0}, NEW P
  PROVE  Append([k \in 1..(n - 1) |-> P[k]], P[n]) = [k \in 1..n |-> P[k]]
<1>1. PICK m \in Nat : m = n - 1 /\ n = m + 1
  OBVIOUS
<1>. DEFINE a == [k \in 1..m |-> P[k]]
            S == {P[k] : k \in 1..n}
<1>2. a \in Seq(S) /\ Len(a) = m /\ P[n] \in S
  <2>1. \A k \in 1..m : P[k] \in S
    BY <1>1
  <2>2. P[n] \in S
    OBVIOUS
  <2>. HIDE DEF S
  <2>. QED BY <2>1, <2>2
<1>3. Append(a, P[n]) = [k \in 1..n |-> IF k = n THEN P[n] ELSE a[k]]
  <2>. HIDE DEF a, S
  <2>. QED BY <1>1, <1>2
<1>4. ASSUME NEW k \in 1..n PROVE (IF k = n THEN P[n] ELSE a[k]) = P[k]
  <2>1. k # n => k \in 1..m
    BY <1>1
  <2>. QED BY <2>1
<1>5. Append(a, P[n]) = [k \in 1..n |-> P[k]]
  <2>. HIDE DEF a, S
  <2>. QED BY <1>3, <1>4, Zenon
<1>. QED BY <1>1, <1>5

LEMMA KeepAll ==
  ASSUME full, NEW N \in Nat, NEW P, P = [k \in 1..N |-> P[k]]
  PROVE  Matching(P, Kept) = P
<1>1. Len(P) = N
  <2>. DEFINE Q == [k \in 1..N |-> P[k]]
  <2>1. Len(Q) = N
    OBVIOUS
  <2>2. P = Q
    OBVIOUS
  <2>. HIDE DEF Q
  <2>. QED BY <2>1, <2>2, Zenon
<1>2. PICK g : Matching(P, Kept) = g[N] /\ Keeps(g, P, N)
  BY <1>1, KeeperOf
<1>. DEFINE T == {n \in 0..N : g[n] = [k \in 1..n |-> P[k]]}
<1>3. 0 \in T
  <2>1. g[0] = << >> /\ 0 \in 0..N /\ [k \in 1..0 |-> P[k]] = << >>
    BY <1>2 DEF Keeps
  <2>. QED BY <2>1, Zenon
<1>4. ASSUME NEW n \in 1..N, n - 1 \in T PROVE n \in T
  <2>1. g[n - 1] = [k \in 1..(n - 1) |-> P[k]]
    BY <1>4, Zenon
  <2>2. KeepOne(g[n - 1], P[n]) = Append(g[n - 1], P[n])
    BY Zenon DEF KeepOne, Kept
  <2>3. g[n] = Append(g[n - 1], P[n])
    BY <1>2, <2>2, Zenon DEF Keeps
  <2>4. g[n] = [k \in 1..n |-> P[k]]
    <3>1. n \in Nat \ {0}
      OBVIOUS
    <3>2. Append([k \in 1..(n - 1) |-> P[k]], P[n]) = [k \in 1..n |-> P[k]]
      BY <3>1, BeginningGrows
    <3>. QED BY <2>1, <2>3, <3>2, Zenon
  <2>5. n \in 0..N
    OBVIOUS
  <2>. QED BY <2>4, <2>5, Zenon
<1>. HIDE DEF T
<1>5. N \in T
  BY <1>3, <1>4, UpTo
<1>. QED BY <1>2, <1>5, Zenon DEF T

(* The updates of a column, one at a time.                                 *)
LEMMA UpdateAt ==
  \A c, i, v : <<i, v>> \in Updates(c) <=> i \in DOMAIN c /\ c[i] # << >> /\ v = c[i]
<1>. SUFFICES ASSUME NEW c, NEW i, NEW v
              PROVE  <<i, v>> \in Updates(c) <=> i \in DOMAIN c /\ c[i] # << >> /\ v = c[i]
  OBVIOUS
<1>1. ASSUME <<i, v>> \in Updates(c) PROVE i \in DOMAIN c /\ c[i] # << >> /\ v = c[i]
  <2>1. PICK k \in DOMAIN c : c[k] # << >> /\ <<i, v>> = <<k, c[k]>>
    BY <1>1, Zenon DEF Updates
  <2>2. i = k /\ v = c[k]
    BY <2>1
  <2>. QED BY <2>1, <2>2, Zenon
<1>2. ASSUME i \in DOMAIN c, c[i] # << >>, v = c[i] PROVE <<i, v>> \in Updates(c)
  BY <1>2, Zenon DEF Updates
<1>. QED BY <1>1, <1>2, Zenon

LEMMA UpdateIsPair ==
  \A c : \A u \in Updates(c) : \E i, v : u = <<i, v>>
BY Zenon DEF Updates

LEMMA SameUpdatesAre ==
  ASSUME NEW c, NEW d, \A i, v : <<i, v>> \in Updates(c) <=> <<i, v>> \in Updates(d)
  PROVE  Updates(c) = Updates(d)
<1>1. ASSUME NEW u \in Updates(c) PROVE u \in Updates(d)
  <2>1. PICK i, v : u = <<i, v>>
    BY <1>1, UpdateIsPair, Zenon
  <2>. QED BY <1>1, <2>1, Zenon
<1>2. ASSUME NEW u \in Updates(d) PROVE u \in Updates(c)
  <2>1. PICK i, v : u = <<i, v>>
    BY <1>2, UpdateIsPair, Zenon
  <2>. QED BY <1>2, <2>1, Zenon
<1>. QED BY <1>1, <1>2, Zenon

(* Blanks at its end do not change the updates of a column.                *)
LEMMA PaddedUpdates ==
  ASSUME NEW n \in Nat, NEW N \in Nat, n <= N, NEW c, DOMAIN c = 1..n, Len(c) = n
  PROVE  Updates(Padded(c, N)) = Updates(c)
<1>1. PICK p : p = Padded(c, N)
  OBVIOUS
<1>2. DOMAIN p = 1..N /\ \A i \in 1..N : p[i] = IF i <= n THEN c[i] ELSE << >>
  BY <1>1 DEF Padded
<1>3. ASSUME NEW i, NEW v PROVE <<i, v>> \in Updates(p) <=> <<i, v>> \in Updates(c)
  <2>1. <<i, v>> \in Updates(p) <=> i \in 1..N /\ p[i] # << >> /\ v = p[i]
    BY <1>2, UpdateAt, Zenon
  <2>2. <<i, v>> \in Updates(c) <=> i \in 1..n /\ c[i] # << >> /\ v = c[i]
    BY UpdateAt, Zenon
  <2>3. CASE i \in 1..n
    <3>1. i \in 1..N /\ p[i] = c[i]
      BY <1>2, <2>3
    <3>. QED BY <2>1, <2>2, <2>3, <3>1, Zenon
  <2>4. CASE i \notin 1..n
    <3>1. i \in 1..N => p[i] = << >>
      BY <1>2, <2>4
    <3>. QED BY <2>1, <2>2, <2>4, <3>1, Zenon
  <2>. QED BY <2>3, <2>4
<1>. QED BY <1>1, <1>3, SameUpdatesAre

(* Of columns of one length, they tell all.                                *)
LEMMA UpdatesDecide ==
  ASSUME NEW S, NEW p, NEW q, p = [i \in S |-> p[i]], q = [i \in S |-> q[i]],
         Updates(p) = Updates(q)
  PROVE  p = q
<1>1. DOMAIN p = S /\ DOMAIN q = S
  OBVIOUS
<1>2. ASSUME NEW i \in S PROVE p[i] = q[i]
  <2>1. CASE p[i] # << >>
    <3>1. <<i, p[i]>> \in Updates(q)
      BY <1>1, <2>1, UpdateAt, Zenon
    <3>. QED BY <3>1, UpdateAt, Zenon
  <2>2. CASE q[i] # << >>
    <3>1. <<i, q[i]>> \in Updates(p)
      BY <1>1, <2>2, UpdateAt, Zenon
    <3>. QED BY <3>1, UpdateAt, Zenon
  <2>3. CASE p[i] = << >> /\ q[i] = << >>
    BY <2>3, Zenon
  <2>. QED BY <2>1, <2>2, <2>3, Zenon
<1>. QED BY <1>2, Zenon

(* compare_columns finds two columns equal exactly if their updates are.   *)
LEMMA EqualMeans ==
  ASSUME NEW n \in Nat, NEW m \in Nat, NEW c, NEW d,
         DOMAIN c = 1..n, Len(c) = n, DOMAIN d = 1..m, Len(d) = m
  PROVE  CompareColumns(c, d) = "equal" <=> Updates(c) = Updates(d)
<1>1. PICK N \in Nat : N = Max({n, m}) /\ n <= N /\ m <= N
  <2>1. Max({n, m}) = IF n < m THEN m ELSE n
    BY LongerOf
  <2>. QED BY <2>1
<1>2. PICK p, q : p = Padded(c, N) /\ q = Padded(d, N)
  OBVIOUS
<1>3. Updates(p) = Updates(c) /\ Updates(q) = Updates(d)
  BY <1>1, <1>2, PaddedUpdates
<1>4. CompareColumns(c, d) = IF n < N /\ p[n + 1] # q[n + 1] THEN "crash"
                             ELSE IF p = q THEN "equal" ELSE "different"
  BY <1>1, <1>2, Zenon DEF CompareColumns
<1>5. CompareColumns(c, d) = "equal" <=> p = q
  BY <1>4
<1>6. p = [i \in 1..N |-> p[i]] /\ q = [i \in 1..N |-> q[i]]
  BY <1>2 DEF Padded
<1>7. Updates(p) = Updates(q) => p = q
  BY <1>6, UpdatesDecide
<1>. QED BY <1>3, <1>5, <1>7, Zenon

(* The rows of a full trace are the program's, none left out.              *)
LEMMA FullTrace ==
  ASSUME full, ran \in Seq(Instructions)
  PROVE  Expected(Numbers) = Executed
<1>1. PICK p \in Seq(Instructions) : p = ProgramOf(ran)
  BY ProgramType, Zenon
<1>2. PICK n \in Nat : Len(p) = n /\ DOMAIN p = 1..n
  OBVIOUS
<1>. DEFINE wide == [k \in 1..n |-> RowFor(p[k], Numbers)]
<1>3. ProgramRows(Numbers) = wide
  BY <1>1, <1>2, RowsOfRan, Zenon DEF RowsOf
<1>4. wide = [k \in 1..n |-> wide[k]]
  OBVIOUS
<1>. HIDE DEF wide
<1>5. Matching(wide, Kept) = wide
  BY <1>2, <1>4, KeepAll
<1>. QED BY <1>3, <1>5, Zenon DEF Expected, Executed

(* Lists of rows, and what is made of them, have a length.                 *)
IsList(s) == \E n \in Nat : DOMAIN s = 1..n

LEMMA ExecutedIsList == ran \in Seq(Instructions) => IsList(Executed)
<1>. SUFFICES ASSUME ran \in Seq(Instructions) PROVE IsList(Executed)
  OBVIOUS
<1>1. PICK p \in Seq(Instructions) : p = ProgramOf(ran)
  BY ProgramType, Zenon
<1>2. PICK n \in Nat : DOMAIN p = 1..n
  OBVIOUS
<1>3. Executed = [k \in 1..n |-> RowFor(p[k], Numbers)]
  BY <1>1, <1>2, RowsOfRan, Zenon DEF RowsOf, Executed
<1>4. DOMAIN Executed = 1..n
  BY <1>3
<1>. QED BY <1>4, Zenon DEF IsList

LEMMA AccountIsList ==
  ASSUME NEW E, E = Executed, E = [k \in DOMAIN E |-> E[k]], IsList(E),
         NEW rows \in Accounts
  PROVE  IsList(rows)
<1>1. PICK n \in Nat : DOMAIN E = 1..n
  BY DEF IsList
<1>. DEFINE T == {E[k] : k \in 1..n}
<1>2. E \in Seq(T) /\ Len(E) = n
  <2>1. \A k \in 1..n : E[k] \in T
    OBVIOUS
  <2>2. PICK w : w = [k \in 1..n |-> E[k]]
    OBVIOUS
  <2>3. w \in Seq(T) /\ Len(w) = n
    <3>. HIDE DEF T
    <3>. QED BY <2>1, <2>2
  <2>4. w = E
    BY <1>1, <2>2, Zenon
  <2>. QED BY <2>3, <2>4, Zenon
<1>. HIDE DEF T
<1>3. CASE rows = E
  BY <1>3, Zenon
<1>4. ASSUME NEW k \in DOMAIN E, rows = RemoveAt(E, k) PROVE IsList(rows)
  <2>1. k \in 1..n
    BY <1>1
  <2>2. SubSeq(E, 1, k - 1) \in Seq(T) /\ SubSeq(E, k + 1, n) \in Seq(T)
    BY <1>2, <2>1
  <2>3. rows = SubSeq(E, 1, k - 1) \o SubSeq(E, k + 1, n)
    BY <1>2, <1>4, Zenon DEF RemoveAt
  <2>4. rows \in Seq(T)
    BY <2>2, <2>3
  <2>. QED BY <2>4 DEF IsList
<1>5. ASSUME NEW row, rows = Append(E, row) PROVE IsList(rows)
  <2>1. E \in Seq(T \cup {row})
    BY <1>2
  <2>2. Append(E, row) \in Seq(T \cup {row})
    BY <2>1
  <2>. QED BY <1>5, <2>2 DEF IsList
<1>6. ASSUME NEW blank, NEW row, rows = E \o <<blank, row>> PROVE IsList(rows)
  <2>1. E \in Seq(T \cup {blank, row}) /\ <<blank, row>> \in Seq(T \cup {blank, row})
    BY <1>2
  <2>2. E \o <<blank, row>> \in Seq(T \cup {blank, row})
    BY <2>1
  <2>. QED BY <1>6, <2>2 DEF IsList
<1>7. ASSUME NEW k \in DOMAIN E, NEW row, rows = ReplaceAt(E, k, row) PROVE IsList(rows)
  <2>1. DOMAIN rows = DOMAIN E
    BY <1>7 DEF ReplaceAt
  <2>. QED BY <2>1, Zenon DEF IsList
<1>8. ASSUME NEW k \in DOMAIN E, rows = InsertAt(E, k, BlankRow) PROVE IsList(rows)
  <2>1. k \in 1..n /\ E \in Seq(T \cup {BlankRow}) /\ <<BlankRow>> \in Seq(T \cup {BlankRow})
    BY <1>1, <1>2
  <2>2. /\ SubSeq(E, 1, k - 1) \in Seq(T \cup {BlankRow})
        /\ SubSeq(E, k, n) \in Seq(T \cup {BlankRow})
    BY <1>2, <2>1
  <2>3. rows = SubSeq(E, 1, k - 1) \o <<BlankRow>> \o SubSeq(E, k, n)
    BY <1>2, <1>8, Zenon DEF InsertAt
  <2>4. rows \in Seq(T \cup {BlankRow})
    BY <2>1, <2>2, <2>3
  <2>. QED BY <2>4 DEF IsList
<1>. DEFINE A == {RemoveAt(Executed, k) : k \in DOMAIN Executed}
            F == {InsertAt(Executed, k, BlankRow) : k \in DOMAIN Executed}
            B == {Append(Executed, row) : row \in OtherRows}
            C == {Executed \o <<BlankRow, row>> : row \in OtherRows}
            D == {ReplaceAt(Executed, k, row) : k \in DOMAIN Executed, row \in OtherRows}
<1>9. rows \in {Executed} \/ rows \in A \/ rows \in B \/ rows \in C \/ rows \in D \/ rows \in F
  <2>1. Accounts = {Executed} \cup A \cup F \cup B \cup C \cup D
    BY DEF Accounts
  <2>. HIDE DEF A, B, C, D, F
  <2>. QED BY <2>1
<1>10. rows \in A => \E k \in DOMAIN E : rows = RemoveAt(E, k)
  BY Zenon
<1>11. rows \in B => \E row : rows = Append(E, row)
  BY Zenon
<1>12. rows \in C => \E row : rows = E \o <<BlankRow, row>>
  BY Zenon
<1>13. rows \in D => \E k \in DOMAIN E : \E row : rows = ReplaceAt(E, k, row)
  <2>1. rows \in D => \E k \in DOMAIN Executed, row \in OtherRows : rows = ReplaceAt(Executed, k, row)
    OBVIOUS
  <2>. HIDE DEF D
  <2>. QED BY <2>1, Zenon
<1>14. rows \in F => \E k \in DOMAIN E : rows = InsertAt(E, k, BlankRow)
  BY Zenon
<1>15. rows \in {Executed} => rows = E
  OBVIOUS
<1>. HIDE DEF A, B, C, D, F
<1>. QED BY <1>3, <1>4, <1>5, <1>6, <1>7, <1>9, <1>10, <1>11, <1>12, <1>13, <1>15, <1>14, <1>8, Zenon

LEMMA LogsAreLists ==
  ASSUME NEW rows, IsList(rows)
  PROVE  IsList(Logs(rows)["IF"]) /\ IsList(Logs(rows)["ID"]) /\ IsList(Logs(rows)["MEM"])
<1>1. /\ Logs(rows)["IF"] = [k \in DOMAIN rows |-> IFRow(rows[k])]
      /\ Logs(rows)["ID"] = [k \in DOMAIN rows |-> IDRow(rows[k])]
      /\ Logs(rows)["MEM"] = [k \in DOMAIN rows |-> MEMRow(rows[k])]
  BY DEF Logs
<1>2. /\ DOMAIN Logs(rows)["IF"] = DOMAIN rows
      /\ DOMAIN Logs(rows)["ID"] = DOMAIN rows
      /\ DOMAIN Logs(rows)["MEM"] = DOMAIN rows
  BY <1>1
<1>. QED BY <1>2, Zenon DEF IsList

LEMMA ColumnLength ==
  ASSUME NEW rows, NEW key, IsList(rows)
  PROVE  \E n \in Nat : DOMAIN Column(rows, key) = 1..n /\ Len(Column(rows, key)) = n
<1>1. PICK n \in Nat : DOMAIN rows = 1..n
  BY DEF IsList
<1>2. PICK c : c = [i \in 1..n |-> Cell(rows[i], key)]
  OBVIOUS
<1>3. DOMAIN c = 1..n /\ Len(c) = n
  BY <1>2
<1>4. Column(rows, key) = c
  BY <1>1, <1>2, Zenon DEF Column
<1>. QED BY <1>3, <1>4, Zenon

LEMMA LogNames ==
  DOMAIN LogOf = {"pc", "op", "gpr", "csr"} /\ \A key \in DOMAIN LogOf : LogOf[key] \in {"IF", "ID", "MEM"}
BY DEF LogOf

AgreementInv == RemapInv /\ PassMeansAgreement

LEMMA VerdictStep ==
  ASSUME NamesAreFound, AgreementInv, CompareLogs
  PROVE  PassMeansAgreement'
<1>1. full /\ csv = Expected(Numbers) /\ ran \in Seq(Instructions)
  BY Zenon DEF AgreementInv, RemapInv, SpikeInv, RemapKeepsRows, CompareLogs, Numbers
<1>2. PICK E : E = Executed
  OBVIOUS
<1>3. csv = E /\ IsList(E)
  BY <1>1, <1>2, FullTrace, ExecutedIsList, Zenon
<1>4. E = [k \in DOMAIN E |-> E[k]]
  <2>1. E = [k \in DOMAIN Program |-> RowFor(Program[k], Numbers)]
    BY <1>2, Zenon DEF Executed, ProgramRows
  <2>. QED BY <2>1
<1>5. PICK logs : logs = rtl'
  OBVIOUS
<1>6. \A key \in DOMAIN LogOf : IsList(logs[LogOf[key]])
  <2>1. PICK wrong \in {"IF", "ID", "MEM"}, rows \in Accounts :
          logs = [Logs(Executed) EXCEPT ![wrong] = Logs(rows)[wrong]]
    BY <1>5, Zenon DEF CompareLogs
  <2>2. IsList(rows)
    BY <1>2, <1>3, <1>4, AccountIsList
  <2>3. PICK good, bad : good = Logs(Executed) /\ bad = Logs(rows)
    OBVIOUS
  <2>4. \A f \in {"IF", "ID", "MEM"} : IsList(good[f]) /\ IsList(bad[f])
    <3>1. IsList(good["IF"]) /\ IsList(good["ID"]) /\ IsList(good["MEM"])
      BY <1>2, <1>3, <2>3, LogsAreLists
    <3>2. IsList(bad["IF"]) /\ IsList(bad["ID"]) /\ IsList(bad["MEM"])
      BY <2>2, <2>3, LogsAreLists
    <3>. QED BY <3>1, <3>2
  <2>5. DOMAIN good = {"IF", "ID", "MEM"}
    BY <2>3 DEF Logs
  <2>6. ASSUME NEW f \in {"IF", "ID", "MEM"} PROVE logs[f] \in {good[f], bad[f]}
    BY <2>1, <2>3, <2>5
  <2>7. \A f \in {"IF", "ID", "MEM"} : IsList(logs[f])
    BY <2>4, <2>6
  <2>. QED BY <2>7, LogNames, Zenon
<1>7. ASSUME NEW key \in DOMAIN LogOf
      PROVE  Compare(key, logs) = "equal" <=>
               Updates(Column(logs[LogOf[key]], key)) = Updates(Column(E, key))
  <2>1. PICK c, d : c = Column(E, key) /\ d = Column(logs[LogOf[key]], key)
    OBVIOUS
  <2>2. PICK n \in Nat : DOMAIN c = 1..n /\ Len(c) = n
    BY <1>3, <2>1, ColumnLength
  <2>3. IsList(logs[LogOf[key]])
    BY <1>6, Zenon
  <2>4. PICK m \in Nat : DOMAIN d = 1..m /\ Len(d) = m
    BY <2>1, <2>3, ColumnLength
  <2>5. Compare(key, logs) = CompareColumns(c, d)
    BY <1>3, <2>1, Zenon DEF Compare
  <2>6. CompareColumns(c, d) = "equal" <=> Updates(c) = Updates(d)
    BY <2>2, <2>4, EqualMeans
  <2>. QED BY <2>1, <2>5, <2>6, Zenon
<1>8. verdict' = "pass" <=> \A key \in DOMAIN LogOf : Compare(key, logs) = "equal"
  <2>. DEFINE R == {Compare(key, logs) : key \in DOMAIN LogOf}
  <2>1. verdict' = IF "crash" \in R THEN "crash"
                   ELSE IF R = {"equal"} THEN "pass" ELSE "fail"
    <3>1. {Compare(key, rtl') : key \in DOMAIN LogOf} = R
      BY <1>5, Zenon
    <3>. QED BY <3>1, Zenon DEF CompareLogs
  <2>2. R = {"equal"} <=> \A key \in DOMAIN LogOf : Compare(key, logs) = "equal"
    <3>1. "pc" \in DOMAIN LogOf
      BY LogNames
    <3>. QED BY <3>1, Zenon
  <2>. HIDE DEF R
  <2>3. R = {"equal"} => "crash" \notin R
    OBVIOUS
  <2>4. verdict' = "pass" <=> R = {"equal"}
    BY <2>1, <2>3
  <2>. QED BY <2>2, <2>4, Zenon
<1>9. Executed' = E
  BY <1>2 DEF CompareLogs, Executed, ProgramRows, Program, Numbers
<1>10. (verdict' = "pass") = \A key \in DOMAIN LogOf :
          Updates(Column(logs[LogOf[key]], key)) = Updates(Column(E, key))
  BY <1>7, <1>8, Zenon
<1>11. (verdict' = "pass") = \A key \in DOMAIN LogOf :
          Updates(Column(rtl'[LogOf[key]], key)) = Updates(Column(Executed', key))
  BY <1>5, <1>9, <1>10, Zenon
<1>. QED BY <1>11, Zenon DEF PassMeansAgreement

(* compare.py says passed exactly if what the three logs of the RTL say of  *)
(* fetches, register writes and loads is what Spike executed, whichever of *)
(* them has a row that is changed, missing or too much; a crash is no pass. *)
THEOREM VerdictIsTrue ==
  ASSUME NamesAreFound
  PROVE  LogSpec => []PassMeansAgreement
<1>1. LogInit => AgreementInv
  BY InitSpikeInv DEF LogInit, AgreementInv, RemapInv, RemapKeepsRows, PassMeansAgreement
<1>2. AgreementInv /\ [LogNext]_svars => AgreementInv'
  <2>. SUFFICES ASSUME AgreementInv, [LogNext]_svars PROVE AgreementInv'
    OBVIOUS
  <2>1. RemapInv'
    BY RemapInvInductive DEF AgreementInv
  <2>2. CASE Execute
    BY <2>1, <2>2 DEF Execute, AgreementInv, RemapInv, SpikeInv, PassMeansAgreement
  <2>3. CASE ConvertLog
    BY <2>1, <2>3 DEF ConvertLog, AgreementInv, RemapInv, SpikeInv, PassMeansAgreement
  <2>4. CASE RemapCsv
    BY <2>1, <2>4 DEF RemapCsv, AgreementInv, RemapInv, SpikeInv, PassMeansAgreement
  <2>5. CASE CompareLogs
    BY <2>1, <2>5, VerdictStep DEF AgreementInv
  <2>6. CASE UNCHANGED svars
    <3>1. Executed' = Executed /\ UNCHANGED <<phase, verdict, rtl>>
      BY <2>6 DEF svars, Executed, ProgramRows, Program, Numbers
    <3>2. PassMeansAgreement' <=> PassMeansAgreement
      BY <3>1, Zenon DEF PassMeansAgreement
    <3>. QED BY <2>1, <3>2 DEF AgreementInv
  <2>. QED BY <2>2, <2>3, <2>4, <2>5, <2>6 DEF LogNext
<1>3. AgreementInv => PassMeansAgreement
  BY DEF AgreementInv
<1>. QED BY <1>1, <1>2, <1>3, PTL DEF LogSpec
============================================================================
