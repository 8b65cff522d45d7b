----------------------------- MODULE BenchProofs -----------------------------
(* Proofs about the testbench.  Its instruction side: for every set of     *)
(* fetch blocks and every choice of timing models.  Its data side: for     *)
(* every set of words, every image and set of requests, and every latency. *)
EXTENDS FetchBench, DataBench, TLAPS

LEMMA SlotTypes ==
  /\ AtRest \in Slot
  /\ Nothing \in SUBSET Blocks
  /\ \A b \in Blocks : {b} \in SUBSET Blocks
BY DEF AtRest, Slot, Nothing

(* Nothing is held and nothing answered at the start. *)
LEMMA InitFetchInv == FetchInit => FetchInv
<1>. SUFFICES ASSUME FetchInit PROVE FetchInv
  OBVIOUS
<1>1. FetchTypeOK
  BY SlotTypes DEF FetchInit, FetchTypeOK, Waiting, Nothing
<1>2. SlotsAgree /\ AnswerIsGated
  BY DEF FetchInit, SlotsAgree, AnswerIsGated, Gate, AtRest
<1>. QED BY <1>1, <1>2 DEF FetchInv, FetchInit

(* At a rising edge responder and block RAM move alike.                    *)
LEMMA EdgeAgrees ==
  ASSUME FetchTypeOK, SlotsAgree
  PROVE  /\ RespondEdge \in Slot /\ BramEdge \in Slot
         /\ RespondEdge.on = BramEdge.on
         /\ RespondEdge.on => RespondEdge = BramEdge /\ RespondEdge.data = RespondEdge.req
<1>. DEFINE R == RespondEdge
            B == BramEdge
            capture == ~bram.on /\ valid /\ ~flush
<1>0. /\ respond \in Slot /\ bram \in Slot /\ respond.on = bram.on
      /\ rstn \in BOOLEAN /\ valid \in BOOLEAN /\ flush \in BOOLEAN
      /\ pc \in Blocks /\ Captured \in Slot
  BY DEF FetchTypeOK, SlotsAgree, Captured, Slot
<1>1. CASE ~rstn
  <2>1. R = [respond EXCEPT !.on = FALSE]
    BY <1>1 DEF RespondEdge
  <2>2. B = [on |-> FALSE, req |-> Nothing, data |-> IF capture THEN {pc} ELSE bram.data]
    BY <1>1 DEF BramEdge
  <2>3. R \in Slot /\ R.on = FALSE
    BY <1>0, <2>1 DEF Slot
  <2>4. B \in Slot /\ B.on = FALSE
    BY <1>0, <2>2, SlotTypes DEF Slot
  <2>. QED BY <2>3, <2>4
<1>2. CASE rstn /\ respond.on
  BY <1>0, <1>2, SlotTypes DEF RespondEdge, BramEdge, Slot
<1>3. CASE rstn /\ ~respond.on /\ capture
  <2>1. R = Captured
    BY <1>0, <1>3 DEF RespondEdge
  <2>2. B = Captured
    BY <1>0, <1>3 DEF BramEdge, Captured
  <2>. QED BY <1>0, <2>1, <2>2 DEF Captured
<1>4. CASE rstn /\ ~respond.on /\ ~capture
  BY <1>0, <1>4 DEF RespondEdge, BramEdge, Slot
<1>. QED BY <1>0, <1>1, <1>2, <1>3, <1>4

(* A rising edge, for the drivers that answer at once or later, and for    *)
(* the responder.                                                          *)
LEMMA EdgePreserves == FetchInv /\ FetchEdge => FetchInv'
<1>. SUFFICES ASSUME FetchInv, FetchEdge PROVE FetchInv'
  OBVIOUS
<1>1. /\ fmode' = fmode /\ fmode \in FetchModes /\ half' = "high" /\ rstn' = rstn
      /\ pc' \in Blocks /\ valid' \in BOOLEAN /\ flush' \in BOOLEAN
      /\ Fixed' = Fixed
  BY DEF FetchInv, FetchTypeOK, FetchEdge, CoreEdge, Wires, Fixed
<1>2. CASE ~Fixed
  <2>1. IMemEdge /\ respond' = respond /\ bram' = bram
    BY <1>2 DEF FetchEdge
  <2>2. idriver \in [block : SUBSET Blocks, left : Nat]
    BY DEF FetchInv, FetchTypeOK
  <2>. DEFINE Answered == /\ fready' \in BOOLEAN /\ frdata' \in SUBSET Blocks
                          /\ idriver' \in [block : SUBSET Blocks, left : Nat]
                          /\ fready' => frdata' = {pc'}
  <2>3. Answered
    <3>0. Waiting \in [block : SUBSET Blocks, left : Nat]
      BY DEF Waiting, Nothing
    <3>1. CASE idriver = Waiting /\ ~valid' /\ NoAnswer /\ UNCHANGED idriver
      BY <2>2, <3>1 DEF NoAnswer, Nothing
    <3>2. ASSUME NEW n \in Latencies,
                 IF n = 0 THEN Answer(pc') /\ UNCHANGED idriver
                 ELSE NoAnswer /\ idriver' = [block |-> {pc'}, left |-> n]
          PROVE  Answered
      <4>1. n \in Nat
        BY DEF Latencies
      <4>2. CASE n = 0
        BY <1>1, <2>2, <3>2, <4>2 DEF Answer
      <4>3. CASE n # 0
        <5>1. fready' = FALSE /\ frdata' = Nothing /\ idriver' = [block |-> {pc'}, left |-> n]
          BY <3>2, <4>3 DEF NoAnswer
        <5>2. {pc'} \in SUBSET Blocks
          BY <1>1
        <5>. QED BY <4>1, <5>1, <5>2, SlotTypes
      <4>. QED BY <4>2, <4>3
    <3>3. CASE idriver.left > 1 /\ NoAnswer
               /\ idriver' = IF flush' THEN Waiting ELSE [idriver EXCEPT !.left = @ - 1]
      <4>1. idriver' \in [block : SUBSET Blocks, left : Nat]
        <5>1. CASE flush'
          BY <3>0, <3>3, <5>1
        <5>2. CASE ~flush'
          BY <2>2, <3>3, <5>2
        <5>. QED BY <5>1, <5>2
      <4>. QED BY <3>3, <4>1, SlotTypes DEF NoAnswer
    <3>4. ASSUME NEW block \in idriver.block, idriver' = Waiting,
                 \/ StillWanted(block) /\ Answer(block)
                 \/ ~StillWanted(block) /\ NoAnswer
          PROVE  Answered
      BY <1>1, <2>2, <3>0, <3>4 DEF StillWanted, Answer, NoAnswer, Nothing
    <3>. QED BY <2>1, <3>1, <3>2, <3>3, <3>4 DEF IMemEdge
  <2>. QED BY <1>1, <1>2, <2>1, <2>3 DEF FetchInv, FetchTypeOK
<1>3. CASE Fixed
  <2>1. /\ respond' = RespondEdge /\ bram' = BramEdge /\ idriver' = idriver
        /\ fready' = Gate(RespondEdge, rstn', valid', flush', pc')
        /\ frdata' = RespondEdge.data
    BY <1>3 DEF FetchEdge, Drive
  <2>2. SlotsAgree' /\ respond' \in Slot /\ bram' \in Slot
    BY <1>3, <2>1, EdgeAgrees DEF FetchInv, SlotsAgree
  <2>3. AnswerIsGated'
    BY <2>1 DEF AnswerIsGated
  <2>4. FetchTypeOK'
    BY <1>1, <2>1, <2>2 DEF FetchInv, FetchTypeOK, Gate, Slot
  <2>. QED BY <1>1, <1>3, <2>2, <2>3, <2>4 DEF FetchInv
<1>. QED BY <1>2, <1>3

(* The wires settle: fetch keeps its address unless the contract test      *)
(* moves it, and that runs the responder, whose answer follows the wires.  *)
LEMMA SettlePreserves == FetchInv /\ Settle => FetchInv'
<1>. SUFFICES ASSUME FetchInv, Settle PROVE FetchInv'
  OBVIOUS
<1>1. /\ fmode' = fmode /\ fmode \in FetchModes /\ half' = "low" /\ rstn' \in BOOLEAN
      /\ pc' \in Blocks /\ valid' \in BOOLEAN /\ flush' \in BOOLEAN
      /\ idriver' = idriver /\ Fixed' = Fixed
  BY DEF FetchInv, FetchTypeOK, Settle, Wires, Fixed
<1>2. CASE ~Fixed
  BY <1>1, <1>2 DEF FetchInv, FetchTypeOK, Settle, Fixed
<1>3. CASE Fixed
  <2>0. respond \in Slot /\ bram \in Slot /\ SlotsAgree
    BY <1>3 DEF FetchInv, FetchTypeOK
  <2>1. /\ respond' = [respond EXCEPT !.on = respond.on /\ rstn']
        /\ bram' = IF rstn' THEN bram ELSE [bram EXCEPT !.on = FALSE, !.req = Nothing]
        /\ fready' = Gate(respond', rstn', valid', flush', pc')
        /\ frdata' = respond'.data
    BY <1>3 DEF Settle, Drive
  <2>2. SlotsAgree' /\ respond' \in Slot /\ bram' \in Slot
    BY <1>1, <2>0, <2>1, SlotTypes DEF SlotsAgree, Slot
  <2>3. AnswerIsGated'
    BY <2>1 DEF AnswerIsGated
  <2>4. FetchTypeOK'
    BY <1>1, <2>1, <2>2 DEF FetchInv, FetchTypeOK, Gate, Slot
  <2>. QED BY <1>1, <1>3, <2>2, <2>3, <2>4 DEF FetchInv
<1>. QED BY <1>2, <1>3

(* A reset between two edges makes both forget what they hold.             *)
LEMMA PulsePreserves == FetchInv /\ ResetPulse => FetchInv'
<1>. SUFFICES ASSUME FetchInv, ResetPulse PROVE FetchInv'
  OBVIOUS
<1>1. Fixed /\ Fixed'
  BY DEF ResetPulse, Fixed
<1>2. respond \in Slot /\ bram \in Slot
  BY DEF FetchInv, FetchTypeOK
<1>3. SlotsAgree' /\ respond' \in Slot /\ bram' \in Slot
  BY <1>2, SlotTypes DEF ResetPulse, SlotsAgree, Slot
<1>4. AnswerIsGated'
  BY <1>2 DEF ResetPulse, AnswerIsGated, Gate, Slot
<1>5. FetchTypeOK'
  BY <1>2, <1>3 DEF ResetPulse, FetchInv, FetchTypeOK, Slot
<1>. QED BY <1>1, <1>3, <1>4, <1>5 DEF FetchInv

LEMMA FetchInvariant == FetchSpec => []FetchInv
<1>1. FetchInv /\ [FetchNext]_fvars => FetchInv'
  <2>1. FetchInv /\ UNCHANGED fvars => FetchInv'
    BY DEF FetchInv, FetchTypeOK, Fixed, SlotsAgree, AnswerIsGated, Gate, fvars
  <2>. QED BY <2>1, EdgePreserves, SettlePreserves, PulsePreserves DEF FetchNext
<1>. QED BY <1>1, InitFetchInv, PTL DEF FetchSpec

(* The fixed driver of the testbench is cycle-exact: its answer is at      *)
(* every moment that of bram_slave.sv, for any number of blocks and across *)
(* withdrawn requests, flushes and resets.                                 *)
THEOREM DriverIsBlockRam == FetchSpec => []FixedIsBram
<1>1. FetchInv => FixedIsBram
  <2>. SUFFICES ASSUME FetchInv, Fixed
                PROVE  fready = BramReady /\ (fready => frdata = bram.data)
    BY DEF FixedIsBram
  <2>. QED BY DEF FetchInv, FetchTypeOK, Slot, SlotsAgree, AnswerIsGated, Gate, BramReady
<1>. QED BY <1>1, FetchInvariant, PTL

(* Fetch never takes an instruction that was read for another address, in  *)
(* any of the timing models.                                               *)
THEOREM NoForeignInstruction == FetchSpec => []FetchedIsWanted
<1>1. FetchInv => FetchedIsWanted
  <2>. SUFFICES ASSUME FetchInv, Fires PROVE frdata = {pc}
    BY DEF FetchedIsWanted
  <2>. QED BY DEF FetchInv, Fires, SlotsAgree, AnswerIsGated, Gate
<1>. QED BY <1>1, FetchInvariant, PTL

------------------------------------------------------------------------------
LEMMA Powers == 2 ^ 0 = 1 /\ 2 ^ 1 = 2 /\ 2 ^ 2 = 4
OBVIOUS

(* What the LSU drives for a request is a word and a set of its lanes.     *)
LEMMA Driven ==
  ASSUME NEW r \in Request
  PROVE  Strobes(r) \in SUBSET Lane /\ Lanes(r) \in WordValue
<1>1. r.size \in {0, 1, 2} /\ r.off \in Lane /\ r.data \in WordValue
  BY DEF Request
<1>2. Strobes(r) \in SUBSET Lane
  BY DEF Strobes
<1>3. \A i \in Lane : i - ShiftOff(r) \in 0..(2 ^ r.size - 1) => i - ShiftOff(r) \in Lane
  BY <1>1, Powers DEF ShiftOff, Lane
<1>4. 0 \in Byte
  BY DEF Byte
<1>. QED BY <1>1, <1>2, <1>3, <1>4 DEF Lanes, WordValue

(* Merging lanes by strobes is the store that the program means, and       *)
(* without strobes nothing is stored.                                      *)
LEMMA MergeStores ==
  ASSUME NEW m \in [Words -> WordValue], NEW r \in Request
  PROVE  /\ Stored(m, r) = [m EXCEPT ![r.word] = Merge(@, Lanes(r), Strobes(r))]
         /\ Stored(m, r) \in [Words -> WordValue]
         /\ Strobes(r) = {} => Stored(m, r) = m
<1>1. /\ r.size \in {0, 1, 2} /\ r.off \in Lane /\ r.data \in WordValue
      /\ r.word \in Words /\ r.load \in BOOLEAN /\ m[r.word] \in WordValue
  BY DEF Request
<1>. DEFINE old == m[r.word]
            new == Merge(old, Lanes(r), Strobes(r))
            first == IF r.size = 2 THEN 0 ELSE r.off
            meant == [i \in Lane |-> IF i \in Spans(r) THEN r.data[i - first] ELSE old[i]]
<1>2. new \in WordValue
  BY <1>1, Driven DEF Merge, WordValue
<1>3. Strobes(r) = {} => new = old
  BY <1>1 DEF Merge, WordValue
<1>4. r.load => Strobes(r) = {}
  BY DEF Strobes
<1>5. ~r.load => new = meant
  <2>. SUFFICES ASSUME ~r.load, NEW i \in Lane PROVE new[i] = meant[i]
    BY DEF Merge
  <2>1. i \in Spans(r) <=> i \in Strobes(r)
    <3>1. CASE r.size = 2
      BY <1>1, <3>1, Powers DEF Spans, Strobes, ShiftOff, Lane
    <3>2. CASE r.size = 0
      BY <1>1, <3>2, Powers DEF Spans, Strobes, ShiftOff, Lane
    <3>3. CASE r.size = 1
      <4>1. HAligned(r) <=> r.off \in {0, 2}
        BY <1>1 DEF HAligned, Lane
      <4>. QED BY <1>1, <3>3, <4>1, Powers DEF Spans, Strobes, ShiftOff, Lane
    <3>. QED BY <1>1, <3>1, <3>2, <3>3
  <2>2. i \in Strobes(r) => Lanes(r)[i] = r.data[i - first]
    BY <1>1, Powers DEF Strobes, Lanes, ShiftOff, Lane
  <2>. QED BY <2>1, <2>2 DEF Merge
<1>6. Stored(m, r) = IF r.load THEN m ELSE [m EXCEPT ![r.word] = meant]
  BY DEF Stored
<1>7. [m EXCEPT ![r.word] = old] = m
  BY <1>1
<1>. HIDE DEF old, new, meant
<1>8. Stored(m, r) = [m EXCEPT ![r.word] = new]
  BY <1>1, <1>3, <1>4, <1>5, <1>6, <1>7
<1>9. Stored(m, r) \in [Words -> WordValue]
  BY <1>1, <1>2, <1>8
<1>. QED BY <1>3, <1>7, <1>8, <1>9 DEF new, old

(* Aligning the word at a load's address is the load the program means.    *)
LEMMA AlignLoads ==
  ASSUME NEW m \in [Words -> WordValue], NEW r \in Request
  PROVE  SignedWord(LoadAlign(r, m[r.word])) = Meant(m, r)
<1>. DEFINE w == m[r.word]
<1>1. /\ r.size \in {0, 1, 2} /\ r.off \in Lane /\ r.word \in Words /\ r.sx \in BOOLEAN
      /\ w \in WordValue
  BY DEF Request
<1>. HIDE DEF w
<1>2. ASSUME NEW i \in Lane PROVE w[i] \in Int /\ 0 <= w[i] /\ w[i] <= 255
  <2>1. w[i] \in 0..255
    BY <1>1 DEF WordValue, Byte
  <2>. QED BY <2>1
<1>3. CASE r.size = 2
  <2>1. LoadAlign(r, w) = w
    BY <1>3 DEF LoadAlign
  <2>2. Meant(m, r) = SignedWord(w)
    BY <1>3 DEF Meant, Spans, Lane, w
  <2>. QED BY <2>1, <2>2 DEF w
<1>4. CASE r.size = 1 /\ ~HAligned(r)
  <2>1. r.off \notin {0, 2}
    BY <1>1, <1>4 DEF HAligned, Lane
  <2>2. LoadAlign(r, w) = ZeroWord
    BY <1>4 DEF LoadAlign
  <2>3. Meant(m, r) = 0
    BY <1>4, <2>1 DEF Meant, Spans
  <2>4. SignedWord(ZeroWord) = 0
    BY DEF SignedWord, ZeroWord, Lane
  <2>. QED BY <2>2, <2>3, <2>4 DEF w
<1>5. CASE r.size = 1 /\ HAligned(r)
  <2>1. r.off \in {0, 2}
    BY <1>1, <1>5 DEF HAligned, Lane
  <2>. DEFINE x == w[r.off + 0] + 256 * w[r.off + 1]
              top == w[r.off + 1]
  <2>2. Meant(m, r) = IF r.sx /\ x >= 32768 THEN x - 65536 ELSE x
    BY <1>5, <2>1 DEF Meant, Spans, w
  <2>3. LoadAlign(r, w) = [i \in Lane |-> IF i < 2 THEN w[i + r.off] ELSE Extend(r, top)]
    BY <1>5, <2>1, Powers DEF LoadAlign, Lane
  <2>4. SignedWord(LoadAlign(r, w)) =
          w[0 + r.off] + 256 * w[1 + r.off] + 65536 * Extend(r, top)
            + 16777216 * (IF Extend(r, top) >= 128 THEN Extend(r, top) - 256
                          ELSE Extend(r, top))
    BY <2>3 DEF SignedWord, Lane
  <2>5. /\ 0 + r.off = r.off + 0 /\ 1 + r.off = r.off + 1
        /\ r.off + 0 \in Lane /\ r.off + 1 \in Lane
    BY <2>1 DEF Lane
  <2>. QED BY <1>1, <1>2, <2>2, <2>4, <2>5 DEF Extend, w
<1>6. CASE r.size = 0
  <2>. DEFINE x == w[r.off + 0]
  <2>0. r.off + 0 \in Lane /\ 0 + r.off = r.off + 0
    BY <1>1 DEF Lane
  <2>2. Meant(m, r) = IF r.sx /\ x >= 128 THEN x - 256 ELSE x
    BY <1>6 DEF Meant, Spans, w
  <2>3. LoadAlign(r, w) = [i \in Lane |-> IF i = 0 THEN x ELSE Extend(r, x)]
    BY <1>6, <2>0, Powers DEF LoadAlign, Lane
  <2>4. SignedWord(LoadAlign(r, w)) =
          x + 256 * Extend(r, x) + 65536 * Extend(r, x)
            + 16777216 * (IF Extend(r, x) >= 128 THEN Extend(r, x) - 256 ELSE Extend(r, x))
    BY <2>3 DEF SignedWord, Lane
  <2>. QED BY <1>1, <1>2, <2>0, <2>2, <2>4 DEF Extend, w
<1>. QED BY <1>1, <1>3, <1>4, <1>5, <1>6

LEMMA Constants ==
  /\ ToHost \in Words /\ ZeroWord \in WordValue /\ Preload \in [Words -> WordValue]
  /\ Preload[ToHost] = ZeroWord /\ Stalls \subseteq Nat
  /\ \A r \in Requests : r \in Request /\ r.word \in Words
<1>1. ZeroWord \in WordValue
  BY DEF ZeroWord, WordValue, Byte
<1>. QED BY <1>1, DataAssumption DEF Request

LEMMA InitDataInv == DataInit => DataInv
<1>. SUFFICES ASSUME DataInit PROVE DataInv
  OBVIOUS
<1>1. DataTypeOK
  BY Constants DEF DataInit, DataTypeOK, Asleep, Unseen
<1>2. BusInOrder /\ AccessOnce
  BY DEF DataInit, BusInOrder, AccessOnce, Asleep
<1>3. MirrorsFollow
  BY Constants DEF DataInit, MirrorsFollow, Shadowed, Unseen
<1>4. LoadsSeeStores /\ SignatureComplete /\ VerdictIsToHost
  BY DEF DataInit, LoadsSeeStores, SignatureComplete, VerdictIsToHost
<1>. QED BY <1>1, <1>2, <1>3, <1>4 DEF DataInv

----------------------------------------------------------------------------
(* A clock edge.  After the LSU's registers have moved, memory is what the *)
(* program means but for the request that is now held.                     *)
Held == \/ lsu' = {} /\ bytes' = mem
        \/ \E r \in Requests : lsu' = {r} /\ bytes' = Stored(mem, r)

LEMMA LsuHolds ==
  ASSUME DataInv, LsuEdge
  PROVE  /\ Held /\ ~wrong' /\ wrong' \in BOOLEAN /\ bytes' \in [Words -> WordValue]
         /\ lsu' \in {{}} \cup {{r} : r \in Requests}
         /\ lsu # {} /\ ~ready => lsu' = lsu
<1>1. lsu = {} \/ \E r \in Requests : lsu = {r}
  BY DEF DataInv, DataTypeOK
<1>2. ~wrong /\ wrong \in BOOLEAN /\ mem \in [Words -> WordValue] /\ bytes \in [Words -> WordValue]
  BY DEF DataInv, DataTypeOK, LoadsSeeStores
<1>3. CASE lsu # {} /\ ~ready /\ UNCHANGED <<lsu, bytes, wrong>>
  BY <1>1, <1>2, <1>3 DEF Held, DataInv, AccessOnce
<1>4. ASSUME lsu = {} \/ ready,
             lsu' \in {{}} \cup {{r} : r \in Requests},
             bytes' = IF lsu' = {} THEN bytes ELSE Stored(bytes, CHOOSE r \in lsu' : TRUE),
             wrong' = (wrong \/ \E r \in lsu : r.load /\
                    SignedWord(LoadAlign(r, rdata)) # Meant(bytes, r))
      PROVE  Held /\ ~wrong' /\ wrong' \in BOOLEAN /\ bytes' \in [Words -> WordValue]
  <2>1. mem = bytes
    BY <1>1, <1>4 DEF DataInv, LoadsSeeStores, AccessOnce
  <2>2. ASSUME NEW r \in lsu, r.load
        PROVE  SignedWord(LoadAlign(r, rdata)) = Meant(bytes, r)
    <3>1. r \in Request /\ ready
      BY <1>1, <1>4, Constants
    <3>2. rdata = mem[r.word]
      BY <2>2, <3>1 DEF DataInv, AccessOnce, Strobes
    <3>. QED BY <1>2, <2>1, <3>1, <3>2, AlignLoads
  <2>3. ~wrong' /\ wrong' \in BOOLEAN
    BY <1>2, <1>4, <2>2
  <2>4. ASSUME NEW r \in Requests, lsu' = {r}
        PROVE  bytes' = Stored(mem, r) /\ bytes' \in [Words -> WordValue]
    <3>1. (CHOOSE q \in lsu' : TRUE) = r
      BY <2>4
    <3>2. bytes' = Stored(mem, r)
      BY <1>4, <2>1, <2>4, <3>1
    <3>. QED BY <1>2, <3>2, Constants, MergeStores
  <2>. QED BY <1>2, <1>4, <2>1, <2>3, <2>4 DEF Held
<1>5. \/ lsu # {} /\ ~ready /\ UNCHANGED <<lsu, bytes, wrong>>
      \/ /\ lsu = {} \/ ready
         /\ lsu' \in {{}} \cup {{r} : r \in Requests}
         /\ bytes' = IF lsu' = {} THEN bytes ELSE Stored(bytes, CHOOSE r \in lsu' : TRUE)
         /\ wrong' = (wrong \/ \E r \in lsu : r.load /\
                        SignedWord(LoadAlign(r, rdata)) # Meant(bytes, r))
  BY DEF LsuEdge
<1>6. lsu \in {{}} \cup {{r} : r \in Requests}
  BY DEF DataInv, DataTypeOK
<1>. QED BY <1>3, <1>4, <1>5, <1>6

(* Either the drivers leave memory alone and answer nothing, or they serve *)
(* the request that the LSU holds.                                         *)
Served(r) == /\ lsu' = {r} /\ ready' = TRUE /\ mem' = Stored(mem, r)
             /\ rdata' \in WordValue /\ (Strobes(r) = {} => rdata' = mem'[r.word])
DriverMoves == /\ driver' \in [at : {"idle", "stalling", "answered"}, left : Nat, word : Words,
                           write : BOOLEAN]
           /\ BusInOrder'
           /\ \/ NoAccess
              \/ \E r \in Requests : Served(r)

LEMMA AccessServes ==
  ASSUME DataInv, NEW r \in Requests, lsu' = {r},
         DriverAccess(Strobes(r) # {}, r.word, r)
  PROVE  Served(r)
<1>1. r \in Request /\ r.word \in Words /\ mem \in [Words -> WordValue]
      /\ ZeroWord \in WordValue
  BY Constants DEF DataInv, DataTypeOK
<1>2. CASE Strobes(r) = {}
  <2>1. mem' = mem /\ rdata' = mem[r.word] /\ ready' = TRUE
    BY <1>2 DEF DriverAccess
  <2>. QED BY <1>1, <1>2, <2>1, MergeStores DEF Served
<1>3. CASE Strobes(r) # {}
  <2>1. /\ mem' = [mem EXCEPT ![r.word] = Merge(@, Lanes(r), Strobes(r))]
        /\ rdata' = ZeroWord /\ ready' = TRUE
    BY <1>3 DEF DriverAccess
  <2>. QED BY <1>1, <1>3, <2>1, MergeStores DEF Served
<1>. QED BY <1>2, <1>3

LEMMA DriverServes ==
  ASSUME DataInv, LsuEdge, mode' = mode, mode = "stalls", DriverEdge
  PROVE  DriverMoves
<1>1. /\ Held /\ (lsu # {} /\ ~ready => lsu' = lsu)
      /\ lsu' = {} \/ \E r \in Requests : lsu' = {r}
  BY LsuHolds
<1>2. /\ driver \in [at : {"idle", "stalling", "answered"}, left : Nat, word : Words,
                     write : BOOLEAN]
      /\ ready <=> driver.at = "answered"
      /\ ready => lsu # {}
      /\ driver.at = "stalling" =>
           /\ driver.left > 0
           /\ \E r \in lsu : driver.word = r.word /\ driver.write = (Strobes(r) # {})
  BY DEF DataInv, DataTypeOK, BusInOrder
<1>3. Asleep \in [at : {"idle", "stalling", "answered"}, left : Nat, word : Words,
                  write : BOOLEAN]
  BY Constants DEF Asleep
<1>4. CASE NoAccess /\ driver' = Asleep
  BY <1>3, <1>4 DEF DriverMoves, BusInOrder, NoAccess, Asleep
<1>5. ASSUME NEW r \in Requests, Served(r), driver' = [Asleep EXCEPT !.at = "answered"]
      PROVE  DriverMoves
  <2>1. driver'.at = "answered" /\ ready' /\ lsu' # {}
    BY <1>5 DEF Served, Asleep
  <2>2. driver' \in [at : {"idle", "stalling", "answered"}, left : Nat, word : Words,
                     write : BOOLEAN]
    BY <1>3, <1>5
  <2>. QED BY <1>5, <2>1, <2>2 DEF DriverMoves, BusInOrder
<1>6. ASSUME NEW r \in lsu', NEW n \in Stalls, n # 0, NoAccess,
             driver' = [at |-> "stalling", left |-> n, word |-> r.word,
                        write |-> Strobes(r) # {}]
      PROVE  DriverMoves
  <2>1. n \in Nat /\ n > 0 /\ r.word \in Words
    BY <1>1, <1>6, Constants
  <2>2. driver' \in [at : {"idle", "stalling", "answered"}, left : Nat, word : Words,
                     write : BOOLEAN]
    BY <1>6, <2>1
  <2>. QED BY <1>6, <2>1, <2>2 DEF DriverMoves, BusInOrder, NoAccess
<1>7. CASE driver.at = "stalling" /\ driver.left > 1 /\ NoAccess
           /\ driver' = [driver EXCEPT !.left = @ - 1]
  <2>1. lsu' = lsu
    BY <1>1, <1>2, <1>7
  <2>2. driver.left \in Nat /\ driver.left - 1 \in Nat /\ driver.left - 1 > 0
    BY <1>2, <1>7
  <2>3. driver' \in [at : {"idle", "stalling", "answered"}, left : Nat, word : Words,
                     write : BOOLEAN]
    BY <1>2, <1>7, <2>2
  <2>4. driver'.at = "stalling" /\ driver'.left > 0 /\ driver'.word = driver.word
        /\ driver'.write = driver.write
    BY <1>2, <1>7, <2>2
  <2>. QED BY <1>2, <1>7, <2>1, <2>3, <2>4 DEF DriverMoves, BusInOrder, NoAccess
<1>8. ASSUME driver.at = "stalling", NEW r \in lsu',
             DriverAccess(driver.write, driver.word, r),
             driver' = [Asleep EXCEPT !.at = "answered"]
      PROVE  DriverMoves
  <2>1. lsu' = lsu /\ r \in Requests /\ lsu' = {r}
    BY <1>1, <1>2, <1>8
  <2>2. driver.word = r.word /\ driver.write = (Strobes(r) # {})
    BY <1>2, <1>8, <2>1
  <2>3. Served(r)
    BY <1>8, <2>1, <2>2, AccessServes
  <2>. QED BY <1>5, <1>8, <2>1, <2>3
<1>9. ASSUME NEW r \in lsu', DriverAccess(Strobes(r) # {}, r.word, r),
             driver' = [Asleep EXCEPT !.at = "answered"]
      PROVE  DriverMoves
  BY <1>1, <1>5, <1>9, AccessServes
<1>. QED BY <1>4, <1>6, <1>7, <1>8, <1>9 DEF DriverEdge

LEMMA ResponderServes ==
  ASSUME DataInv, LsuEdge, mode' = mode, mode = "fixed", ResponderEdge
  PROVE  DriverMoves
<1>1. /\ Held /\ (lsu # {} /\ ~ready => lsu' = lsu)
      /\ lsu = {} \/ \E r \in Requests : lsu = {r}
  BY LsuHolds DEF DataInv, DataTypeOK
<1>2. ready <=> driver.at = "answered"
  BY DEF DataInv, BusInOrder
<1>3. Asleep \in [at : {"idle", "stalling", "answered"}, left : Nat, word : Words,
                  write : BOOLEAN]
  BY Constants DEF Asleep
<1>4. CASE NoAccess /\ driver' = Asleep
  BY <1>3, <1>4 DEF DriverMoves, BusInOrder, NoAccess, Asleep
<1>5. ASSUME driver.at # "answered", NEW r \in lsu,
             mem' = [mem EXCEPT ![r.word] = Merge(@, Lanes(r), Strobes(r))],
             rdata' = mem[r.word], ready' = (lsu' # {}),
             driver' = [Asleep EXCEPT !.at = "answered"]
      PROVE  DriverMoves
  <2>1. lsu' = {r} /\ r \in Requests /\ ready' = TRUE
    BY <1>1, <1>2, <1>5
  <2>2. r \in Request /\ r.word \in Words /\ mem \in [Words -> WordValue]
    BY <2>1, Constants DEF DataInv, DataTypeOK
  <2>3. Served(r)
    BY <1>5, <2>1, <2>2, MergeStores DEF Served
  <2>4. driver'.at = "answered" /\ ready' /\ lsu' # {}
    BY <1>5, <2>1 DEF Asleep
  <2>5. driver' \in [at : {"idle", "stalling", "answered"}, left : Nat, word : Words,
                     write : BOOLEAN]
    BY <1>3, <1>5
  <2>. QED BY <2>1, <2>3, <2>4, <2>5 DEF DriverMoves, BusInOrder
<1>. QED BY <1>4, <1>5 DEF ResponderEdge

(* The monitor publishes what has just been served: the scoreboard is one  *)
(* write behind, and what it knows of tohost is what is there.             *)
Txn == [word : Words, data : WordValue, strobes : SUBSET Lane]

LEMMA MonitorFollows ==
  ASSUME DataInv, memwr = << >>, tohost = << >>, sbmem' = sbmem,
         DriverMoves, Monitor
  PROVE  /\ MirrorsFollow'
         /\ shadow' \in [DOMAIN shadow' -> WordValue] /\ DOMAIN shadow' \subseteq Words
<1>1. /\ Shadowed(ToHost) = mem[ToHost] /\ sbmem = mem /\ mem \in [Words -> WordValue]
      /\ shadow \in [DOMAIN shadow -> WordValue] /\ DOMAIN shadow \subseteq Words
  BY DEF DataInv, MirrorsFollow, DataTypeOK
<1>2. CASE NoAccess
  <2>1. UNCHANGED <<shadow, memwr, tohost>> /\ mem' = mem
    BY <1>2 DEF Monitor, NoAccess
  <2>. QED BY <1>1, <2>1 DEF MirrorsFollow, Shadowed
<1>3. ASSUME NEW r \in Requests, Served(r)
      PROVE  /\ MirrorsFollow'
             /\ shadow' \in [DOMAIN shadow' -> WordValue] /\ DOMAIN shadow' \subseteq Words
  <2>. DEFINE merged == Merge(Shadowed(r.word), Lanes(r), Strobes(r))
              txn == [word |-> r.word, data |-> Lanes(r), strobes |-> Strobes(r)]
  <2>1. /\ lsu' = {r} /\ ready' = TRUE /\ mem' = Stored(mem, r) /\ rdata' \in WordValue
        /\ Strobes(r) = {} => rdata' = mem'[r.word]
        /\ (CHOOSE q \in lsu' : TRUE) = r
    BY <1>3 DEF Served
  <2>2. r \in Request /\ r.word \in Words
    BY Constants
  <2>3. Strobes(r) \in SUBSET Lane /\ Lanes(r) \in WordValue
    BY <2>2, Driven
  <2>4. /\ mem' = [mem EXCEPT ![r.word] = Merge(@, Lanes(r), Strobes(r))]
        /\ Strobes(r) = {} => mem' = mem
    BY <1>1, <2>1, <2>2, MergeStores
  <2>5. Shadowed(r.word) \in WordValue
    BY <1>1, Constants DEF Shadowed
  <2>6. merged \in WordValue
    BY <2>3, <2>5 DEF Merge, WordValue
  <2>. HIDE DEF merged, txn
  <2>7. ASSUME NEW v \in WordValue, shadow' = SeenIs(r.word, v)
        PROVE  /\ shadow' \in [DOMAIN shadow' -> WordValue] /\ DOMAIN shadow' \subseteq Words
               /\ Shadowed(ToHost)' = IF r.word = ToHost THEN v ELSE Shadowed(ToHost)
    <3>1. DOMAIN shadow' = DOMAIN shadow \cup {r.word}
      BY <2>7 DEF SeenIs
    <3>2. \A x \in DOMAIN shadow' : shadow'[x] = IF x = r.word THEN v ELSE shadow[x]
      BY <2>7, <3>1 DEF SeenIs
    <3>3. shadow' \in [DOMAIN shadow' -> WordValue]
      BY <1>1, <2>7, <3>1 DEF SeenIs
    <3>4. Shadowed(ToHost)' = IF r.word = ToHost THEN v ELSE Shadowed(ToHost)
      BY <3>1, <3>2 DEF Shadowed
    <3>. QED BY <1>1, <2>2, <3>1, <3>3, <3>4
  <2>8. CASE Strobes(r) = {}
    <3>1. shadow' = SeenIs(r.word, rdata') /\ UNCHANGED <<memwr, tohost>>
      BY <2>1, <2>8 DEF Monitor
    <3>2. mem' = mem /\ rdata' = mem[r.word]
      BY <2>1, <2>4, <2>8
    <3>3. Shadowed(ToHost)' = mem'[ToHost]
      BY <1>1, <2>1, <2>7, <3>1, <3>2
    <3>. QED BY <1>1, <2>1, <2>7, <3>1, <3>2, <3>3 DEF MirrorsFollow
  <2>9. CASE Strobes(r) # {}
    <3>1. /\ shadow' = SeenIs(r.word, merged) /\ memwr' = Append(memwr, txn)
          /\ tohost' = IF r.word = ToHost THEN Append(tohost, merged) ELSE tohost
      BY <2>1, <2>9 DEF Monitor, merged, txn
    <3>2. memwr' = <<txn>> /\ memwr'[1] = txn /\ txn \in Txn
      BY <2>2, <2>3, <3>1 DEF txn, Txn
    <3>3. mem' = Written(sbmem', txn)
      BY <1>1, <2>4 DEF Written, txn
    <3>4. mem'[ToHost] = IF r.word = ToHost THEN merged ELSE mem[ToHost]
      BY <1>1, <2>2, <2>4, Constants DEF merged
    <3>5. Shadowed(ToHost)' = mem'[ToHost]
      BY <1>1, <2>6, <2>7, <3>1, <3>4
    <3>6. tohost' = << >> \/ tohost' = <<mem'[ToHost]>>
      BY <3>1, <3>4
    <3>7. memwr' = <<memwr'[1]>> /\ mem' = Written(sbmem', memwr'[1]) /\ memwr'[1] \in Txn
      BY <3>2, <3>3
    <3>. QED BY <2>1, <2>6, <2>7, <3>1, <3>5, <3>6, <3>7 DEF MirrorsFollow, Txn
  <2>. QED BY <2>8, <2>9
<1>. QED BY <1>2, <1>3 DEF DriverMoves

LEMMA BusClockPreserves == DataInv /\ BusClock => DataInv'
<1>. SUFFICES ASSUME DataInv, BusClock PROVE DataInv'
  OBVIOUS
<1>1. /\ verdict = "running" /\ verdict' = verdict /\ memwr = << >> /\ tohost = << >>
      /\ mode' = mode /\ sbmem' = sbmem /\ LsuEdge /\ Monitor
      /\ (mode = "stalls" /\ DriverEdge) \/ (mode = "fixed" /\ ResponderEdge)
  BY DEF BusClock
<1>2. /\ Held /\ ~wrong' /\ wrong' \in BOOLEAN /\ bytes' \in [Words -> WordValue]
      /\ lsu' \in {{}} \cup {{r} : r \in Requests}
  BY <1>1, LsuHolds
<1>3. DriverMoves
  BY <1>1, DriverServes, ResponderServes
<1>4. /\ MirrorsFollow'
      /\ shadow' \in [DOMAIN shadow' -> WordValue] /\ DOMAIN shadow' \subseteq Words
  BY <1>1, <1>3, MonitorFollows
<1>5. /\ mem \in [Words -> WordValue] /\ sbmem \in [Words -> WordValue]
      /\ rdata \in WordValue /\ mode \in Modes
  BY DEF DataInv, DataTypeOK
<1>6. /\ ready' \in BOOLEAN /\ rdata' \in WordValue /\ mem' \in [Words -> WordValue]
      /\ AccessOnce' /\ (lsu' = {} => mem' = bytes')
  <2>1. CASE NoAccess
    <3>1. ready' = FALSE /\ mem' = mem /\ rdata' = rdata
      BY <2>1 DEF NoAccess
    <3>. QED BY <1>2, <1>5, <3>1 DEF AccessOnce, Held
  <2>2. ASSUME NEW r \in Requests, Served(r)
        PROVE  /\ ready' \in BOOLEAN /\ rdata' \in WordValue /\ mem' \in [Words -> WordValue]
               /\ AccessOnce' /\ (lsu' = {} => mem' = bytes')
    <3>1. /\ lsu' = {r} /\ ready' = TRUE /\ mem' = Stored(mem, r) /\ rdata' \in WordValue
          /\ Strobes(r) = {} => rdata' = mem'[r.word]
      BY <2>2 DEF Served
    <3>2. bytes' = mem'
      BY <1>2, <3>1 DEF Held
    <3>. QED BY <1>2, <3>1, <3>2 DEF AccessOnce
  <2>. QED BY <1>3, <2>1, <2>2 DEF DriverMoves
<1>7. DataTypeOK'
  <2>1. /\ driver' \in [at : {"idle", "stalling", "answered"}, left : Nat, word : Words,
                         write : BOOLEAN]
        /\ mode' \in Modes /\ sbmem' \in [Words -> WordValue]
    BY <1>1, <1>3, <1>5, Zenon DEF DriverMoves
  <2>2. wrong' \in BOOLEAN
    BY <1>2, Zenon
  <2>3. verdict' \in {"running", "pass", "fail", "timeout"}
    BY <1>1
  <2>. QED BY <1>2, <1>4, <1>6, <2>1, <2>2, <2>3, Zenon DEF DataTypeOK
<1>8. LoadsSeeStores' /\ SignatureComplete' /\ VerdictIsToHost'
  BY <1>1, <1>2, <1>6 DEF LoadsSeeStores, SignatureComplete, VerdictIsToHost
<1>. QED BY <1>3, <1>4, <1>6, <1>7, <1>8 DEF DataInv, DriverMoves

----------------------------------------------------------------------------
(* The scoreboard's tasks. *)
LEMMA WriteType ==
  ASSUME NEW m \in [Words -> WordValue], NEW t \in Txn
  PROVE  Written(m, t) \in [Words -> WordValue]
<1>1. t.word \in Words /\ t.data \in WordValue /\ t.strobes \in SUBSET Lane
  BY DEF Txn
<1>2. Merge(m[t.word], t.data, t.strobes) \in WordValue
  BY <1>1 DEF Merge, WordValue
<1>. QED BY <1>1, <1>2 DEF Written

LEMMA DrainsAll ==
  ASSUME NEW m
  PROVE  Drain(m, << >>) = m /\ \A t : Drain(m, <<t>>) = Written(m, t)
<1>1. Drain(m, << >>) = m
  <2>. DEFINE D == [i \in 0..0 |-> m]
  <2>1. D = [i \in 0..Len(<< >>) |-> IF i = 0 THEN m ELSE Written(D[i - 1], << >>[i])]
    OBVIOUS
  <2>. HIDE DEF D
  <2>. QED BY <2>1 DEF Drain
<1>2. ASSUME NEW t PROVE Drain(m, <<t>>) = Written(m, t)
  <2>. DEFINE D == [i \in 0..1 |-> IF i = 0 THEN m ELSE Written(m, t)]
  <2>1. D = [i \in 0..Len(<<t>>) |-> IF i = 0 THEN m ELSE Written(D[i - 1], <<t>>[i])]
    OBVIOUS
  <2>. HIDE DEF D
  <2>. QED BY <2>1 DEF Drain
<1>. QED BY <1>1, <1>2

LEMMA CollectPreserves == DataInv /\ Collect => DataInv'
<1>. SUFFICES ASSUME DataInv, Collect PROVE DataInv'
  OBVIOUS
<1>1. /\ verdict = "running" /\ memwr # << >> /\ sbmem' = Written(sbmem, Head(memwr))
      /\ memwr' = Tail(memwr)
      /\ UNCHANGED <<mode, lsu, driver, ready, rdata, mem, shadow, tohost, verdict,
                     bytes, wrong>>
  BY DEF Collect
<1>2. memwr = <<memwr[1]>> /\ mem = Written(sbmem, memwr[1])
  BY <1>1 DEF DataInv, MirrorsFollow
<1>3. Head(memwr) = memwr[1] /\ Tail(memwr) = << >>
  <2>1. PICK t : t = memwr[1]
    OBVIOUS
  <2>2. Head(<<t>>) = t /\ Tail(<<t>>) = << >>
    OBVIOUS
  <2>. QED BY <1>2, <2>1, <2>2, Zenon
<1>4. sbmem' = mem /\ memwr' = << >>
  BY <1>1, <1>2, <1>3
<1>5. DataTypeOK' /\ MirrorsFollow'
  BY <1>1, <1>4 DEF DataInv, DataTypeOK, MirrorsFollow, Shadowed
<1>6. BusInOrder' /\ AccessOnce'
  BY <1>1 DEF DataInv, BusInOrder, AccessOnce
<1>7. LoadsSeeStores' /\ SignatureComplete' /\ VerdictIsToHost'
  BY <1>1 DEF DataInv, LoadsSeeStores, SignatureComplete, VerdictIsToHost
<1>. QED BY <1>5, <1>6, <1>7 DEF DataInv

LEMMA WatchPreserves == DataInv /\ Watch => DataInv'
<1>. SUFFICES ASSUME DataInv, Watch PROVE DataInv'
  OBVIOUS
<1>1. /\ verdict = "running" /\ tohost # << >> /\ tohost' = Tail(tohost)
      /\ UNCHANGED <<mode, lsu, driver, ready, rdata, mem, shadow, bytes, wrong>>
  BY DEF Watch
<1>2. ready /\ tohost = <<mem[ToHost]>>
  BY <1>1 DEF DataInv, MirrorsFollow
<1>3. Head(tohost) = mem[ToHost] /\ tohost' = << >>
  BY <1>1, <1>2
<1>4. mem = bytes
  BY <1>2 DEF DataInv, BusInOrder, AccessOnce
<1>5. BusInOrder' /\ AccessOnce' /\ LoadsSeeStores'
  BY <1>1 DEF DataInv, BusInOrder, AccessOnce, LoadsSeeStores
<1>6. CASE Head(tohost)[0] % 2 = 0
  <2>1. UNCHANGED <<memwr, sbmem, verdict>>
    BY <1>6 DEF Watch
  <2>2. DataTypeOK' /\ MirrorsFollow'
    BY <1>1, <1>3, <2>1 DEF DataInv, DataTypeOK, MirrorsFollow, Shadowed
  <2>. QED BY <1>1, <1>5, <2>1, <2>2 DEF DataInv, SignatureComplete, VerdictIsToHost
<1>7. CASE Head(tohost)[0] % 2 # 0
  <2>1. /\ sbmem' = Drain(sbmem, memwr) /\ memwr' = << >>
        /\ verdict' = IF Head(tohost) = One THEN "pass" ELSE "fail"
    BY <1>7 DEF Watch
  <2>2. sbmem' = mem
    BY <2>1, DrainsAll DEF DataInv, MirrorsFollow
  <2>3. DataTypeOK' /\ MirrorsFollow'
    BY <1>1, <1>3, <2>1, <2>2 DEF DataInv, DataTypeOK, MirrorsFollow, Shadowed
  <2>4. SignatureComplete'
    BY <1>1, <1>4, <2>2 DEF SignatureComplete
  <2>5. bytes[ToHost][0] % 2 = 1
    <3>1. bytes[ToHost][0] \in 0..255
      <4>1. ToHost \in Words /\ bytes \in [Words -> WordValue]
        BY Constants DEF DataInv, DataTypeOK
      <4>2. bytes[ToHost] \in WordValue
        BY <4>1
      <4>. QED BY <4>2 DEF WordValue, Lane, Byte
    <3>2. bytes[ToHost][0] % 2 # 0
      BY <1>3, <1>4, <1>7, Zenon
    <3>3. \A x \in 0..255 : x % 2 # 0 => x % 2 = 1
      OBVIOUS
    <3>. QED BY <3>1, <3>2, <3>3, Zenon
  <2>6. VerdictIsToHost'
    BY <1>1, <1>3, <1>4, <2>1, <2>5 DEF VerdictIsToHost, Ends
  <2>. QED BY <1>5, <2>3, <2>4, <2>6 DEF DataInv
<1>. QED BY <1>6, <1>7

LEMMA WatchdogPreserves == DataInv /\ Watchdog => DataInv'
  BY DEF DataInv, Watchdog, DataTypeOK, BusInOrder, AccessOnce, MirrorsFollow, Shadowed,
         LoadsSeeStores, SignatureComplete, VerdictIsToHost

LEMMA DataInvInductive == DataInv /\ [DataNext]_dvars => DataInv'
<1>1. DataInv /\ UNCHANGED dvars => DataInv'
  BY DEF DataInv, dvars, DataTypeOK, BusInOrder, AccessOnce, MirrorsFollow, Shadowed,
         LoadsSeeStores, SignatureComplete, VerdictIsToHost
<1>. QED BY <1>1, BusClockPreserves, CollectPreserves, WatchPreserves, WatchdogPreserves
     DEF DataNext

----------------------------------------------------------------------------
(* The inductive invariant holds in every behaviour of the bench. *)
LEMMA DataInvariant == DataSpec => []DataInv
BY InitDataInv, DataInvInductive, PTL DEF DataSpec

(* A load of any size and offset returns what the program's earlier stores *)
(* left there, whichever timing model serves the bus and however long it   *)
(* stalls, and no store is lost or made twice.                             *)
THEOREM LoadsReturnStores == DataSpec => []LoadsSeeStores
<1>1. DataInv => LoadsSeeStores
  BY DEF DataInv
<1>. QED BY <1>1, DataInvariant, PTL

(* The signature holds every store of the program, in whichever order the  *)
(* scoreboard's two tasks run.                                             *)
THEOREM SignatureHasAllStores == DataSpec => []SignatureComplete
<1>1. DataInv => SignatureComplete
  BY DEF DataInv
<1>. QED BY <1>1, DataInvariant, PTL

(* The verdict is the word that the program left at tohost, also when that *)
(* is written byte by byte.                                                *)
THEOREM VerdictIsTheProgram == DataSpec => []VerdictIsToHost
<1>1. DataInv => VerdictIsToHost
  BY DEF DataInv
<1>. QED BY <1>1, DataInvariant, PTL
==============================================================================
