------------------------------ MODULE Frontend ------------------------------
(***************************************************************************)
(* The front end of the core: fetch with its PC, pre-decode and group      *)
(* assembly, the fetch queue, the two-entry decode buffer, and Issue's     *)
(* bundle buffer with the choices Issue makes; at the other end the        *)
(* instruction memory, which captures a request and answers it later, and  *)
(* drops the answer when the core no longer asks for it.                   *)
(*                                                                         *)
(* An action is one clock edge; actions differ in what Issue does.  The    *)
(* predictors may say anything.                                            *)
(***************************************************************************)
EXTENDS Naturals, Sequences

CONSTANTS
  Size, Program,     (* the instructions in memory, as in FetchStream       *)
  Depth,             (* FQ_DEPTH                                            *)
  ResetPC,           (* RESET_PC                                            *)
  RedirectTargets,   (* where Issue may redirect to                         *)
  Predictions        (* the targets the BPU and the RAS may predict         *)

VARIABLES
  pc,        (* pc_q                                                        *)
  queue,     (* the fetch queue                                             *)
  id,        (* the decode buffer, compacted                                *)
  bundle,    (* Issue's bundle buffer                                       *)
  slave,     (* the memory: Idle, or the block address it has captured      *)
  bus        (* the memory interface in the cycle that ended                *)

vars == <<pc, queue, id, bundle, slave, bus>>

(* Where the instruction after Issue's bundle is found. *)
NextPc == IF id # << >> THEN id[1].pc
          ELSE IF queue # << >> THEN queue[1].pc ELSE pc - (pc % 2)
Stream == INSTANCE FetchStream WITH next <- NextPc

Addr     == 0..Size - 1
Word(a)  == a - (a % 2)
Block(a) == a - (a % 4)
After(p) == (p + 2) % Size
Idle     == Size                 \* no captured request

ASSUME FrontendAssumption ==
  /\ Size \in Nat \ {0} /\ Size % 4 = 0
  /\ Program \in [Stream!Words -> Stream!Instr]
  /\ Depth \in Nat \ {0, 1}
  /\ ResetPC \in Addr
  /\ RedirectTargets \subseteq Addr /\ Predictions \subseteq Addr

Bus == [valid : BOOLEAN, addr : Addr, flush : BOOLEAN, ready : BOOLEAN]

(* The fetch queue never holds more than Depth entries: a fetched group    *)
(* always finds room for both of its instructions.                         *)
TypeOK ==
  /\ pc \in Addr
  /\ Len(queue) \in 0..Depth /\ Len(id) \in 0..2 /\ Len(bundle) \in 0..2
  /\ \A s \in {queue, id, bundle} : \A i \in DOMAIN s : s[i] \in Stream!Entry
  /\ slave \in Addr \cup {Idle}
  /\ bus \in Bus

Init ==
  /\ pc = ResetPC
  /\ queue = << >> /\ id = << >> /\ bundle = << >>
  /\ slave = Idle
  /\ bus = [valid |-> FALSE, addr |-> 0, flush |-> FALSE, ready |-> FALSE]

----------------------------------------------------------------------------
(* The fetched group.  The BPU is asked about the first branch only; a RAS *)
(* prediction needs a valid top, and in slot 1 no JALR in slot 0.          *)
Hint == [bpuTaken : BOOLEAN, bpuTarget : Predictions,
         rasValid : BOOLEAN, rasTop : Predictions]
Predicted(i, asked, retOk, h) ==
  \/ i.kind = "branch" /\ asked /\ h.bpuTaken
  \/ i.kind = "jal"
  \/ i.kind = "jalr" /\ i.ret /\ retOk /\ h.rasValid
Target(i, h) ==
  CASE i.kind = "branch" -> h.bpuTarget
    [] i.kind = "jal"    -> i.target
    [] OTHER             -> h.rasTop
EntryAt(p, i, asked, retOk, h) ==
  LET taken == Predicted(i, asked, retOk, h)
  IN  [pc |-> p, instr |-> i, predTaken |-> taken,
       predTarget |-> IF taken THEN Target(i, h) ELSE After(p)]

(* The entries a completed fetch pushes when pc_q is p and the memory      *)
(* returns block b: the addresses are pc_q's, the instructions the         *)
(* memory's.  Slot 0 counts only if p is in it, and slot 1 only if slot 0  *)
(* does not leave.                                                         *)
Slot0(p, b, h) == EntryAt(Block(p), Program[b], TRUE, TRUE, h)
Slot1(p, b, h) ==
  LET before == p % 4 < 2
      kind   == Program[b].kind
  IN  EntryAt(Block(p) + 2, Program[b + 2],
              before => kind \notin {"branch", "jal"}, before => kind # "jalr", h)
GroupKeepsSlot1(p, b, h) ==   \* mutant: slot 1 pushed behind a taken slot 0
  IF p % 4 < 2 THEN <<Slot0(p, b, h), Slot1(p, b, h)>> ELSE <<Slot1(p, b, h)>>
Group(p, b, h) ==
  IF p % 4 >= 2 THEN <<Slot1(p, b, h)>>
  ELSE IF Slot0(p, b, h).predTaken THEN <<Slot0(p, b, h)>>
  ELSE <<Slot0(p, b, h), Slot1(p, b, h)>>

(* The queue is full when it could not take a whole group, counting what   *)
(* decode pops in the same cycle.                                          *)
FullAtDepth(pops) == Depth + pops - Len(queue) < 1    \* mutant: room for one
Full(pops) == Depth + pops - Len(queue) < 2

(* The memory answers a captured request only while the core still asks    *)
(* for it.                                                                 *)
AnswersAnyRequest(req, valid) == slave # Idle /\ valid   \* mutant
Answers(req, valid) == slave # Idle /\ valid /\ slave = req

(* The capture lasts one answer, whether or not the core took it. *)
CapturedUntilTaken(req, valid, answer) ==   \* mutant: it waits to be taken
  IF slave = Idle THEN (IF valid THEN req ELSE Idle)
  ELSE IF answer /\ Answers(req, valid) THEN Idle ELSE slave
Captured(req, valid, answer) ==
  IF slave = Idle THEN (IF valid THEN req ELSE Idle)
  ELSE IF answer THEN Idle ELSE slave

(* Fetch and memory in a cycle in which decode pops `pops` entries. *)
FetchNoHandshake(pops) ==   \* mutant: the PC moves on before the answer
  \E h \in Hint, answer \in BOOLEAN :
    LET valid == ~Full(pops)
        req   == Block(pc)
        fire  == answer /\ Answers(req, valid)
        group == IF fire THEN Group(pc, slave, h) ELSE << >>
    IN  /\ queue' = SubSeq(queue, pops + 1, Len(queue)) \o group
        /\ pc' = IF valid THEN Group(pc, req, h)[Len(Group(pc, req, h))].predTarget
                 ELSE pc
        /\ slave' = Captured(req, valid, answer)
        /\ bus' = [valid |-> valid, addr |-> req, flush |-> FALSE, ready |-> fire]
Fetch(pops) ==
  \E h \in Hint, answer \in BOOLEAN :
    LET valid == ~Full(pops)
        req   == Block(pc)
        fire  == answer /\ Answers(req, valid)
        group == IF fire THEN Group(pc, slave, h) ELSE << >>
    IN  /\ queue' = SubSeq(queue, pops + 1, Len(queue)) \o group
        /\ pc' = IF fire THEN group[Len(group)].predTarget ELSE pc
        /\ slave' = Captured(req, valid, answer)
        /\ bus' = [valid |-> valid, addr |-> req, flush |-> FALSE, ready |-> fire]

(* Decode keeps what Issue has not accepted and tops its buffer up from    *)
(* the queue.                                                              *)
Refill(accepted) ==
  LET keep == SubSeq(id, accepted + 1, Len(id))
      room == 2 - Len(keep)
      pops == IF Len(queue) < room THEN Len(queue) ELSE room
  IN  /\ id' = keep \o SubSeq(queue, 1, pops)
      /\ Fetch(pops)

----------------------------------------------------------------------------
(* Issue is stalled, or has nothing and is offered nothing. *)
Hold == UNCHANGED bundle /\ Refill(0)

(* The bundle dispatches, or there was none, and Issue latches one or two  *)
(* instructions.                                                           *)
Take ==
  \E n \in 1..Len(id) : bundle' = SubSeq(id, 1, n) /\ Refill(n)

(* The bundle dispatches with nothing behind it. *)
Drain == bundle # << >> /\ id = << >> /\ bundle' = << >> /\ Refill(0)

(* The bundle dispatches and redirects: everything behind it is flushed,   *)
(* no request is made and the memory's answer, if any, is dropped.         *)
Redirect ==
  /\ bundle # << >>
  /\ pc' \in RedirectTargets
  /\ bundle' = << >> /\ id' = << >> /\ queue' = << >>
  /\ slave' \in {slave, Idle}
  /\ bus' = [valid |-> FALSE, addr |-> Block(pc), flush |-> TRUE, ready |-> FALSE]

Next == Hold \/ Take \/ Drain \/ Redirect

Spec == Init /\ [][Next]_vars

(* The clock runs, the memory answers a standing request in the end, and   *)
(* Issue lets its bundle go in the end (Backend!BundleLeaves).             *)
LiveSpec ==
  /\ Spec /\ WF_vars(Next)
  /\ WF_vars(Next /\ slave # Idle /\ slave' = Idle)
  /\ WF_vars(Take \/ Drain \/ Redirect)

----------------------------------------------------------------------------
(* Issue receives the predicted path, whole and in order. *)
DeliversStream == Stream!Spec

(* Everything under way forms one unbroken path from Issue to pc_q, and    *)
(* every instruction on it is the one memory holds at its address.         *)
UnderWay == bundle \o id \o queue
Path(s) ==
  /\ \A i \in 1..Len(s) : Stream!Legal(s[i])
  /\ \A i \in 1..Len(s) - 1 : s[i + 1].pc = Word(s[i].predTarget)
PathContinuous ==
  /\ Path(UnderWay)
  /\ queue # << >> => Word(pc) = Word(queue[Len(queue)].predTarget)
  /\ id # << >> /\ queue = << >> => Word(pc) = Word(id[Len(id)].predTarget)

(* A request stands until it is answered or flushed: its valid never drops *)
(* and its address never changes, though both depend on what decode pops.  *)
RequestStable ==
  [][bus.valid /\ ~bus.ready /\ ~bus'.flush
       => bus'.valid /\ bus'.addr = bus.addr]_vars

(* Issue never starves, whatever redirects do. *)
NeverStarves == []<>(bundle # << >>)

(* The inductive invariant: also when only Issue's bundle is under way,    *)
(* pc_q is where it is predicted to go on.                                 *)
EndsAt(s, p) == s # << >> => Word(p) = Word(s[Len(s)].predTarget)
FrontInv ==
  /\ pc \in Addr /\ slave \in Addr \cup {Idle} /\ bus \in Bus
  /\ {queue, id, bundle} \subseteq Seq(Stream!Entry)
  /\ Len(queue) <= Depth /\ Len(id) <= 2 /\ Len(bundle) <= 2
  /\ Path(UnderWay) /\ EndsAt(UnderWay, pc)
=============================================================================
