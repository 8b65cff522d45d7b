----------------------------- MODULE FetchBench -----------------------------
(***************************************************************************)
(* The instruction side of the simulation testbench: fetch's request port, *)
(* the memory driver with its three timing models, and the FPGA's block    *)
(* RAM (bram_slave.sv) as the reference of the third one.                  *)
(*                                                                         *)
(* A clock cycle has two steps.  At the rising edge registers move, the    *)
(* wires take a first value, and the driver that waits for the edge reads  *)
(* them.  The data side's driver answers after that, which may still raise *)
(* or drop the request and the flush: the wires settle, and the next edge  *)
(* (and the responder's sample at the falling edge) sees them settled.     *)
(***************************************************************************)
EXTENDS Integers

CONSTANTS
  Blocks,       (* the addresses of fetch blocks                            *)
  FetchModes    (* "zero", "random", "fixed", and "contract": the fixed     *)
                (* driver under the master of test_memory_timing, which     *)
                (* moves address and reset as it likes                      *)

ASSUME FetchAssumption == FetchModes \subseteq {"zero", "random", "fixed", "contract"}

VARIABLES
  fmode,            (* MEM_STALL_MODE of this simulation                     *)
  half,             (* "high" after a rising edge, "low" when settled        *)
  rstn, pc, valid, flush,    (* reset, m_addr, m_valid and m_flush           *)
  fready, frdata,   (* s_ready, and the block that s_rdata was read from     *)
  idriver,          (* the driver's coroutine: the block it serves, and the  *)
                    (* number of edges that it still waits                   *)
  respond,          (* the responder: its response, req_addr and rdata       *)
  bram              (* bram_slave.sv's state_q, req_addr_q and rd_q          *)

fvars == <<fmode, half, rstn, pc, valid, flush, fready, frdata, idriver, respond, bram>>

Nothing == {}                       (* no block, or the block b as {b}       *)
Waiting == [block |-> Nothing, left |-> 0]
AtRest  == [on |-> FALSE, req |-> Nothing, data |-> Nothing]
Fixed   == fmode \in {"fixed", "contract"}

FetchInit ==
  /\ fmode \in FetchModes /\ half = "low" /\ rstn = TRUE
  /\ pc \in Blocks /\ valid \in BOOLEAN /\ flush = FALSE
  /\ fready = FALSE /\ frdata = Nothing
  /\ idriver = Waiting /\ respond = AtRest /\ bram = AtRest

----------------------------------------------------------------------------
(* What fetch does with its port. *)
Fires == valid /\ fready
CoreEdge ==
  pc' \in IF flush \/ Fires \/ fmode = "contract" THEN Blocks ELSE {pc}
Wires ==
  /\ valid' \in BOOLEAN /\ flush' \in BOOLEAN
  /\ fmode # "contract" => ~(valid' /\ flush')

(* IMemDriver.run_phase from one edge to the next.                         *)
Answer(block) == fready' = TRUE /\ frdata' = {block}
NoAnswer      == fready' = FALSE /\ frdata' = Nothing
StillWantedAnyBlock(block) == valid' /\ ~flush'   \* mutant: address not compared
StillWanted(block) == valid' /\ pc' = block /\ ~flush'
Latencies == IF fmode = "zero" THEN {0} ELSE 0..2
IMemEdgeInsists ==   \* mutant: a stale request is waited for, not given up
  \/ /\ idriver = Waiting /\ ~valid'
     /\ NoAnswer /\ UNCHANGED idriver
  \/ /\ idriver = Waiting /\ valid'
     /\ \E n \in Latencies :
          IF n = 0 THEN Answer(pc') /\ UNCHANGED idriver
          ELSE NoAnswer /\ idriver' = [block |-> {pc'}, left |-> n]
  \/ /\ idriver.left > 1
     /\ NoAnswer /\ idriver' = [idriver EXCEPT !.left = @ - 1]
  \/ /\ idriver.left = 1
     /\ \E block \in idriver.block :
          IF StillWanted(block) THEN Answer(block) /\ idriver' = Waiting
          ELSE NoAnswer /\ UNCHANGED idriver
IMemEdge ==
  \/ /\ idriver = Waiting /\ ~valid'
     /\ NoAnswer /\ UNCHANGED idriver
  \/ /\ idriver = Waiting /\ valid'
     /\ \E n \in Latencies :
          IF n = 0 THEN Answer(pc') /\ UNCHANGED idriver
          ELSE NoAnswer /\ idriver' = [block |-> {pc'}, left |-> n]
  \/ /\ idriver.left > 1
     /\ NoAnswer
     /\ idriver' = IF flush' THEN Waiting ELSE [idriver EXCEPT !.left = @ - 1]
  \/ /\ idriver.left = 1 /\ idriver' = Waiting
     /\ \E block \in idriver.block :
          \/ StillWanted(block) /\ Answer(block)
          \/ ~StillWanted(block) /\ NoAnswer

(* run_bram_responder: drive_response gates the answer whenever one of the *)
(* wires changes; the loop samples the request and moves at the edge.      *)
Gate(r, up, v, f, a) == r.on /\ up /\ v /\ ~f /\ r.req = {a}
Captured == [on |-> TRUE, req |-> {pc}, data |-> {pc}]
RespondEdgeRepeats ==   \* mutant: the next request is taken with the answer
  IF ~rstn THEN [respond EXCEPT !.on = FALSE]
  ELSE IF valid /\ ~flush THEN Captured ELSE [respond EXCEPT !.on = FALSE]
RespondEdge ==
  IF ~rstn \/ respond.on THEN [respond EXCEPT !.on = FALSE]
  ELSE IF valid /\ ~flush THEN Captured ELSE respond
Drive(r) ==
  /\ fready' = Gate(r, rstn', valid', flush', pc')
  /\ frdata' = r.data

(* bram_slave.sv at the edge: two states, and a read port without reset.   *)
BramEdge ==
  LET capture == ~bram.on /\ valid /\ ~flush
  IN  [on   |-> rstn /\ capture,
       req  |-> IF ~rstn THEN Nothing ELSE IF capture THEN {pc} ELSE bram.req,
       data |-> IF capture THEN {pc} ELSE bram.data]
BramReady == Gate(bram, rstn, valid, flush, pc)

----------------------------------------------------------------------------
FetchEdge ==
  /\ half = "low" /\ half' = "high" /\ UNCHANGED <<fmode, rstn>>
  /\ CoreEdge /\ Wires
  /\ \/ /\ ~Fixed /\ IMemEdge
        /\ UNCHANGED <<respond, bram>>
     \/ /\ Fixed
        /\ respond' = RespondEdge /\ bram' = BramEdge
        /\ Drive(RespondEdge)
        /\ UNCHANGED idriver

(* The wires settle; the contract test also sets reset and address here.   *)
Settle ==
  /\ half = "high" /\ half' = "low"
  /\ Wires
  /\ IF fmode = "contract"
     THEN pc' \in Blocks /\ rstn' \in BOOLEAN
     ELSE UNCHANGED <<pc, rstn>>
  /\ IF Fixed
     THEN /\ respond' = [respond EXCEPT !.on = @ /\ rstn'] /\ Drive(respond')
          /\ bram' = IF rstn' THEN bram ELSE [bram EXCEPT !.on = FALSE, !.req = Nothing]
     ELSE UNCHANGED <<fready, frdata, respond, bram>>
  /\ UNCHANGED <<fmode, idriver>>

(* A reset pulse between two edges, which the test applies in the high     *)
(* half: drive_response sees rst_n change and forgets the response.        *)
ResetPulse ==
  /\ half = "high" /\ fmode = "contract"
  /\ respond' = [respond EXCEPT !.on = FALSE]
  /\ fready' = FALSE /\ frdata' = respond.data
  /\ bram' = [bram EXCEPT !.on = FALSE, !.req = Nothing]
  /\ UNCHANGED <<fmode, half, rstn, pc, valid, flush, idriver>>

FetchNext == FetchEdge \/ Settle \/ ResetPulse
FetchSpec == FetchInit /\ [][FetchNext]_fvars
FetchFairness == WF_fvars(FetchEdge) /\ WF_fvars(Settle)

----------------------------------------------------------------------------
(* Fetch never takes an instruction read for another address, although the *)
(* driver looks at the request before it has settled, sleeps across        *)
(* redirects, and may miss the one-cycle flush.                            *)
FetchedIsWanted == half = "low" /\ Fires => frdata = {pc}

(* The fixed driver is cycle-exact: at every moment its answer is that of  *)
(* bram_slave.sv, also across withdrawn requests, flushes and resets.      *)
FixedIsBram ==
  Fixed => /\ fready = BramReady
           /\ fready => frdata = bram.data

(* A request that stays up is answered, in every timing model.             *)
RequestAnswered ==
  fmode # "contract" => ([]<>(half = "low" /\ Fires) \/ []<>~valid)

(* The inductive invariant: the responder and the block RAM agree on       *)
(* whether they hold an answer and, while they do, on which; the answer on *)
(* the wires is the gated one; other drivers answer for the address that   *)
(* fetch had at the edge, and fetch keeps it until the next.               *)
Slot == [on : BOOLEAN, req : SUBSET Blocks, data : SUBSET Blocks]
FetchTypeOK ==
  /\ fmode \in FetchModes /\ half \in {"high", "low"}
  /\ rstn \in BOOLEAN /\ valid \in BOOLEAN /\ flush \in BOOLEAN /\ fready \in BOOLEAN
  /\ pc \in Blocks /\ frdata \in SUBSET Blocks
  /\ idriver \in [block : SUBSET Blocks, left : Nat]
  /\ respond \in Slot /\ bram \in Slot
SlotsAgree ==
  /\ respond.on = bram.on
  /\ respond.on => respond = bram /\ respond.data = respond.req
AnswerIsGated ==
  fready = Gate(respond, rstn, valid, flush, pc) /\ frdata = respond.data
FetchInv ==
  /\ FetchTypeOK
  /\ Fixed => SlotsAgree /\ AnswerIsGated
  /\ ~Fixed /\ fready => frdata = {pc}
============================================================================
