------------------------------ MODULE MCParts ------------------------------
(* What stands beside the pipeline, one part at a time: the trap CSRs and  *)
(* the counters of the CSR unit, whose words have two bits, and the two    *)
(* sides of the testbench.  Data: a plain word, the result word, and       *)
(* accesses of every size that overlap.  The parts that do not run stay in *)
(* one state.                                                              *)
EXTENDS MCCsr, Counters, DataBench, FetchBench

VARIABLE part

CounterInstrs ==
  UNION {{I("rw", c, 0, TRUE, 0), I("rw", c, 3, TRUE, 0), I("rs", c, 1, TRUE, 0),
          I("rc", c, 1, TRUE, 0)} : c \in CounterCsr}
  \cup {I("rs", "mcycle", 0, FALSE, 0), I("reserved", "minstreth", 1, TRUE, 0),
        I("rw", "mscratch", 1, TRUE, 0)}
  \cup {I(op, "unknown", 0, FALSE, 0) : op \in {"mret", "ecall", "other"}}

W(a, b, c, d) == [i \in Lane |-> CASE i = 0 -> a [] i = 1 -> b [] i = 2 -> c [] i = 3 -> d]
Load(w, off, size, sx) ==
  [load |-> TRUE, word |-> w, off |-> off, size |-> size, sx |-> sx, data |-> W(0, 0, 0, 0)]
Store(w, off, size, data) ==
  [load |-> FALSE, word |-> w, off |-> off, size |-> size, sx |-> FALSE, data |-> data]

MCWords == {0, 1}
MCPreload == [w \in MCWords |-> IF w = 0 THEN W(0, 0, 0, 0) ELSE W(200, 17, 34, 51)]
MCRequests == {
  Load(1, 0, 2, FALSE), Load(1, 0, 0, TRUE), Load(1, 3, 0, FALSE),
  Load(1, 2, 1, TRUE), Load(1, 1, 1, TRUE), Load(1, 2, 2, FALSE),
  Store(1, 0, 2, W(1, 2, 3, 132)), Store(1, 1, 0, W(129, 5, 0, 0)),
  Store(1, 2, 1, W(7, 136, 9, 0)), Store(1, 1, 1, W(66, 67, 0, 0)), Store(1, 3, 2, W(1, 2, 3, 132)),
  Load(0, 0, 2, FALSE),
  Store(0, 0, 2, W(3, 0, 0, 0)), Store(0, 0, 0, W(1, 0, 0, 0)),
  Store(0, 0, 0, W(2, 0, 0, 0)), Store(0, 1, 0, W(1, 0, 0, 0)) }

pvars == <<part, vars, counter, dvars, fvars>>
First(S) == CHOOSE x \in S : TRUE
PartsInit ==
  /\ part \in {"traps", "counters", "data", "fetch"}
  /\ Init /\ CountersInit /\ DataInit /\ FetchInit
  /\ part # "data" => mode = First(Modes)
  /\ part # "fetch" => fmode = First(FetchModes) /\ pc = First(Blocks) /\ valid
PartsNext ==
  \/ part = "traps" /\ Next /\ UNCHANGED <<part, counter, dvars, fvars>>
  \/ part = "counters" /\ CountersNext /\ UNCHANGED <<part, vars, dvars, fvars>>
  \/ part = "data" /\ DataNext /\ UNCHANGED <<part, vars, counter, fvars>>
  \/ part = "fetch" /\ FetchNext /\ UNCHANGED <<part, vars, counter, dvars>>
PartsSpec ==
  /\ PartsInit /\ [][PartsNext]_pvars
  /\ part = "data" => DataFairness
  /\ part = "fetch" => FetchFairness

(* The two answers are promised only by the part that runs. *)
DataResultReported == part = "data" => ResultReported
FetchRequestAnswered == part = "fetch" => RequestAnswered
============================================================================
