------------------------------ MODULE Reports ------------------------------
(***************************************************************************)
(* Benchmark results and where they come from.  In the simulation flow,    *)
(* simulate_c.sh builds and runs a program and bench_report.py reads its   *)
(* score from the log; in the hardware flow, build_benchmark.py builds,    *)
(* and loadprog.py uploads the ELF and writes the board's result down.     *)
(*                                                                         *)
(* The commands meet in the files of a test directory, which outlive them. *)
(* A command may fail at each of its steps, or be interrupted between two; *)
(* commands on one directory do not overlap.  An ELF stands for its hash.  *)
(***************************************************************************)
EXTENDS Integers

CONSTANTS
  Programs,   (* what compiling may produce                                  *)
  Readings,   (* what a program may leave in a result variable, or Missing   *)
  Absent      (* no file, no program, no result                              *)

Missing == -1
ASSUME ReportsAssumption == Absent \notin Programs /\ {Missing, 0} \subseteq Readings

VARIABLES
  elf,       (* the program in the directory                                 *)
  meta,      (* the program that build.json describes                        *)
  hwmeta,    (* the program that build_benchmark's description describes     *)
  simlog,    (* simulation.log: {} or {[of, ending, cycles, errors]}         *)
  at,        (* the step at which the running command is, or "idle"          *)
  opened,    (* the ELF and the description that loadprog has read           *)
  board,     (* the program on the board                                     *)
  result     (* the last result reported, Absent before                      *)

rvars == <<elf, meta, hwmeta, simlog, at, opened, board, result>>

ReportsInit ==
  /\ elf = Absent /\ meta = Absent /\ hwmeta = Absent /\ simlog = {} /\ at = "idle"
  /\ opened = [elf |-> Absent, build |-> Absent] /\ board = Absent /\ result = {}

Result(of, claimed, build, cycles, status) ==
  {[of |-> of, claimed |-> claimed, build |-> build, cycles |-> cycles,
    status |-> status]}
MatchesUnchecked(build) == TRUE   \* mutant: the recorded hash is not compared
Matches(build) == build \in {Absent, elf}

----------------------------------------------------------------------------
(* simulate_c.sh: a failing step ends it, and the old log goes first.      *)
Done == at' = "idle"
Simulate ==
  /\ at = "idle" /\ at' = "compile"
  /\ simlog' = {}
  /\ UNCHANGED <<elf, meta, hwmeta, opened, board, result>>
Compile ==
  /\ at = "compile"
  /\ \/ elf' \in Programs /\ at' = "describe"
     \/ elf' \in {elf, Absent} /\ Done
  /\ UNCHANGED <<meta, hwmeta, simlog, opened, board, result>>
Describe ==
  /\ at = "describe"
  /\ \/ meta' = elf /\ at' = "reference"
     \/ UNCHANGED meta /\ Done
  /\ UNCHANGED <<elf, hwmeta, simlog, opened, board, result>>
Reference ==
  /\ at = "reference"
  /\ at' = "simulate" \/ Done
  /\ UNCHANGED <<elf, meta, hwmeta, simlog, opened, board, result>>

(* The simulation writes its log as it goes, and may end without a verdict *)
(* (watchdog, interrupt), with results stored or not.                      *)
RunSimulation ==
  /\ at = "simulate" /\ Done
  /\ \E e \in {"none", "pass", "fail"}, c, x \in Readings :
       simlog' = {[of |-> elf, ending |-> e, cycles |-> c, errors |-> x]}
  /\ UNCHANGED <<elf, meta, hwmeta, opened, board, result>>

(* bench_report.main: refuse, or report what the log holds at the          *)
(* addresses that the ELF gives.                                           *)
Finished(l) == l.ending = "pass"
Report ==
  /\ at = "idle" /\ elf # Absent
  /\ \E l \in simlog :
       /\ Finished(l) /\ Matches(meta)
       /\ l.cycles \notin {Missing, 0} /\ l.errors = 0
       /\ result' = Result(l.of, elf, meta, l.cycles, "pass")
  /\ UNCHANGED <<elf, meta, hwmeta, simlog, at, opened, board>>

----------------------------------------------------------------------------
(* build_benchmark.main: compile, check that the image fits, describe.     *)
BuildFirmware ==
  /\ at = "idle"
  /\ \/ elf' \in Programs /\ at' = "validate"
     \/ elf' \in {elf, Absent} /\ UNCHANGED at
  /\ UNCHANGED <<meta, hwmeta, simlog, opened, board, result>>
ValidateFirmware ==
  /\ at = "validate" /\ Done
  /\ hwmeta' \in {elf, hwmeta}
  /\ UNCHANGED <<elf, meta, simlog, opened, board, result>>

(* loadprog.main: read the ELF and its description, upload, wait for the   *)
(* result line, write the result beside the log.                           *)
OpenElf ==
  /\ at = "idle" /\ elf # Absent /\ Matches(hwmeta)
  /\ opened' = [elf |-> elf, build |-> hwmeta] /\ at' = "upload"
  /\ UNCHANGED <<elf, meta, hwmeta, simlog, board, result>>
UploadElf ==
  /\ at = "upload"
  /\ \/ board' = opened.elf /\ at' = "capture"
     \/ board' = Absent /\ Done
  /\ UNCHANGED <<elf, meta, hwmeta, simlog, opened, result>>
Capture ==
  /\ at = "capture" /\ Done
  /\ \E c, x \in Readings \ {Missing} :
       result' = IF c = 0 THEN result
                 ELSE Result(board, opened.elf, opened.build, c,
                             IF x = 0 THEN "pass" ELSE "errors")
  /\ UNCHANGED <<elf, meta, hwmeta, simlog, opened, board>>

(* A command is interrupted between two of its steps.                      *)
Interrupt ==
  /\ at # "idle" /\ Done
  /\ UNCHANGED <<elf, meta, hwmeta, simlog, opened, board, result>>

ReportsNext ==
  \/ Simulate \/ Compile \/ Describe \/ Reference \/ RunSimulation \/ Report
  \/ BuildFirmware \/ ValidateFirmware \/ OpenElf \/ UploadElf \/ Capture
  \/ Interrupt
ReportsSpec == ReportsInit /\ [][ReportsNext]_rvars

----------------------------------------------------------------------------
(* A result is of the program it is filed under, and so are the build      *)
(* conditions beside it, whatever has failed, been interrupted or been     *)
(* rebuilt since by either flow; and it is a measurement.                  *)
ResultsAreOfTheirProgram ==
  \A r \in result : /\ r.claimed = r.of
                    /\ r.build \in {Absent, r.of}
                    /\ r.cycles # 0

(* Why it holds: a log can only be there while build.json describes the    *)
(* program that wrote it, since simulate_c.sh removes the log before it    *)
(* describes another one; and the board holds what loadprog has opened.    *)
LogIsDescribed ==
  /\ \A l \in simlog : l.of = meta /\ l.of # Absent
  /\ at \in {"compile", "describe"} => simlog = {}
  /\ at = "describe" => elf # Absent
  /\ at \in {"reference", "simulate"} => meta = elf /\ elf # Absent
BoardIsOpened ==
  /\ opened.build \in {Absent, opened.elf}
  /\ at = "capture" => board = opened.elf
ReportsInv == ResultsAreOfTheirProgram /\ LogIsDescribed /\ BoardIsOpened
============================================================================
