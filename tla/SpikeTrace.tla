----------------------------- MODULE SpikeTrace -----------------------------
(***************************************************************************)
(* The comparison flow of the legacy core: Spike's log of a run is turned  *)
(* into a CSV file (spike_log_to_trace_csv.py), its ABI register names are *)
(* replaced by numbers (register_remapping.py), and the result is compared *)
(* column by column with the three logs of the RTL (compare.py).           *)
(*                                                                         *)
(* A log line is a record of what the regular expressions tell apart.  A   *)
(* row's op stands for its binary, instr and instr_str columns; its gpr is *)
(* a sequence of <<name, value>> and its csr one of addresses, as RD_RE    *)
(* takes the mem and address of a load for a CSR; both are empty for a     *)
(* blank.                                                                  *)
(***************************************************************************)
EXTENDS Integers, Sequences, SequencesExt, FiniteSetsExt

CONSTANTS
  Regs,       (* the registers that the program writes, "x5" for x5          *)
  Values,     (* the values that it writes                                   *)
  Addresses,  (* the addresses that it loads from                            *)
  MaxRun      (* bound: instructions of a program                            *)

ASSUME TraceAssumption == MaxRun \in Nat

VARIABLES
  phase,      (* "run", then the scripts in turn: "csv", "remapped", "done"  *)
  ran,        (* history: the program's instructions, as executed            *)
  log,        (* spike.log                                                   *)
  full,       (* --full_trace                                                *)
  csv,        (* the rows of spike.csv                                       *)
  rtl,        (* the rows of IF_log.csv, ID_log.csv and MEM_log.csv, by file *)
  verdict     (* of compare.py: "none", "pass", "fail" or "crash"            *)

svars == <<phase, ran, log, full, csv, rtl, verdict>>

----------------------------------------------------------------------------
(* What Spike writes about an instruction.  Only commit lines that name a  *)
(* register match RD_RE; a store's or a plain CSR write's does not.        *)
Core(pc, op)     == [line |-> "core", pc |-> pc, op |-> op, gpr |-> << >>, csr |-> << >>]
Commit(gpr, csr) == [line |-> "commit", pc |-> 0, op |-> "", gpr |-> gpr, csr |-> csr]
Trap(what)       == [line |-> what, pc |-> 0, op |-> "", gpr |-> << >>, csr |-> << >>]
Lines(i) ==
  IF i.op = "illegal" THEN <<Core(i.pc, "unimp"), Trap("illegal"), Trap("tval")>>
  ELSE IF i.op = "ecall" THEN <<Core(i.pc, "ecall"), Trap("exception")>>
  ELSE <<Core(i.pc, i.op), Commit(i.gpr, i.csr)>>

Instr(pc) ==
  {[pc |-> pc, op |-> op, gpr |-> << >>, csr |-> << >>] :
     op \in {"sw", "wfi", "illegal", "ecall"}}
    \cup {[pc |-> pc, op |-> "add", gpr |-> <<<<r, v>>>>, csr |-> << >>] :
            r \in Regs, v \in Values}
    \cup {[pc |-> pc, op |-> "lw", gpr |-> <<<<r, v>>>>, csr |-> <<a>>] :
            r \in Regs, v \in Values, a \in Addresses}

(* The trampoline's instructions, the last of them at 0x1010.              *)
Trampoline == <<Core(-2, "auipc"), Commit(<<<<"x5", 0>>>>, << >>),
                Core(-1, "jr"), Commit(<< >>, << >>)>>
EndsTrampoline(l) == l.line = "core" /\ l.pc = -1

----------------------------------------------------------------------------
(* gpr_to_abi, and the table of register_remapping.                        *)
AbiName ==
  [x0 |-> "zero", x1 |-> "ra", x2 |-> "sp", x3 |-> "gp", x4 |-> "tp", x5 |-> "t0",
   x6 |-> "t1", x7 |-> "t2", x8 |-> "s0", x9 |-> "s1", x10 |-> "a0", x11 |-> "a1",
   x12 |-> "a2", x13 |-> "a3", x14 |-> "a4", x15 |-> "a5", x16 |-> "a6", x17 |-> "a7",
   x18 |-> "s2", x19 |-> "s3", x20 |-> "s4", x21 |-> "s5", x22 |-> "s6", x23 |-> "s7",
   x24 |-> "s8", x25 |-> "s9", x26 |-> "s10", x27 |-> "s11", x28 |-> "t3",
   x29 |-> "t4", x30 |-> "t5", x31 |-> "t6"]
RegisterMapping ==
  [zero |-> "x0", ra |-> "x1", sp |-> "x2", gp |-> "x3", tp |-> "x4", t0 |-> "x5",
   t1 |-> "x6", t2 |-> "x7", s0 |-> "x8", s1 |-> "x9", a0 |-> "x10", a1 |-> "x11",
   a2 |-> "x12", a3 |-> "x13", a4 |-> "x14", a5 |-> "x15", a6 |-> "x16", a7 |-> "x17",
   s2 |-> "x18", s3 |-> "x19", s4 |-> "x20", s5 |-> "x21", s6 |-> "x22", s7 |-> "x23",
   s8 |-> "x24", s9 |-> "x25", s10 |-> "x26", s11 |-> "x27", t3 |-> "x28",
   t4 |-> "x29", t5 |-> "x30", t6 |-> "x31"]

(* read_spike_trace, one line at a time: in the trampoline, or with or     *)
(* without an instruction in hand.  After an ECALL nothing is read.        *)
Start == [trampoline |-> TRUE, instr |-> << >>, rows |-> << >>, stop |-> FALSE]
RowOf(l) == [pc |-> l.pc, op |-> l.op, gpr |-> << >>, csr |-> << >>]
ReadCore(p, l) ==
  [p EXCEPT !.rows = @ \o p.instr, !.instr = <<RowOf(l)>>, !.stop = (l.op = "ecall")]
AbiNamed(gpr) == [i \in DOMAIN gpr |-> <<AbiName[gpr[i][1]], gpr[i][2]>>]
ReadEffect(row, l) == [row EXCEPT !.gpr = @ \o AbiNamed(l.gpr), !.csr = @ \o l.csr]
ReadLineKeepsIllegal(p, l) ==   \* mutant: an illegal instruction stays in hand
  IF p.stop THEN p
  ELSE IF p.trampoline THEN [p EXCEPT !.trampoline = ~EndsTrampoline(l)]
  ELSE IF l.line = "core" THEN ReadCore(p, l)
  ELSE IF p.instr = << >> THEN p
  ELSE IF l.line = "illegal" THEN [p EXCEPT !.rows = @ \o p.instr]
  ELSE IF l.line = "commit"
  THEN [p EXCEPT !.instr = <<ReadEffect(p.instr[1], l)>>]
  ELSE p
ReadLine(p, l) ==
  IF p.stop THEN p
  ELSE IF p.trampoline THEN [p EXCEPT !.trampoline = ~EndsTrampoline(l)]
  ELSE IF l.line = "core" THEN ReadCore(p, l)
  ELSE IF p.instr = << >> THEN p
  ELSE IF l.line = "illegal" THEN [p EXCEPT !.rows = @ \o p.instr, !.instr = << >>]
  ELSE IF l.line = "commit"
  THEN [p EXCEPT !.instr = <<ReadEffect(p.instr[1], l)>>]
  ELSE p
ReadLines(lines) ==
  LET p[n \in 0..Len(lines)] == IF n = 0 THEN Start ELSE ReadLine(p[n - 1], lines[n])
  IN  p[Len(lines)]
ReadTrace(lines) == ReadLines(lines).rows \o ReadLines(lines).instr

(* The members of s that pass the test, in their order: SelectSeq as a     *)
(* function, of which proofs can speak.                                    *)
Matching(s, Test(_)) ==
  LET m[n \in 0..Len(s)] == IF n = 0 THEN << >>
                            ELSE IF Test(s[n]) THEN Append(m[n - 1], s[n]) ELSE m[n - 1]
  IN  m[Len(s)]

(* process_spike_sim_log leaves out rows without an architectural update.  *)
Kept(row) == full \/ row.gpr # << >> \/ row.op \in {"wfi", "ecall"}

(* register_remapping: names and data are collected in two lists over all  *)
(* rows and zipped.  The regular expression finds a letter and one digit.  *)
LetterDigit == {"t0", "t1", "t2", "t3", "t4", "t5", "t6", "a0", "a1", "a2", "a3", "a4",
                "a5", "a6", "a7", "s0", "s1", "s2", "s3", "s4", "s5", "s6", "s7", "s8", "s9"}
FindsName(e) == e[1] \in LetterDigit
Found(gpr) == Matching(gpr, FindsName)
RegisterNames(rows) ==
  FlattenSeq([i \in DOMAIN rows |->
    LET f == Found(rows[i].gpr)
    IN  IF f = << >> THEN << <<>> >> ELSE [k \in DOMAIN f |-> <<RegisterMapping[f[k][1]]>>]])
RegisterData(rows) ==
  FlattenSeq([i \in DOMAIN rows |->
    LET f == Found(rows[i].gpr)
    IN  IF rows[i].gpr = << >> THEN << <<>> >> ELSE [k \in DOMAIN f |-> <<f[k][2]>>]])
RemapUnzipped(rows) ==   \* mutant: blank rows get no entry in the list of names
  LET names == SelectSeq(RegisterNames(rows), LAMBDA n : n # << >>)
      data == RegisterData(rows)
  IN  [i \in DOMAIN rows |->
        IF i > Len(names) \/ i > Len(data) THEN rows[i]
        ELSE [rows[i] EXCEPT !.gpr = IF names[i] = << >> \/ data[i] = << >> THEN << >>
                                     ELSE <<<<names[i][1], data[i][1]>>>>]]
Remap(rows) ==
  LET names == RegisterNames(rows)
      data == RegisterData(rows)
  IN  [i \in DOMAIN rows |->
        IF i > Len(names) \/ i > Len(data) THEN rows[i]
        ELSE [rows[i] EXCEPT !.gpr = IF names[i] = << >> \/ data[i] = << >> THEN << >>
                                     ELSE <<<<names[i][1], data[i][1]>>>>]]

(* compare_columns: the shorter column is padded with blanks, mismatches   *)
(* are logged with the row of the first file, and the padded columns       *)
(* decide.  The row to log does not exist one place past the end.  A blank *)
(* is thus as good as no row at the end of a column.                       *)
Cell(row, key) == IF key \in {"pc", "op"} THEN <<row[key]>> ELSE row[key]
Column(rows, key) == [i \in DOMAIN rows |-> Cell(rows[i], key)]
Padded(col, n) == [i \in 1..n |-> IF i <= Len(col) THEN col[i] ELSE << >>]
CompareColumnsShort(c1, c2) ==   \* mutant: only what both files have
  IF \A i \in 1..Min({Len(c1), Len(c2)}) : c1[i] = c2[i] THEN "equal" ELSE "different"
CompareColumns(c1, c2) ==
  LET n == Max({Len(c1), Len(c2)})
      p1 == Padded(c1, n)
      p2 == Padded(c2, n)
  IN  IF Len(c1) < n /\ p1[Len(c1) + 1] # p2[Len(c1) + 1] THEN "crash"
      ELSE IF p1 = p2 THEN "equal" ELSE "different"

(* The four columns that are compared, and the log that has each.          *)
LogOf == [pc |-> "IF", op |-> "IF", gpr |-> "ID", csr |-> "MEM"]
Compare(key, logs) == CompareColumns(Column(csv, key), Column(logs[LogOf[key]], key))

----------------------------------------------------------------------------
LogInit ==
  /\ phase = "run" /\ ran = << >> /\ log = Trampoline /\ full \in BOOLEAN
  /\ csv = << >> /\ rtl = [f \in {"IF", "ID", "MEM"} |-> << >>] /\ verdict = "none"

Execute ==
  /\ phase = "run" /\ Len(ran) < MaxRun
  /\ \E i \in Instr(Len(ran)) : ran' = Append(ran, i) /\ log' = log \o Lines(i)
  /\ UNCHANGED <<phase, full, csv, rtl, verdict>>
ConvertLog ==
  /\ phase = "run" /\ phase' = "csv"
  /\ csv' = Matching(ReadTrace(log), Kept)
  /\ UNCHANGED <<ran, log, full, rtl, verdict>>
RemapCsv ==
  /\ phase = "csv" /\ csv # << >> /\ phase' = "remapped"
  /\ csv' = Remap(csv)
  /\ UNCHANGED <<ran, log, full, rtl, verdict>>

(* The program's part of the run, up to the ECALL that ends it.            *)
Program ==
  LET ends == {k \in DOMAIN ran : ran[k].op = "ecall"}
  IN  IF ends = {} THEN ran ELSE SubSeq(ran, 1, Min(ends))
RowFor(i, names) ==
  [pc |-> i.pc, op |-> IF i.op = "illegal" THEN "unimp" ELSE i.op,
   gpr |-> [k \in DOMAIN i.gpr |-> <<names[i.gpr[k][1]], i.gpr[k][2]>>], csr |-> i.csr]
ProgramRows(names) == [k \in DOMAIN Program |-> RowFor(Program[k], names)]
Numbers == [r \in DOMAIN AbiName |-> r]

(* The RTL's account of it.  Fetch logs pc and instruction, the register   *)
(* file its writes, the memory stage the addresses of loads; a cycle       *)
(* without any makes a blank row.  One of the logs may have a row that is  *)
(* wrong, missing, too much at the end, or a blank one somewhere.          *)
IFRow(row)  == [pc |-> row.pc, op |-> row.op]
IDRow(row)  == [gpr |-> row.gpr]
MEMRow(row) == [csr |-> row.csr]
Logs(rows) == [IF  |-> [k \in DOMAIN rows |-> IFRow(rows[k])],
               ID  |-> [k \in DOMAIN rows |-> IDRow(rows[k])],
               MEM |-> [k \in DOMAIN rows |-> MEMRow(rows[k])]]
Executed == ProgramRows(Numbers)
OtherRows == {RowFor(i, Numbers) : i \in Instr(0)}
BlankRow  == [pc |-> 0, op |-> "sw", gpr |-> << >>, csr |-> << >>]
Accounts ==
  {Executed}
    \cup {RemoveAt(Executed, k) : k \in DOMAIN Executed}
    \cup {InsertAt(Executed, k, BlankRow) : k \in DOMAIN Executed}
    \cup {Append(Executed, row) : row \in OtherRows}
    \cup {Executed \o <<BlankRow, row>> : row \in OtherRows}
    \cup {ReplaceAt(Executed, k, row) : k \in DOMAIN Executed, row \in OtherRows}
CompareLogs ==
  /\ phase = "remapped" /\ full /\ phase' = "done"
  /\ \E wrong \in {"IF", "ID", "MEM"}, rows \in Accounts :
       rtl' = [Logs(Executed) EXCEPT ![wrong] = Logs(rows)[wrong]]
  /\ verdict' = LET results == {Compare(key, rtl') : key \in DOMAIN LogOf}
                IN  IF "crash" \in results THEN "crash"
                    ELSE IF results = {"equal"} THEN "pass" ELSE "fail"
  /\ UNCHANGED <<ran, log, full, csv>>
LogNext == Execute \/ ConvertLog \/ RemapCsv \/ CompareLogs
LogSpec == LogInit /\ [][LogNext]_svars

----------------------------------------------------------------------------
(* The rows are the program's instructions after the trampoline, each with *)
(* its own register update, up to and including the final ECALL.           *)
Expected(names) == Matching(ProgramRows(names), Kept)
RowsAreTheRun == phase = "csv" => csv = Expected(AbiName)

(* Remapping gives every row the number of its register, with its value.   *)
RemapKeepsRows ==
  phase \in {"remapped", "done"} => csv = Expected(Numbers)

(* The flow says "passed" exactly if the RTL fetched what Spike executed,   *)
(* instruction by instruction, and each of its register writes and loads   *)
(* was that of the same instruction; log rows without any do not matter.   *)
Updates(col) == {<<k, col[k]>> : k \in {j \in DOMAIN col : col[j] # << >>}}
PassMeansAgreement ==
  phase = "done" =>
    (verdict = "pass") = \A key \in DOMAIN LogOf :
      Updates(Column(rtl[LogOf[key]], key)) = Updates(Column(Executed, key))

(* The inductive invariant behind these.  While the program runs, a reader *)
(* of the log so far has passed the trampoline, stops at the ECALL if      *)
(* there was one, and has made of each instruction its row; of the last    *)
(* one perhaps only in hand.                                               *)
Instructions == UNION {Instr(pc) : pc \in 0..MaxRun}
ReadSoFar ==
  phase = "run" =>
    /\ ~ReadLines(log).trampoline
    /\ ReadLines(log).stop = \E k \in DOMAIN ran : ran[k].op = "ecall"
    /\ ReadTrace(log) = ProgramRows(AbiName)
LogInv ==
  /\ phase \in {"run", "csv", "remapped", "done"} /\ full \in BOOLEAN
  /\ ran \in Seq(Instructions)
  /\ ReadSoFar /\ RowsAreTheRun
  /\ phase # "done" => verdict = "none"
============================================================================
