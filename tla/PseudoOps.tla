------------------------------ MODULE PseudoOps ------------------------------
(***************************************************************************)
(* The instruction columns of the legacy trace: Spike prints pseudo        *)
(* instructions, convert_pseudo_instr (lib.py) and process_instr           *)
(* (spike_log_to_trace_csv.py) rewrite them as base instructions.          *)
(*                                                                         *)
(* Words are of four bits, the lower two of which are the 32-bit half of a *)
(* 64-bit register.  The instructions of the bit-manipulation draft act on *)
(* 32 bit positions, whatever the word.                                    *)
(***************************************************************************)
EXTENDS Integers, Sequences, TLC, Bitwise

CONSTANT Sources       (* the contents that registers may have               *)

VARIABLES asm,         (* the instruction, with operands in the order printed *)
          rs, rt, csr, (* the contents of two registers and of a CSR          *)
          converted

pvars == <<asm, rs, rt, csr, converted>>

R(name) == [reg |-> name, n |-> 0]
N(n)    == [reg |-> "", n |-> n]
I(op, args) == [op |-> op, args |-> args, block |-> 0, unit |-> 0, paren |-> FALSE]
B(op, block, unit) ==
  [I(op, <<R("rd"), R("rs")>>) EXCEPT !.block = block, !.unit = unit]
Paren(i) == [i EXCEPT !.paren = TRUE]        \* rd,imm(rs)

----------------------------------------------------------------------------
(* The rewriting.  A column of the table: what is appended, or where zero  *)
(* goes, or that the operands are exchanged.                               *)
Appended ==
  "mv" :> <<"addi", 0>> @@ "not" :> <<"xori", -1>> @@ "sext.w" :> <<"addiw", 0>>
    @@ "seqz" :> <<"sltiu", 1>> @@ "zext.b" :> <<"andi", 255>>
ZeroSecond ==
  "neg" :> "sub" @@ "negw" :> "subw" @@ "snez" :> "sltu" @@ "sgtz" :> "slt"
    @@ "beqz" :> "beq" @@ "bnez" :> "bne" @@ "bgez" :> "bge" @@ "bltz" :> "blt"
ZeroFirst ==
  "blez" :> "bge" @@ "bgtz" :> "blt" @@ "csrw" :> "csrrw" @@ "csrs" :> "csrrs"
    @@ "csrc" :> "csrrc" @@ "csrwi" :> "csrrwi" @@ "csrsi" :> "csrrsi"
    @@ "csrci" :> "csrrci" @@ "j" :> "jal"
ZeroLast == "sltz" :> "slt" @@ "csrr" :> "csrrw" @@ "zext.h" :> "pack"
Exchanged == "bgt" :> "blt" @@ "ble" :> "bge" @@ "bgtu" :> "bltu" @@ "bleu" :> "bgeu"
ExchangeNothing(a) == a   \* mutant: the comparison is turned around, the operands are not
Exchange(a) == <<a[2], a[1], a[3]>>

(* The controls of grevi and gorci, and those of shfli and unshfli; a name *)
(* such as rev2.b has blocks of 2 bits in units of a byte.                 *)
GrevControl ==
  <<1, 2>> :> 1 @@ <<2, 4>> :> 2 @@ <<1, 4>> :> 3 @@ <<4, 8>> :> 4 @@ <<2, 8>> :> 6
    @@ <<1, 8>> :> 7 @@ <<8, 16>> :> 8 @@ <<4, 16>> :> 12 @@ <<2, 16>> :> 14
    @@ <<1, 16>> :> 15 @@ <<16, 32>> :> 16 @@ <<8, 32>> :> 24 @@ <<4, 32>> :> 28
    @@ <<2, 32>> :> 30 @@ <<1, 32>> :> 31
ShflControl ==
  <<1, 4>> :> 1 @@ <<2, 8>> :> 2 @@ <<1, 8>> :> 3 @@ <<4, 16>> :> 4 @@ <<2, 16>> :> 6
    @@ <<1, 16>> :> 7 @@ <<8, 32>> :> 8 @@ <<4, 32>> :> 12 @@ <<2, 32>> :> 14
    @@ <<1, 32>> :> 15
BitBase == "rev" :> "grevi" @@ "orc" :> "gorci" @@ "zip" :> "shfli" @@ "unzip" :> "unshfli"
BitControl(i) ==
  IF i.op \in {"rev", "orc"} THEN GrevControl[<<i.block, i.unit>>]
  ELSE ShflControl[<<i.block, i.unit>>]

zero == R("zero")
ra   == R("ra")
Jump(i) ==
  CASE i.op = "jr"   -> I("jalr", <<zero, i.args[1], N(0)>>)
    [] i.op = "jal" /\ Len(i.args) = 1  -> I("jal", <<ra>> \o i.args)
    [] i.op = "jalr" /\ i.paren         -> I("jalr", <<i.args[1], i.args[3], i.args[2]>>)
    [] i.op = "jalr" /\ Len(i.args) = 1 -> I("jalr", <<ra, i.args[1], N(0)>>)
    [] i.op = "ret"  -> I("jalr", <<zero, ra, N(0)>>)
    [] i.op = "c.ret" -> I("c.jr", <<ra>>)      \* ret, encoded in 16 bits
    [] OTHER         -> i
(* The operands of a load or a jalr in the order of the CSV file.  (The    *)
(* offset of a jal also changes its notation here, from hexadecimal to     *)
(* decimal; it is a number in this model before and after.)                *)
ProcessInstr(i) ==
  IF i.paren THEN I(i.op, <<i.args[1], i.args[3], i.args[2]>>) ELSE i
ConvertPseudoInstr(i) ==
  CASE i.op = "nop" -> I("addi", <<zero, zero, N(0)>>)
    [] i.op \in DOMAIN Appended ->
         I(Appended[i.op][1], Append(i.args, N(Appended[i.op][2])))
    [] i.op \in DOMAIN ZeroSecond -> I(ZeroSecond[i.op], <<i.args[1], zero, i.args[2]>>)
    [] i.op \in DOMAIN ZeroFirst  -> I(ZeroFirst[i.op], <<zero>> \o i.args)
    [] i.op \in DOMAIN ZeroLast   -> I(ZeroLast[i.op], Append(i.args, zero))
    [] i.op \in DOMAIN Exchanged  -> I(Exchanged[i.op], Exchange(i.args))
    [] i.op \in DOMAIN BitBase    -> I(BitBase[i.op], Append(i.args, N(BitControl(i))))
    [] OTHER -> Jump(i)

----------------------------------------------------------------------------
(* What Spike may print.                                                   *)
rd == R("rd")
s  == R("rs")
Printed ==
  {I(op, <<rd, s>>) : op \in DOMAIN Appended \cup {"neg", "negw", "snez", "sgtz", "sltz"}}
    \cup {I(op, <<s, N(2)>>) : op \in {"beqz", "bnez", "bgez", "bltz", "blez", "bgtz"}}
    \cup {I(op, <<s, R("rt"), N(2)>>) : op \in DOMAIN Exchanged}
    \cup {I("csrr", <<rd, N(9)>>)}
    \cup {I(op, <<N(9), s>>) : op \in {"csrw", "csrs", "csrc"}}
    \cup {I(op, <<N(9), N(6)>>) : op \in {"csrwi", "csrsi", "csrci"}}
    \cup {I("nop", << >>), I("ret", << >>), I("c.ret", << >>), I("jr", <<s>>),
          I("j", <<N(2)>>), I("jal", <<N(2)>>), I("jal", <<rd, N(2)>>),
          I("jalr", <<s>>), Paren(I("jalr", <<rd, N(3), s>>)),
          Paren(I("lw", <<rd, N(3), s>>)), I("zext.h", <<rd, s>>)}
    \cup {B(op, x[1], x[2]) : op \in {"rev", "orc"}, x \in DOMAIN GrevControl}
    \cup {B(op, x[1], x[2]) : op \in {"zip", "unzip"}, x \in DOMAIN ShflControl}

PseudoInit ==
  /\ asm \in Printed /\ converted = << >>
  /\ rs \in Sources /\ rt \in Sources /\ csr \in Sources
  /\ asm.unit > 0 => rs = rt /\ rt = csr    \* their contents do not matter
Rewrite ==
  /\ converted = << >>
  /\ converted' = <<ProcessInstr(ConvertPseudoInstr(asm))>>
  /\ UNCHANGED <<asm, rs, rt, csr>>
PseudoNext == Rewrite

----------------------------------------------------------------------------
(* The instruction set.  An effect: a register written, the CSR afterwards *)
(* and where execution goes; for bit instructions, the positions of the    *)
(* source whose bits are combined in each position of the result.          *)
Wide(n)   == n % 16
Signed(x) == IF x >= 8 THEN x - 16 ELSE x
SextW(x)  == IF x % 4 >= 2 THEN Wide((x % 4) - 4) ELSE x % 4
Bool(b)   == IF b THEN 1 ELSE 0
Val(o) == CASE o.reg = "" -> Wide(o.n) [] o.reg = "rs" -> rs [] o.reg = "rt" -> rt
            [] o.reg = "ra" -> 5 [] OTHER -> 0

Nowhere == [k \in 0..31 |-> {}]
Stays == [to |-> "zero", value |-> 0, csr |-> csr, next |-> <<"pc", 1>>, bits |-> Nowhere]
Writes(o, v) == IF o.reg = "zero" THEN Stays
                ELSE [Stays EXCEPT !.to = o.reg, !.value = Wide(v)]
Links(o, base, n) == [Writes(o, 0) EXCEPT !.next = <<base, n>>]   \* 0: the link
Branches(cond, n) == IF cond THEN [Stays EXCEPT !.next = <<"pc", n>>] ELSE Stays
SetsCsr(o, v) == [Writes(o, csr) EXCEPT !.csr = Wide(v)]
Combines(o, f) == [Writes(o, 0) EXCEPT !.bits = f]
Clear(a, b) == a - (a & b)

(* A stage of shfli exchanges two neighbouring bits of every position; the *)
(* stages run from the large to the small, those of unshfli backwards.     *)
Swap(k, n) == LET lo == (k \div n) % 2
                  hi == (k \div (2 * n)) % 2
              IN  (k - (lo * n + hi * 2 * n)) + hi * n + lo * 2 * n
Staged(control, n, k) == IF (control & n) # 0 THEN Swap(k, n) ELSE k
Shfl(control, k) ==      \* the position from which position k of shfli comes
  Staged(control, 8, Staged(control, 4, Staged(control, 2, Staged(control, 1, k))))
Unshfl(control, k) ==
  Staged(control, 1, Staged(control, 2, Staged(control, 4, Staged(control, 8, k))))

Effect(i) ==
  LET a(k) == Val(i.args[k])
      d == i.args[1]
      control == i.args[Len(i.args)].n
  IN  CASE i.op = "addi"  -> Writes(d, a(2) + a(3))
        [] i.op = "xori"  -> Writes(d, a(2) ^^ a(3))
        [] i.op = "addiw" -> Writes(d, SextW(a(2) + a(3)))
        [] i.op = "sub"   -> Writes(d, a(2) - a(3))
        [] i.op = "subw"  -> Writes(d, SextW(Wide(a(2) - a(3))))
        [] i.op = "slt"   -> Writes(d, Bool(Signed(a(2)) < Signed(a(3))))
        [] i.op \in {"sltu", "sltiu"} -> Writes(d, Bool(a(2) < a(3)))
        [] i.op = "beq"   -> Branches(a(1) = a(2), i.args[3].n)
        [] i.op = "bne"   -> Branches(a(1) # a(2), i.args[3].n)
        [] i.op = "blt"   -> Branches(Signed(a(1)) < Signed(a(2)), i.args[3].n)
        [] i.op = "bge"   -> Branches(Signed(a(1)) >= Signed(a(2)), i.args[3].n)
        [] i.op = "bltu"  -> Branches(a(1) < a(2), i.args[3].n)
        [] i.op = "bgeu"  -> Branches(a(1) >= a(2), i.args[3].n)
        [] i.op \in {"csrrw", "csrrwi"} -> SetsCsr(d, a(3))
        [] i.op \in {"csrrs", "csrrsi"} -> SetsCsr(d, csr | a(3))
        [] i.op \in {"csrrc", "csrrci"} -> SetsCsr(d, Clear(csr, a(3)))
        [] i.op = "jal"   -> Links(d, "pc", i.args[2].n)
        [] i.op = "jalr"  -> Links(d, "absolute", Wide(a(2) + a(3)))
        [] i.op = "c.jr"  -> Links(zero, "absolute", a(1))
        [] i.op = "lw"    -> Links(d, "load", Wide(a(2) + a(3)))
        [] i.op = "andi"  ->   \* of an immediate below 2^11
             Combines(d, [k \in 0..31 |->
               IF k < 11 /\ (control & 2 ^ k) # 0 THEN {k} ELSE {}])
        [] i.op = "pack"  ->
             Combines(d, [k \in 0..31 |-> IF k < 16 THEN {k} ELSE {}])
        [] i.op = "grevi" -> Combines(d, [k \in 0..31 |-> {k ^^ control}])
        [] i.op = "gorci" ->
             Combines(d, [k \in 0..31 |-> {j \in 0..31 : Clear(j ^^ k, control) = 0}])
        [] i.op = "shfli"   -> Combines(d, [k \in 0..31 |-> {Shfl(control, k)}])
        [] i.op = "unshfli" -> Combines(d, [k \in 0..31 |-> {Unshfl(control, k)}])

(* What the assembly manual and the draft say of the pseudo instructions.  *)
(* In a unit of bits, rev reverses the order of the blocks, orc combines   *)
(* them, zip interleaves its lower and its upper half, and unzip undoes it.*)
Zipped(k, block, unit) ==
  LET at == (k % unit) \div block
      from == (at \div 2) + (at % 2) * (unit \div (2 * block))
  IN  (k - (k % unit)) + from * block + (k % block)
Meaning(i) ==
  LET block(k) == (k % i.unit) \div i.block
      unit(k)  == k \div i.unit
      sub(k)   == k % i.block
      same(j, k) == unit(j) = unit(k) /\ sub(j) = sub(k)
      last == (i.unit \div i.block) - 1
  IN  CASE i.op = "nop"    -> Stays
        [] i.op = "mv"     -> Writes(rd, rs)
        [] i.op = "not"    -> Writes(rd, 15 - rs)
        [] i.op = "neg"    -> Writes(rd, 16 - rs)
        [] i.op = "negw"   -> Writes(rd, SextW(16 - rs))
        [] i.op = "sext.w" -> Writes(rd, SextW(rs))
        [] i.op = "seqz"   -> Writes(rd, Bool(rs = 0))
        [] i.op = "snez"   -> Writes(rd, Bool(rs # 0))
        [] i.op = "sltz"   -> Writes(rd, Bool(Signed(rs) < 0))
        [] i.op = "sgtz"   -> Writes(rd, Bool(Signed(rs) > 0))
        [] i.op = "beqz"   -> Branches(rs = 0, 2)
        [] i.op = "bnez"   -> Branches(rs # 0, 2)
        [] i.op = "bltz"   -> Branches(Signed(rs) < 0, 2)
        [] i.op = "bgez"   -> Branches(Signed(rs) >= 0, 2)
        [] i.op = "blez"   -> Branches(Signed(rs) <= 0, 2)
        [] i.op = "bgtz"   -> Branches(Signed(rs) > 0, 2)
        [] i.op = "bgt"    -> Branches(Signed(rs) > Signed(rt), 2)
        [] i.op = "ble"    -> Branches(Signed(rs) <= Signed(rt), 2)
        [] i.op = "bgtu"   -> Branches(rs > rt, 2)
        [] i.op = "bleu"   -> Branches(rs <= rt, 2)
        [] i.op = "csrr"   -> Writes(rd, csr)
        [] i.op \in {"csrw", "csrwi"} -> SetsCsr(zero, Val(i.args[2]))
        [] i.op \in {"csrs", "csrsi"} -> SetsCsr(zero, csr | Val(i.args[2]))
        [] i.op \in {"csrc", "csrci"} -> SetsCsr(zero, Clear(csr, Val(i.args[2])))
        [] i.op = "j"      -> Links(zero, "pc", 2)
        [] i.op = "jal"    -> Links(IF Len(i.args) = 1 THEN ra ELSE rd, "pc", 2)
        [] i.op = "jr"     -> Links(zero, "absolute", rs)
        [] i.op \in {"ret", "c.ret"} -> Links(zero, "absolute", Val(ra))
        [] i.op = "jalr"   -> IF i.paren THEN Links(rd, "absolute", Wide(rs + 3))
                              ELSE Links(ra, "absolute", rs)
        [] i.op = "lw"     -> Links(rd, "load", Wide(rs + 3))
        [] i.op = "zext.b" ->
             Combines(rd, [k \in 0..31 |-> IF k < 8 THEN {k} ELSE {}])
        [] i.op = "zext.h" ->
             Combines(rd, [k \in 0..31 |-> IF k < 16 THEN {k} ELSE {}])
        [] i.op = "rev" ->
             Combines(rd, [k \in 0..31 |->
               {j \in 0..31 : same(j, k) /\ block(j) + block(k) = last}])
        [] i.op = "orc" -> Combines(rd, [k \in 0..31 |-> {j \in 0..31 : same(j, k)}])
        [] i.op = "zip" -> Combines(rd, [k \in 0..31 |-> {Zipped(k, i.block, i.unit)}])
        [] i.op = "unzip" ->
             Combines(rd, [k \in 0..31 |->
               {j \in 0..31 : Zipped(j, i.block, i.unit) = k}])

(* The base instruction written to the trace does what the instruction     *)
(* that Spike printed does, whatever the registers hold.                   *)
PseudoMeansBase == \A i \in 1..Len(converted) : Effect(converted[i]) = Meaning(asm)

(* So it is for every pseudo instruction but csrr, the plain read of a CSR. *)
OthersMeanBase == asm.op # "csrr" => PseudoMeansBase
=============================================================================
