------------------------------- MODULE Images -------------------------------
(***************************************************************************)
(* From a hex file to the memories: mkmem.py bakes the arrays of the       *)
(* bitstream, loadprog.py builds the payload of an upload, and the         *)
(* testbench's drivers and scoreboard preload theirs.  All have to agree   *)
(* on where a byte goes.  One LoadHex stands for their five parsers, which *)
(* read alike what objcopy writes, a byte per entry (scoreboard.py:39-48   *)
(* would also split longer ones); what is compared is how each goes on.    *)
(*                                                                         *)
(* A hex file is a sequence of sections, an "@" line each with the bytes   *)
(* that follow it.  A memory is a function from the addresses it knows.    *)
(***************************************************************************)
EXTENDS Integers, Sequences, SequencesExt, FiniteSetsExt

CONSTANTS
  Base,             (* 0x80000000                                            *)
  IWidth, DWidth,   (* bytes of an instruction-memory and a data-memory word *)
  Depths,           (* what --imem-depth and --dmem-depth may be             *)
  Starts, Bodies,   (* addresses and contents of sections                    *)
  MaxSections,      (* of a hex file                                         *)
  Ends,             (* addresses the ELF's _ebss and _stack_top may have     *)
  Nop               (* fills the rest of instruction memory: a word of bytes *)

PowerOfTwo(n) == \E k \in 0..n : n = 2 ^ k

ASSUME ImagesAssumption ==
  /\ Base \in Nat /\ {IWidth, DWidth} \subseteq Nat \ {0} /\ IWidth % DWidth = 0
  /\ Depths \subseteq Nat /\ Starts \subseteq Nat /\ Ends \subseteq Nat
  /\ Bodies \subseteq Seq(Nat) /\ MaxSections \in Nat
  /\ \A d \in Depths : PowerOfTwo(d) => Base % (d * IWidth) = 0

VARIABLES
  hex, end, idepth, ddepth,   (* the arguments of mkmem                       *)
  mem,                        (* the image: {byte_addr: byte_value}           *)
  imem, dmem,                 (* the arrays                                   *)
  step                        (* "read", "validate", "build", "done", "error" *)

ivars == <<hex, end, idepth, ddepth, mem, imem, dmem, step>>

----------------------------------------------------------------------------
At(f, a) == IF a \in DOMAIN f THEN f[a] ELSE 0
NoElf == -1            (* mkmem called without --elf *)
NoBytes == [a \in {} |-> 0]

(* load_verilog_hex: a later byte replaces an earlier one, so the last     *)
(* section that has an address gives its byte.                             *)
Span(s) == s.at..(s.at + Len(s.bytes) - 1)
LoadHex(sections) ==
  LET last(a) == Max({i \in DOMAIN sections : a \in Span(sections[i])})
  IN  [a \in UNION {Span(sections[i]) : i \in DOMAIN sections} |->
         sections[last(a)].bytes[a - sections[last(a)].at + 1]]

(* pack_words: a word for each base of which some byte is known.           *)
Word(f, base, width) == [i \in 0..(width - 1) |-> At(f, base + i)]
PackOwnBase(f, width) ==   \* mutant: a word only where its first byte is known
  [base \in {a \in DOMAIN f : a % width = 0} |-> Word(f, base, width)]
Pack(f, width) ==
  [base \in {a - (a % width) : a \in DOMAIN f} |-> Word(f, base, width)]

(* The testbench's packers.  Instruction memory knows only words whose     *)
(* first byte the file defines.                                            *)
ImemLoad(sections) ==
  LET f == LoadHex(sections)
  IN  [a \in {a \in DOMAIN f : a % DWidth = 0} |-> Word(f, a, DWidth)]
DmemLoad(sections) ==
  LET f == LoadHex(sections)
      lo == Min(DOMAIN f) - (Min(DOMAIN f) % DWidth)
      known == {a \in lo..Max(DOMAIN f) : /\ (a - lo) % DWidth = 0
                                          /\ \E i \in 0..(DWidth - 1) : a + i \in DOMAIN f}
  IN  IF f = NoBytes THEN NoBytes ELSE [a \in known |-> Word(f, a, DWidth)]

(* validate_layout.  The top word of data memory is reserved.              *)
Limit == Base + Min({idepth * IWidth, ddepth * DWidth})
DataLimit == Base + ddepth * DWidth - DWidth
ValidImageOnly ==   \* mutant: the program's BSS and stack are not looked at
  /\ PowerOfTwo(idepth) /\ PowerOfTwo(ddepth)
  /\ mem # NoBytes
  /\ \A a \in DOMAIN mem : Base <= a /\ a < Limit /\ a < DataLimit
Valid ==
  /\ PowerOfTwo(idepth) /\ PowerOfTwo(ddepth)
  /\ mem # NoBytes
  /\ \A a \in DOMAIN mem : Base <= a /\ a < Limit /\ a < DataLimit
  /\ end = NoElf \/ (Base <= end /\ end <= DataLimit)

(* build_array, with the indexing of bram_slave.sv.                        *)
Index(a, width, depth) == (a \div width) % depth
Array(words, depth, width, fill) ==
  [i \in 0..(depth - 1) |->
     LET here == {a \in DOMAIN words : Index(a, width, depth) = i}
     IN  IF here = {} THEN fill ELSE words[Max(here)]]
Collisions(words, depth, width) ==
  {p \in (DOMAIN words) \X (DOMAIN words) :
     p[1] < p[2] /\ Index(p[1], width, depth) = Index(p[2], width, depth)}

----------------------------------------------------------------------------
Zeros(width) == [i \in 0..(width - 1) |-> 0]
SectionsOf == {[at |-> a, bytes |-> b] : a \in Starts, b \in Bodies}

ImagesInit ==
  /\ hex \in SeqOf(SectionsOf, MaxSections)
  /\ end \in Ends \cup {NoElf} /\ idepth \in Depths /\ ddepth \in Depths
  /\ mem = NoBytes /\ imem = << >> /\ dmem = << >> /\ step = "read"

(* main of mkmem.py.                                                       *)
ReadHex ==
  /\ step = "read"
  /\ mem' = LoadHex(hex)
  /\ step' = IF mem' = NoBytes THEN "error" ELSE "validate"
  /\ UNCHANGED <<hex, end, idepth, ddepth, imem, dmem>>
Validate ==
  /\ step = "validate"
  /\ step' = IF Valid THEN "build" ELSE "error"
  /\ UNCHANGED <<hex, end, idepth, ddepth, mem, imem, dmem>>
Build ==
  /\ step = "build"
  /\ LET iwords == Pack(mem, IWidth)
         dwords == Pack(mem, DWidth)
     IN  IF Collisions(iwords, idepth, IWidth) \cup Collisions(dwords, ddepth, DWidth) = {}
         THEN /\ imem' = Array(iwords, idepth, IWidth, Nop)
              /\ dmem' = Array(dwords, ddepth, DWidth, Zeros(DWidth))
              /\ step' = "done"
         ELSE step' = "error" /\ UNCHANGED <<imem, dmem>>
  /\ UNCHANGED <<hex, end, idepth, ddepth, mem>>
ImagesNext == ReadHex \/ Validate \/ Build
ImagesSpec == ImagesInit /\ [][ImagesNext]_ivars

----------------------------------------------------------------------------
(* What a memory on the board returns for the byte at an address, from the *)
(* lane files that Build's arrays are written to.                          *)
InImem(a) == imem[Index(a, IWidth, idepth)][a % IWidth]
InDmem(a) == dmem[Index(a, DWidth, ddepth)][a % DWidth]

(* The payload of an upload: everything from Base on, holes as zeros.      *)
Payload == [i \in 0..(Max(DOMAIN mem) - Base) |-> At(mem, Base + i)]

(* Whichever way a program gets into memory, each byte of it is where the  *)
(* core looks for it: baked into the bitstream, uploaded over the serial   *)
(* line, or preloaded by the testbench, whose instruction side relies on   *)
(* sections that start at a word.                                          *)
MemoriesAgree ==
  step = "done" =>
    /\ \A a \in DOMAIN mem :
         /\ InImem(a) = mem[a] /\ InDmem(a) = mem[a]
         /\ Payload[a - Base] = mem[a]
         /\ DmemLoad(hex)[a - (a % DWidth)][a % DWidth] = mem[a]
    /\ (\A i \in DOMAIN hex : hex[i].at % DWidth = 0) => ImemLoad(hex) = DmemLoad(hex)
    /\ Pack(mem, DWidth) = DmemLoad(hex)

(* A program that is accepted has its image, its BSS and its stack at      *)
(* distinct places of data memory, none of them the reserved word.         *)
Unaliased ==
  step = "done" =>
    LET used == (DOMAIN mem) \cup (Base..(end - 1))
        place(a) == a % (ddepth * DWidth)
    IN  /\ \A a, b \in used : place(a) = place(b) => a = b
        /\ \A a \in used : place(a) < (ddepth - 1) * DWidth

(* Why they hold: what each step of main relies on when it is reached.     *)
ImagesTypeOK ==
  /\ hex \in SeqOf(SectionsOf, MaxSections) /\ end \in Ends \cup {NoElf}
  /\ idepth \in Depths /\ ddepth \in Depths
  /\ step \in {"read", "validate", "build", "done", "error"}
ImagesInv ==
  /\ ImagesTypeOK
  /\ step \in {"validate", "build", "done"} => mem = LoadHex(hex)
  /\ step \in {"build", "done"} => Valid
  /\ step = "done" =>
       /\ Collisions(Pack(mem, IWidth), idepth, IWidth) = {}
       /\ Collisions(Pack(mem, DWidth), ddepth, DWidth) = {}
       /\ imem = Array(Pack(mem, IWidth), idepth, IWidth, Nop)
       /\ dmem = Array(Pack(mem, DWidth), ddepth, DWidth, Zeros(DWidth))
============================================================================
