----------------------------- MODULE FetchStream -----------------------------
(***************************************************************************)
(* What the front end promises Issue, and what Backend expects of it: the  *)
(* bundles Issue takes follow the predicted path, each instruction met at  *)
(* the address its predecessor was predicted to go on to, none skipped and *)
(* none taken twice; a redirect restarts the stream at its target.         *)
(*                                                                         *)
(* Addresses count half-words, so that a target whose bit 1 is set can be  *)
(* told from its word; instructions are two apart and a fetch block holds  *)
(* two of them.                                                            *)
(***************************************************************************)
EXTENDS Naturals, Sequences

CONSTANTS
  Size,     (* the half-words of the address space, which wraps around      *)
  Program   (* the instruction at each word address                         *)

Addr     == 0..Size - 1
Word(a)  == a - (a % 2)
After(p) == (p + 2) % Size
Words    == {Word(a) : a \in Addr}

(* A pre-decoded instruction: its kind, the PC-relative target of a branch *)
(* or a JAL, and whether a JALR is a return.                               *)
Instr == [kind : {"seq", "branch", "jal", "jalr"}, target : Addr, ret : BOOLEAN]

(* An instruction under way to Issue, with its prediction. *)
Entry == [pc : Words, instr : Instr, predTaken : BOOLEAN, predTarget : Addr]

(* The right instruction with a prediction Issue can resolve: only control *)
(* transfers are predicted taken, and a JAL always is, to its own target.  *)
Legal(e) ==
  /\ e.instr = Program[e.pc]
  /\ ~e.predTaken => e.predTarget = After(e.pc)
  /\ e.predTaken  => e.instr.kind # "seq" /\ (e.instr.kind = "jalr" => e.instr.ret)
  /\ e.instr.kind = "jal" => e.predTaken /\ e.predTarget = e.instr.target

VARIABLES bundle,   (* the instructions in Issue's bundle buffer *)
          next      (* the address of the next instruction       *)

Load ==
  /\ Len(bundle') \in 1..2
  /\ \A i \in DOMAIN bundle' : Legal(bundle'[i])
  /\ bundle'[1].pc = next
  /\ Len(bundle') = 2 => bundle'[2].pc = Word(bundle'[1].predTarget)
  /\ next' = Word(bundle'[Len(bundle')].predTarget)

Drain == bundle' = << >> /\ next' = next

Redirect == bundle # << >> /\ bundle' = << >> /\ next' \in Words

Init == bundle = << >> /\ next \in Words
Next == Load \/ Drain \/ Redirect
Spec == Init /\ [][Next]_<<bundle, next>>
=============================================================================
