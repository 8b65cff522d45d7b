----------------------------- MODULE LoadStore -----------------------------
(***************************************************************************)
(* The byte lanes between the LSU and a 32-bit memory.  A word is a        *)
(* function from its byte lanes to bytes; a request names a word, a byte   *)
(* offset in it and a size (0 byte, 1 halfword, 2 word).                   *)
(***************************************************************************)
EXTENDS Integers, Sequences

Lane == 0..3
Byte == 0..255
ZeroWord == [i \in Lane |-> 0]

HAligned(r)  == r.off % 2 = 0
ShiftOff(r)  == IF r.size = 2 THEN 0 ELSE r.off
StrobesUnaligned(r) ==   \* mutant: an odd halfword spills into its neighbours
  {i \in Lane : i \in ShiftOff(r)..(ShiftOff(r) + 2 ^ r.size - 1)}
Strobes(r) ==
  IF r.load \/ (r.size = 1 /\ ~HAligned(r)) THEN {}
  ELSE {i \in Lane : i \in ShiftOff(r)..(ShiftOff(r) + 2 ^ r.size - 1)}

(* The store data, cut to the size of the access and moved to its lanes.   *)
Lanes(r) ==
  [i \in Lane |-> IF i - ShiftOff(r) \in 0..(2 ^ r.size - 1)
                  THEN r.data[i - ShiftOff(r)] ELSE 0]
Merge(old, lanes, strobes) ==
  [i \in Lane |-> IF i \in strobes THEN lanes[i] ELSE old[i]]

(* The loaded bytes at the low lanes, sign- or zero-extended.              *)
Extend(r, top) == IF r.sx /\ top >= 128 THEN 255 ELSE 0
LoadAlign(r, word) ==
  LET low == [i \in Lane |-> IF i + r.off \in Lane THEN word[i + r.off] ELSE 0]
      n   == 2 ^ r.size
  IN  IF r.size = 2 THEN word
      ELSE IF r.size = 1 /\ ~HAligned(r) THEN ZeroWord
      ELSE [i \in Lane |-> IF i < n THEN low[i] ELSE Extend(r, low[n - 1])]
============================================================================
