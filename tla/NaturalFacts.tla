---------------------------- MODULE NaturalFacts ----------------------------
(* Facts about natural numbers that proofs of several modules rest on:     *)
(* first elements, which stand in for induction, functions defined by      *)
(* recursion, quotients and remainders.                                    *)
EXTENDS Integers, WellFoundedInduction, TLAPS

(* Nonempty sets of numbers have a first element, and bounded ones a last. *)
NatLess == {p \in Nat \X Nat : p[1] < p[2]}

LEMMA NatLessWF == IsWellFoundedOn(NatLess, Nat)
<1>1. NatLess = OpToRel(<, Nat)
  BY DEF NatLess, OpToRel
<1>. QED BY <1>1, NatLessThanWellFounded

LEMMA FirstOf ==
  ASSUME NEW S \in SUBSET Nat, S # {}
  PROVE  \E x \in S : \A y \in S : x <= y
<1>1. \E x \in S : \A y \in S : <<y, x>> \notin NatLess
  <2>1. S \subseteq Nat
    OBVIOUS
  <2>. QED BY <2>1, NatLessWF, WFMin, Zenon
<1>2. PICK x \in S : \A y \in S : <<y, x>> \notin NatLess
  BY <1>1
<1>3. \A y \in S : x <= y
  <2>. SUFFICES ASSUME NEW y \in S, y < x PROVE FALSE
    OBVIOUS
  <2>1. <<y, x>> \in NatLess
    BY DEF NatLess
  <2>. QED BY <1>2, <2>1
<1>. QED BY <1>3

LEMMA LastOf ==
  ASSUME NEW S \in SUBSET Nat, S # {}, NEW n \in Nat, \A x \in S : x <= n
  PROVE  \E x \in S : \A y \in S : x >= y
<1>. DEFINE T == {n - x : x \in S}
<1>1. T \in SUBSET Nat /\ T # {}
  <2>1. \A x \in S : n - x \in Nat
    OBVIOUS
  <2>. QED BY <2>1
<1>2. PICK t \in T : \A u \in T : t <= u
  BY <1>1, FirstOf
<1>3. PICK x \in S : t = n - x
  OBVIOUS
<1>4. \A y \in S : x >= y
  <2>. SUFFICES ASSUME NEW y \in S PROVE x >= y
    OBVIOUS
  <2>1. n - x <= n - y
    BY <1>2, <1>3
  <2>2. x \in Nat /\ y \in Nat
    OBVIOUS
  <2>. QED BY <2>1, <2>2
<1>. QED BY <1>4

(* Functions that start alike and go on alike are alike. *)
LEMMA SameRecursion ==
  ASSUME NEW N \in Nat, NEW g, NEW h,
         g[0] = h[0], \A n \in 1..N : g[n - 1] = h[n - 1] => g[n] = h[n]
  PROVE  \A n \in 0..N : g[n] = h[n]
<1>. DEFINE Differ == {n \in 0..N : g[n] # h[n]}
<1>1. SUFFICES ASSUME Differ # {} PROVE FALSE
  OBVIOUS
<1>2. PICK k \in Differ : \A j \in Differ : k <= j
  <2>1. Differ \in SUBSET Nat
    OBVIOUS
  <2>. QED BY <1>1, <2>1, FirstOf
<1>3. k \in 1..N /\ k - 1 \in 0..N /\ ~(k <= k - 1)
  OBVIOUS
<1>4. k - 1 \notin Differ
  BY <1>2, <1>3
<1>5. g[k - 1] = h[k - 1]
  BY <1>3, <1>4
<1>. QED BY <1>3, <1>5

(* A function on an initial segment may be defined by recursion.  If it    *)
(* could not, there would be a shortest segment on which it cannot.        *)
LEMMA Recursion ==
  ASSUME NEW N \in Nat, NEW base \in Nat,
         NEW step \in [(1..N) \X Nat -> Nat]
  PROVE  \E g \in [0..N -> Nat] :
           g[0] = base /\ \A n \in 1..N : g[n] = step[<<n, g[n - 1]>>]
<1>. DEFINE Is(g, k) == g = [n \in 0..k |-> IF n = 0 THEN base ELSE step[<<n, g[n - 1]>>]]
            Missing == {k \in 0..N : ~ \E g \in [0..k -> Nat] : Is(g, k)}
<1>1. SUFFICES Missing = {}
  <2>1. N \in 0..N
    OBVIOUS
  <2>2. PICK g \in [0..N -> Nat] : Is(g, N)
    BY <1>1, <2>1
  <2>3. \A n \in 0..N : g[n] = IF n = 0 THEN base ELSE step[<<n, g[n - 1]>>]
    BY <2>2
  <2>. HIDE DEF Is
  <2>4. g[0] = base
    <3>1. 0 \in 0..N
      OBVIOUS
    <3>. QED BY <2>3, <3>1, Zenon
  <2>5. ASSUME NEW n \in 1..N PROVE g[n] = step[<<n, g[n - 1]>>]
    <3>1. n \in 0..N /\ n # 0
      OBVIOUS
    <3>. QED BY <2>3, <3>1, Zenon
  <2>. QED BY <2>4, <2>5
<1>2. SUFFICES ASSUME Missing # {} PROVE FALSE
  OBVIOUS
<1>3. PICK k \in Missing : \A j \in Missing : k <= j
  <2>1. Missing \in SUBSET Nat
    OBVIOUS
  <2>. QED BY <1>2, <2>1, FirstOf
<1>4. k # 0
  <2>. DEFINE g == [n \in 0..0 |-> base]
  <2>1. g \in [0..0 -> Nat] /\ Is(g, 0)
    OBVIOUS
  <2>. QED BY <2>1
<1>5. PICK g \in [0..(k - 1) -> Nat] : Is(g, k - 1)
  <2>1. k \in 0..N /\ \A j \in Missing : j \in Nat
    OBVIOUS
  <2>2. k - 1 \in 0..N /\ ~(k <= k - 1)
    BY <1>4, <2>1
  <2>3. k - 1 \notin Missing
    BY <1>3, <2>2
  <2>. QED BY <2>2, <2>3, Zenon
<1>. DEFINE h == [n \in 0..k |-> IF n = k THEN step[<<k, g[k - 1]>>] ELSE g[n]]
<1>6. g[k - 1] \in Nat /\ step[<<k, g[k - 1]>>] \in Nat
  <2>1. k - 1 \in 0..(k - 1) /\ k \in 1..N
    BY <1>4
  <2>2. g[k - 1] \in Nat
    BY <2>1
  <2>3. <<k, g[k - 1]>> \in (1..N) \X Nat
    BY <2>1, <2>2
  <2>. QED BY <2>2, <2>3
<1>7. h \in [0..k -> Nat]
  <2>. SUFFICES ASSUME NEW n \in 0..k PROVE h[n] \in Nat
    OBVIOUS
  <2>1. n # k => n \in 0..(k - 1)
    BY <1>4
  <2>. QED BY <1>6, <2>1
<1>8. \A n \in 0..k : h[n] = IF n = 0 THEN base ELSE step[<<n, h[n - 1]>>]
  <2>. SUFFICES ASSUME NEW n \in 0..k
                PROVE  h[n] = IF n = 0 THEN base ELSE step[<<n, h[n - 1]>>]
    OBVIOUS
  <2>1. n # 0 => n - 1 \in 0..(k - 1) /\ n - 1 \in 0..k /\ n - 1 # k
    BY <1>4
  <2>2. n # 0 => h[n - 1] = g[n - 1]
    BY <2>1
  <2>3. CASE n = k
    BY <1>4, <2>2, <2>3
  <2>4. CASE n # k
    <3>1. n \in 0..(k - 1)
      BY <2>4, <1>4
    <3>2. g[n] = IF n = 0 THEN base ELSE step[<<n, g[n - 1]>>]
      BY <1>5, <3>1
    <3>3. h[n] = g[n]
      BY <2>4
    <3>. QED BY <2>2, <3>2, <3>3
  <2>. QED BY <2>3, <2>4
<1>9. Is(h, k)
  <2>. HIDE DEF h
  <2>1. h = [n \in 0..k |-> h[n]]
    BY <1>7
  <2>. QED BY <2>1, <1>8
<1>. QED BY <1>3, <1>7, <1>9

(* Quotients, remainders and multiples. *)
LEMMA Division ==
  ASSUME NEW W \in Nat \ {0}, NEW a \in Nat
  PROVE  /\ a \div W \in Nat /\ a % W \in Nat /\ a % W < W
         /\ a = (a \div W) * W + (a % W) /\ (a \div W) * W \in Nat
OBVIOUS

LEMMA Quotient ==
  ASSUME NEW W \in Nat \ {0}, NEW q \in Nat, NEW r \in Nat, r < W
  PROVE  (q * W + r) \div W = q /\ (q * W + r) % W = r
OBVIOUS

LEMMA Multiple ==
  ASSUME NEW W \in Nat \ {0}, NEW a \in Nat
  PROVE  a % W = 0 <=> \E q \in Nat : a = q * W
<1>1. a % W = 0 => a = (a \div W) * W
  BY Division
<1>2. ASSUME NEW q \in Nat, a = q * W PROVE a % W = 0
  <2>1. (q * W + 0) % W = 0
    BY Quotient
  <2>2. q * W + 0 = q * W
    OBVIOUS
  <2>. QED BY <1>2, <2>1, <2>2
<1>. QED BY <1>1, <1>2, Division

LEMMA Differences ==
  ASSUME NEW W \in Nat \ {0}, NEW x \in Nat, NEW y \in Nat, x % W = 0, x <= y
  PROVE  /\ y % W = 0 <=> (y - x) % W = 0
         /\ y % W = 0 /\ x < y => x + W <= y
<1>1. PICK p \in Nat : x = p * W
  BY Multiple
<1>2. y - x \in Nat
  OBVIOUS
<1>3. ASSUME y % W = 0 PROVE (y - x) % W = 0 /\ (x < y => x + W <= y)
  <2>1. PICK q \in Nat : y = q * W
    BY <1>3, Multiple
  <2>2. p <= q
    BY <1>1, <2>1
  <2>3. q - p \in Nat /\ y - x = (q - p) * W
    BY <1>1, <2>1, <2>2
  <2>4. (y - x) % W = 0
    BY <1>2, <2>3, Multiple
  <2>5. ASSUME x < y PROVE x + W <= y
    <3>1. p + 1 <= q
      BY <1>1, <2>1, <2>5
    <3>2. (p + 1) * W <= q * W
      BY <3>1
    <3>3. (p + 1) * W = x + W
      BY <1>1
    <3>. QED BY <2>1, <3>2, <3>3
  <2>. QED BY <2>4, <2>5
<1>4. ASSUME (y - x) % W = 0 PROVE y % W = 0
  <2>1. PICK q \in Nat : y - x = q * W
    BY <1>2, <1>4, Multiple
  <2>2. y = (p + q) * W /\ p + q \in Nat
    BY <1>1, <2>1
  <2>. QED BY <2>2, Multiple
<1>. QED BY <1>3, <1>4
=============================================================================
