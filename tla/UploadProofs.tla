---------------------------- MODULE UploadProofs ----------------------------
(* Proofs about the loader of programs, for bytes, fields, images and      *)
(* memories of any size, and whatever the serial line delivers.            *)
EXTENDS Upload, NaturalFacts, TLAPS

----------------------------------------------------------------------------
(* What is defined by recursion exists, and has its type. *)
LEMMA Constants ==
  /\ Base \in Nat /\ Base > 1 /\ Width \in Nat \ {0}
  /\ Octet \subseteq Nat /\ 0 \in Octet
BY UploadAssumption DEF Octet

(* The powers of the base up to the k-th, of which Power(k) is the last. *)
LEMMA Powers ==
  ASSUME NEW k \in Nat
  PROVE  \E g : /\ g \in [0..k -> Nat] /\ Power(k) = g[k]
                /\ g[0] = 1
                /\ \A n \in 1..k : g[n] = Base * g[n - 1]
<1>. DEFINE step == [p \in (1..k) \X Nat |-> Base * p[2]]
            Is(g) == g = [n \in 0..k |-> IF n = 0 THEN 1 ELSE Base * g[n - 1]]
<1>1. step \in [(1..k) \X Nat -> Nat] /\ k \in Nat /\ 1 \in Nat
  <2>1. \A n \in 1..k : \A x \in Nat : Base * x \in Nat
    BY Constants
  <2>. QED BY <2>1, Constants
<1>2. \E g \in [0..k -> Nat] :
        g[0] = 1 /\ \A n \in 1..k : g[n] = step[<<n, g[n - 1]>>]
  <2>. HIDE DEF step
  <2>. QED BY <1>1, Recursion, ZenonT(30)
<1>3. PICK g : /\ g \in [0..k -> Nat] /\ g[0] = 1
               /\ \A n \in 1..k : g[n] = step[<<n, g[n - 1]>>]
  BY <1>2
<1>4. ASSUME NEW n \in 0..k
      PROVE  g[n] = IF n = 0 THEN 1 ELSE Base * g[n - 1]
  <2>1. n # 0 => n \in 1..k /\ n - 1 \in 0..k /\ g[n - 1] \in Nat
    BY <1>1, <1>3
  <2>2. n # 0 => step[<<n, g[n - 1]>>] = Base * g[n - 1]
    BY <2>1
  <2>. QED BY <1>3, <2>1, <2>2
<1>. HIDE DEF step
<1>5. Is(g)
  BY <1>3, <1>4
<1>6. ASSUME NEW h, Is(h) PROVE h = g
  <2>1. \A n \in 0..k : h[n] = IF n = 0 THEN 1 ELSE Base * h[n - 1]
    BY <1>6
  <2>2. g = [n \in 0..k |-> g[n]] /\ h = [n \in 0..k |-> h[n]]
    BY <1>3, <1>6
  <2>. HIDE DEF Is
  <2>3. g[0] = h[0] /\ \A n \in 1..k : g[n - 1] = h[n - 1] => g[n] = h[n]
    BY <1>1, <1>4, <2>1
  <2>4. \A n \in 0..k : g[n] = h[n]
    BY Constants, <2>3, SameRecursion
  <2>. QED BY <2>2, <2>4
<1>. HIDE DEF Is
<1>7. Power(k) = g[k]
  <2>1. Power(k) = (CHOOSE h : Is(h))[k]
    BY DEF Power, Is
  <2>. QED BY <1>5, <1>6, <2>1, Zenon
<1>8. \A n \in 1..k : g[n] = Base * g[n - 1]
  BY <1>4
<1>. QED BY <1>3, <1>7, <1>8

LEMMA PowerStep ==
  ASSUME NEW k \in Nat
  PROVE  Power(k) \in Nat /\ Power(0) = 1 /\ Power(k + 1) = Base * Power(k)
<1>1. PICK g : /\ g \in [0..k -> Nat] /\ Power(k) = g[k]
               /\ g[0] = 1
               /\ \A n \in 1..k : g[n] = Base * g[n - 1]
  BY Powers
<1>2. PICK h : /\ h \in [0..(k + 1) -> Nat] /\ Power(k + 1) = h[k + 1]
               /\ h[0] = 1
               /\ \A n \in 1..(k + 1) : h[n] = Base * h[n - 1]
  <2>1. k + 1 \in Nat
    OBVIOUS
  <2>. QED BY <2>1, Powers
<1>3. \A n \in 0..k : g[n] = h[n]
  <2>1. \A n \in 1..k : g[n - 1] = h[n - 1] => g[n] = h[n]
    BY <1>1, <1>2
  <2>2. k \in Nat /\ g[0] = h[0]
    BY <1>1, <1>2
  <2>. QED BY <2>1, <2>2, SameRecursion
<1>4. Power(k + 1) = Base * Power(k)
  BY <1>1, <1>2, <1>3
<1>5. PICK z : Power(0) = z[0] /\ z[0] = 1
  BY Powers
<1>. QED BY <1>1, <1>4, <1>5

(* They are positive, so that remainders by them are defined. *)
LEMMA PowerType ==
  ASSUME NEW k \in Nat
  PROVE  Power(k) \in Nat \ {0}
<1>. DEFINE Zero == {n \in Nat : Power(n) = 0}
<1>1. SUFFICES ASSUME Zero # {} PROVE FALSE
  BY PowerStep
<1>2. PICK n \in Zero : \A m \in Zero : n <= m
  <2>1. Zero \in SUBSET Nat
    OBVIOUS
  <2>. QED BY <1>1, <2>1, FirstOf
<1>3. n # 0 /\ n - 1 \in Nat /\ ~(n <= n - 1)
  <2>1. n \in Nat /\ Power(n) = 0 /\ Power(0) = 1
    BY PowerStep
  <2>. QED BY <2>1
<1>4. n - 1 \notin Zero
  BY <1>2, <1>3
<1>5. Power(n - 1) \in Nat /\ Power(n - 1) # 0 /\ Power((n - 1) + 1) = Base * Power(n - 1)
  BY <1>3, <1>4, PowerStep
<1>6. (n - 1) + 1 = n
  OBVIOUS
<1>. QED BY <1>5, <1>6, Constants

LEMMA ValuesType == Values \in Nat \ {0}
BY PowerType, Constants DEF Values

LEMMA Bytes ==
  ASSUME NEW s \in Seq(Octet)
  PROVE  Len(s) \in Nat /\ \A n \in 1..Len(s) : s[n] \in Octet /\ s[n] \in Nat
<1>1. Len(s) \in Nat /\ \A n \in 1..Len(s) : s[n] \in Octet
  OBVIOUS
<1>. QED BY <1>1, Constants

(* What a field stands for: the value of its last bytes, one after another. *)
LEMMA Numbers ==
  ASSUME NEW f \in Seq(Octet)
  PROVE  \E g : /\ g \in [0..Len(f) -> Nat] /\ Number(f) = g[Len(f)]
                /\ g[0] = 0
                /\ \A n \in 1..Len(f) : g[n] = f[Len(f) - n + 1] + Base * g[n - 1]
<1>a. PICK N : N = Len(f)
  OBVIOUS
<1>0. /\ Base \in Nat /\ N \in Nat
      /\ \A n \in 1..N : f[N - n + 1] \in Nat
  <2>1. N \in Nat
    BY <1>a, Bytes
  <2>2. \A n \in 1..N : N - n + 1 \in 1..N
    BY <2>1
  <2>. QED BY <1>a, <2>1, <2>2, Bytes, Constants
<1>. DEFINE step == [p \in (1..N) \X Nat |-> f[N - p[1] + 1] + Base * p[2]]
            Is(g) == g = [n \in 0..N |-> IF n = 0 THEN 0 ELSE f[N - n + 1] + Base * g[n - 1]]
<1>1. step \in [(1..N) \X Nat -> Nat] /\ N \in Nat /\ 0 \in Nat
  <2>1. \A n \in 1..N : \A x \in Nat : f[N - n + 1] + Base * x \in Nat
    BY <1>0
  <2>. QED BY <2>1, <1>0
<1>2. \E g \in [0..N -> Nat] :
        g[0] = 0 /\ \A n \in 1..N : g[n] = step[<<n, g[n - 1]>>]
  <2>. HIDE DEF step
  <2>. QED BY <1>1, Recursion, ZenonT(30)
<1>3. PICK g : /\ g \in [0..N -> Nat] /\ g[0] = 0
               /\ \A n \in 1..N : g[n] = step[<<n, g[n - 1]>>]
  BY <1>2
<1>4. ASSUME NEW n \in 0..N
      PROVE  g[n] = IF n = 0 THEN 0 ELSE f[N - n + 1] + Base * g[n - 1]
  <2>1. n # 0 => n \in 1..N /\ n - 1 \in 0..N /\ g[n - 1] \in Nat
    BY <1>1, <1>3
  <2>2. n # 0 => step[<<n, g[n - 1]>>] = f[N - n + 1] + Base * g[n - 1]
    BY <2>1
  <2>. QED BY <1>3, <2>1, <2>2
<1>. HIDE DEF step
<1>5. Is(g)
  BY <1>3, <1>4
<1>6. ASSUME NEW h, Is(h) PROVE h = g
  <2>1. \A n \in 0..N : h[n] = IF n = 0 THEN 0 ELSE f[N - n + 1] + Base * h[n - 1]
    BY <1>6
  <2>2. g = [n \in 0..N |-> g[n]] /\ h = [n \in 0..N |-> h[n]]
    BY <1>3, <1>6
  <2>. HIDE DEF Is
  <2>3. g[0] = h[0] /\ \A n \in 1..N : g[n - 1] = h[n - 1] => g[n] = h[n]
    BY <1>1, <1>4, <2>1
  <2>4. \A n \in 0..N : g[n] = h[n]
    <3>1. N \in Nat
      BY <1>0
    <3>. QED BY <2>3, <3>1, SameRecursion, SMTT(30)
  <2>. QED BY <2>2, <2>4
<1>. HIDE DEF Is
<1>7. Number(f) = g[N]
  <2>1. Number(f) = (CHOOSE h : Is(h))[N]
    BY <1>a DEF Number, Is
  <2>. QED BY <1>5, <1>6, <2>1, Zenon
<1>8. \A n \in 1..N : g[n] = f[N - n + 1] + Base * g[n - 1]
  BY <1>1, <1>4
<1>. QED BY <1>a, <1>3, <1>7, <1>8

LEMMA NumberType ==
  ASSUME NEW f \in Seq(Octet)
  PROVE  Number(f) \in Nat
<1>1. PICK g : g \in [0..Len(f) -> Nat] /\ Number(f) = g[Len(f)]
  BY Numbers
<1>. QED BY <1>1

(* The running totals of some bytes, of which SumOf is the last. *)
LEMMA Totals ==
  ASSUME NEW s \in Seq(Octet)
  PROVE  \E g : /\ g \in [0..Len(s) -> Nat] /\ SumOf(s) = g[Len(s)] % Values
                /\ g[0] = 0
                /\ \A n \in 1..Len(s) : g[n] = g[n - 1] + s[n]
<1>a. PICK N : N = Len(s)
  OBVIOUS
<1>0. N \in Nat /\ \A n \in 1..N : s[n] \in Nat
  BY <1>a, Bytes
<1>. DEFINE step == [p \in (1..N) \X Nat |-> p[2] + s[p[1]]]
            Is(g) == g = [n \in 0..N |-> IF n = 0 THEN 0 ELSE g[n - 1] + s[n]]
<1>1. step \in [(1..N) \X Nat -> Nat] /\ N \in Nat /\ 0 \in Nat
  <2>1. \A n \in 1..N : \A x \in Nat : x + s[n] \in Nat
    BY <1>0
  <2>. QED BY <2>1, <1>0
<1>2. \E g \in [0..N -> Nat] :
        g[0] = 0 /\ \A n \in 1..N : g[n] = step[<<n, g[n - 1]>>]
  <2>. HIDE DEF step
  <2>. QED BY <1>1, Recursion, ZenonT(30)
<1>3. PICK g : /\ g \in [0..N -> Nat] /\ g[0] = 0
               /\ \A n \in 1..N : g[n] = step[<<n, g[n - 1]>>]
  BY <1>2
<1>4. ASSUME NEW n \in 0..N
      PROVE  g[n] = IF n = 0 THEN 0 ELSE g[n - 1] + s[n]
  <2>1. n # 0 => n \in 1..N /\ n - 1 \in 0..N /\ g[n - 1] \in Nat
    BY <1>1, <1>3
  <2>2. n # 0 => step[<<n, g[n - 1]>>] = g[n - 1] + s[n]
    BY <2>1
  <2>. QED BY <1>3, <2>1, <2>2
<1>. HIDE DEF step
<1>5. Is(g)
  BY <1>3, <1>4
<1>6. ASSUME NEW h, Is(h) PROVE h = g
  <2>1. \A n \in 0..N : h[n] = IF n = 0 THEN 0 ELSE h[n - 1] + s[n]
    BY <1>6
  <2>2. g = [n \in 0..N |-> g[n]] /\ h = [n \in 0..N |-> h[n]]
    BY <1>3, <1>6
  <2>. HIDE DEF Is
  <2>3. g[0] = h[0] /\ \A n \in 1..N : g[n - 1] = h[n - 1] => g[n] = h[n]
    BY <1>1, <1>4, <2>1
  <2>4. \A n \in 0..N : g[n] = h[n]
    BY <1>0, <2>3, SameRecursion
  <2>. QED BY <2>2, <2>4
<1>. HIDE DEF Is
<1>7. SumOf(s) = g[N] % Values
  <2>1. SumOf(s) = (CHOOSE h : Is(h))[N] % Values
    BY <1>a DEF SumOf, Is
  <2>. QED BY <1>5, <1>6, <2>1, Zenon
<1>8. \A n \in 1..N : g[n] = g[n - 1] + s[n]
  BY <1>1, <1>4
<1>. QED BY <1>a, <1>3, <1>7, <1>8

(* The board's sum goes on as the host's sum does. *)
LEMMA SumsModulo ==
  ASSUME NEW M \in Nat \ {0}, NEW x \in Nat, NEW b \in Nat
  PROVE  (x + b) % M = ((x % M) + b) % M
<1>1. PICK q \in Nat, r \in Nat : x = q * M + r /\ r < M /\ x % M = r
  BY Division
<1>2. PICK p \in Nat, t \in Nat : r + b = p * M + t /\ t < M /\ (r + b) % M = t
  BY Division
<1>3. x + b = (q + p) * M + t /\ q + p \in Nat
  BY <1>1, <1>2
<1>4. (x + b) % M = t
  <2>1. \A k \in Nat : (k * M + t) % M = t
    BY <1>2, Quotient
  <2>. QED BY <1>3, <2>1
<1>. QED BY <1>1, <1>2, <1>4

LEMMA SumExtends ==
  ASSUME NEW s \in Seq(Octet), NEW b \in Octet
  PROVE  SumOf(s) \in Nat /\ SumOf(Append(s, b)) = (SumOf(s) + b) % Values
<1>. DEFINE t == Append(s, b)
<1>1. /\ t \in Seq(Octet) /\ Len(t) = Len(s) + 1 /\ t[Len(s) + 1] = b
      /\ \A n \in 1..Len(s) : t[n] = s[n]
  OBVIOUS
<1>2. PICK g : /\ g \in [0..Len(s) -> Nat] /\ SumOf(s) = g[Len(s)] % Values
               /\ g[0] = 0
               /\ \A n \in 1..Len(s) : g[n] = g[n - 1] + s[n]
  BY Totals
<1>. HIDE DEF t
<1>3. PICK h : /\ h \in [0..Len(t) -> Nat] /\ SumOf(t) = h[Len(t)] % Values
               /\ h[0] = 0
               /\ \A n \in 1..Len(t) : h[n] = h[n - 1] + t[n]
  BY <1>1, Totals
<1>4. PICK N : N = Len(s)
  OBVIOUS
<1>5. N \in Nat
  BY <1>4, Bytes
<1>6. \A n \in 0..N : g[n] = h[n]
  <2>1. ASSUME NEW n \in 1..N, g[n - 1] = h[n - 1] PROVE g[n] = h[n]
    <3>1. n \in 1..Len(s) /\ n \in 1..Len(t)
      BY <1>1, <1>4, <1>5
    <3>2. g[n] = g[n - 1] + s[n] /\ h[n] = h[n - 1] + t[n] /\ t[n] = s[n]
      BY <1>1, <1>2, <1>3, <3>1
    <3>. QED BY <2>1, <3>2
  <2>2. g[0] = h[0]
    BY <1>2, <1>3
  <2>. QED BY <1>5, <2>1, <2>2, SameRecursion, SMTT(30)
<1>7. g[N] = h[N] /\ g[N] \in Nat
  BY <1>2, <1>4, <1>5, <1>6
<1>8. h[N + 1] = g[N] + b
  BY <1>1, <1>3, <1>4, <1>5, <1>7
<1>9. b \in Nat
  BY Constants
<1>10. SumOf(s) = g[N] % Values /\ SumOf(t) = (g[N] + b) % Values
  BY <1>1, <1>2, <1>3, <1>4, <1>8
<1>11. SumOf(t) = ((g[N] % Values) + b) % Values
  BY <1>7, <1>9, <1>10, ValuesType, SumsModulo
<1>12. g[N] % Values \in Nat
  BY <1>7, ValuesType
<1>. QED BY <1>10, <1>11, <1>12 DEF t

LEMMA SumOfNothing == SumOf(<< >>) = 0
<1>1. PICK g : SumOf(<< >>) = g[Len(<< >>)] % Values /\ g[0] = 0
  <2>1. << >> \in Seq(Octet)
    OBVIOUS
  <2>. QED BY <2>1, Totals
<1>2. 0 % Values = 0
  BY ValuesType
<1>. QED BY <1>1, <1>2

----------------------------------------------------------------------------
(* Quotients of quotients, and what is left of a number below its powers.  *)
LEMMA QuotientAgain ==
  ASSUME NEW P \in Nat \ {0}, NEW B \in Nat \ {0}, NEW n \in Nat
  PROVE  n \div (B * P) = (n \div P) \div B
<1>1. PICK q \in Nat, r \in Nat : n = q * P + r /\ r < P /\ n \div P = q
  BY Division
<1>2. PICK s \in Nat, t \in Nat : q = s * B + t /\ t < B /\ q \div B = s
  BY Division
<1>3. t * P + r \in Nat /\ t * P + r < B * P
  <2>1. (t + 1) * P <= B * P
    BY <1>2
  <2>2. (t + 1) * P = t * P + P
    OBVIOUS
  <2>. QED BY <1>1, <2>1, <2>2
<1>4. n = s * (B * P) + (t * P + r)
  <2>1. (s * B + t) * P = s * (B * P) + t * P
    OBVIOUS
  <2>. QED BY <1>1, <1>2, <2>1
<1>5. B * P \in Nat \ {0}
  OBVIOUS
<1>6. n \div (B * P) = s
  <2>1. \A x \in Nat : x < B * P => (s * (B * P) + x) \div (B * P) = s
    BY <1>2, <1>5, Quotient
  <2>. QED BY <1>3, <1>4, <2>1
<1>. QED BY <1>1, <1>2, <1>6

(* A field stands for the number that was written into it. *)
LEMMA FieldType ==
  ASSUME NEW n \in Nat
  PROVE  /\ Field(n) \in Seq(Octet) /\ Len(Field(n)) = Width
         /\ \A i \in 1..Width : Field(n)[i] = (n \div Power(i - 1)) % Base
<1>1. ASSUME NEW i \in 1..Width PROVE (n \div Power(i - 1)) % Base \in Octet
  <2>1. Power(i - 1) \in Nat \ {0}
    BY PowerType, Constants
  <2>2. n \div Power(i - 1) \in Nat
    BY <2>1
  <2>. QED BY <2>2, Constants DEF Octet
<1>. QED BY <1>1, Constants DEF Field

LEMMA NumberOfField ==
  ASSUME NEW n \in Nat, n < Values
  PROVE  Number(Field(n)) = n
<1>. DEFINE f == Field(n)
            h == [j \in 0..Width |-> n \div Power(Width - j)]
<1>1. f \in Seq(Octet) /\ Len(f) = Width /\ \A i \in 1..Width : f[i] = (n \div Power(i - 1)) % Base
  BY FieldType
<1>. HIDE DEF f
<1>2. PICK g : /\ g \in [0..Width -> Nat] /\ Number(f) = g[Width]
               /\ g[0] = 0
               /\ \A j \in 1..Width : g[j] = f[Width - j + 1] + Base * g[j - 1]
  BY <1>1, Numbers
<1>3. \A j \in 0..Width : h[j] = n \div Power(Width - j)
  OBVIOUS
<1>. HIDE DEF h
<1>4. h[0] = 0
  <2>1. Values \in Nat \ {0} /\ Values = Power(Width - 0)
    BY ValuesType, Constants DEF Values
  <2>2. n \div Values = 0
    BY <2>1
  <2>. QED BY <1>3, <2>1, <2>2, Constants
<1>5. ASSUME NEW j \in 1..Width PROVE h[j] = f[Width - j + 1] + Base * h[j - 1]
  <2>1. PICK m \in Nat : m = Width - j /\ m + 1 \in 1..Width /\ m + 1 = Width - j + 1
                         /\ Width - (j - 1) = m + 1 /\ (m + 1) - 1 = m /\ j - 1 \in 0..Width
    BY Constants
  <2>2. Power(m) \in Nat \ {0} /\ Power(m + 1) = Base * Power(m)
    BY <2>1, PowerStep, PowerType
  <2>3. n \div Power(m + 1) = (n \div Power(m)) \div Base
    BY <2>2, QuotientAgain, Constants
  <2>4. n \div Power(m) \in Nat
    BY <2>2
  <2>5. PICK x \in Nat : x = n \div Power(m)
    BY <2>4
  <2>6. x = (x % Base) + Base * (x \div Base)
    <3>1. Base \in Nat \ {0} /\ x \in Nat
      BY <2>5, Constants
    <3>2. x = (x \div Base) * Base + (x % Base) /\ x \div Base \in Nat /\ x % Base \in Nat
      BY <3>1, Division
    <3>. QED BY <3>1, <3>2
  <2>7. h[j] = x /\ h[j - 1] = x \div Base
    BY <1>3, <2>1, <2>3, <2>5
  <2>8. f[Width - j + 1] = x % Base
    BY <1>1, <2>1, <2>5
  <2>. QED BY <2>6, <2>7, <2>8
<1>6. \A j \in 0..Width : g[j] = h[j]
  <2>1. \A j \in 1..Width : g[j - 1] = h[j - 1] => g[j] = h[j]
    BY <1>2, <1>5
  <2>2. Width \in Nat /\ g[0] = h[0]
    BY <1>2, <1>4, Constants
  <2>. QED BY <2>1, <2>2, SameRecursion
<1>7. h[Width] = n
  <2>1. Width \in 0..Width /\ Width - Width = 0
    BY Constants
  <2>2. n \div Power(0) = n
    BY PowerStep
  <2>. QED BY <1>3, <2>1, <2>2
<1>8. Number(f) = n
  BY <1>2, <1>6, <1>7, Constants
<1>. QED BY <1>8 DEF f

(* A field whose bytes are those of another is the other. *)
LEMMA WholeField ==
  ASSUME NEW n \in Nat, NEW f \in Seq(Octet), Len(f) = Width,
         \A i \in 1..Width : f[i] = Field(n)[i]
  PROVE  f = Field(n)
<1>. DEFINE g == Field(n)
<1>1. g \in Seq(Octet) /\ Len(g) = Width
  BY FieldType
<1>. HIDE DEF g
<1>2. f = g
  BY <1>1 DEF g
<1>. QED BY <1>2 DEF g

(* The four parts of a frame. *)
LEMMA Joined ==
  ASSUME NEW a \in Seq(Octet), NEW b \in Seq(Octet)
  PROVE  /\ a \o b \in Seq(Octet) /\ Len(a \o b) = Len(a) + Len(b)
         /\ \A i \in 1..Len(a) : (a \o b)[i] = a[i]
         /\ \A i \in 1..Len(b) : (a \o b)[Len(a) + i] = b[i]
OBVIOUS

LEMMA FrameParts ==
  ASSUME NEW img \in Images
  PROVE  /\ Frame(img) \in Seq(Octet)
         /\ Len(Frame(img)) = Len(Magic) + Width + Len(img) + Width
         /\ \A i \in 1..Len(Magic) : Frame(img)[i] = Magic[i]
         /\ \A i \in 1..Width : Frame(img)[Len(Magic) + i] = Field(Len(img))[i]
         /\ \A i \in 1..Len(img) : Frame(img)[Len(Magic) + Width + i] = img[i]
         /\ \A i \in 1..Width :
              Frame(img)[Len(Magic) + Width + Len(img) + i] = Field(SumOf(img))[i]
<1>. DEFINE l == Field(Len(img))
            c == Field(SumOf(img))
            ml == Magic \o l
            mli == ml \o img
            F == mli \o c
<1>1. img \in Seq(Octet) /\ Magic \in Seq(Octet)
  BY UploadAssumption
<1>2. Len(img) \in Nat /\ SumOf(img) \in Nat
  BY <1>1, SumExtends, Constants
<1>3. l \in Seq(Octet) /\ c \in Seq(Octet) /\ Len(l) = Width /\ Len(c) = Width
  BY <1>2, FieldType
<1>4. Len(Magic) \in Nat /\ Width \in Nat
  BY <1>1, Constants
<1>. HIDE DEF l, c
<1>5. /\ ml \in Seq(Octet) /\ Len(ml) = Len(Magic) + Width
      /\ \A i \in 1..Len(Magic) : ml[i] = Magic[i]
      /\ \A i \in 1..Width : ml[Len(Magic) + i] = l[i]
  BY <1>1, <1>3, Joined
<1>. HIDE DEF ml
<1>6. /\ mli \in Seq(Octet) /\ Len(mli) = Len(Magic) + Width + Len(img)
      /\ \A i \in 1..Len(ml) : mli[i] = ml[i]
      /\ \A i \in 1..Len(img) : mli[Len(ml) + i] = img[i]
  <2>1. ml \in Seq(Octet) /\ img \in Seq(Octet)
    BY <1>1, <1>5
  <2>2. /\ ml \o img \in Seq(Octet) /\ Len(ml \o img) = Len(ml) + Len(img)
        /\ \A i \in 1..Len(ml) : (ml \o img)[i] = ml[i]
        /\ \A i \in 1..Len(img) : (ml \o img)[Len(ml) + i] = img[i]
    BY <2>1, Joined
  <2>. QED BY <1>5, <2>2
<1>. HIDE DEF mli
<1>7. /\ F \in Seq(Octet) /\ Len(F) = Len(mli) + Width
      /\ \A i \in 1..Len(mli) : F[i] = mli[i]
      /\ \A i \in 1..Width : F[Len(mli) + i] = c[i]
  <2>1. mli \in Seq(Octet)
    BY <1>6
  <2>2. c \in Seq(Octet) /\ Len(c) = Width
    BY <1>3
  <2>3. /\ mli \o c \in Seq(Octet) /\ Len(mli \o c) = Len(mli) + Len(c)
        /\ \A i \in 1..Len(mli) : (mli \o c)[i] = mli[i]
        /\ \A i \in 1..Len(c) : (mli \o c)[Len(mli) + i] = c[i]
    BY <2>1, <2>2, Joined
  <2>. QED BY <2>2, <2>3
<1>8. Frame(img) = F
  BY <1>1, <1>3 DEF Frame, F, mli, ml, l, c
<1>. HIDE DEF F
<1>9. \A i \in 1..(Len(Magic) + Width) : F[i] = ml[i]
  BY <1>2, <1>4, <1>5, <1>6, <1>7
<1>10. \A i \in 1..Len(Magic) : F[i] = Magic[i]
  BY <1>4, <1>5, <1>9
<1>11. \A i \in 1..Width : F[Len(Magic) + i] = l[i]
  BY <1>4, <1>5, <1>9
<1>12. \A i \in 1..Len(img) : F[Len(Magic) + Width + i] = img[i]
  <2>. SUFFICES ASSUME NEW i \in 1..Len(img) PROVE F[Len(Magic) + Width + i] = img[i]
    OBVIOUS
  <2>1. PICK j \in Nat : j = Len(Magic) + Width + i
    BY <1>2, <1>4
  <2>2. j \in 1..Len(mli) /\ mli[j] = img[i]
    BY <1>2, <1>4, <1>5, <1>6, <2>1
  <2>. QED BY <1>7, <2>1, <2>2
<1>13. \A i \in 1..Width : F[Len(Magic) + Width + Len(img) + i] = c[i]
  BY <1>6, <1>7
<1>14. Len(F) = Len(Magic) + Width + Len(img) + Width
  BY <1>6, <1>7
<1>. QED BY <1>7, <1>8, <1>10, <1>11, <1>12, <1>13, <1>14 DEF l, c

(* A frame is a sequence of bytes with something in it. *)
LEMMA FrameType ==
  ASSUME NEW img \in Images
  PROVE  Frame(img) \in Seq(Octet) /\ Len(Frame(img)) > 0
<1>1. Len(Magic) \in Nat /\ Len(img) \in Nat /\ Width \in Nat \ {0}
  <2>1. Magic \in Seq(Octet) /\ img \in Seq(Octet)
    BY UploadAssumption
  <2>. QED BY <2>1, Constants
<1>. QED BY <1>1, FrameParts

----------------------------------------------------------------------------
(* The invariant in two parts: what is said of the host and the line, and  *)
(* what is said of the board.                                              *)
HostOK ==
  /\ host \in [at : {"off", "greet", "send", "ack", "done", "rejected", "gave_up"},
               img : Seq(Octet), sent : Nat]
  /\ HostInFrame /\ wire \in Seq(Octet)
BoardTypes ==
  /\ state \in {"HELLO", "MAGIC", "LENGTH", "PAYLOAD", "CHECKSUM", "ACK", "DRAIN",
                "RUN", "FAILED"}
  /\ pos \in 0..(Len(Magic) - 1) /\ field \in Seq(Octet) /\ Len(field) < Width
  /\ length \in Nat /\ offset \in 0..Capacity /\ sum \in 0..(Values - 1)
  /\ good \in BOOLEAN /\ valid \in BOOLEAN
  /\ mem \in [0..(Capacity - 1) -> Octet]
  /\ taken \in Seq(Octet) /\ Len(taken) <= Capacity
Verdicts ==
  /\ good => state \in {"ACK", "DRAIN", "RUN"}
  /\ state = "RUN" => valid
  /\ valid \/ good => Described
BoardOK == BoardTypes /\ TakingPayload /\ Holds(taken) /\ Verdicts

LEMMA Parts ==
  /\ UploadInv <=> HostOK /\ BoardOK
  /\ UploadInv' <=> HostOK' /\ BoardOK'
BY DEF UploadInv, UploadTypeOK, HostOK, BoardOK, BoardTypes, Verdicts

LEMMA MemoryType == Capacity \in Nat \ {0} /\ BakedByte \in Octet /\ Len(Magic) \in Nat \ {0}
<1>1. Capacity \in Nat \ {0} /\ BakedByte \in Octet
  BY UploadAssumption, ValuesType
<1>2. Len(Magic) \in Nat \ {0}
  BY UploadAssumption
<1>. QED BY <1>1, <1>2

LEMMA BoardAlone ==
  ASSUME BoardOK, UNCHANGED <<lvars, valid, ivars>>
  PROVE  BoardOK'
BY DEF BoardOK, BoardTypes, TakingPayload, Holds, Verdicts, Described, Baked, lvars, ivars

LEMMA HostAlone ==
  ASSUME HostOK, UNCHANGED <<hvars, wire>>
  PROVE  HostOK'
BY DEF HostOK, HostInFrame, hvars

(* Taking a byte from the line leaves bytes on it. *)
LEMMA TakeByte ==
  ASSUME wire \in Seq(Octet), wire # << >>
  PROVE  Head(wire) \in Octet /\ Tail(wire) \in Seq(Octet)
OBVIOUS

LEMMA HostTakes ==
  ASSUME HostOK, UNCHANGED hvars, wire # << >>, wire' = Tail(wire)
  PROVE  HostOK'
<1>1. wire' \in Seq(Octet)
  BY TakeByte DEF HostOK
<1>. QED BY <1>1 DEF HostOK, HostInFrame, hvars

LEMMA InitUploadInv == UploadInit => UploadInv
<1>. SUFFICES ASSUME UploadInit PROVE HostOK /\ BoardOK
  BY Parts
<1>1. << >> \in Seq(Octet) /\ Len(<< >>) = 0
  OBVIOUS
<1>2. HostOK
  BY <1>1 DEF UploadInit, HostOK, HostInFrame
<1>3. BoardTypes
  <2>1. /\ 0 \in 0..(Len(Magic) - 1) /\ 0 \in 0..Capacity /\ 0 \in 0..(Values - 1)
        /\ 0 < Width /\ 0 \in Nat /\ 0 <= Capacity
    BY Constants, ValuesType, MemoryType
  <2>2. mem \in [0..(Capacity - 1) -> Octet]
    BY MemoryType DEF UploadInit
  <2>. QED BY <1>1, <2>1, <2>2 DEF UploadInit, BoardTypes
<1>4. TakingPayload /\ Holds(taken)
  BY <1>1 DEF UploadInit, TakingPayload, Holds
<1>5. Verdicts
  BY <1>1, SumOfNothing DEF UploadInit, Verdicts, Described, Baked
<1>. QED BY <1>2, <1>3, <1>4, <1>5 DEF BoardOK

----------------------------------------------------------------------------
(* The host's steps write bytes and leave the board alone. *)
LEMMA OpenOK == ASSUME HostOK, NEW img \in Images, Open(img) PROVE HostOK'
<1>1. img \in Seq(Octet)
  BY UploadAssumption
<1>. QED BY <1>1 DEF HostOK, HostInFrame, Open

LEMMA ReadOK == ASSUME HostOK, Read PROVE HostOK'
<1>1. \A img \in Images : Len(Frame(img)) > 0
  BY FrameType
<1>2. /\ host'.img = host.img /\ host'.sent = host.sent /\ wire' = wire
      /\ host'.at \in {host.at, "send", "done", "rejected"}
      /\ host'.at = "send" => host.at = "greet"
      /\ host' \in [at : {"off", "greet", "send", "ack", "done", "rejected", "gave_up"},
                    img : Seq(Octet), sent : Nat]
  BY DEF HostOK, Read
<1>3. HostInFrame /\ wire \in Seq(Octet)
  BY DEF HostOK
<1>4. HostInFrame'
  <2>1. CASE host'.at = "send"
    BY <1>1, <1>2, <1>3, <2>1 DEF HostInFrame
  <2>2. CASE host'.at # "send"
    BY <1>2, <1>3, <2>2 DEF HostInFrame
  <2>. QED BY <2>1, <2>2
<1>5. wire' \in Seq(Octet)
  BY <1>2, <1>3, Zenon
<1>. QED BY <1>2, <1>4, <1>5, Zenon DEF HostOK

LEMMA SentOK ==
  ASSUME HostOK, host.at = "send", Sent, wire' \in Seq(Octet)
  PROVE  HostOK'
<1>1. Len(Frame(host.img)) \in Nat /\ host.sent < Len(Frame(host.img))
  BY FrameType DEF HostOK, HostInFrame
<1>. DEFINE place == IF host.sent + 1 = Len(Frame(host.img)) THEN "ack" ELSE "send"
<1>2. /\ host'.img = host.img /\ host'.sent = host.sent + 1 /\ host.sent \in Nat
      /\ host'.at = place
      /\ host' \in [at : {"off", "greet", "send", "ack", "done", "rejected", "gave_up"},
                    img : Seq(Octet), sent : Nat]
  <2>1. place \in {"ack", "send"} /\ host' = [host EXCEPT !.sent = @ + 1, !.at = place]
    BY DEF Sent
  <2>2. place \in {"off", "greet", "send", "ack", "done", "rejected", "gave_up"}
    BY <2>1
  <2>. HIDE DEF place
  <2>3. host.img \in Seq(Octet) /\ host.sent \in Nat /\ host.sent + 1 \in Nat
    BY DEF HostOK
  <2>4. host' = [at |-> place, img |-> host.img, sent |-> host.sent + 1]
    BY <2>1 DEF HostOK
  <2>. QED BY <2>2, <2>3, <2>4
<1>3. host.img \in Images
  BY DEF HostOK, HostInFrame
<1>4. HostInFrame'
  BY <1>1, <1>2, <1>3 DEF HostInFrame
<1>. QED BY <1>2, <1>4, Zenon DEF HostOK

LEMMA HostSteps ==
  ASSUME UploadInv,
         (\E img \in Images : Open(img)) \/ Read \/ Write \/ Disturb \/ GiveUp
  PROVE  UploadInv'
<1>. HostOK /\ BoardOK
  BY Parts
<1>1. ASSUME NEW img \in Images, Open(img) PROVE HostOK' /\ UNCHANGED <<lvars, valid, ivars>>
  BY <1>1, OpenOK DEF Open
<1>2. CASE Read
  BY <1>2, ReadOK, BoardAlone, Parts DEF Read
<1>3. ASSUME host.at = "send" PROVE Frame(host.img)[host.sent + 1] \in Octet
  <2>1. host.img \in Images /\ host.sent \in Nat /\ host.sent < Len(Frame(host.img))
    BY <1>3 DEF HostOK, HostInFrame
  <2>2. Frame(host.img) \in Seq(Octet)
    BY <2>1, FrameType
  <2>. QED BY <2>1, <2>2
<1>4. CASE Write
  <2>1. wire' \in Seq(Octet)
    BY <1>3, <1>4 DEF Write, HostOK
  <2>. QED BY <1>4, <2>1, SentOK, BoardAlone, Parts DEF Write
<1>5. CASE Disturb
  <2>1. wire' = wire \/ \E b \in Octet : wire' = Append(wire, b)
    BY <1>5 DEF Disturb
  <2>2. wire \in Seq(Octet)
    BY DEF HostOK
  <2>3. \A b \in Octet : Append(wire, b) \in Seq(Octet)
    BY <2>2
  <2>4. wire' \in Seq(Octet)
    BY <2>1, <2>2, <2>3, Zenon
  <2>. QED BY <1>5, <2>4, SentOK, BoardAlone, Parts DEF Disturb
<1>6. CASE GiveUp
  <2>1. HostOK'
    BY <1>6 DEF GiveUp, HostOK, HostInFrame
  <2>. QED BY <1>6, <2>1, BoardAlone, Parts DEF GiveUp
<1>. QED BY <1>1, <1>2, <1>4, <1>5, <1>6, BoardAlone, Parts

----------------------------------------------------------------------------
(* The board's steps.  Most of them leave the memory alone. *)
LEMMA SameImage ==
  ASSUME UNCHANGED ivars
  PROVE  (Holds(taken) => Holds(taken)') /\ (Described => Described')
BY DEF ivars, Holds, Described, Baked

LEMMA ResetOK == ASSUME UploadInv, Reset PROVE UploadInv'
<1>. HostOK /\ BoardOK
  BY Parts
<1>1. PICK k \in 0..Len(wire) : wire' = SubSeq(wire, k + 1, Len(wire))
  BY DEF Reset
<1>2. wire' \in Seq(Octet)
  BY <1>1 DEF HostOK
<1>3. HostOK'
  BY <1>2 DEF Reset, HostOK, HostInFrame, hvars
<1>4. << >> \in Seq(Octet) /\ Len(<< >>) = 0
  OBVIOUS
<1>5. BoardTypes'
  <2>1. /\ 0 \in 0..(Len(Magic) - 1) /\ 0 \in 0..Capacity /\ 0 \in 0..(Values - 1)
        /\ 0 < Width /\ 0 \in Nat
    BY Constants, ValuesType, MemoryType
  <2>2. /\ mem \in [0..(Capacity - 1) -> Octet] /\ valid \in BOOLEAN
        /\ taken \in Seq(Octet) /\ Len(taken) <= Capacity
    BY DEF BoardOK, BoardTypes
  <2>. QED BY <1>4, <2>1, <2>2 DEF Reset, BoardTypes, ivars
<1>6. TakingPayload' /\ Verdicts'
  BY SameImage DEF Reset, TakingPayload, BoardOK, Verdicts
<1>7. Holds(taken)'
  BY SameImage DEF Reset, BoardOK
<1>. QED BY <1>3, <1>5, <1>6, <1>7, Parts DEF BoardOK

LEMMA AnswerOK == ASSUME UploadInv, Hello \/ Acknowledge \/ Drain PROVE UploadInv'
<1>. HostOK /\ BoardOK
  BY Parts
<1>1. HostOK' /\ Holds(taken)'
  BY HostAlone, SameImage DEF Hello, Acknowledge, Drain, BoardOK
<1>2. BoardTypes'
  BY DEF Hello, Acknowledge, Drain, BoardOK, BoardTypes, ivars
<1>3. TakingPayload'
  BY DEF Hello, Acknowledge, Drain, BoardOK, TakingPayload, ivars
<1>4. Verdicts'
  BY SameImage DEF Hello, Acknowledge, Drain, BoardOK, BoardTypes, Verdicts
<1>. QED BY <1>1, <1>2, <1>3, <1>4, Parts DEF BoardOK

LEMMA HeaderOK == ASSUME UploadInv, Header \/ NoHeader PROVE UploadInv'
<1>. HostOK /\ BoardOK
  BY Parts
<1>1. HostOK'
  BY HostAlone, HostTakes DEF Header, NoHeader, hvars
<1>2. Holds(taken)'
  BY SameImage DEF Header, NoHeader, BoardOK
<1>3. pos' \in 0..(Len(Magic) - 1)
  <2>1. \A p \in 0..Len(Magic) : p % Len(Magic) \in 0..(Len(Magic) - 1)
    BY MemoryType
  <2>2. \A b : Matched(b) \in 0..Len(Magic)
    BY MemoryType DEF Matched, BoardOK, BoardTypes
  <2>. QED BY <2>1, <2>2 DEF Header, NoHeader, BoardOK, BoardTypes
<1>4. /\ state' \in {"MAGIC", "LENGTH", "RUN", "ACK"} /\ good' \in {good, FALSE}
      /\ state' = "ACK" => good' = FALSE
      /\ state' = "RUN" => valid
      /\ state = "MAGIC"
      /\ UNCHANGED <<field, length, offset, sum, valid, ivars>>
  BY DEF Header, NoHeader, BootTimeout, BoardOK, Verdicts
<1>5. BoardTypes'
  BY <1>3, <1>4 DEF BoardOK, BoardTypes, ivars
<1>6. TakingPayload'
  BY <1>4 DEF BoardOK, TakingPayload, ivars
<1>7. Verdicts'
  <2>1. good = FALSE
    BY <1>4 DEF BoardOK, BoardTypes, Verdicts
  <2>2. good' = FALSE /\ valid' = valid
    BY <1>4, <2>1
  <2>3. valid => Described'
    BY <1>4, SameImage DEF BoardOK, Verdicts
  <2>. QED BY <1>4, <2>2, <2>3 DEF Verdicts
<1>. QED BY <1>1, <1>2, <1>5, <1>6, <1>7, Parts DEF BoardOK

(* A frame that breaks off is rejected. *)
LEMMA SilenceOK == ASSUME UploadInv, Silence PROVE UploadInv'
<1>. HostOK /\ BoardOK
  BY Parts
<1>1. HostOK' /\ Holds(taken)'
  BY HostAlone, SameImage DEF Silence, BoardOK
<1>2. BoardTypes' /\ TakingPayload'
  BY DEF Silence, BoardOK, BoardTypes, TakingPayload, ivars
<1>3. Verdicts'
  BY SameImage DEF Silence, BoardOK, Verdicts
<1>. QED BY <1>1, <1>2, <1>3, Parts DEF BoardOK

LEMMA RunningOK == ASSUME UploadInv, Ignore \/ PrintOut PROVE UploadInv'
<1>. HostOK /\ BoardOK
  BY Parts
<1>1. HostOK'
  BY HostAlone, HostTakes DEF Ignore, PrintOut
<1>2. BoardOK'
  BY BoardAlone DEF Ignore, PrintOut
<1>. QED BY <1>1, <1>2, Parts

(* A field is taken byte by byte. *)
LEMMA FieldGrows ==
  ASSUME BoardOK, NEW b \in Octet
  PROVE  Append(field, b) \in Seq(Octet) /\ Number(Append(field, b)) \in Nat
<1>1. Append(field, b) \in Seq(Octet)
  BY DEF BoardOK, BoardTypes
<1>. QED BY <1>1, NumberType

(* The length is taken only if the image fits. *)
LEMMA LengthOK == ASSUME UploadInv, Length PROVE UploadInv'
<1>. HostOK /\ BoardOK
  BY Parts
<1>1. /\ state = "LENGTH" /\ wire # << >> /\ wire' = Tail(wire)
      /\ UNCHANGED <<hvars, pos, offset, sum, valid, ivars>>
  BY DEF Length, Take
<1>2. HostOK' /\ Holds(taken)'
  BY <1>1, HostTakes, SameImage DEF BoardOK
<1>. DEFINE f == Append(field, Head(wire))
<1>3. f \in Seq(Octet) /\ Number(f) \in Nat
  BY <1>1, TakeByte, FieldGrows DEF HostOK
<1>4. good = FALSE /\ offset = 0 /\ sum = 0
  BY <1>1 DEF BoardOK, BoardTypes, Verdicts, TakingPayload
<1>5. /\ IF Len(f) < Width
         THEN field' = f /\ UNCHANGED <<state, length, good>>
         ELSE /\ field' = << >> /\ length' = Number(f)
              /\ state' = IF Accepts(Number(f)) THEN "PAYLOAD" ELSE "ACK"
              /\ good' = FALSE
  BY DEF Length
<1>. HIDE DEF f
<1>6. /\ field' \in Seq(Octet) /\ Len(field') < Width
      /\ length' \in Nat /\ good' = FALSE
      /\ state' \in {"LENGTH", "PAYLOAD", "ACK"}
      /\ state' = "PAYLOAD" => length' \in 1..Capacity
  <2>1. << >> \in Seq(Octet) /\ Len(<< >>) = 0
    OBVIOUS
  <2>2. length \in Nat
    BY DEF BoardOK, BoardTypes
  <2>3. CASE Len(f) < Width
    BY <1>1, <1>3, <1>4, <1>5, <2>2, <2>3
  <2>4. CASE ~(Len(f) < Width)
    <3>1. Accepts(Number(f)) => Number(f) \in 1..Capacity
      BY <1>3, MemoryType DEF Accepts
    <3>. QED BY <1>3, <1>5, <2>1, <2>4, <3>1, Constants
  <2>. QED BY <2>3, <2>4
<1>7. BoardTypes'
  BY <1>1, <1>6 DEF BoardOK, BoardTypes, ivars
<1>8. TakingPayload'
  BY <1>1, <1>4, <1>6 DEF TakingPayload
<1>9. Verdicts'
  <2>1. valid' => Described'
    BY <1>1, SameImage DEF BoardOK, Verdicts
  <2>. QED BY <1>6, <2>1 DEF Verdicts
<1>. QED BY <1>2, <1>7, <1>8, <1>9, Parts DEF BoardOK

(* A byte of the payload goes behind the bytes before it, and the sum over *)
(* them goes on.                                                           *)
LEMMA PayloadOK == ASSUME UploadInv, Payload PROVE UploadInv'
<1>. HostOK /\ BoardOK
  BY Parts
<1>. DEFINE b == Head(wire)
<1>1. /\ state = "PAYLOAD" /\ wire # << >> /\ wire' = Tail(wire)
      /\ mem' = [mem EXCEPT ![offset] = b] /\ valid' = FALSE
      /\ taken' = IF offset = 0 THEN <<b>> ELSE Append(taken, b)
      /\ offset' = offset + 1 /\ sum' = (sum + b) % Values
      /\ state' = IF offset = length - 1 THEN "CHECKSUM" ELSE state
      /\ UNCHANGED <<hvars, pos, field, length, good, frame>>
  BY DEF Payload, Take, LastByte
<1>2. b \in Octet /\ b \in Nat
  BY <1>1, TakeByte, Constants DEF HostOK
<1>. HIDE DEF b
<1>3. HostOK'
  BY <1>1, HostTakes
<1>4. /\ good = FALSE /\ length \in 1..Capacity /\ offset \in Nat /\ offset < length
      /\ offset = 0 => sum = 0
      /\ offset > 0 => offset = Len(taken) /\ sum = SumOf(taken)
      /\ sum \in Nat /\ Capacity \in Nat /\ taken \in Seq(Octet)
  BY <1>1, MemoryType, ValuesType DEF BoardOK, BoardTypes, Verdicts, TakingPayload
<1>5. /\ taken' \in Seq(Octet) /\ Len(taken') = offset + 1 /\ taken'[offset + 1] = b
      /\ \A i \in 1..offset : taken'[i] = taken[i]
      /\ sum' = SumOf(taken')
  <2>1. CASE offset = 0
    <3>1. taken' = <<b>> /\ sum' = (0 + b) % Values
      BY <1>1, <1>4, <2>1
    <3>2. <<b>> = Append(<< >>, b) /\ << >> \in Seq(Octet)
      OBVIOUS
    <3>3. SumOf(<<b>>) = (0 + b) % Values
      BY <1>2, <3>2, SumExtends, SumOfNothing
    <3>4. <<b>> \in Seq(Octet) /\ Len(<<b>>) = 1 /\ <<b>>[1] = b
      BY <1>2
    <3>. QED BY <2>1, <3>1, <3>3, <3>4
  <2>2. CASE offset # 0
    <3>1. offset = Len(taken) /\ sum = SumOf(taken) /\ taken' = Append(taken, b)
      BY <1>1, <1>4, <2>2
    <3>2. /\ Append(taken, b) \in Seq(Octet) /\ Len(Append(taken, b)) = Len(taken) + 1
          /\ Append(taken, b)[Len(taken) + 1] = b
          /\ \A i \in 1..Len(taken) : Append(taken, b)[i] = taken[i]
      BY <1>2, <1>4
    <3>3. SumOf(Append(taken, b)) = (SumOf(taken) + b) % Values
      BY <1>2, <1>4, SumExtends
    <3>. QED BY <1>1, <3>1, <3>2, <3>3
  <2>. QED BY <2>1, <2>2
<1>6. offset \in 0..(Capacity - 1) /\ mem \in [0..(Capacity - 1) -> Octet]
  BY <1>4 DEF BoardOK, BoardTypes
<1>7. Holds(taken)'
  <2>. SUFFICES ASSUME NEW i \in 1..(offset + 1) PROVE mem'[i - 1] = taken'[i]
    BY <1>5 DEF Holds
  <2>1. CASE i = offset + 1
    BY <1>1, <1>4, <1>5, <1>6, <2>1
  <2>2. CASE i # offset + 1
    <3>1. i \in 1..offset /\ offset > 0
      BY <1>4, <2>2
    <3>2. mem[i - 1] = taken[i]
      BY <1>4, <3>1 DEF BoardOK, Holds
    <3>3. mem'[i - 1] = mem[i - 1]
      BY <1>1, <1>4, <1>6, <3>1
    <3>. QED BY <1>5, <3>1, <3>2, <3>3
  <2>. QED BY <2>1, <2>2
<1>8. BoardTypes'
  <2>1. mem' \in [0..(Capacity - 1) -> Octet]
    BY <1>1, <1>2, <1>6
  <2>2. sum' \in 0..(Values - 1)
    BY <1>1, <1>2, <1>4, ValuesType
  <2>3. offset' \in 0..Capacity /\ Len(taken') <= Capacity
    BY <1>1, <1>4, <1>5
  <2>4. /\ pos \in 0..(Len(Magic) - 1) /\ field \in Seq(Octet) /\ Len(field) < Width
        /\ length \in Nat /\ good \in BOOLEAN
    BY DEF BoardOK, BoardTypes
  <2>. QED BY <1>1, <1>5, <2>1, <2>2, <2>3, <2>4 DEF BoardTypes
<1>9. TakingPayload'
  <2>1. taken' # << >>
    BY <1>4, <1>5
  <2>. QED BY <1>1, <1>4, <1>5, <2>1 DEF TakingPayload
<1>10. Verdicts'
  BY <1>1, <1>4 DEF Verdicts
<1>. QED BY <1>3, <1>7, <1>8, <1>9, <1>10, Parts DEF BoardOK

(* The verdict compares the checksum with the sum of all that was taken.   *)
LEMMA ChecksumOK == ASSUME UploadInv, Checksum PROVE UploadInv'
<1>. HostOK /\ BoardOK
  BY Parts
<1>. DEFINE f == Append(field, Head(wire))
<1>1. /\ state = "CHECKSUM" /\ wire # << >> /\ wire' = Tail(wire)
      /\ UNCHANGED <<hvars, pos, length, offset, sum, valid, mem, taken>>
      /\ IF Len(f) < Width
         THEN field' = f /\ UNCHANGED <<state, good, frame>>
         ELSE /\ field' = << >> /\ state' = "ACK" /\ good' = (Number(f) = sum)
              /\ frame' = IF Number(f) = sum THEN <<length, Number(f)>> ELSE frame
  BY DEF Checksum, Take, GoodSum
<1>2. f \in Seq(Octet)
  BY <1>1, TakeByte, FieldGrows DEF HostOK
<1>. HIDE DEF f
<1>3. HostOK'
  BY <1>1, HostTakes
<1>4. /\ good = FALSE /\ length = Len(taken) /\ taken # << >> /\ sum = SumOf(taken)
  BY <1>1 DEF BoardOK, BoardTypes, Verdicts, TakingPayload
<1>5. Holds(taken)'
  BY <1>1 DEF BoardOK, Holds
<1>6. /\ field' \in Seq(Octet) /\ Len(field') < Width
      /\ state' \in {"CHECKSUM", "ACK"} /\ good' \in BOOLEAN
      /\ good' => state' = "ACK" /\ frame' = <<length, sum>>
      /\ ~good' => frame' = frame
  <2>1. << >> \in Seq(Octet) /\ Len(<< >>) = 0
    OBVIOUS
  <2>2. CASE Len(f) < Width
    BY <1>1, <1>2, <1>4, <2>2
  <2>3. CASE ~(Len(f) < Width)
    <3>1. field' \in Seq(Octet) /\ Len(field') < Width
      BY <1>1, <2>1, <2>3, Constants
    <3>2. state' = "ACK" /\ good' = (Number(f) = sum)
          /\ frame' = IF Number(f) = sum THEN <<length, Number(f)>> ELSE frame
      BY <1>1, <2>3
    <3>3. CASE Number(f) = sum
      <4>1. good' = TRUE /\ frame' = <<length, sum>>
        BY <3>2, <3>3, Zenon
      <4>. QED BY <3>1, <3>2, <4>1
    <3>4. CASE Number(f) # sum
      <4>1. good' = FALSE /\ frame' = frame
        BY <3>2, <3>4, Zenon
      <4>. QED BY <3>1, <3>2, <4>1
    <3>. QED BY <3>3, <3>4
  <2>. QED BY <2>2, <2>3
<1>7. BoardTypes'
  BY <1>1, <1>6 DEF BoardOK, BoardTypes
<1>8. TakingPayload'
  BY <1>1, <1>4, <1>6 DEF TakingPayload
<1>9. Verdicts'
  <2>1. CASE good'
    <3>1. Described'
      BY <1>1, <1>4, <1>6, <2>1 DEF Described
    <3>. QED BY <1>6, <2>1, <3>1 DEF Verdicts
  <2>2. CASE ~good'
    <3>1. Described => Described'
      BY <1>1, <1>6, <2>2 DEF Described, Baked
    <3>. QED BY <1>1, <1>6, <2>2, <3>1 DEF Verdicts, BoardOK
  <2>. QED BY <2>1, <2>2
<1>. QED BY <1>3, <1>5, <1>7, <1>8, <1>9, Parts DEF BoardOK

----------------------------------------------------------------------------
LEMMA UploadInvInductive == UploadInv /\ [UploadNext]_uvars => UploadInv'
<1>1. ASSUME UploadInv, UNCHANGED uvars PROVE UploadInv'
  <2>. HostOK /\ BoardOK
    BY <1>1, Parts
  <2>1. HostOK' /\ BoardOK'
    BY <1>1, HostAlone, BoardAlone DEF uvars
  <2>. QED BY <2>1, Parts
<1>. QED BY <1>1, HostSteps, ResetOK, AnswerOK, HeaderOK, SilenceOK, RunningOK, LengthOK,
            PayloadOK, ChecksumOK
         DEF UploadNext, Loader

LEMMA UploadInvariant == UploadSpec => []UploadInv
BY InitUploadInv, UploadInvInductive, PTL DEF UploadSpec

(* Type correctness of both ends: no byte is written past the memory, and  *)
(* the fields never grow past their width.                                 *)
THEOREM UploadTypes == UploadSpec => []UploadTypeOK
<1>1. UploadInv => UploadTypeOK
  BY DEF UploadInv
<1>. QED BY <1>1, UploadInvariant, PTL

(* The core runs the configured memory or the whole payload of a frame     *)
(* that passed its checks, whatever the line lost, changed or delayed and  *)
(* however uploads were interrupted.                                       *)
THEOREM NeverBootsPartialImage == UploadSpec => []RunsCheckedImage
<1>1. UploadInv => RunsCheckedImage
  BY DEF UploadInv, RunsCheckedImage, Described
<1>. QED BY <1>1, UploadInvariant, PTL

----------------------------------------------------------------------------
(* What the line carries of an undisturbed upload. *)
Undisturbed == host.img \in Images /\ Taken /\ Turn

LEMMA LineTypes ==
  ASSUME UploadInv
  PROVE  /\ wire \in Seq(Octet) /\ Len(wire) \in Nat /\ host.sent \in Nat
         /\ pos \in Nat /\ pos < Len(Magic) /\ field \in Seq(Octet) /\ Len(field) \in Nat
         /\ Len(field) < Width /\ offset \in Nat /\ taken \in Seq(Octet)
         /\ Len(Magic) \in Nat \ {0} /\ Width \in Nat \ {0}
<1>1. HostOK /\ BoardOK
  BY Parts
<1>2. /\ wire \in Seq(Octet) /\ host.sent \in Nat /\ field \in Seq(Octet)
      /\ Len(field) < Width /\ taken \in Seq(Octet)
      /\ pos \in 0..(Len(Magic) - 1) /\ offset \in 0..Capacity
  BY <1>1 DEF HostOK, BoardOK, BoardTypes
<1>3. Len(wire) \in Nat /\ Len(field) \in Nat
  BY <1>2
<1>. QED BY <1>2, <1>3, MemoryType, Constants

LEMMA ImageTypes ==
  ASSUME NEW img \in Images
  PROVE  /\ img \in Seq(Octet) /\ Len(img) \in 1..Capacity /\ Len(img) \in Nat
         /\ Len(img) < Values /\ SumOf(img) \in Nat /\ SumOf(img) < Values
<1>1. img \in Seq(Octet) /\ Len(img) \in 1..Capacity /\ Capacity \in 1..(Values - 1)
  BY UploadAssumption
<1>2. PICK g : g \in [0..Len(img) -> Nat] /\ SumOf(img) = g[Len(img)] % Values
  BY <1>1, Totals
<1>3. g[Len(img)] \in Nat
  BY <1>1, <1>2
<1>4. SumOf(img) \in Nat /\ SumOf(img) < Values
  BY <1>2, <1>3, ValuesType
<1>. QED BY <1>1, <1>4, ValuesType

LEMMA TakesNext ==
  ASSUME wire \in Seq(Octet), wire # << >>, wire' = Tail(wire), UNCHANGED hvars,
         host.sent \in Nat, NEW n \in Nat, Arriving(n, 0)
  PROVE  /\ Head(wire) = Frame(host.img)[n + 1] /\ n + 1 <= host.sent
         /\ Arriving(n + 1, 0)'
<1>0. PICK S \in Nat : S = host.sent
  OBVIOUS
<1>1. PICK F : F = Frame(host.img) /\ S = host.sent
  BY <1>0
<1>2. host' = host
  BY DEF hvars
<1>3. /\ n <= S /\ Len(wire) = S - n
      /\ \A i \in 1..(S - n) : wire[0 + i] = F[n + i]
  BY <1>1 DEF Arriving
<1>4. /\ Len(wire) > 0 /\ Len(wire') = Len(wire) - 1 /\ Head(wire) = wire[1]
      /\ \A i \in 1..(Len(wire) - 1) : wire'[i] = wire[i + 1]
  OBVIOUS
<1>5. n + 1 <= S /\ Head(wire) = F[n + 1]
  BY <1>3, <1>4
<1>6. /\ n + 1 <= S /\ Len(wire') = 0 + S - (n + 1)
      /\ \A i \in 1..(S - (n + 1)) : wire'[0 + i] = F[(n + 1) + i]
  BY <1>3, <1>4, <1>5
<1>. QED BY <1>1, <1>2, <1>5, <1>6 DEF Arriving

LEMMA TakesLeft ==
  ASSUME wire \in Seq(Octet), wire' = Tail(wire), UNCHANGED hvars,
         host.sent \in Nat, NEW k \in Nat, k > 0, Arriving(0, k)
  PROVE  /\ wire # << >> /\ k - 1 \in 0..Len(wire') /\ k <= Len(wire)
         /\ Arriving(0, k - 1)'
         /\ \A i \in 1..(k - 1) : wire'[i] = wire[i + 1]
<1>0. PICK S \in Nat : S = host.sent
  OBVIOUS
<1>1. PICK F : F = Frame(host.img) /\ S = host.sent
  BY <1>0
<1>2. host' = host
  BY DEF hvars
<1>3. /\ Len(wire) = k + S
      /\ \A i \in 1..S : wire[k + i] = F[0 + i]
  BY <1>1 DEF Arriving
<1>4. /\ Len(wire) > 0 /\ Len(wire') = Len(wire) - 1
      /\ \A i \in 1..(Len(wire) - 1) : wire'[i] = wire[i + 1]
  BY <1>3
<1>5. /\ Len(wire') = (k - 1) + S - 0
      /\ \A i \in 1..(S - 0) : wire'[(k - 1) + i] = F[0 + i]
  BY <1>3, <1>4
<1>. QED BY <1>1, <1>2, <1>3, <1>4, <1>5 DEF Arriving

LEMMA WritesNext ==
  ASSUME wire \in Seq(Octet), host.sent \in Nat,
         wire' = Append(wire, Frame(host.img)[host.sent + 1]),
         host'.sent = host.sent + 1, host'.img = host.img,
         NEW n \in Nat, NEW k \in Nat, Arriving(n, k)
  PROVE  Arriving(n, k)'
<1>0. PICK S \in Nat : S = host.sent
  OBVIOUS
<1>1. PICK F : F = Frame(host.img) /\ S = host.sent
  BY <1>0
<1>2. /\ n <= S /\ Len(wire) = k + S - n
      /\ \A i \in 1..(S - n) : wire[k + i] = F[n + i]
  BY <1>1 DEF Arriving
<1>3. /\ Len(wire') = Len(wire) + 1 /\ wire'[Len(wire) + 1] = F[S + 1]
      /\ \A i \in 1..Len(wire) : wire'[i] = wire[i]
  BY <1>1
<1>4. ASSUME NEW i \in 1..(S + 1 - n) PROVE wire'[k + i] = F[n + i]
  <2>1. CASE i = S + 1 - n
    <3>1. k + i = Len(wire) + 1 /\ n + i = S + 1
      BY <1>2, <2>1
    <3>. QED BY <1>3, <3>1
  <2>2. CASE i # S + 1 - n
    <3>1. i \in 1..(S - n) /\ k + i \in 1..Len(wire)
      BY <1>2, <2>2
    <3>. QED BY <1>2, <1>3, <3>1
  <2>. QED BY <2>1, <2>2
<1>5. n <= S + 1 /\ Len(wire') = k + (S + 1) - n
  BY <1>2, <1>3
<1>6. host'.sent = S + 1 /\ Frame(host'.img) = F
  BY <1>1
<1>7. /\ n <= host'.sent /\ Len(wire') = k + host'.sent - n
      /\ \A i \in 1..(host'.sent - n) : wire'[k + i] = Frame(host'.img)[n + i]
  <2>1. n <= host'.sent /\ Len(wire') = k + host'.sent - n
    BY <1>5, <1>6
  <2>2. 1..(host'.sent - n) = 1..(S + 1 - n)
    BY <1>6
  <2>. QED BY <1>4, <1>6, <2>1, <2>2
<1>. QED BY <1>7 DEF Arriving

(* What is left on the line goes by without completing a header, and the   *)
(* frame's own header is found behind it.                                  *)
LEMMA HeaderTaken ==
  ASSUME UploadInv, Undisturbed, Header, clean'
  PROVE  Taken'
<1>. DEFINE L == Len(Magic)
            b == Head(wire)
            p == Matched(b)
<1>1. /\ wire \in Seq(Octet) /\ host.sent \in Nat /\ pos \in Nat /\ pos < L /\ L \in Nat \ {0}
      /\ host.img \in Images
  BY LineTypes DEF Undisturbed
<1>2. /\ state = "MAGIC" /\ wire # << >> /\ wire' = Tail(wire) /\ pos' = p % L
      /\ state' = IF p = L THEN "LENGTH" ELSE "MAGIC"
      /\ UNCHANGED <<hvars, field>> /\ field = << >>
  BY DEF Header, Undisturbed, Taken
<1>3. b = wire[1] /\ p = IF b = Magic[pos + 1] THEN pos + 1 ELSE IF b = Magic[1] THEN 1 ELSE 0
  BY <1>1, <1>2 DEF Matched
<1>4. \A i \in 1..L : Frame(host.img)[i] = Magic[i]
  BY <1>1, FrameParts
<1>5. \A i \in 2..L : Magic[i] # Magic[1]
  BY UploadAssumption
<1>6. host' = host /\ DOMAIN Magic = 1..L
  <2>1. Magic \in Seq(Octet)
    BY UploadAssumption
  <2>. QED BY <1>2, <2>1 DEF hvars
<1>. HIDE DEF L, b, p
<1>7. CASE Arriving(pos, 0)
  <2>0. PICK P \in Nat : P = pos
    BY <1>1
  <2>1. b = Frame(host.img)[P + 1] /\ Arriving(P + 1, 0)'
    BY <1>1, <1>2, <1>7, <2>0, TakesNext DEF b
  <2>2. p = P + 1
    BY <1>1, <1>3, <1>4, <2>0, <2>1
  <2>3. CASE pos + 1 = L
    <3>1. state' = "LENGTH" /\ Len(field') = 0 /\ P + 1 = L + 0
      BY <1>1, <1>2, <2>0, <2>2, <2>3
    <3>2. Arriving(L + Len(field), 0)'
      BY <2>1, <3>1 DEF Arriving, L
    <3>. QED BY <3>1, <3>2 DEF Taken, FieldBegins, L
  <2>4. CASE pos + 1 # L
    <3>1. state' = "MAGIC" /\ pos' = P + 1 /\ field' = << >>
      BY <1>1, <1>2, <2>0, <2>2, <2>4
    <3>2. Arriving(pos, 0)'
      BY <2>1, <3>1 DEF Arriving
    <3>. QED BY <3>1, <3>2 DEF Taken
  <2>. QED BY <2>3, <2>4
<1>8. ASSUME NEW k \in 0..Len(wire), Arriving(0, k), NoHeaderLeft(k), ~Arriving(pos, 0) PROVE Taken'
  <2>1. k \in Nat /\ (k = 0 => pos # 0)
    BY <1>8, <1>1
  <2>2. CASE k = 0
    <3>1. b = Frame(host.img)[1] /\ Arriving(1, 0)'
      <4>1. Arriving(0, 0)
        BY <1>8, <2>2
      <4>. QED BY <1>1, <1>2, <4>1, TakesNext DEF b
    <3>2. p = 1 /\ L > 1
      BY <1>1, <1>3, <1>4, <1>5, <2>1, <2>2, <3>1
    <3>3. state' = "MAGIC" /\ pos' = 1 /\ field' = << >>
      BY <1>1, <1>2, <3>2
    <3>4. Arriving(pos, 0)'
      BY <3>1, <3>3 DEF Arriving
    <3>. QED BY <3>3, <3>4 DEF Taken
  <2>3. CASE k # 0
    <3>1. /\ k - 1 \in 0..Len(wire') /\ k <= Len(wire) /\ Arriving(0, k - 1)'
          /\ \A i \in 1..(k - 1) : wire'[i] = wire[i + 1]
      BY <1>1, <1>2, <1>8, <2>1, <2>3, TakesLeft
    <3>2. /\ \A i \in 0..(k - L) : \E j \in 1..L : wire[i + j] # Magic[j]
          /\ k >= L - pos => \E j \in (pos + 1)..L : wire[j - pos] # Magic[j]
      BY <1>6, <1>8 DEF NoHeaderLeft, L
    <3>3. p # L
      <4>1. CASE b = Magic[pos + 1]
        <5>1. p = pos + 1
          BY <1>3, <4>1
        <5>2. ASSUME pos + 1 = L PROVE FALSE
          <6>1. k >= L - pos
            BY <1>1, <2>1, <2>3, <5>2
          <6>2. PICK j \in (pos + 1)..L : wire[j - pos] # Magic[j]
            BY <3>2, <6>1
          <6>3. j = pos + 1 /\ j - pos = 1
            BY <1>1, <5>2, <6>2
          <6>. QED BY <1>3, <4>1, <6>2, <6>3
        <5>. QED BY <5>1, <5>2
      <4>2. CASE b # Magic[pos + 1]
        <5>1. b = Magic[1] => pos # 0
          BY <4>2
        <5>2. b = Magic[1] => p = 1 /\ L > 1
          BY <1>1, <1>3, <4>2, <5>1
        <5>3. b # Magic[1] => p = 0
          BY <1>3, <4>2
        <5>. QED BY <1>1, <5>2, <5>3
      <4>. QED BY <4>1, <4>2
    <3>4. p \in 0..(L - 1) /\ pos' = p
      <4>1. p \in {pos + 1, 1, 0}
        BY <1>3
      <4>2. p \in 0..(L - 1)
        BY <1>1, <3>3, <4>1
      <4>3. \A q \in 0..(L - 1) : q % L = q
        BY <1>1
      <4>. QED BY <1>2, <4>2, <4>3
    <3>5. \A i \in 0..((k - 1) - L) : \E j \in 1..L : wire'[i + j] # Magic[j]
      <4>. SUFFICES ASSUME NEW i \in 0..((k - 1) - L)
                    PROVE  \E j \in 1..L : wire'[i + j] # Magic[j]
        OBVIOUS
      <4>1. i + 1 \in 0..(k - L)
        BY <1>1, <2>1
      <4>2. PICK j \in 1..L : wire[(i + 1) + j] # Magic[j]
        BY <3>2, <4>1
      <4>3. wire'[i + j] = wire[(i + 1) + j]
        <5>1. i + j \in 1..(k - 1) /\ (i + j) + 1 = (i + 1) + j
          BY <1>1, <2>1
        <5>. QED BY <3>1, <5>1
      <4>. QED BY <4>2, <4>3
    <3>6. ASSUME k - 1 >= L - p PROVE \E j \in (p + 1)..L : wire'[j - p] # Magic[j]
      <4>1. CASE b = Magic[pos + 1]
        <5>1. p = pos + 1 /\ k >= L - pos
          BY <1>1, <1>3, <2>1, <3>6, <4>1
        <5>2. PICK j \in (pos + 1)..L : wire[j - pos] # Magic[j]
          BY <3>2, <5>1
        <5>3. j # pos + 1
          <6>1. wire[1] = Magic[pos + 1]
            BY <1>3, <4>1
          <6>2. (pos + 1) - pos = 1
            BY <1>1
          <6>. QED BY <5>2, <6>1, <6>2
        <5>4. j \in (p + 1)..L /\ j - p \in 1..(k - 1) /\ (j - p) + 1 = j - pos
          BY <1>1, <2>1, <3>6, <5>1, <5>3
        <5>5. wire'[j - p] = wire[j - pos]
          BY <3>1, <5>4
        <5>. QED BY <5>2, <5>4, <5>5
      <4>2. CASE b # Magic[pos + 1] /\ b = Magic[1]
        <5>1. p = 1 /\ 0 \in 0..(k - L)
          BY <1>1, <1>3, <2>1, <3>6, <4>2
        <5>2. PICK j \in 1..L : wire[0 + j] # Magic[j]
          BY <3>2, <5>1
        <5>3. j # 1
          <6>1. b = wire[1] /\ b = Magic[1]
            BY <1>3, <4>2
          <6>2. 0 + 1 = 1
            OBVIOUS
          <6>. QED BY <5>2, <6>1, <6>2
        <5>4. j \in (p + 1)..L /\ j - p \in 1..(k - 1) /\ (j - p) + 1 = 0 + j
          BY <1>1, <2>1, <3>6, <5>1, <5>3
        <5>5. wire'[j - p] = wire[0 + j]
          BY <3>1, <5>4
        <5>. QED BY <5>2, <5>4, <5>5
      <4>3. CASE b # Magic[pos + 1] /\ b # Magic[1]
        <5>1. p = 0 /\ 0 \in 0..((k - 1) - L)
          BY <1>1, <1>3, <2>1, <3>6, <4>3
        <5>2. PICK j \in 1..L : wire'[0 + j] # Magic[j]
          BY <3>5, <5>1
        <5>. QED BY <5>1, <5>2
      <4>. QED BY <4>1, <4>2, <4>3
    <3>7. NoHeaderLeft(k - 1)'
      BY <1>6, <3>4, <3>5, <3>6 DEF NoHeaderLeft, L
    <3>8. state' = "MAGIC" /\ field' = << >>
      BY <1>2, <3>3
    <3>. QED BY <3>1, <3>7, <3>8 DEF Taken
  <2>. QED BY <2>2, <2>3
<1>9. Arriving(pos, 0) \/ \E k \in 0..Len(wire) : Arriving(0, k) /\ NoHeaderLeft(k)
  BY <1>2 DEF Undisturbed, Taken
<1>. QED BY <1>7, <1>8, <1>9

(* The steps of the two ends. *)
LEMMA ResetStarts == ASSUME UploadInv, Reset, clean' PROVE Undisturbed'
<1>1. /\ host.at = "greet" /\ back = << >> /\ ~HeaderIn(wire') /\ host' = host /\ back' = back
      /\ state' = "HELLO" /\ pos' = 0 /\ field' = << >>
  BY DEF Reset, hvars
<1>2. UploadInv'
  BY ResetOK
<1>3. /\ host.sent = 0 /\ host.img \in Images
      /\ wire' \in Seq(Octet) /\ Len(wire') \in Nat /\ Len(Magic) \in Nat \ {0}
  <2>1. wire' \in Seq(Octet)
    BY <1>2 DEF UploadInv, UploadTypeOK
  <2>. QED BY <1>1, <2>1, MemoryType DEF UploadInv, HostInFrame
<1>4. PICK k \in Nat : k = Len(wire')
  BY <1>3
<1>5. Arriving(0, k)'
  BY <1>1, <1>3, <1>4 DEF Arriving
<1>6. \A i \in 0..(k - Len(Magic)) : \E j \in DOMAIN Magic : (wire')[i + j] # Magic[j]
  BY <1>1, <1>4 DEF HeaderIn
<1>7. k >= Len(Magic) => \E j \in 1..Len(Magic) : (wire')[j] # Magic[j]
  <2>. SUFFICES ASSUME k >= Len(Magic) PROVE \E j \in 1..Len(Magic) : (wire')[j] # Magic[j]
    OBVIOUS
  <2>1. 0 \in 0..(k - Len(Magic)) /\ DOMAIN Magic = 1..Len(Magic)
    BY <1>3, UploadAssumption
  <2>2. PICK j \in 1..Len(Magic) : (wire')[0 + j] # Magic[j]
    BY <1>6, <2>1
  <2>3. 0 + j = j
    BY <1>3
  <2>. QED BY <2>2, <2>3
<1>8. NoHeaderLeft(k)'
  <2>1. \A j \in 1..Len(Magic) : j - pos' = j
    BY <1>1, <1>3
  <2>2. pos' + 1 = 1 /\ Len(Magic) - pos' = Len(Magic)
    BY <1>1, <1>3
  <2>. QED BY <1>6, <1>7, <2>1, <2>2 DEF NoHeaderLeft
<1>9. Taken'
  <2>1. k \in 0..Len(wire')
    BY <1>4
  <2>. QED BY <1>1, <1>5, <1>8, <2>1 DEF Taken
<1>10. Turn'
  BY <1>1 DEF Turn
<1>. QED BY <1>1, <1>3, <1>9, <1>10 DEF Undisturbed

LEMMA SameTaken ==
  ASSUME Taken, UNCHANGED <<lvars, taken, wire>>, host'.img = host.img, host'.sent = host.sent
  PROVE  Taken'
BY DEF Taken, lvars, Arriving, NoHeaderLeft, FieldBegins

LEMMA HelloAnswered == ASSUME Undisturbed, Hello PROVE Undisturbed'
<1>1. /\ state = "HELLO" /\ state' = "MAGIC" /\ back' = Append(back, "R")
      /\ UNCHANGED <<host, pos, field, length, offset, sum, good, wire, taken>>
  BY DEF Hello, hvars, ivars
<1>2. host.at = "greet" /\ back = << >>
  BY <1>1 DEF Undisturbed, Turn
<1>3. back' = <<"R">>
  BY <1>1, <1>2
<1>4. Turn'
  BY <1>1, <1>2, <1>3 DEF Turn
<1>5. Taken'
  BY <1>1 DEF Undisturbed, Taken, Arriving, NoHeaderLeft
<1>. QED BY <1>1, <1>4, <1>5 DEF Undisturbed

LEMMA ReadAnswered == ASSUME UploadInv, Undisturbed, Read PROVE Undisturbed'
<1>1. host.at \in {"greet", "ack"} /\ back # << >> /\ back' = Tail(back)
      /\ UNCHANGED <<lvars, wire, taken>>
  BY DEF Read, ivars
<1>2. host'.img = host.img /\ host'.sent = host.sent
  BY DEF Read, UploadInv, UploadTypeOK
<1>3. Taken'
  BY <1>1, <1>2, SameTaken DEF Undisturbed
<1>4. CASE host.at = "greet"
  <2>1. back = <<"R">> /\ state = "MAGIC"
    BY <1>1, <1>4 DEF Undisturbed, Turn
  <2>2. Head(back) = "R" /\ back' = << >>
    BY <1>1, <2>1
  <2>3. host'.at = "send"
    BY <1>4, <2>2 DEF Read, UploadInv, UploadTypeOK
  <2>. QED BY <1>1, <1>2, <1>3, <2>1, <2>2, <2>3 DEF Undisturbed, Turn, lvars
<1>5. CASE host.at = "ack"
  <2>1. back = <<"K">> /\ state \in {"DRAIN", "RUN"}
    BY <1>1, <1>5 DEF Undisturbed, Turn
  <2>2. Head(back) = "K"
    BY <2>1
  <2>3. host'.at = "done"
    BY <1>5, <2>2 DEF Read, UploadInv, UploadTypeOK
  <2>. QED BY <1>1, <1>2, <1>3, <2>1, <2>3 DEF Undisturbed, Turn, lvars
<1>. QED BY <1>1, <1>4, <1>5

LEMMA WriteArrives == ASSUME UploadInv, Undisturbed, Write PROVE Undisturbed'
<1>1. /\ host.at = "send" /\ wire' = Append(wire, Frame(host.img)[host.sent + 1])
      /\ UNCHANGED <<lvars, back, taken>>
  BY DEF Write, ivars
<1>2. /\ host'.img = host.img /\ host'.sent = host.sent + 1 /\ host'.at \in {"send", "ack"}
  BY <1>1 DEF Write, Sent, UploadInv, UploadTypeOK
<1>3. /\ wire \in Seq(Octet) /\ host.sent \in Nat /\ pos \in Nat /\ Len(field) \in Nat
      /\ offset \in Nat /\ Len(Magic) \in Nat /\ Width \in Nat /\ Len(host.img) \in Nat
      /\ Len(wire) \in Nat
  BY LineTypes, ImageTypes DEF Undisturbed
<1>4. ASSUME NEW n \in Nat, NEW k \in Nat, Arriving(n, k) PROVE Arriving(n, k)'
  BY <1>1, <1>2, <1>3, <1>4, WritesNext
<1>5. \A k : NoHeaderLeft(k) /\ k \in 0..Len(wire) => NoHeaderLeft(k)' /\ k \in 0..Len(wire')
  <2>. SUFFICES ASSUME NEW k \in 0..Len(wire), NoHeaderLeft(k)
                PROVE  NoHeaderLeft(k)' /\ k \in 0..Len(wire')
    OBVIOUS
  <2>1. /\ Len(wire') = Len(wire) + 1
        /\ \A i \in 1..Len(wire) : wire'[i] = wire[i]
    BY <1>1, <1>3
  <2>2. pos' = pos /\ k \in Nat /\ DOMAIN Magic = 1..Len(Magic) /\ pos < Len(Magic)
    BY <1>1, <1>3, UploadAssumption, LineTypes DEF lvars
  <2>3. /\ \A i \in 0..(k - Len(Magic)) : \E j \in DOMAIN Magic : wire[i + j] # Magic[j]
        /\ k >= Len(Magic) - pos => \E j \in (pos + 1)..Len(Magic) : wire[j - pos] # Magic[j]
    BY DEF NoHeaderLeft
  <2>4. \A i \in 0..(k - Len(Magic)) : \E j \in DOMAIN Magic : wire'[i + j] # Magic[j]
    <3>. SUFFICES ASSUME NEW i \in 0..(k - Len(Magic))
                  PROVE  \E j \in DOMAIN Magic : wire'[i + j] # Magic[j]
      OBVIOUS
    <3>1. PICK j \in 1..Len(Magic) : wire[i + j] # Magic[j]
      BY <2>2, <2>3
    <3>2. i + j \in 1..Len(wire)
      BY <1>3, <2>2
    <3>. QED BY <2>1, <2>2, <3>1, <3>2
  <2>5. ASSUME k >= Len(Magic) - pos
        PROVE  \E j \in (pos + 1)..Len(Magic) : wire'[j - pos] # Magic[j]
    <3>1. PICK j \in (pos + 1)..Len(Magic) : wire[j - pos] # Magic[j]
      BY <2>3, <2>5
    <3>2. j - pos \in 1..Len(wire)
      BY <1>3, <2>2, <2>5
    <3>. QED BY <2>1, <3>1, <3>2
  <2>6. NoHeaderLeft(k)'
    BY <2>2, <2>4, <2>5 DEF NoHeaderLeft
  <2>. QED BY <1>3, <2>1, <2>6
<1>6. \A n \in Nat : Arriving(n, 0) => Arriving(n, 0)'
  BY <1>4
<1>7. state \in {"HELLO", "MAGIC"} =>
        Arriving(pos, 0)' \/ \E k \in 0..Len(wire') : Arriving(0, k)' /\ NoHeaderLeft(k)'
  <2>. SUFFICES ASSUME state \in {"HELLO", "MAGIC"}
                PROVE  Arriving(pos, 0)' \/ \E k \in 0..Len(wire') : Arriving(0, k)' /\ NoHeaderLeft(k)'
    OBVIOUS
  <2>1. CASE Arriving(pos, 0)
    <3>1. PICK P \in Nat : P = pos
      BY <1>3
    <3>2. Arriving(P, 0)'
      BY <1>6, <2>1, <3>1
    <3>3. pos' = P
      BY <1>1, <3>1 DEF lvars
    <3>. QED BY <3>2, <3>3 DEF Arriving
  <2>2. ASSUME NEW k \in 0..Len(wire), Arriving(0, k), NoHeaderLeft(k)
        PROVE  \E m \in 0..Len(wire') : Arriving(0, m)' /\ NoHeaderLeft(m)'
    <3>1. Arriving(0, k)' /\ NoHeaderLeft(k)' /\ k \in 0..Len(wire')
      BY <1>3, <1>4, <1>5, <2>2
    <3>. QED BY <3>1
  <2>. QED BY <2>1, <2>2 DEF Undisturbed, Taken
<1>8. state = "LENGTH" => Arriving(Len(Magic) + Len(field), 0)'
  <2>1. PICK n \in Nat : n = Len(Magic) + Len(field)
    BY <1>3
  <2>2. state = "LENGTH" => Arriving(n, 0)'
    BY <1>6, <2>1 DEF Undisturbed, Taken
  <2>3. field' = field
    BY <1>1 DEF lvars
  <2>. QED BY <2>1, <2>2, <2>3 DEF Arriving
<1>9. state = "PAYLOAD" => Arriving(Len(Magic) + Width + offset, 0)'
  <2>1. PICK n \in Nat : n = Len(Magic) + Width + offset
    BY <1>3
  <2>2. state = "PAYLOAD" => Arriving(n, 0)'
    BY <1>6, <2>1 DEF Undisturbed, Taken
  <2>3. offset' = offset
    BY <1>1 DEF lvars
  <2>. QED BY <2>1, <2>2, <2>3 DEF Arriving
<1>10. state = "CHECKSUM" =>
         Arriving(Len(Magic) + Width + Len(host.img) + Len(field), 0)'
  <2>0. Len(Magic) + Width + Len(host.img) + Len(field) \in Nat
    <3>1. \A a, b, c, d \in Nat : a + b + c + d \in Nat
      OBVIOUS
    <3>. QED BY <1>3, <3>1, Zenon
  <2>1. PICK n \in Nat : n = Len(Magic) + Width + Len(host.img) + Len(field)
    BY <2>0, Zenon
  <2>2. state = "CHECKSUM" => Arriving(n, 0)'
    BY <1>6, <2>1 DEF Undisturbed, Taken
  <2>3. field' = field /\ host'.img = host.img
    BY <1>1, <1>2 DEF lvars
  <2>. QED BY <2>1, <2>2, <2>3 DEF Arriving
<1>11. Taken'
  BY <1>1, <1>2, <1>7, <1>8, <1>9, <1>10 DEF Undisturbed, Taken, FieldBegins, lvars
<1>12. Turn'
  BY <1>1, <1>2 DEF Undisturbed, Turn, lvars
<1>. QED BY <1>2, <1>11, <1>12 DEF Undisturbed

(* The loader takes the field byte by byte as the host wrote it. *)
LEMMA FieldGoesOn ==
  ASSUME NEW n \in Nat, field \in Seq(Octet), Len(field) < Width, FieldBegins(n),
         NEW b \in Octet, b = Field(n)[Len(field) + 1]
  PROVE  /\ Len(Append(field, b)) = Len(field) + 1
         /\ \A i \in 1..(Len(field) + 1) : Append(field, b)[i] = Field(n)[i]
         /\ Len(field) + 1 = Width => Append(field, b) = Field(n)
<1>1. /\ Append(field, b) \in Seq(Octet) /\ Len(Append(field, b)) = Len(field) + 1
      /\ Append(field, b)[Len(field) + 1] = b
      /\ \A i \in 1..Len(field) : Append(field, b)[i] = field[i]
      /\ Len(field) \in Nat
  OBVIOUS
<1>2. \A i \in 1..(Len(field) + 1) : Append(field, b)[i] = Field(n)[i]
  <2>. SUFFICES ASSUME NEW i \in 1..(Len(field) + 1) PROVE Append(field, b)[i] = Field(n)[i]
    OBVIOUS
  <2>1. CASE i = Len(field) + 1
    BY <1>1, <2>1
  <2>2. CASE i # Len(field) + 1
    <3>1. i \in 1..Len(field)
      BY <1>1, <2>2
    <3>. QED BY <1>1, <3>1 DEF FieldBegins
  <2>. QED BY <2>1, <2>2
<1>3. Len(field) + 1 = Width => Append(field, b) = Field(n)
  <2>. SUFFICES ASSUME Len(field) + 1 = Width PROVE Append(field, b) = Field(n)
    OBVIOUS
  <2>. DEFINE f == Append(field, b)
  <2>1. f \in Seq(Octet) /\ Len(f) = Width /\ \A i \in 1..Width : f[i] = Field(n)[i]
    BY <1>1, <1>2
  <2>. HIDE DEF f
  <2>2. f = Field(n)
    BY <2>1, WholeField
  <2>. QED BY <2>2 DEF f
<1>. QED BY <1>1, <1>2, <1>3

LEMMA LengthTaken == ASSUME UploadInv, Undisturbed, Length PROVE Undisturbed'
<1>. DEFINE L == Len(Magic)
            b == Head(wire)
            f == Append(field, b)
<1>1. /\ state = "LENGTH" /\ wire # << >> /\ wire' = Tail(wire)
      /\ UNCHANGED <<hvars, offset, back, taken>>
      /\ IF Len(f) < Width
         THEN field' = f /\ UNCHANGED <<state, length, good>>
         ELSE /\ field' = << >> /\ length' = Number(f)
              /\ state' = IF Accepts(Number(f)) THEN "PAYLOAD" ELSE "ACK"
              /\ good' = FALSE
  BY DEF Length, Take, ivars
<1>2. /\ wire \in Seq(Octet) /\ host.sent \in Nat /\ L \in Nat /\ Width \in Nat
      /\ field \in Seq(Octet) /\ Len(field) \in Nat /\ Len(field) < Width
  BY LineTypes
<1>3. b \in Octet
  BY <1>1, <1>2, TakeByte
<1>4. host.img \in Images /\ Len(host.img) \in 1..Capacity /\ Len(host.img) \in Nat
      /\ Len(host.img) < Values
  BY ImageTypes DEF Undisturbed
<1>5. PICK F, N, E : F = Frame(host.img) /\ N = Len(host.img) /\ E = Len(field)
  OBVIOUS
<1>6. PICK n \in Nat : n = L + E
  BY <1>2, <1>5
<1>7. Arriving(n, 0) /\ FieldBegins(N) /\ host' = host
  BY <1>1, <1>5, <1>6 DEF Undisturbed, Taken, hvars
<1>8. b = F[n + 1] /\ Arriving(n + 1, 0)'
  BY <1>1, <1>2, <1>5, <1>7, TakesNext
<1>9. F[L + (E + 1)] = Field(N)[E + 1]
  <2>1. E + 1 \in 1..Width
    BY <1>2, <1>5
  <2>. QED BY <1>4, <1>5, <2>1, FrameParts
<1>10. b = Field(N)[E + 1]
  <2>1. n + 1 = L + (E + 1)
    BY <1>2, <1>5, <1>6
  <2>. QED BY <1>8, <1>9, <2>1
<1>11. /\ Len(f) = E + 1
       /\ \A i \in 1..(E + 1) : f[i] = Field(N)[i]
       /\ E + 1 = Width => f = Field(N)
  BY <1>2, <1>3, <1>4, <1>5, <1>7, <1>10, FieldGoesOn
<1>. HIDE DEF f, b, L
<1>12. CASE E + 1 < Width
  <2>1. field' = f /\ state' = "LENGTH" /\ Len(field') = E + 1
    BY <1>1, <1>11, <1>12
  <2>2. L + Len(field') = n + 1
    BY <1>2, <1>5, <1>6, <2>1
  <2>3. Arriving(L + Len(field), 0)'
    BY <1>8, <2>2 DEF Arriving, L
  <2>4. FieldBegins(Len(host.img))'
    BY <1>5, <1>7, <1>11, <2>1 DEF FieldBegins
  <2>5. Taken'
    BY <2>1, <2>3, <2>4 DEF Taken, L
  <2>6. Turn'
    BY <1>1, <1>7, <2>1 DEF Undisturbed, Turn
  <2>. QED BY <1>4, <1>7, <2>5, <2>6 DEF Undisturbed
<1>13. CASE ~(E + 1 < Width)
  <2>1. E + 1 = Width
    BY <1>2, <1>5, <1>13
  <2>2. Number(f) = N
    BY <1>4, <1>5, <1>11, <2>1, NumberOfField
  <2>3. Accepts(N)
    BY <1>4, <1>5, MemoryType DEF Accepts
  <2>4. field' = << >> /\ state' = "PAYLOAD" /\ length' = N
    BY <1>1, <1>11, <1>13, <2>2, <2>3
  <2>5. offset' = 0
    BY <1>1 DEF UploadInv, TakingPayload
  <2>6. L + Width + offset' = n + 1
    <3>1. PICK l \in Nat, e \in Nat : l = L /\ e = E
      BY <1>2, <1>5
    <3>2. n = l + e /\ Width = e + 1
      BY <1>6, <2>1, <3>1
    <3>3. l + (e + 1) + 0 = (l + e) + 1
      BY <3>1
    <3>. QED BY <2>5, <3>1, <3>2, <3>3
  <2>7. Arriving(L + Width + offset, 0)'
    BY <1>8, <2>6 DEF Arriving, L
  <2>8. Taken'
    BY <1>5, <1>7, <2>4, <2>5, <2>7 DEF Taken, L
  <2>9. Turn'
    BY <1>1, <1>7, <2>4 DEF Undisturbed, Turn
  <2>. QED BY <1>4, <1>7, <2>8, <2>9 DEF Undisturbed
<1>. QED BY <1>12, <1>13

LEMMA PayloadTaken == ASSUME UploadInv, Undisturbed, Payload PROVE Undisturbed'
<1>. DEFINE L == Len(Magic)
            b == Head(wire)
<1>1. /\ state = "PAYLOAD" /\ wire # << >> /\ wire' = Tail(wire)
      /\ UNCHANGED <<hvars, field, length, back>>
      /\ taken' = IF offset = 0 THEN <<b>> ELSE Append(taken, b)
      /\ offset' = offset + 1
      /\ state' = IF offset = length - 1 THEN "CHECKSUM" ELSE state
  BY DEF Payload, Take, LastByte
<1>2. /\ wire \in Seq(Octet) /\ host.sent \in Nat /\ L \in Nat /\ Width \in Nat
      /\ offset \in Nat /\ taken \in Seq(Octet)
  BY LineTypes
<1>3. b \in Octet
  BY <1>1, <1>2, TakeByte
<1>4. host.img \in Images /\ host.img \in Seq(Octet) /\ Len(host.img) \in Nat
  BY ImageTypes DEF Undisturbed
<1>5. PICK F, I, N, O : F = Frame(host.img) /\ I = host.img /\ N = Len(I) /\ O = offset
  OBVIOUS
<1>6. PICK n \in Nat : n = L + Width + O
  BY <1>2, <1>5
<1>7. /\ Arriving(n, 0) /\ host' = host /\ length = N /\ O < N /\ O \in Nat /\ field = << >>
      /\ O > 0 => \A i \in 1..O : taken[i] = I[i]
      /\ O > 0 => O = Len(taken)
  BY <1>1, <1>2, <1>5, <1>6 DEF Undisturbed, Taken, hvars, UploadInv, TakingPayload
<1>8. b = F[n + 1] /\ Arriving(n + 1, 0)'
  BY <1>1, <1>2, <1>5, <1>7, TakesNext
<1>9. b = I[O + 1]
  <2>1. O + 1 \in 1..N
    BY <1>4, <1>5, <1>7
  <2>2. F[L + Width + (O + 1)] = I[O + 1]
    BY <1>4, <1>5, <2>1, FrameParts
  <2>3. n + 1 = L + Width + (O + 1)
    BY <1>2, <1>6, <1>7
  <2>. QED BY <1>8, <2>2, <2>3
<1>. HIDE DEF b, L
<1>10. /\ taken' \in Seq(Octet) /\ Len(taken') = O + 1
       /\ \A i \in 1..(O + 1) : taken'[i] = I[i]
  <2>1. CASE O = 0
    <3>1. taken' = <<b>>
      BY <1>1, <1>5, <2>1
    <3>. QED BY <1>3, <1>9, <2>1, <3>1
  <2>2. CASE O # 0
    <3>1. /\ taken' = Append(taken, b) /\ O = Len(taken)
          /\ \A i \in 1..O : taken[i] = I[i]
      BY <1>1, <1>5, <1>7, <2>2
    <3>2. /\ taken' \in Seq(Octet) /\ Len(taken') = O + 1 /\ taken'[O + 1] = b
          /\ \A i \in 1..O : taken'[i] = taken[i]
      BY <1>2, <1>3, <3>1
    <3>3. ASSUME NEW i \in 1..(O + 1) PROVE taken'[i] = I[i]
      <4>1. i = O + 1 \/ i \in 1..O
        BY <1>7
      <4>. QED BY <1>9, <3>1, <3>2, <4>1
    <3>. QED BY <3>2, <3>3
  <2>. QED BY <2>1, <2>2
<1>11. CASE O + 1 = N
  <2>1. state' = "CHECKSUM" /\ offset' = N
    BY <1>1, <1>5, <1>7, <1>11
  <2>2. taken' = I
    BY <1>4, <1>5, <1>10, <1>11
  <2>3. L + Width + N + Len(field') = n + 1 /\ Len(field') = 0
    BY <1>1, <1>2, <1>6, <1>7, <1>11
  <2>4. Arriving(L + Width + Len(host.img) + Len(field), 0)'
    BY <1>5, <1>7, <1>8, <2>3 DEF Arriving, L
  <2>5. Taken'
    BY <1>5, <1>7, <2>1, <2>2, <2>3, <2>4 DEF Taken, FieldBegins, L
  <2>6. Turn'
    BY <1>1, <1>7, <2>1 DEF Undisturbed, Turn
  <2>. QED BY <1>4, <1>7, <2>5, <2>6 DEF Undisturbed
<1>12. CASE O + 1 # N
  <2>1. state' = "PAYLOAD" /\ offset' = O + 1
    BY <1>1, <1>4, <1>5, <1>7, <1>12
  <2>2. L + Width + offset' = n + 1
    BY <1>2, <1>6, <1>7, <2>1
  <2>3. Arriving(L + Width + offset, 0)'
    BY <1>8, <2>2 DEF Arriving, L
  <2>4. Taken'
    BY <1>1, <1>5, <1>7, <1>10, <2>1, <2>3 DEF Taken, L
  <2>5. Turn'
    BY <1>1, <1>7, <2>1 DEF Undisturbed, Turn
  <2>. QED BY <1>4, <1>7, <2>4, <2>5 DEF Undisturbed
<1>. QED BY <1>11, <1>12

(* The frame ends with the sum of what it carried. *)
LEMMA ChecksumTaken == ASSUME UploadInv, Undisturbed, Checksum PROVE Undisturbed'
<1>. DEFINE L == Len(Magic)
            b == Head(wire)
            f == Append(field, b)
<1>1. /\ state = "CHECKSUM" /\ wire # << >> /\ wire' = Tail(wire)
      /\ UNCHANGED <<hvars, back, taken>>
      /\ IF Len(f) < Width
         THEN field' = f /\ UNCHANGED <<state, good, frame>>
         ELSE /\ field' = << >> /\ state' = "ACK" /\ good' = (Number(f) = sum)
  BY DEF Checksum, Take, GoodSum
<1>2. /\ wire \in Seq(Octet) /\ host.sent \in Nat /\ L \in Nat /\ Width \in Nat
      /\ field \in Seq(Octet) /\ Len(field) \in Nat /\ Len(field) < Width
  BY LineTypes
<1>3. b \in Octet
  BY <1>1, <1>2, TakeByte
<1>4. /\ host.img \in Images /\ Len(host.img) \in Nat
      /\ SumOf(host.img) \in Nat /\ SumOf(host.img) < Values
  BY ImageTypes DEF Undisturbed
<1>0. PICK N \in Nat : N = Len(host.img)
  BY <1>4
<1>a. PICK E \in Nat : E = Len(field)
  BY <1>2
<1>5. PICK F, S : /\ F = Frame(host.img) /\ N = Len(host.img)
                  /\ S = SumOf(host.img) /\ E = Len(field)
  BY <1>0, <1>a
<1>b. PICK P \in Nat : P = L + Width + N
  <2>1. \A m, w, k \in Nat : m + w + k \in Nat
    OBVIOUS
  <2>2. L + Width + N \in Nat
    BY <1>0, <1>2, <2>1, Zenon
  <2>. QED BY <2>2, Zenon
<1>6. PICK n \in Nat : n = L + Width + N + E
  <2>1. P + E \in Nat
    BY <1>a, <1>b
  <2>. QED BY <1>b, <2>1, Zenon
<1>7. Arriving(n, 0) /\ FieldBegins(S) /\ host' = host /\ taken = host.img
  BY <1>1, <1>5, <1>6 DEF Undisturbed, Taken, hvars
<1>8. b = F[n + 1] /\ n + 1 <= host.sent /\ Arriving(n + 1, 0)'
  BY <1>1, <1>2, <1>5, <1>7, TakesNext
<1>9. n + 1 = L + Width + N + (E + 1)
  <2>1. (P + E) + 1 = P + (E + 1)
    BY <1>a, <1>b
  <2>. QED BY <1>b, <1>6, <2>1, Zenon
<1>10. b = Field(S)[E + 1]
  <2>1. E + 1 \in 1..Width
    BY <1>2, <1>5
  <2>2. F[L + Width + N + (E + 1)] = Field(S)[E + 1]
    BY <1>4, <1>5, <2>1, FrameParts
  <2>. QED BY <1>8, <1>9, <2>2
<1>11. /\ Len(f) = E + 1
       /\ \A i \in 1..(E + 1) : f[i] = Field(S)[i]
       /\ E + 1 = Width => f = Field(S)
  BY <1>2, <1>3, <1>4, <1>5, <1>7, <1>10, FieldGoesOn
<1>. HIDE DEF f, b, L
<1>12. CASE E + 1 < Width
  <2>1. field' = f /\ state' = "CHECKSUM" /\ Len(field') = E + 1
    BY <1>1, <1>11, <1>12
  <2>2. L + Width + N + Len(field') = n + 1
    BY <1>9, <2>1
  <2>3. Arriving(L + Width + Len(host.img) + Len(field), 0)'
    BY <1>5, <1>7, <1>8, <2>2 DEF Arriving, L
  <2>4. FieldBegins(SumOf(host.img))'
    BY <1>5, <1>7, <1>11, <2>1 DEF FieldBegins
  <2>5. Taken'
    BY <1>1, <1>7, <2>1, <2>3, <2>4 DEF Taken, L
  <2>6. Turn'
    BY <1>1, <1>7, <2>1 DEF Undisturbed, Turn
  <2>. QED BY <1>4, <1>7, <2>5, <2>6 DEF Undisturbed
<1>13. CASE ~(E + 1 < Width)
  <2>1. E + 1 = Width
    BY <1>2, <1>5, <1>13
  <2>2. Number(f) = S
    BY <1>4, <1>5, <1>11, <2>1, NumberOfField
  <2>3. sum = S
    BY <1>1, <1>5, <1>7 DEF UploadInv, TakingPayload
  <2>4. field' = << >> /\ state' = "ACK" /\ good' = (Number(f) = sum)
    BY <1>1, <1>11, <1>13
  <2>5. good'
    BY <2>2, <2>3, <2>4, Zenon
  <2>6. host.at = "ack"
    <3>1. Len(F) = L + Width + N + Width
      BY <1>4, <1>5, FrameParts DEF L
    <3>2. Len(F) <= host.sent
      BY <1>8, <1>9, <2>1, <3>1
    <3>3. host.at # "greet" /\ host.at # "done"
      BY <1>1 DEF Undisturbed, Turn
    <3>4. host.at # "send"
      <4>1. host.at = "send" => host.sent < Len(F)
        BY <1>5 DEF UploadInv, HostInFrame
      <4>2. Len(F) \in Nat
        <5>1. P + Width \in Nat
          BY <1>2, <1>b
        <5>. QED BY <1>b, <3>1, <5>1, Zenon
      <4>. QED BY <1>2, <3>2, <4>1, <4>2
    <3>. QED BY <3>3, <3>4 DEF Undisturbed, Turn
  <2>7. Taken'
    BY <1>1, <1>7, <2>4, <2>5 DEF Taken
  <2>8. Turn'
    BY <1>1, <1>7, <2>4, <2>6 DEF Undisturbed, Turn
  <2>. QED BY <1>4, <1>7, <2>7, <2>8 DEF Undisturbed
<1>. QED BY <1>12, <1>13

LEMMA AnswerGiven == ASSUME Undisturbed, Acknowledge \/ Drain PROVE Undisturbed'
<1>1. /\ UNCHANGED <<host, pos, field, length, offset, good, wire, taken>>
      /\ state \in {"ACK", "DRAIN"}
  BY DEF Acknowledge, Drain, hvars, ivars
<1>2. good /\ taken = host.img /\ host.at \in {"ack", "done"}
  BY <1>1 DEF Undisturbed, Taken, Turn
<1>3. state' \in {"DRAIN", "RUN"}
  BY <1>2 DEF Acknowledge, Drain
<1>4. Taken'
  BY <1>1, <1>2, <1>3 DEF Taken
<1>5. CASE Acknowledge
  <2>1. host.at = "ack" /\ back = << >>
    BY <1>2, <1>5 DEF Undisturbed, Turn, Acknowledge
  <2>2. back' = <<"K">>
    BY <1>2, <1>5, <2>1 DEF Acknowledge
  <2>. QED BY <1>1, <1>2, <1>3, <1>4, <2>1, <2>2 DEF Undisturbed, Turn
<1>6. CASE Drain
  <2>1. state = "DRAIN" /\ back' = back
    BY <1>6 DEF Drain
  <2>. QED BY <1>1, <1>2, <1>3, <1>4, <2>1 DEF Undisturbed, Turn
<1>. QED BY <1>5, <1>6

LEMMA RunsOn == ASSUME Undisturbed, Ignore \/ PrintOut PROVE Undisturbed'
<1>1. /\ UNCHANGED <<host, lvars, taken>> /\ state = "RUN"
  BY DEF Ignore, PrintOut, hvars, ivars, Undisturbed, Turn
<1>2. Taken'
  BY <1>1 DEF Undisturbed, Taken, lvars
<1>3. CASE Ignore
  BY <1>1, <1>2, <1>3 DEF Ignore, Undisturbed, Turn, lvars
<1>4. CASE PrintOut
  <2>1. host.at = "done"
    BY <1>1, <1>4 DEF PrintOut, Undisturbed, Turn
  <2>. QED BY <1>1, <1>2, <2>1 DEF Undisturbed, Turn, lvars
<1>. QED BY <1>3, <1>4

LEMMA CleanInvInductive ==
  ASSUME UploadInv, CleanInv, [UploadNext]_uvars
  PROVE  CleanInv'
<1>. SUFFICES ASSUME clean' PROVE Undisturbed'
  BY DEF CleanInv, Undisturbed
<1>1. CASE Reset
  BY <1>1, ResetStarts
<1>2. ASSUME ~Reset PROVE Undisturbed'
  <2>1. ~(\E img \in Images : Open(img)) /\ ~Disturb /\ ~GiveUp /\ ~NoHeader /\ ~Silence
    BY DEF Open, Disturb, GiveUp, NoHeader, Silence
  <2>2. clean
    BY <1>2, <2>1 DEF UploadNext, Loader, Read, Write, Hello, Acknowledge, Drain, Header,
                      Length, Payload, Checksum, Ignore, PrintOut, uvars
  <2>3. Undisturbed
    BY <2>2 DEF CleanInv, Undisturbed
  <2>4. ASSUME Header PROVE Undisturbed'
    <3>1. Taken'
      BY <2>3, <2>4, HeaderTaken
    <3>2. state = "MAGIC" /\ state' \in {"MAGIC", "LENGTH"} /\ UNCHANGED <<host, back>>
      BY <2>4 DEF Header, hvars
    <3>3. ASSUME host.at = "greet" PROVE state' # "LENGTH"
      <4>1. host.sent = 0 /\ Len(Magic) \in Nat \ {0} /\ field' = << >>
        BY <2>3, <2>4, <3>2, <3>3, MemoryType DEF UploadInv, HostInFrame, Undisturbed, Taken, Header
      <4>2. state' = "LENGTH" => Len(Magic) + Len(field') <= host'.sent
        BY <3>1 DEF Taken, Arriving
      <4>. QED BY <3>2, <4>1, <4>2
    <3>4. Turn'
      BY <2>3, <3>2, <3>3 DEF Undisturbed, Turn
    <3>. QED BY <2>3, <3>1, <3>2, <3>4 DEF Undisturbed
  <2>5. ASSUME UNCHANGED uvars PROVE Undisturbed'
    BY <2>3, <2>5, SameTaken DEF Undisturbed, Turn, uvars, hvars, lvars, ivars
  <2>. QED BY <1>2, <2>1, <2>3, <2>4, <2>5, HelloAnswered, ReadAnswered, WriteArrives,
              LengthTaken, PayloadTaken, ChecksumTaken, AnswerGiven, RunsOn
           DEF UploadNext, Loader
<1>. QED BY <1>1, <1>2

LEMMA CleanInvariant == UploadSpec => []CleanInv
<1>1. UploadInit => CleanInv
  BY DEF UploadInit, CleanInv
<1>. QED BY <1>1, CleanInvInductive, UploadInvariant, PTL DEF UploadSpec

(* An upload that nothing disturbs after the reset is not rejected, and    *)
(* when it returns the board holds the image, complete, whatever programs  *)
(* have printed and whatever was left on the line.                         *)
THEOREM CleanUploadIsAccepted == UploadSpec => []CleanIsAccepted
<1>1. UploadInv /\ CleanInv => CleanIsAccepted
  BY DEF UploadInv, CleanInv, Turn, Taken, CleanIsAccepted
<1>. QED BY <1>1, CleanInvariant, UploadInvariant, PTL
=============================================================================
