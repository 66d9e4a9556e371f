--------------------------- MODULE VasmMachineProofs ---------------------------
(***************************************************************************)
(* What the arithmetic of the registers rests on: the powers that the      *)
(* widths are made of, and that a number written as bytes and read back is *)
(* the number again.  Then every instruction: what it leaves is a machine  *)
(* again, and only four of them write to the memory.                       *)
(***************************************************************************)
EXTENDS VasmMachine, SequenceTheorems, WellFoundedInduction, TLAPS

-----------------------------------------------------------------------------
(* Induction, over sets of numbers, and functions defined by it.           *)
LEMMA Least ==
  ASSUME NEW T \in SUBSET Nat, T # {}
  PROVE  \E x \in T : \A y \in T : x <= y
<1>1. PICK less : less = OpToRel(<, Nat) /\ IsWellFoundedOn(less, Nat)
  BY NatLessThanWellFounded
<1>2. PICK x \in T : \A y \in T : ~(<<y, x>> \in less)
  BY <1>1, WFMin
<1>3. \A a \in Nat : \A b \in Nat : a < b => <<a, b>> \in less
  BY <1>1 DEF OpToRel
<1>4. \A y \in T : ~(y < x)
  BY <1>2, <1>3
<1> QED
  BY <1>2, <1>4

LEMMA SetInduction ==
  ASSUME NEW S, 0 \in S, \A n \in Nat : n \in S => n + 1 \in S
  PROVE  Nat \subseteq S
<1> SUFFICES ASSUME Nat \ S # {} PROVE FALSE
  OBVIOUS
<1>1. PICK x \in Nat \ S : \A y \in Nat \ S : x <= y
  BY Least
<1>2. x # 0
  BY <1>1
<1>3. x - 1 \in Nat /\ x - 1 \notin S
  BY <1>1, <1>2
<1> QED
  BY <1>1, <1>3

(* A function on 0..n from its first value and what follows each value.    *)
StepsOn(T) == [Nat -> [T -> T]]
Iterated(f, T, first, step, n) ==
  /\ f \in [0..n -> T]
  /\ f[0] = first
  /\ \A i \in 1..n : f[i] = step[i][f[i - 1]]

LEMMA Iterates ==
  ASSUME NEW T, NEW first \in T, NEW step \in StepsOn(T), NEW n \in Nat
  PROVE  \E f : Iterated(f, T, first, step, n)
<1> USE DEF StepsOn
<1> DEFINE Has(k) == \E f \in [0..k -> T] : /\ f[0] = first
                                            /\ \A i \in 1..k : f[i] = step[i][f[i - 1]]
           S == {k \in Nat : Has(k)}
<1>1. Has(0)
  <2> DEFINE f == [i \in 0..0 |-> first]
  <2>1. f \in [0..0 -> T] /\ f[0] = first /\ \A i \in 1..0 : FALSE
    OBVIOUS
  <2> QED
    BY <2>1
<1>2. ASSUME NEW k \in Nat, Has(k) PROVE Has(k + 1)
  <2>1. PICK f \in [0..k -> T] : f[0] = first /\ \A i \in 1..k : f[i] = step[i][f[i - 1]]
    BY <1>2
  <2> DEFINE g == [i \in 0..(k + 1) |-> IF i <= k THEN f[i] ELSE step[k + 1][f[k]]]
  <2>2. step[k + 1][f[k]] \in T
    <3>1. step[k + 1] \in [T -> T] /\ f[k] \in T
      OBVIOUS
    <3> QED
      BY <3>1
  <2>3. g \in [0..(k + 1) -> T] /\ g[0] = first
    BY <2>1, <2>2
  <2>4. ASSUME NEW i \in 1..(k + 1) PROVE g[i] = step[i][g[i - 1]]
    <3>1. i - 1 \in 0..k /\ g[i - 1] = f[i - 1]
      OBVIOUS
    <3>2. CASE i <= k
      BY <2>1, <3>1, <3>2
    <3>3. CASE i = k + 1
      BY <3>1, <3>3
    <3> QED
      BY <3>2, <3>3
  <2> QED
    BY <2>3, <2>4
<1>3. Nat \subseteq S
  <2>1. 0 \in S
    BY <1>1
  <2>2. ASSUME NEW k \in Nat, k \in S PROVE k + 1 \in S
    <3> HIDE DEF Has
    <3>1. Has(k + 1)
      BY <1>2, <2>2
    <3> QED
      BY <3>1
  <2> HIDE DEF S
  <2> QED
    BY <2>1, <2>2, SetInduction
<1> QED
  BY <1>3 DEF Iterated

-----------------------------------------------------------------------------
(* Powers.                                                                 *)
IsPowers(p, b, n) == p = [i \in 0..n |-> IF i = 0 THEN 1 ELSE b * p[i - 1]]

LEMMA PowersExist ==
  ASSUME NEW b \in Nat, NEW n \in Nat
  PROVE  IsPowers(CHOOSE p : IsPowers(p, b, n), b, n)
<1>1. PICK N : N = Nat
  OBVIOUS
<1> DEFINE step == [i \in Nat |-> [x \in N |-> b * x]]
<1>2. step \in StepsOn(N) /\ 1 \in N
  <2>1. \A x \in N : b * x \in N
    BY <1>1
  <2> QED
    BY <1>1, <2>1 DEF StepsOn
<1>3. PICK p \in [0..n -> N] : p[0] = 1 /\ \A i \in 1..n : p[i] = b * p[i - 1]
  <2>1. PICK p : Iterated(p, N, 1, step, n)
    <3> HIDE DEF step
    <3> QED
      BY <1>2, Iterates
  <2>2. p \in [0..n -> N] /\ p[0] = 1 /\ \A i \in 1..n : p[i] = step[i][p[i - 1]]
    BY <2>1 DEF Iterated
  <2>3. \A i \in 1..n : i \in Nat /\ p[i - 1] \in N
    BY <2>2
  <2>4. \A i \in 1..n : step[i][p[i - 1]] = b * p[i - 1]
    BY <2>3
  <2> QED
    BY <2>2, <2>4
<1>4. IsPowers(p, b, n)
  <2>1. \A i \in 0..n : p[i] = IF i = 0 THEN 1 ELSE b * p[i - 1]
    BY <1>3
  <2> QED
    BY <2>1 DEF IsPowers
<1> QED
  BY <1>4

LEMMA PowersAgree ==
  ASSUME NEW b \in Nat, NEW n \in Nat, NEW k \in 0..n,
         NEW p, IsPowers(p, b, n), NEW q, IsPowers(q, b, k)
  PROVE  \A i \in 0..k : p[i] = q[i] /\ p[i] \in Nat /\ (b > 0 => p[i] > 0)
<1> DEFINE S == {i \in Nat : i <= k => p[i] = q[i] /\ p[i] \in Nat /\ (b > 0 => p[i] > 0)}
<1>1. 0 \in S
  BY DEF IsPowers
<1>2. ASSUME NEW i \in Nat, i \in S PROVE i + 1 \in S
  <2> SUFFICES ASSUME i + 1 <= k
               PROVE  /\ p[i + 1] = q[i + 1] /\ p[i + 1] \in Nat
                      /\ b > 0 => p[i + 1] > 0
    OBVIOUS
  <2>1. p[i] = q[i] /\ p[i] \in Nat /\ (b > 0 => p[i] > 0)
    BY <1>2
  <2>2. i + 1 \in 0..n /\ i + 1 \in 0..k /\ (i + 1) - 1 = i /\ i + 1 # 0
    OBVIOUS
  <2>3. p[i + 1] = b * p[i] /\ q[i + 1] = b * q[i]
    BY <2>2 DEF IsPowers
  <2>4. b * p[i] \in Nat /\ (b > 0 => b * p[i] > 0)
    BY <2>1
  <2> QED
    BY <2>1, <2>3, <2>4
<1>3. Nat \subseteq S
  <2> HIDE DEF S
  <2> QED
    BY <1>1, <1>2, SetInduction
<1> QED
  BY <1>3

LEMMA PowerFacts ==
  ASSUME NEW b \in Nat, NEW n \in Nat
  PROVE  /\ Power(b, 0) = 1
         /\ Power(b, n) \in Nat
         /\ b > 0 => Power(b, n) > 0
         /\ Power(b, n + 1) = b * Power(b, n)
<1> DEFINE P(k) == CHOOSE p : IsPowers(p, b, k)
<1>1. \A k \in Nat : Power(b, k) = P(k)[k]
  BY DEF Power, IsPowers
<1>2. \A k \in Nat : IsPowers(P(k), b, k)
  BY PowersExist
<1>3. PICK p : p = P(n) /\ IsPowers(p, b, n)
  BY <1>2
<1>4. PICK q : q = P(n + 1) /\ IsPowers(q, b, n + 1)
  BY <1>2
<1>5. PICK o : o = P(0) /\ IsPowers(o, b, 0)
  BY <1>2
<1> HIDE DEF P
<1>6. o[0] = 1
  BY <1>5 DEF IsPowers
<1>7. q[n] = p[n] /\ q[n] \in Nat /\ (b > 0 => q[n] > 0)
  BY <1>3, <1>4, PowersAgree
<1>8. q[n + 1] = b * q[n]
  <2>1. n + 1 \in 0..(n + 1) /\ n + 1 # 0 /\ (n + 1) - 1 = n
    OBVIOUS
  <2> QED
    BY <1>4, <2>1 DEF IsPowers
<1> QED
  BY <1>1, <1>3, <1>4, <1>5, <1>6, <1>7, <1>8

LEMMA RadixFacts == Radix \in Nat /\ Radix >= 2
<1>1. ByteBits - 1 \in Nat /\ (ByteBits - 1) + 1 = ByteBits
  BY ByteBitsAssumption
<1>2. Power(2, ByteBits) = 2 * Power(2, ByteBits - 1)
  BY <1>1, PowerFacts
<1>3. Power(2, ByteBits - 1) \in Nat /\ Power(2, ByteBits - 1) > 0
  BY <1>1, PowerFacts
<1> QED
  BY <1>2, <1>3 DEF Radix

LEMMA SpanFacts ==
  /\ Span(0) = 1
  /\ \A n \in 0..15 : Span(n + 1) = Radix * Span(n)
  /\ \A n \in 0..16 : Span(n) \in Nat /\ Span(n) > 0
<1>1. \A n \in 0..16 : Span(n) = Power(Radix, n)
  BY DEF Span, Spans
<1>2. \A n \in 0..16 : /\ Power(Radix, 0) = 1
                       /\ Power(Radix, n) \in Nat /\ Power(Radix, n) > 0
                       /\ Power(Radix, n + 1) = Radix * Power(Radix, n)
  BY RadixFacts, PowerFacts
<1>3. \A n \in 0..15 : n + 1 \in 0..16 /\ n \in 0..16
  OBVIOUS
<1> QED
  BY <1>1, <1>2, <1>3

LEMMA TwiceAsMuch ==
  ASSUME NEW c \in Nat, NEW x \in Nat, x >= c
  PROVE  Radix * x >= 2 * c
<1>1. PICK r \in Nat : r = Radix /\ r >= 2
  BY RadixFacts
<1>2. r * x >= 2 * x
  BY <1>1
<1> QED
  BY <1>1, <1>2

LEMMA WordFacts == Word \in Nat /\ Word >= 256 /\ FpSpan \in Nat /\ FpSpan >= 16
<1>1. \A n \in 0..15 : \A c \in Nat : Span(n) >= c => Span(n + 1) >= 2 * c
  BY SpanFacts, TwiceAsMuch
<1>2. Span(0) >= 1
  BY SpanFacts
<1>3. Span(1) >= 2 /\ (Span(1) >= 2 => Span(2) >= 4)
  BY <1>1, <1>2
<1>4. Span(3) >= 8 /\ (Span(3) >= 8 => Span(4) >= 16)
  BY <1>1, <1>3
<1>5. Span(5) >= 32 /\ (Span(5) >= 32 => Span(6) >= 64)
  BY <1>1, <1>4
<1>6. Span(7) >= 128 /\ (Span(7) >= 128 => Span(8) >= 256)
  BY <1>1, <1>5
<1> QED
  BY <1>4, <1>6, SpanFacts DEF Word, FpSpan

-----------------------------------------------------------------------------
(* Number adds the bytes from the last one down to the first: a fold over  *)
(* the places, of which those that are left are always the last ones.      *)
IsNumbering(f, bytes) ==
  f = [s \in SUBSET DOMAIN bytes |->
          IF s = {} THEN 0 ELSE bytes[Min(s)] + Radix * f[s \ {Min(s)}]]

LEMMA NumberFolds ==
  ASSUME NEW bytes
  PROVE  Number(bytes) = (CHOOSE f : IsNumbering(f, bytes))[DOMAIN bytes]
BY Zenon DEF Number, FoldRight, MapThenFoldSet, IsNumbering

LEMMA MinIsLeast ==
  ASSUME NEW T \in SUBSET Nat, T # {}
  PROVE  Min(T) \in T /\ \A y \in T : Min(T) <= y
BY Least DEF Min

(* The fold on the last j places. *)
LEMMA NumberingExists ==
  ASSUME NEW n \in Nat, NEW bytes \in [1..n -> Nat]
  PROVE  IsNumbering(CHOOSE f : IsNumbering(f, bytes), bytes)
<1> DEFINE Fold(f, s) == IF s = {} THEN 0 ELSE bytes[Min(s)] + Radix * f[s \ {Min(s)}]
           Places(j) == ((n - j) + 1)..n
           Has(j) == \E f \in [SUBSET Places(j) -> Nat] : \A s \in SUBSET Places(j) : f[s] = Fold(f, s)
           S == {j \in Nat : j <= n => Has(j)}
<1>1. Has(0)
  <2> DEFINE f == [s \in SUBSET Places(0) |-> 0]
  <2>1. \A s \in SUBSET Places(0) : s = {}
    OBVIOUS
  <2>2. f \in [SUBSET Places(0) -> Nat] /\ \A s \in SUBSET Places(0) : f[s] = Fold(f, s)
    BY <2>1
  <2> QED
    BY <2>2
<1>2. ASSUME NEW j \in Nat, j + 1 <= n, Has(j) PROVE Has(j + 1)
  <2>1. PICK f \in [SUBSET Places(j) -> Nat] : \A s \in SUBSET Places(j) : f[s] = Fold(f, s)
    BY <1>2
  <2>2. PICK k \in 1..n : k = n - j
    BY <1>2
  <2>3. Places(j) = (k + 1)..n /\ Places(j + 1) = k..n
    BY <2>2
  <2>4. PICK rest : rest = (k + 1)..n /\ f \in [SUBSET rest -> Nat]
                    /\ \A s \in SUBSET rest : f[s] = Fold(f, s)
    BY <2>1, <2>3
  <2>5. PICK all : all = k..n /\ k \in all /\ all \ {k} = rest /\ rest \subseteq all /\ k \notin rest
                   /\ all \in SUBSET Nat
    BY <2>4
  <2> DEFINE g == [s \in SUBSET all |-> IF k \in s THEN bytes[k] + Radix * f[s \ {k}] ELSE f[s]]
  <2>6. \A s \in SUBSET all : s \ {k} \in SUBSET rest /\ (k \notin s => s \in SUBSET rest)
    BY <2>5
  <2>7. g \in [SUBSET all -> Nat]
    <3> SUFFICES ASSUME NEW s \in SUBSET all PROVE g[s] \in Nat
      OBVIOUS
    <3>1. f[s \ {k}] \in Nat /\ (k \notin s => f[s] \in Nat)
      BY <2>4, <2>6
    <3>2. bytes[k] \in Nat /\ Radix * f[s \ {k}] \in Nat
      BY <3>1, RadixFacts
    <3> QED
      BY <3>1, <3>2
  <2>8. \A s \in SUBSET rest : g[s] = f[s]
    BY <2>5
  <2>9. ASSUME NEW s \in SUBSET all PROVE g[s] = Fold(g, s)
    <3>1. CASE k \in s
      <4>1. Min(s) = k
        <5>1. s \in SUBSET Nat /\ s # {} /\ \A y \in s : k <= y
          BY <2>5, <3>1
        <5>2. Min(s) \in s /\ Min(s) <= k
          BY <3>1, <5>1, MinIsLeast
        <5>3. Min(s) \in Nat /\ k \in Nat /\ k <= Min(s)
          BY <2>5, <5>1, <5>2
        <5> QED
          BY <5>2, <5>3
      <4>2. g[s \ {k}] = f[s \ {k}]
        BY <2>6, <2>8
      <4>3. g[s] = bytes[k] + Radix * f[s \ {k}]
        BY <3>1
      <4>4. Fold(g, s) = bytes[k] + Radix * g[s \ {k}]
        BY <3>1, <4>1
      <4> HIDE DEF g, Fold
      <4> QED
        BY <4>2, <4>3, <4>4
    <3>2. CASE k \notin s
      <4>1. s \in SUBSET rest /\ s \ {Min(s)} \in SUBSET rest
        BY <2>6, <3>2
      <4>2. g[s] = f[s] /\ g[s \ {Min(s)}] = f[s \ {Min(s)}]
        BY <2>8, <4>1
      <4>3. f[s] = Fold(f, s)
        BY <2>4, <4>1
      <4>4. Fold(f, s) = Fold(g, s)
        BY <4>2
      <4> HIDE DEF g, Fold
      <4> QED
        BY <4>2, <4>3, <4>4
    <3> QED
      BY <3>1, <3>2
  <2> HIDE DEF g, Fold
  <2>10. \E h \in [SUBSET all -> Nat] : \A s \in SUBSET all : h[s] = Fold(h, s)
    BY <2>7, <2>9
  <2> QED
    BY <2>3, <2>5, <2>10
<1>3. Nat \subseteq S
  <2>1. 0 \in S
    <3> HIDE DEF Has
    <3> QED
      BY <1>1
  <2>2. ASSUME NEW j \in Nat, j \in S PROVE j + 1 \in S
    <3> HIDE DEF Has
    <3>1. j + 1 <= n => Has(j + 1)
      BY <1>2, <2>2
    <3> QED
      BY <3>1
  <2> HIDE DEF S
  <2> QED
    BY <2>1, <2>2, SetInduction
<1>4. Has(n)
  <2> HIDE DEF Has
  <2> QED
    BY <1>3
<1>5. Places(n) = DOMAIN bytes
  OBVIOUS
<1>6. PICK f \in [SUBSET DOMAIN bytes -> Nat] : \A s \in SUBSET DOMAIN bytes : f[s] = Fold(f, s)
  <2> HIDE DEF Places, Fold
  <2> QED
    BY <1>4, <1>5
<1>7. IsNumbering(f, bytes)
  BY <1>6 DEF IsNumbering
<1> QED
  BY <1>7

LEMMA FromTheRight ==
  ASSUME NEW n \in Nat, NEW bytes \in [1..n -> Nat], NEW f, IsNumbering(f, bytes)
  PROVE  /\ f[(n + 1)..n] = 0
         /\ \A k \in 1..n : f[k..n] = bytes[k] + Radix * f[(k + 1)..n]
<1>1. f[(n + 1)..n] = 0
  <2>1. (n + 1)..n = {}
    OBVIOUS
  <2> QED
    BY <2>1 DEF IsNumbering
<1>2. ASSUME NEW k \in 1..n PROVE f[k..n] = bytes[k] + Radix * f[(k + 1)..n]
  <2>1. PICK all : all = k..n /\ all \in SUBSET Nat /\ all \in SUBSET DOMAIN bytes /\ k \in all
                   /\ all \ {k} = (k + 1)..n /\ \A y \in all : k <= y
    OBVIOUS
  <2>2. Min(all) \in all /\ Min(all) <= k
    BY <2>1, MinIsLeast
  <2>3. Min(all) \in Nat /\ k \in Nat /\ k <= Min(all)
    BY <2>1, <2>2
  <2>4. Min(all) = k
    BY <2>2, <2>3
  <2>5. f[all] = bytes[Min(all)] + Radix * f[all \ {Min(all)}]
    BY <2>1 DEF IsNumbering
  <2> QED
    BY <2>1, <2>4, <2>5
<1> QED
  BY <1>1, <1>2

(* Eight bytes hold a number below Word, and so on.                        *)
LEMMA NumberBelow ==
  ASSUME NEW n \in 0..16, NEW bytes \in [1..n -> 0..(Radix - 1)]
  PROVE  Number(bytes) \in 0..(Span(n) - 1)
<1>1. bytes \in [1..n -> Nat] /\ n \in Nat /\ DOMAIN bytes = 1..n
  BY RadixFacts
<1>2. PICK f : Number(bytes) = f[1..n] /\ IsNumbering(f, bytes)
  BY <1>1, NumberFolds, NumberingExists
<1> DEFINE P(j) == f[((n - j) + 1)..n] \in 0..(Span(j) - 1)
           S == {j \in Nat : j <= n => P(j)}
<1>3. P(0)
  <2>1. f[(n + 1)..n] = 0 /\ (n - 0) + 1 = n + 1
    BY <1>1, <1>2, FromTheRight
  <2>2. 0..(Span(0) - 1) = {0}
    <3>1. PICK s \in Nat : s = Span(0) /\ s = 1
      BY SpanFacts
    <3> QED
      BY <3>1
  <2> QED
    BY <2>1, <2>2
<1>4. ASSUME NEW j \in Nat, j + 1 <= n, P(j) PROVE P(j + 1)
  <2>0. n \in Nat /\ n <= 16 /\ j + 1 <= n
    BY <1>4
  <2>1. PICK k \in 1..n : k = n - j
    BY <2>0
  <2>2. f[k..n] = bytes[k] + Radix * f[(k + 1)..n]
    BY <1>1, <1>2, FromTheRight
  <2>3. PICK x \in Nat : x = f[(k + 1)..n] /\ x <= Span(j) - 1
    <3>1. (n - j) + 1 = k + 1 /\ j \in 0..16
      BY <2>0, <2>1
    <3>2. f[(k + 1)..n] \in 0..(Span(j) - 1)
      BY <1>4, <3>1
    <3>3. Span(j) \in Nat
      BY <3>1, SpanFacts
    <3> QED
      BY <3>2, <3>3
  <2>4. PICK b \in Nat : b = bytes[k] /\ b <= Radix - 1
    BY RadixFacts
  <2>5. Span(j + 1) = Radix * Span(j) /\ Span(j) \in Nat /\ Span(j) > 0
    <3>1. j \in 0..15 /\ j \in 0..16
      BY <2>0
    <3> QED
      BY <3>1, SpanFacts
  <2>6. b + Radix * x \in 0..(Radix * Span(j) - 1)
    <3>1. PICK r \in Nat : r = Radix /\ r >= 2
      BY RadixFacts
    <3>2. PICK s \in Nat : s = Span(j) /\ x + 1 <= s
      BY <2>3, <2>5
    <3>3. r * (x + 1) <= r * s
      BY <3>1, <3>2
    <3>4. r * (x + 1) = r * x + r /\ r * x \in Nat /\ r * s \in Nat
      BY <3>1, <3>2
    <3>5. PICK p \in Nat : p = r * x
      BY <3>4
    <3>6. PICK q \in Nat : q = r * s
      BY <3>4
    <3>7. p + r <= q /\ b <= r - 1
      BY <2>4, <3>1, <3>3, <3>4, <3>5, <3>6
    <3>8. b + p \in 0..(q - 1)
      BY <3>1, <3>7
    <3> QED
      BY <3>1, <3>2, <3>5, <3>6, <3>8
  <2>7. (n - (j + 1)) + 1 = k
    BY <2>1
  <2> QED
    BY <2>2, <2>3, <2>4, <2>5, <2>6, <2>7
<1>5. Nat \subseteq S
  <2> HIDE DEF P
  <2>1. 0 \in S
    BY <1>3
  <2>2. ASSUME NEW j \in Nat, j \in S PROVE j + 1 \in S
    <3>1. j + 1 <= n => P(j + 1)
      BY <1>4, <2>2
    <3> QED
      BY <3>1
  <2> HIDE DEF S
  <2> QED
    BY <2>1, <2>2, SetInduction
<1>6. P(n)
  <2> HIDE DEF P
  <2> QED
    BY <1>5
<1>7. (n - n) + 1 = 1
  OBVIOUS
<1> QED
  BY <1>2, <1>6, <1>7

(* The bytes of a number are bytes.                                        *)
LEMMA DigitsType ==
  ASSUME NEW n \in 0..16, NEW v \in Nat
  PROVE  Digits(v, n) \in [1..n -> 0..(Radix - 1)]
<1> SUFFICES ASSUME NEW i \in 1..n PROVE (v \div Span(i - 1)) % Radix \in 0..(Radix - 1)
  BY DEF Digits
<1>1. PICK s \in Nat : s = Span(i - 1) /\ s > 0
  BY SpanFacts
<1>2. v \div s \in Nat
  BY <1>1
<1>3. PICK q \in Nat : q = v \div s
  BY <1>2
<1>4. PICK r \in Nat : r = Radix /\ r >= 2
  BY RadixFacts
<1>5. q % r \in 0..(r - 1)
  BY <1>4
<1> QED
  BY <1>1, <1>3, <1>4, <1>5

LEMMA DivNat ==
  ASSUME NEW a \in Nat, NEW b \in Nat, b > 0
  PROVE  a \div b \in Nat /\ a \div b <= a
OBVIOUS

LEMMA DivTwice ==
  ASSUME NEW a \in Nat, NEW b \in Nat \ {0}, NEW c \in Nat \ {0}
  PROVE  (a \div b) \div c = a \div (b * c)
OBVIOUS

(* A number that fits is read back as it was written.                      *)
THEOREM NumberOfDigits ==
  ASSUME NEW n \in 0..16, NEW v \in 0..(Span(n) - 1)
  PROVE  Number(Digits(v, n)) = v
<1>0. v \in Nat /\ n \in Nat
  BY SpanFacts
<1>1. PICK bytes \in [1..n -> Nat] :
          bytes = Digits(v, n) /\ \A k \in 1..n : bytes[k] = (v \div Span(k - 1)) % Radix
  <2>1. PICK bytes : bytes = Digits(v, n)
    OBVIOUS
  <2>2. bytes \in [1..n -> 0..(Radix - 1)]
    BY <1>0, <2>1, DigitsType
  <2>4. 0..(Radix - 1) \subseteq Nat
    BY RadixFacts
  <2>3. \A k \in 1..n : bytes[k] = (v \div Span(k - 1)) % Radix
    BY <2>1 DEF Digits
  <2> QED
    BY <2>1, <2>2, <2>3, <2>4
<1>2. PICK f : Number(bytes) = f[1..n] /\ IsNumbering(f, bytes)
  BY <1>0, NumberFolds, NumberingExists
<1> DEFINE P(j) == f[((n - j) + 1)..n] = v \div Span(n - j)
           S == {j \in Nat : j <= n => P(j)}
<1>3. P(0)
  <2>1. f[(n + 1)..n] = 0 /\ (n - 0) + 1 = n + 1 /\ n - 0 = n
    BY <1>0, <1>2, FromTheRight
  <2>2. PICK s \in Nat : s = Span(n) /\ s > 0 /\ v < s
    <3>1. PICK s \in Nat : s = Span(n) /\ s > 0
      BY SpanFacts
    <3>2. v \in 0..(s - 1)
      BY <3>1
    <3> QED
      BY <1>0, <3>1, <3>2
  <2>3. v \div s = 0
    BY <1>0, <2>2
  <2> QED
    BY <2>1, <2>2, <2>3
<1>4. ASSUME NEW j \in Nat, j + 1 <= n, P(j) PROVE P(j + 1)
  <2>1. PICK k \in 1..n : k = n - j /\ (n - j) + 1 = k + 1 /\ (n - (j + 1)) + 1 = k /\ n - (j + 1) = k - 1
    BY <1>4
  <2>2. f[k..n] = bytes[k] + Radix * f[(k + 1)..n]
    BY <1>0, <1>2, FromTheRight
  <2>3. f[(k + 1)..n] = v \div Span(k)
    BY <1>4, <2>1
  <2>4. PICK s \in Nat : s = Span(k - 1) /\ s > 0 /\ Span(k) = Radix * s
    <3>1. k - 1 \in 0..15 /\ (k - 1) + 1 = k /\ k - 1 \in 0..16
      OBVIOUS
    <3> QED
      BY <3>1, SpanFacts
  <2>5. PICK r \in Nat : r = Radix /\ r >= 2
    BY RadixFacts
  <2>6. v \div (r * s) = (v \div s) \div r
    <3>1. s * r = r * s /\ s \in Nat \ {0} /\ r \in Nat \ {0}
      BY <2>4, <2>5
    <3>2. (v \div s) \div r = v \div (s * r)
      BY <1>0, <3>1, DivTwice
    <3> QED
      BY <3>1, <3>2
  <2>7. PICK x \in Nat : x = v \div s
    BY <1>0, <2>4, DivNat
  <2>8. x = (x % r) + r * (x \div r)
    BY <2>5
  <2>9. f[k..n] = x
    BY <1>1, <2>2, <2>3, <2>4, <2>5, <2>6, <2>7, <2>8
  <2> QED
    BY <2>1, <2>4, <2>7, <2>9
<1>5. Nat \subseteq S
  <2> HIDE DEF P
  <2>1. 0 \in S
    BY <1>3
  <2>2. ASSUME NEW j \in Nat, j \in S PROVE j + 1 \in S
    <3>1. j + 1 <= n => P(j + 1)
      BY <1>4, <2>2
    <3> QED
      BY <3>1
  <2> HIDE DEF S
  <2> QED
    BY <2>1, <2>2, SetInduction
<1>6. P(n)
  <2> HIDE DEF P
  <2> QED
    BY <1>0, <1>5
<1>7. (n - n) + 1 = 1 /\ n - n = 0 /\ v \div 1 = v
  BY <1>0
<1> QED
  BY <1>1, <1>2, <1>6, <1>7, SpanFacts

-----------------------------------------------------------------------------
(* Registers: a value written to any of them leaves the machine typed, and *)
(* its memory as it was.                                                   *)
Steps(m, n) == n \in Machine /\ n.mem = m.mem

LEMMA RegisterNumbers ==
  \A id \in Nat : /\ is_num_reg(id) <=> id < 25
                  /\ is_fp_reg(id) <=> id \in 26..37
                  /\ id \in Orphans <=> id \in {23, 24}
                  /\ Family(id) \in 0..3
BY DEF is_num_reg, is_fp_reg, Orphans, Family, R

LEMMA Widths ==
  /\ Radix \in Nat /\ Radix > 0 /\ Word \in Nat /\ Word > 0 /\ FpSpan \in Nat /\ FpSpan >= 16
  /\ \A n \in 0..16 : Span(n) \in Nat /\ Span(n) > 0
BY RadixFacts, SpanFacts, WordFacts

LEMMA SetParts ==
  ASSUME NEW p \in Parts, NEW v \in Int
  PROVE  set16(p, v) \in Parts /\ set32(p, v) \in Parts /\ set64(p, v) \in Parts
<1>1. PICK r \in Nat, s \in Nat, t \in Nat : r = Radix /\ s = Span(2) /\ t = Span(4) /\ r > 0 /\ s > 0 /\ t > 0
  BY Widths
<1>2. /\ v % r \in 0..(r - 1) /\ (v \div r) % r \in 0..(r - 1)
      /\ (v \div s) % s \in 0..(s - 1) /\ (v \div t) % t \in 0..(t - 1)
  BY <1>1
<1>3. set16(p, v) \in Parts
  BY <1>1, <1>2 DEF set16, Parts, Byte
<1>4. set32(p, v) \in Parts
  BY <1>1, <1>2, <1>3 DEF set32, Parts
<1> QED
  BY <1>1, <1>2, <1>3, <1>4 DEF set64, Parts

LEMMA GetParts ==
  ASSUME NEW p \in Parts
  PROVE  get16(p) \in Nat /\ get32(p) \in Nat /\ get64(p) \in Nat
<1>1. PICK r \in Nat, s \in Nat, t \in Nat : r = Radix /\ s = Span(2) /\ t = Span(4) /\ r > 0 /\ s > 0 /\ t > 0
  BY Widths
<1>2. p.l \in Nat /\ p.h \in Nat /\ p.x \in Nat /\ p.r \in Nat
  BY <1>1 DEF Parts, Byte
<1>3. r * p.h \in Nat /\ s * p.x \in Nat /\ t * p.r \in Nat
  BY <1>1, <1>2
<1> QED
  BY <1>1, <1>2, <1>3 DEF get16, get32, get64

LEMMA ReadType ==
  ASSUME NEW m \in Machine, NEW id \in Nat
  PROVE  ReadReg(m, id) \in Nat /\ (is_fp_reg(id) => ReadReg(m, id) \in FpValue)
<1>1. CASE is_fp_reg(id)
  <2>1. m.fp[id] \in FpValue
    BY <1>1 DEF Machine, is_fp_reg
  <2> QED
    BY <1>1, <2>1, Widths DEF ReadReg, FpValue
<1>2. CASE ~is_fp_reg(id) /\ id \in Orphans
  BY <1>2, Widths DEF ReadReg, Machine
<1>3. CASE ~is_fp_reg(id) /\ id \notin Orphans
  <2>1. m.gp[Family(id)] \in Parts
    BY RegisterNumbers DEF Machine
  <2> QED
    BY <1>3, <2>1, GetParts DEF ReadReg
<1> QED
  BY <1>1, <1>2, <1>3

LEMMA OrphanType ==
  ASSUME NEW m \in Machine
  PROVE  m.orphan[R.RDI] \in Nat /\ m.orphan[R.RSI] \in Nat
<1>1. R.RDI \in Orphans /\ R.RSI \in Orphans
  BY DEF Orphans
<1>2. \A r \in Orphans : m.orphan[r] \in 0..(Word - 1)
  BY DEF Machine
<1> QED
  BY <1>1, <1>2, Widths

LEMMA RoundType ==
  ASSUME NEW id \in Nat, NEW v \in FpValue
  PROVE  Round(id, v) \in FpValue
<1>1. \A g \in {1, 2, 4} : (v \div g) * g \in 0..v
  BY Widths DEF FpValue
<1> QED
  BY <1>1, Widths DEF Round, FpValue

LEMMA WriteType ==
  ASSUME NEW m \in Machine, NEW id \in Nat, NEW v \in Int, is_fp_reg(id) => v \in FpValue
  PROVE  Steps(m, WriteReg(m, id, v))
<1>1. CASE is_fp_reg(id)
  BY <1>1, RoundType DEF WriteReg, Machine, Steps, is_fp_reg
<1>2. CASE ~is_fp_reg(id) /\ id \in Orphans
  <2>1. PICK w \in Nat : w = Word /\ w > 0
    BY Widths
  <2>2. v % w \in 0..(w - 1)
    BY <2>1
  <2> QED
    BY <1>2, <2>1, <2>2 DEF WriteReg, Machine, Steps
<1>3. CASE ~is_fp_reg(id) /\ id \notin Orphans
  <2>1. PICK f \in 0..3 : f = Family(id) /\ m.gp[f] \in Parts
    BY RegisterNumbers DEF Machine
  <2>2. PICK q \in Parts : WriteReg(m, id, v) = [m EXCEPT !.gp[f] = q]
    BY <1>3, <2>1, SetParts DEF WriteReg
  <2>3. PICK gp \in [0..3 -> Parts] : gp = [m.gp EXCEPT ![f] = q]
    BY DEF Machine
  <2>4. WriteReg(m, id, v) = [m EXCEPT !.gp = gp]
    BY <2>2, <2>3
  <2> QED
    BY <2>3, <2>4 DEF Machine, Steps
<1> QED
  BY <1>1, <1>2, <1>3

-----------------------------------------------------------------------------
(* Memory and stack.                                                       *)
LEMMA FunctionSequence ==
  ASSUME NEW n \in Nat, NEW S, NEW f \in [1..n -> S]
  PROVE  f \in Seq(S) /\ Len(f) = n
<1>1. f \in Seq(S)
  BY SeqDef
<1>2. Len(f) \in Nat /\ DOMAIN f = 1..Len(f)
  BY <1>1, LenProperties
<1>3. DOMAIN f = 1..n
  OBVIOUS
<1> QED
  BY <1>1, <1>2, <1>3

LEMMA BytesType ==
  ASSUME NEW m \in Machine, NEW addr \in Nat, NEW n \in 0..16, addr + n <= MemLen
  PROVE  Bytes(m, addr, n) \in [1..n -> Byte] /\ Number(Bytes(m, addr, n)) \in 0..(Span(n) - 1)
<1>1. \A i \in 1..n : addr + i - 1 \in 0..(MemLen - 1)
  BY MemLenAssumption
<1>2. Bytes(m, addr, n) \in [1..n -> Byte]
  BY <1>1 DEF Bytes, Machine
<1> QED
  BY <1>2, NumberBelow DEF Byte

LEMMA ReadMemory ==
  ASSUME NEW m \in Machine, NEW addr \in Nat, NEW n \in 1..16, NEW S, 0..(Span(n) - 1) \subseteq S, NEW g \in S
  PROVE  _MG(m, addr, n, g) \in S
<1>1. CASE Valid(addr, n)
  <2>1. addr + n <= MemLen
    BY <1>1, MemLenAssumption DEF Valid
  <2>2. Number(Bytes(m, addr, n)) \in 0..(Span(n) - 1)
    BY <2>1, n \in 0..16, BytesType
  <2> QED
    BY <1>1, <2>2 DEF _MG
<1>2. CASE ~Valid(addr, n)
  BY <1>2 DEF _MG
<1> QED
  BY <1>1, <1>2

(* Below the address nothing is written. *)
Above(m, n, addr) == n \in Machine /\ \A c \in 0..(MemLen - 1) : c < addr => n.mem[c] = m.mem[c]

LEMMA WriteBytes ==
  ASSUME NEW m \in Machine, NEW addr \in Nat, NEW n \in Nat, NEW bytes \in [1..n -> Byte]
  PROVE  Above(m, _MSBytes(m, addr, bytes), addr)
<1>1. Len(bytes) = n
  BY FunctionSequence
<1>2. CASE n = 0 \/ ~Valid(addr, n)
  BY <1>1, <1>2 DEF _MSBytes, Above
<1>3. CASE n # 0 /\ Valid(addr, n)
  <2> DEFINE mem == [c \in 0..(MemLen - 1) |-> IF c \in addr..(addr + n - 1) THEN bytes[c - addr + 1] ELSE m.mem[c]]
  <2>1. DOMAIN m.mem = 0..(MemLen - 1) /\ \A c \in 0..(MemLen - 1) : m.mem[c] \in Byte
    BY DEF Machine
  <2>2. _MSBytes(m, addr, bytes) = [m EXCEPT !.mem = mem]
    BY <1>1, <1>3, <2>1 DEF _MSBytes
  <2>3. \A c \in 0..(MemLen - 1) : c \in addr..(addr + n - 1) => bytes[c - addr + 1] \in Byte
    BY MemLenAssumption
  <2>4. mem \in [0..(MemLen - 1) -> Byte] /\ \A c \in 0..(MemLen - 1) : c < addr => mem[c] = m.mem[c]
    BY <2>1, <2>3, MemLenAssumption
  <2> HIDE DEF mem
  <2> QED
    BY <2>2, <2>4 DEF Machine, Above
<1> QED
  BY <1>2, <1>3

LEMMA WriteNumber ==
  ASSUME NEW m \in Machine, NEW addr \in Nat, NEW n \in 0..16, NEW v \in Nat
  PROVE  Above(m, _MS(m, addr, v, n), addr)
<1>1. Digits(v, n) \in [1..n -> Byte]
  BY DigitsType DEF Byte
<1> QED
  BY <1>1, WriteBytes DEF _MS

LEMMA PushStep ==
  ASSUME NEW m \in Machine, NEW v \in Nat, NEW n \in 0..16
  PROVE  Steps(m, Push(m, v, n))
<1>1. Digits(v, n) \in [1..n -> Byte]
  BY DigitsType DEF Byte
<1>2. Digits(v, n) \in Seq(Byte) /\ m.stk \in Seq(Byte)
  BY <1>1, FunctionSequence DEF Machine
<1>3. Digits(v, n) \o m.stk \in Seq(Byte)
  BY <1>2, ConcatProperties
<1> QED
  BY <1>3 DEF Push, Machine, Steps

LEMMA DropStep ==
  ASSUME NEW m \in Machine, NEW n \in Nat
  PROVE  Steps(m, Drop(m, n))
<1>1. m.stk \in Seq(Byte)
  BY DEF Machine
<1>2. CASE Len(m.stk) >= n
  <2>1. SubSeq(m.stk, n + 1, Len(m.stk)) \in Seq(Byte)
    BY <1>1, SubSeqProperties, LenProperties
  <2> QED
    BY <1>1, <1>2, <2>1, LenProperties DEF Drop, Machine, Steps
<1>3. CASE Len(m.stk) < n
  BY <1>3 DEF Drop, Steps
<1> QED
  BY <1>1, <1>2, <1>3, LenProperties

LEMMA TopType ==
  ASSUME NEW m \in Machine, NEW n \in 0..16, NEW S, 0..(Span(n) - 1) \subseteq S, NEW g \in S
  PROVE  Top(m, n, g) \in S
<1>1. m.stk \in Seq(Byte) /\ Len(m.stk) \in Nat
  BY LenProperties DEF Machine
<1>2. CASE Len(m.stk) >= n
  <2>1. \A i \in 1..n : m.stk[i] \in Byte
    BY <1>1, <1>2, ElementOfSeq
  <2>2. PICK s : s = SubSeq(m.stk, 1, n)
    OBVIOUS
  <2>5. s \in Seq(Byte) /\ Len(s) = n
    <3>1. 1 \in Int /\ n \in Int
      OBVIOUS
    <3>2. /\ SubSeq(m.stk, 1, n) \in Seq(Byte)
          /\ Len(SubSeq(m.stk, 1, n)) = IF 1 <= n THEN n - 1 + 1 ELSE 0
      BY <2>1, <3>1, SubSeqProperties
    <3>3. (IF 1 <= n THEN n - 1 + 1 ELSE 0) = n
      OBVIOUS
    <3> QED
      BY <2>2, <3>2, <3>3
  <2>3. s \in [1..n -> Byte]
    BY <2>5, LenProperties
  <2>4. Number(s) \in 0..(Span(n) - 1)
    BY <2>3, NumberBelow DEF Byte
  <2> QED
    BY <1>1, <1>2, <2>2, <2>4 DEF Top
<1>3. CASE Len(m.stk) < n
  BY <1>3 DEF Top
<1> QED
  BY <1>1, <1>2, <1>3

(* The operand of an action lies in the memory. *)
Fits(a) == a.addr \in Nat /\ a.addr + 16 <= MemLen /\ a.opt \in Nat

LEMMA OperandType ==
  ASSUME NEW m \in Machine, NEW a, Fits(a)
  PROVE  ARGTOULL(m, a) \in 0..(Word - 1) /\ ARGTOULL(m, a) \in Nat /\ ATTOREGID(m, a) \in Nat
<1>1. a.addr \in Nat /\ a.addr + 8 <= MemLen
  BY MemLenAssumption DEF Fits
<1>2. PICK bytes : bytes = Bytes(m, a.addr, 8) /\ bytes \in [1..8 -> Byte]
  BY <1>1, BytesType
<1>3. Len(bytes) = 8
  BY <1>2, FunctionSequence
<1>4. Reverse(bytes) \in [1..8 -> Byte]
  <2>1. Reverse(bytes) = [i \in 1..8 |-> bytes[(8 - i) + 1]]
    BY <1>3 DEF Reverse
  <2>2. \A i \in 1..8 : (8 - i) + 1 \in 1..8
    OBVIOUS
  <2> QED
    BY <1>2, <2>1, <2>2
<1>5. Number(Reverse(bytes)) \in 0..(Span(8) - 1)
  BY <1>4, NumberBelow DEF Byte
<1>6. Span(8) \in Nat /\ Word = Span(8)
  BY Widths DEF Word
<1> QED
  BY <1>2, <1>5, <1>6 DEF ARGTOULL, ATTOREGID, ATOULL

LEMMA WidthType ==
  ASSUME NEW a
  PROVE  Width(a) \in 1..8
BY DEF Width, VOPTTOTQ

-----------------------------------------------------------------------------
(* The results of the instructions are numbers.                            *)
LEMMA LogType ==
  ASSUME NEW x \in Nat, NEW b \in Nat, b >= 2
  PROVE  LogFloor(x, b) \in 0..x
<1> DEFINE Found(k) == /\ k = 0 \/ Power(b, k) <= x
                       /\ x < Power(b, k + 1)
           S == {k \in Nat : Power(b, k) > k}
<1>1. Power(b, 0) = 1 /\ \A k \in Nat : Power(b, k) \in Nat /\ Power(b, k + 1) = b * Power(b, k)
  BY PowerFacts
<1>2. Nat \subseteq S
  <2>1. 0 \in S
    BY <1>1
  <2>2. ASSUME NEW k \in Nat, k \in S PROVE k + 1 \in S
    <3>1. PICK p \in Nat : p = Power(b, k) /\ p >= k + 1 /\ Power(b, k + 1) = b * p
      BY <1>1, <2>2
    <3>2. b * p >= 2 * p
      BY <3>1
    <3> QED
      BY <3>1, <3>2
  <2> HIDE DEF S
  <2> QED
    BY <2>1, <2>2, SetInduction
<1>3. PICK T : T = {k \in Nat : x < Power(b, k + 1)}
  OBVIOUS
<1>4. x \in T
  <2>1. x + 1 \in Nat /\ x + 1 \in S
    BY <1>2
  <2>2. PICK p \in Nat : p = Power(b, x + 1) /\ p > x + 1
    BY <1>1, <2>1
  <2> QED
    BY <1>3, <2>2
<1>5. PICK k \in T : \A j \in T : k <= j
  BY <1>3, <1>4, Least
<1>6. k \in 0..x /\ Found(k)
  <2>1. CASE k = 0
    BY <1>3, <1>5, <2>1
  <2>2. CASE k # 0
    <3>1. k - 1 \in Nat /\ (k - 1) + 1 = k /\ k - 1 \notin T
      BY <1>3, <1>5, <2>2
    <3>2. ~(x < Power(b, k))
      BY <1>3, <3>1
    <3> QED
      BY <1>1, <1>3, <1>4, <1>5, <3>2
  <2> QED
    BY <2>1, <2>2
<1> HIDE DEF Found
<1>7. (CHOOSE i \in 0..x : Found(i)) \in 0..x
  BY <1>6
<1> QED
  BY <1>7 DEF LogFloor, Found

IsUpTo(f, x, y, limit) ==
  f = [i \in 0..y |-> IF i = 0 THEN 1
                      ELSE LET next == x * f[i - 1] IN IF next < limit THEN next ELSE limit]

LEMMA PowerUpToType ==
  ASSUME NEW x \in Nat, NEW y \in Nat, NEW limit \in Nat, limit > 0
  PROVE  PowerUpTo(x, y, limit) \in 0..limit
<1> DEFINE N == 0..limit
           step == [i \in Nat |-> [p \in N |-> IF x * p < limit THEN x * p ELSE limit]]
<1>1. step \in StepsOn(N) /\ 1 \in N
  <2>1. \A p \in N : x * p \in Nat
    OBVIOUS
  <2> QED
    BY <2>1 DEF StepsOn
<1>2. PICK p : Iterated(p, N, 1, step, y)
  <2> HIDE DEF step, N
  <2> QED
    BY <1>1, Iterates
<1>3. p \in [0..y -> N] /\ p[0] = 1 /\ \A i \in 1..y : p[i] = step[i][p[i - 1]]
  BY <1>2 DEF Iterated
<1>4. \A i \in 1..y : p[i] = IF x * p[i - 1] < limit THEN x * p[i - 1] ELSE limit
  <2>1. \A i \in 1..y : i \in Nat /\ p[i - 1] \in N
    BY <1>3
  <2> QED
    BY <1>3, <2>1
<1>5. IsUpTo(p, x, y, limit)
  BY <1>3, <1>4 DEF IsUpTo
<1>6. PICK f : f = (CHOOSE q : IsUpTo(q, x, y, limit)) /\ IsUpTo(f, x, y, limit)
  BY <1>5
<1>9. \A i \in 0..y : f[i] = IF i = 0 THEN 1 ELSE IF x * f[i - 1] < limit THEN x * f[i - 1] ELSE limit
  BY <1>6 DEF IsUpTo
<1>7. \A i \in 0..y : f[i] \in N
  <2> DEFINE S == {i \in Nat : i <= y => f[i] \in N}
  <2>1. 0 \in S
    <3>1. f[0] = 1
      BY <1>9
    <3> QED
      BY <3>1
  <2>2. ASSUME NEW i \in Nat, i \in S PROVE i + 1 \in S
    <3> SUFFICES ASSUME i + 1 <= y PROVE f[i + 1] \in N
      OBVIOUS
    <3>1. PICK v \in N : v = f[i]
      BY <2>2
    <3>2. i + 1 \in 0..y /\ i + 1 # 0 /\ (i + 1) - 1 = i
      OBVIOUS
    <3>3. f[i + 1] = IF x * v < limit THEN x * v ELSE limit
      BY <1>9, <3>1, <3>2
    <3>4. x * v \in Nat
      OBVIOUS
    <3> QED
      BY <3>3, <3>4
  <2>3. Nat \subseteq S
    <3> HIDE DEF S
    <3> QED
      BY <2>1, <2>2, SetInduction
  <2> QED
    BY <2>3
<1>8. PowerUpTo(x, y, limit) = (CHOOSE q : IsUpTo(q, x, y, limit))[y]
  BY DEF PowerUpTo, IsUpTo
<1> QED
  BY <1>6, <1>7, <1>8

IsSum(f, n, x, y, combined) ==
  f = [i \in 0..n |-> IF i = 0 THEN 0
                      ELSE f[i - 1] + Power(2, i - 1) * combined[Bit(x, i - 1)][Bit(y, i - 1)]]

LEMMA BitByBitType ==
  ASSUME NEW x \in Nat, NEW y \in Nat, NEW c \in [0..1 -> [0..1 -> 0..1]]
  PROVE  BitByBit(x, y, c) \in Nat
<1> DEFINE T(i) == Power(2, i - 1) * c[Bit(x, i - 1)][Bit(y, i - 1)]
           step == [i \in Nat |-> [s \in Nat |-> IF i = 0 THEN s ELSE s + T(i)]]
<1>0. PICK n \in Nat : n = WordBits
  BY ByteBitsAssumption DEF WordBits
<1>1. \A i \in 1..n : T(i) \in Nat
  <2> SUFFICES ASSUME NEW i \in 1..n PROVE T(i) \in Nat
    OBVIOUS
  <2>1. PICK p \in Nat : p = Power(2, i - 1) /\ p > 0
    <3>1. i - 1 \in Nat
      OBVIOUS
    <3> QED
      BY <3>1, PowerFacts
  <2>2. (x \div p) % 2 \in 0..1 /\ (y \div p) % 2 \in 0..1
    BY <2>1, DivNat
  <2>3. c[Bit(x, i - 1)][Bit(y, i - 1)] \in 0..1
    BY <2>1, <2>2 DEF Bit
  <2> QED
    BY <2>1, <2>3
<1>2. \A i \in Nat : i > n \/ i = 0 \/ T(i) \in Nat
  BY <1>1
<1> DEFINE safe == [i \in Nat |-> [s \in Nat |-> IF i \in 1..n THEN s + T(i) ELSE s]]
<1>3. safe \in StepsOn(Nat)
  <2>1. \A i \in Nat : \A s \in Nat : (IF i \in 1..n THEN s + T(i) ELSE s) \in Nat
    BY <1>1
  <2> HIDE DEF T
  <2> QED
    BY <2>1 DEF StepsOn
<1>4. PICK p : Iterated(p, Nat, 0, safe, n)
  <2> HIDE DEF safe
  <2> QED
    BY <1>3, Iterates
<1> HIDE DEF T
<1>5. p \in [0..n -> Nat] /\ p[0] = 0 /\ \A i \in 1..n : p[i] = p[i - 1] + T(i)
  <2>1. p \in [0..n -> Nat] /\ p[0] = 0 /\ \A i \in 1..n : p[i] = safe[i][p[i - 1]]
    BY <1>4 DEF Iterated
  <2>2. \A i \in 1..n : i \in Nat /\ p[i - 1] \in Nat
    BY <2>1
  <2>3. \A i \in 1..n : safe[i][p[i - 1]] = p[i - 1] + T(i)
    BY <2>2
  <2> QED
    BY <2>1, <2>3
<1>6. IsSum(p, n, x, y, c)
  <2>1. p = [i \in 0..n |-> IF i = 0 THEN 0 ELSE p[i - 1] + T(i)]
    BY <1>5
  <2> QED
    BY <2>1 DEF IsSum, T
<1>7. PICK f : f = (CHOOSE q : IsSum(q, n, x, y, c)) /\ IsSum(f, n, x, y, c)
  BY <1>6
<1>8. \A i \in 0..n : f[i] = IF i = 0 THEN 0 ELSE f[i - 1] + T(i)
  BY <1>7 DEF IsSum, T
<1>9. n \in {i \in Nat : i <= n => f[i] \in Nat}
  <2> DEFINE S == {i \in Nat : i <= n => f[i] \in Nat}
  <2>1. 0 \in S
    <3>1. f[0] = 0
      BY <1>8
    <3> QED
      BY <3>1
  <2>2. ASSUME NEW i \in Nat, i \in S PROVE i + 1 \in S
    <3> SUFFICES ASSUME i + 1 <= n PROVE f[i + 1] \in Nat
      OBVIOUS
    <3>1. i + 1 \in 1..n /\ i + 1 \in 0..n /\ i + 1 # 0 /\ (i + 1) - 1 = i /\ f[i] \in Nat
      BY <2>2
    <3>2. f[i + 1] = f[i] + T(i + 1) /\ T(i + 1) \in Nat
      BY <1>1, <1>8, <3>1
    <3> QED
      BY <3>1, <3>2
  <2>3. Nat \subseteq S
    <3> HIDE DEF S
    <3> QED
      BY <2>1, <2>2, SetInduction
  <2> QED
    BY <2>3
<1>10. BitByBit(x, y, c) = (CHOOSE q : IsSum(q, n, x, y, c))[n]
  BY <1>0 DEF BitByBit, IsSum
<1> QED
  BY <1>7, <1>9, <1>10

NumOps == {"mul", "div", "add", "sub", "and", "or", "xor", "shl", "shr", "pow", "not", "log2", "log", "log10"}

LEMMA NumOpType ==
  ASSUME NEW op \in NumOps, NEW x \in Nat, NEW y \in Nat, NEW g \in Nat, op = "div" => y # 0
  PROVE  NumOp(op, x, y, g) \in Int
<1>1. PICK w \in Nat : w = Word /\ w > 0
  BY Widths
<1>2. PICK bits \in Nat : bits = WordBits /\ bits > 0
  BY ByteBitsAssumption DEF WordBits
<1>3. PICK p \in Nat : p = Power(2, y % WordBits) /\ p > 0
  <2>1. y % bits \in Nat
    BY <1>2
  <2> QED
    BY <1>2, <2>1, PowerFacts
<1>4. CASE op \in {"mul", "div", "add", "sub", "not"}
  BY <1>1, <1>4 DEF NumOp
<1>5. CASE op \in {"shl", "shr"}
  <2>1. x * p \in Nat /\ x \div p \in Nat
    BY <1>3
  <2> QED
    BY <1>1, <1>3, <1>5, <2>1 DEF NumOp
<1>6. CASE op \in {"and", "or", "xor"}
  <2>1. Both \in [0..1 -> [0..1 -> 0..1]]
    BY DEF Both
  <2>2. Either \in [0..1 -> [0..1 -> 0..1]]
    BY DEF Either
  <2>3. Unlike \in [0..1 -> [0..1 -> 0..1]]
    BY DEF Unlike
  <2>4. BitByBit(x, y, Both) \in Nat /\ BitByBit(x, y, Either) \in Nat /\ BitByBit(x, y, Unlike) \in Nat
    BY <2>1, <2>2, <2>3, BitByBitType
  <2>5. NumOp(op, x, y, g) \in {BitByBit(x, y, Both), BitByBit(x, y, Either), BitByBit(x, y, Unlike)}
    BY <1>6 DEF NumOp
  <2> QED
    BY <2>4, <2>5
<1>7. CASE op = "pow"
  <2>1. PICK q \in Nat : q = PowerUpTo(x, y, Word)
    BY <1>1, PowerUpToType
  <2> QED
    BY <1>7, <2>1 DEF NumOp
<1>8. CASE op \in {"log2", "log", "log10"}
  <2>1. LogFloor(x, 2) \in 0..x /\ LogFloor(x, 3) \in 0..x /\ LogFloor(x, 10) \in 0..x
    BY LogType
  <2> QED
    BY <1>8, <2>1 DEF NumOp
<1> QED
  BY <1>4, <1>5, <1>6, <1>7, <1>8 DEF NumOps

FpOps == {"mul", "div", "add", "sub", "pow", "log2", "log", "log10"}

LEMMA FpOpType ==
  ASSUME NEW op \in FpOps, NEW x \in FpValue, NEW y \in FpValue \cup {1}
  PROVE  FpOp(op, x, y) \in FpValue
<1>1. PICK s \in Nat : s = FpSpan /\ s >= 16
  BY Widths
<1>2. x \in 0..(s - 1) /\ y \in 0..(s - 1) /\ FpValue = 0..(s - 1) /\ x \in Nat /\ y \in Nat
  BY <1>1 DEF FpValue
<1>3. \A v \in Int : Clamp(v) \in FpValue
  BY <1>1, <1>2 DEF Clamp
<1>4. CASE op \in {"mul", "add", "sub"}
  <2>1. x * y \in Int /\ x + y \in Int /\ x - y \in Int
    BY <1>2
  <2> QED
    BY <1>3, <1>4, <2>1 DEF FpOp
<1>5. CASE op = "div"
  <2>1. y # 0 => x \div y \in 0..x
    BY <1>2, DivNat
  <2> QED
    BY <1>1, <1>2, <1>5, <2>1 DEF FpOp
<1>6. CASE op = "pow"
  <2>1. PowerUpTo(x, y, s - 1) \in 0..(s - 1)
    <3>1. s - 1 \in Nat /\ s - 1 > 0
      BY <1>1
    <3> QED
      BY <1>2, <3>1, PowerUpToType
  <2> QED
    BY <1>1, <1>2, <1>6, <2>1 DEF FpOp
<1>7. CASE op \in {"log2", "log", "log10"}
  <2>1. LogFloor(x, 2) \in 0..x /\ LogFloor(x, 3) \in 0..x /\ LogFloor(x, 10) \in 0..x
    BY <1>2, LogType
  <2>2. FpOp(op, x, y) = 0 \/ FpOp(op, x, y) \in {LogFloor(x, 2), LogFloor(x, 3), LogFloor(x, 10)}
    BY <1>7 DEF FpOp
  <2> QED
    BY <1>1, <1>2, <2>1, <2>2
<1> QED
  BY <1>4, <1>5, <1>6, <1>7 DEF FpOps

-----------------------------------------------------------------------------
(* The instructions, one handler at a time.                                *)
LEMMA StepsAgain ==
  ASSUME NEW m \in Machine, NEW n, Steps(m, n), NEW k, Steps(n, k)
  PROVE  Steps(m, k)
BY DEF Steps

LEMMA StepNone ==
  ASSUME NEW m \in Machine
  PROVE  Steps(m, m) /\ Steps(m, Undefined(m))
BY DEF Steps, Undefined, Machine

LEMMA Remainders ==
  \A x \in Nat : x % FpSpan \in FpValue /\ x % Radix \in Byte /\ x % Word \in 0..(Word - 1)
<1>1. \A s \in Nat : s > 0 => \A x \in Nat : x % s \in 0..(s - 1)
  OBVIOUS
<1> QED
  BY <1>1, Widths DEF FpValue, Byte

LEMMA TopNumber ==
  ASSUME NEW m \in Machine, NEW n \in 0..16, NEW g \in Nat
  PROVE  Top(m, n, g) \in Nat
<1>1. 0..(Span(n) - 1) \subseteq Nat
  BY Widths
<1> QED
  BY <1>1, TopType

LEMMA StepSet ==
  ASSUME NEW m \in Machine, NEW a, Fits(a)
  PROVE  Steps(m, b_setGP(m, a))
<1>1. a.opt \in Nat /\ a.addr \in 0..(MemLen - 1) /\ a.addr + 16 <= MemLen /\ a.addr \in Nat
  BY MemLenAssumption DEF Fits
<1>2. PICK num \in Nat : num = ARGTOULL(m, a)
  BY OperandType
<1>3. PICK fp \in FpValue : fp = Number(Bytes(m, a.addr, 16)) % FpSpan
  <2>1. Number(Bytes(m, a.addr, 16)) \in 0..(Span(16) - 1)
    BY <1>1, BytesType
  <2>2. Number(Bytes(m, a.addr, 16)) \in Nat
    BY <2>1, Widths
  <2> QED
    BY <2>2, Remainders
<1>4. PICK cr \in Byte : cr = m.mem[a.addr]
  BY <1>1 DEF Machine
<1>5. CASE is_num_reg(a.opt)
  <2>1. ~is_fp_reg(a.opt)
    BY <1>1, <1>5, RegisterNumbers
  <2> QED
    BY <1>1, <1>2, <1>5, <2>1, WriteType DEF b_setGP
<1>6. CASE ~is_num_reg(a.opt) /\ a.opt = R.CR
  <2>1. b_setGP(m, a) = [m EXCEPT !.cr = cr]
    BY <1>4, <1>6 DEF b_setGP
  <2> QED
    BY <2>1 DEF Machine, Steps
<1>7. CASE ~is_num_reg(a.opt) /\ a.opt # R.CR
  <2>1. fp \in Int
    BY Widths DEF FpValue
  <2> QED
    BY <1>1, <1>3, <1>7, <2>1, WriteType DEF b_setGP
<1> QED
  BY <1>5, <1>6, <1>7

LEMMA StepMov ==
  ASSUME NEW m \in Machine, NEW a, Fits(a)
  PROVE  Steps(m, b_movGP(m, a))
<1>1. PICK src \in Nat : src = ATTOREGID(m, a)
  BY OperandType
<1>2. PICK dst \in Nat : dst = a.opt
  BY DEF Fits
<1>3. PICK v \in Nat : v = ReadReg(m, src) /\ (is_fp_reg(src) => v \in FpValue)
  BY ReadType
<1>4. is_num_reg(dst) => Steps(m, WriteReg(m, dst, v))
  BY RegisterNumbers, WriteType
<1>5. is_fp_reg(src) => Steps(m, WriteReg(m, dst, v))
  BY <1>3, WriteType
<1> QED
  BY <1>1, <1>2, <1>3, <1>4, <1>5, StepNone DEF b_movGP

LEMMA StepBetween ==
  ASSUME NEW m \in Machine, NEW a, Fits(a), NEW op \in {"mul", "div", "add", "sub"}
  PROVE  Steps(m, Between(m, a, op))
<1>1. PICK src \in Nat : src = ATTOREGID(m, a)
  BY OperandType
<1>2. PICK dst \in Nat : dst = a.opt
  BY DEF Fits
<1>3. PICK x \in Nat : x = ReadReg(m, dst) /\ (is_fp_reg(dst) => x \in FpValue)
  BY ReadType
<1>4. PICK y \in Nat : y = ReadReg(m, src) /\ (is_fp_reg(src) => y \in FpValue)
  BY ReadType
<1>5. is_num_reg(dst) /\ ~(op = "div" /\ y = 0) => Steps(m, WriteReg(m, dst, NumOp(op, x, y, 0)))
  <2> SUFFICES ASSUME is_num_reg(dst), ~(op = "div" /\ y = 0)
               PROVE  Steps(m, WriteReg(m, dst, NumOp(op, x, y, 0)))
    OBVIOUS
  <2>1. NumOp(op, x, y, 0) \in Int
    <3>1. op \in NumOps
      BY DEF NumOps
    <3> QED
      BY <3>1, NumOpType
  <2> QED
    BY <2>1, RegisterNumbers, WriteType
<1>6. is_fp_reg(dst) /\ is_fp_reg(src) => Steps(m, WriteReg(m, dst, FpOp(op, x, Round(dst, y))))
  <2> SUFFICES ASSUME is_fp_reg(dst), is_fp_reg(src)
               PROVE  Steps(m, WriteReg(m, dst, FpOp(op, x, Round(dst, y))))
    OBVIOUS
  <2>1. PICK z \in FpValue : z = Round(dst, y)
    BY <1>4, RoundType
  <2>2. PICK r \in FpValue : r = FpOp(op, x, z)
    BY <1>3, FpOpType DEF FpOps
  <2>3. r \in Int
    BY Widths DEF FpValue
  <2> QED
    BY <2>1, <2>2, <2>3, WriteType
<1> QED
  BY <1>1, <1>2, <1>3, <1>4, <1>5, <1>6, StepNone DEF Between

(* An instruction on one register of whole numbers, or of floating point.  *)
LEMMA WriteNumber64 ==
  ASSUME NEW m \in Machine, NEW id \in Nat, NEW v \in Int, is_num_reg(id)
  PROVE  Steps(m, WriteReg(m, id, v))
BY RegisterNumbers, WriteType

LEMMA WriteFp ==
  ASSUME NEW m \in Machine, NEW id \in Nat, NEW v \in FpValue
  PROVE  Steps(m, WriteReg(m, id, v))
<1>1. v \in Int
  BY Widths DEF FpValue
<1> QED
  BY <1>1, WriteType

LEMMA StepByOne ==
  ASSUME NEW m \in Machine, NEW id \in Nat, NEW op \in {"add", "sub"}
  PROVE  Steps(m, ByOne(m, id, op))
<1>1. PICK x \in Nat : x = ReadReg(m, id) /\ (is_fp_reg(id) => x \in FpValue)
  BY ReadType
<1>2. is_fp_reg(id) => FpOp(op, x, 1) \in FpValue
  BY <1>1, FpOpType DEF FpOps
<1>3. NumOp(op, x, 1, 0) \in Int
  <2>1. op \in NumOps /\ op # "div"
    BY DEF NumOps
  <2> QED
    BY <2>1, NumOpType
<1>4. is_fp_reg(id) => Steps(m, WriteReg(m, id, FpOp(op, x, 1)))
  BY <1>2, WriteFp
<1>5. is_num_reg(id) => Steps(m, WriteReg(m, id, NumOp(op, x, 1, 0)))
  BY <1>3, WriteNumber64
<1> QED
  BY <1>1, <1>4, <1>5, StepNone DEF ByOne

LEMMA StepAlone ==
  ASSUME NEW m \in Machine, NEW id \in Nat, NEW op \in {"not", "log2", "log10", "log"}, NEW g \in Nat
  PROVE  Steps(m, Alone(m, id, op, g))
<1>1. PICK x \in Nat : x = ReadReg(m, id)
  BY ReadType
<1>2. op \in NumOps /\ op # "div"
  BY DEF NumOps
<1>3. NumOp(op, x, 0, g) \in Int
  BY <1>2, NumOpType
<1>4. is_num_reg(id) => Steps(m, WriteReg(m, id, NumOp(op, x, 0, g)))
  BY <1>3, WriteNumber64
<1> QED
  BY <1>1, <1>4, StepNone DEF Alone

LEMMA StepFpAlone ==
  ASSUME NEW m \in Machine, NEW id \in Nat, NEW op \in {"log2", "log10", "log"}
  PROVE  Steps(m, FpAlone(m, id, op))
<1>1. PICK x : x = ReadReg(m, id) /\ (is_fp_reg(id) => x \in FpValue)
  BY ReadType
<1>2. 0 \in FpValue
  BY Widths DEF FpValue
<1>3. is_fp_reg(id) => FpOp(op, x, 0) \in FpValue
  BY <1>1, <1>2, FpOpType DEF FpOps
<1>4. is_fp_reg(id) => Steps(m, WriteReg(m, id, FpOp(op, x, 0)))
  BY <1>3, WriteFp
<1> QED
  BY <1>1, <1>4, StepNone DEF FpAlone

LEMMA StepWithPopped ==
  ASSUME NEW m \in Machine, NEW a, Fits(a), NEW g \in Nat, NEW op \in {"and", "or", "xor", "shl", "shr"}
  PROVE  Steps(m, WithPopped(m, a, g, op))
<1>1. PICK id \in Nat : id = ATTOREGID(m, a)
  BY OperandType
<1>2. PICK x \in Nat : x = Top(m, 8, g)
  BY TopNumber
<1>3. PICK y \in Nat : y = ReadReg(m, id)
  BY ReadType
<1>4. op \in NumOps /\ op # "div"
  BY DEF NumOps
<1>5. NumOp(op, x, y, g) \in Int
  BY <1>4, NumOpType
<1>6. PICK n \in Machine : n = Drop(m, 8) /\ Steps(m, n)
  BY DropStep DEF Steps
<1>7. is_num_reg(id) => Steps(n, WriteReg(n, id, NumOp(op, x, y, g)))
  BY <1>5, WriteNumber64
<1> QED
  BY <1>1, <1>2, <1>3, <1>6, <1>7, StepNone, StepsAgain DEF WithPopped

LEMMA StepPow ==
  ASSUME NEW m \in Machine, NEW a, Fits(a), NEW g \in Nat
  PROVE  Steps(m, b_pow(m, a, g))
<1>1. PICK id \in Nat : id = ATTOREGID(m, a)
  BY OperandType
<1>2. PICK y \in Nat : y = Top(m, 8, g)
  BY TopNumber
<1>3. PICK x \in Nat : x = ReadReg(m, id)
  BY ReadType
<1>4. NumOp("pow", x, y, g) \in Int
  BY NumOpType DEF NumOps
<1>5. PICK n \in Machine : n = Drop(m, 8) /\ Steps(m, n)
  BY DropStep DEF Steps
<1>6. is_num_reg(id) => Steps(n, WriteReg(n, id, NumOp("pow", x, y, g)))
  BY <1>4, WriteNumber64
<1> QED
  BY <1>1, <1>2, <1>3, <1>5, <1>6, StepNone, StepsAgain DEF b_pow

LEMMA StepFpPow ==
  ASSUME NEW m \in Machine, NEW a, Fits(a)
  PROVE  Steps(m, b_dpow(m, a))
<1>1. PICK id \in Nat : id = ATTOREGID(m, a)
  BY OperandType
<1>2. PICK x : x = ReadReg(m, id) /\ (is_fp_reg(id) => x \in FpValue)
  BY ReadType
<1>3. PICK t \in Nat : t = Top(m, 16, 0)
  BY TopNumber
<1>4. PICK e : /\ e = IF id < R.EFPR0 THEN x ELSE Round(id, t % FpSpan)
               /\ is_fp_reg(id) => e \in FpValue
  BY <1>2, Remainders, RoundType
<1>5. is_fp_reg(id) => FpOp("pow", x, e) \in FpValue
  BY <1>2, <1>4, FpOpType DEF FpOps
<1>6. PICK n \in Machine : n = Drop(m, 16) /\ Steps(m, n)
  BY DropStep DEF Steps
<1>7. is_fp_reg(id) => Steps(n, WriteReg(n, id, FpOp("pow", x, e)))
  BY <1>5, WriteFp
<1> QED
  BY <1>1, <1>2, <1>3, <1>4, <1>6, <1>7, StepNone, StepsAgain DEF b_dpow

-----------------------------------------------------------------------------
LEMMA StepPush ==
  ASSUME NEW m \in Machine, NEW a, Fits(a)
  PROVE  Steps(m, pushMem(m, a)) /\ Steps(m, pushMemFPR(m, a)) /\ Steps(m, pushMemCR(m))
<1>1. PICK id \in Nat : id = ATTOREGID(m, a)
  BY OperandType
<1>2. PICK x \in Nat : x = ReadReg(m, id)
  BY ReadType
<1>3. Width(a) \in 0..16
  BY WidthType
<1>4. Steps(m, Push(m, x, Width(a))) /\ Steps(m, Push(m, x, 16))
  BY <1>3, PushStep
<1>5. m.cr \in Nat
  BY Widths DEF Machine, Byte
<1>6. Steps(m, pushMemCR(m))
  BY <1>5, PushStep DEF pushMemCR
<1> QED
  BY <1>1, <1>2, <1>4, <1>6, StepNone DEF pushMem, pushMemFPR

LEMMA StepPop ==
  ASSUME NEW m \in Machine, NEW a, Fits(a), NEW g \in Nat
  PROVE  Steps(m, popMem(m, a, g))
<1>1. PICK id \in Nat : id = ATTOREGID(m, a)
  BY OperandType
<1>2. PICK w \in 1..8 : w = Width(a)
  BY WidthType
<1>3. PICK low \in Nat : low = Top(m, w, 0)
  <2>1. w \in 0..16 /\ 0 \in Nat
    OBVIOUS
  <2> QED
    BY <2>1, TopNumber
<1>4. PICK s \in Nat : s = Span(w) /\ s > 0
  BY Widths
<1>5. low + s * (g \div s) \in Int
  <2>1. g \div s \in Nat
    BY <1>4, DivNat
  <2> QED
    BY <1>4, <2>1
<1>6. PICK n \in Machine : n = Drop(m, w) /\ Steps(m, n)
  BY DropStep DEF Steps
<1>7. is_num_reg(id) => Steps(n, WriteReg(n, id, low + s * (g \div s)))
  BY <1>5, WriteNumber64
<1> QED
  BY <1>1, <1>2, <1>3, <1>4, <1>6, <1>7, StepNone, StepsAgain DEF popMem

LEMMA StepPopFp ==
  ASSUME NEW m \in Machine, NEW a, Fits(a), NEW g \in Nat
  PROVE  Steps(m, popMemFPR(m, a, g))
<1>1. PICK id \in Nat : id = ATTOREGID(m, a)
  BY OperandType
<1>2. Top(m, 16, g) \in Nat
  BY TopNumber
<1>3. PICK v \in FpValue : v = Top(m, 16, g) % FpSpan
  BY <1>2, Remainders
<1>4. PICK n \in Machine : n = Drop(m, 16) /\ Steps(m, n)
  BY DropStep DEF Steps
<1>5. is_fp_reg(id) => Steps(n, WriteReg(n, id, v))
  BY WriteFp
<1> QED
  BY <1>1, <1>3, <1>4, <1>5, StepNone, StepsAgain DEF popMemFPR

LEMMA SetCR ==
  ASSUME NEW m \in Machine, NEW v \in Byte
  PROVE  Steps(m, [m EXCEPT !.cr = v])
BY DEF Machine, Steps

LEMMA OneByte == 0..(Span(1) - 1) \subseteq Byte
<1>1. Span(1) = Radix * Span(0) /\ Span(0) = 1
  <2>1. 0 \in 0..15 /\ 0 + 1 = 1
    OBVIOUS
  <2> QED
    BY <2>1, SpanFacts
<1> QED
  BY <1>1, Widths DEF Byte

LEMMA StepPopCR ==
  ASSUME NEW m \in Machine, NEW g \in Nat
  PROVE  Steps(m, popMemCR(m, g))
<1>1. PICK v \in Byte : v = Top(m, 1, g % Radix)
  <2>1. PICK b \in Byte : b = g % Radix
    BY Remainders
  <2>2. 1 \in 0..16 /\ 0..(Span(1) - 1) \subseteq Byte
    BY OneByte
  <2>3. Top(m, 1, b) \in Byte
    BY <2>2, TopType
  <2> QED
    BY <2>1, <2>3
<1>2. PICK n \in Machine : n = Drop(m, 1) /\ Steps(m, n)
  BY DropStep DEF Steps
<1>3. Steps(n, [n EXCEPT !.cr = v])
  BY SetCR
<1> QED
  BY <1>1, <1>2, <1>3, StepsAgain DEF popMemCR

LEMMA StepLoads ==
  ASSUME NEW m \in Machine, NEW a, Fits(a), NEW g \in Nat
  PROVE  Steps(m, movgm(m, a)) /\ Steps(m, movgmCR(m, a, g)) /\ Steps(m, movgmFPR(m, a, g))
<1>1. PICK id \in Nat : id = ATTOREGID(m, a)
  BY OperandType
<1>2. PICK addr \in Nat : addr = ReadReg(m, id)
  BY ReadType
<1>3. PICK w \in 1..8 : w = Width(a)
  BY WidthType
<1>4. Steps(m, movgm(m, a))
  <2>1. w \in 1..16 /\ w \in 0..16 /\ 0..(Span(w) - 1) \subseteq Nat /\ 0 \in Nat
    BY Widths
  <2>2. PICK v \in Nat : v = _MG(m, addr, w, 0)
    BY <2>1, ReadMemory
  <2>3. Steps(m, Push(m, v, w))
    BY <2>1, PushStep
  <2> QED
    BY <1>1, <1>2, <1>3, <2>2, <2>3, StepNone DEF movgm
<1>5. Steps(m, movgmCR(m, a, g))
  <2>1. PICK v \in Byte : v = _MG(m, addr, 1, g % Radix)
    <3>1. PICK b \in Byte : b = g % Radix
      BY Remainders
    <3>2. 1 \in 1..16 /\ 0..(Span(1) - 1) \subseteq Byte
      BY OneByte
    <3>3. _MG(m, addr, 1, b) \in Byte
      BY <3>2, ReadMemory
    <3> QED
      BY <3>1, <3>3
  <2>2. Steps(m, [m EXCEPT !.cr = v])
    BY SetCR
  <2> QED
    BY <1>1, <1>2, <2>1, <2>2, StepNone DEF movgmCR
<1>6. Steps(m, movgmFPR(m, a, g))
  <2>1. PICK from \in Nat : from = ReadReg(m, R.RAX)
    BY ReadType DEF R
  <2>2. 16 \in 1..16 /\ 0..(Span(16) - 1) \subseteq Nat
    BY Widths
  <2>3. _MG(m, from, 16, g) \in Nat
    BY <2>2, ReadMemory
  <2>4. PICK v \in FpValue : v = _MG(m, from, 16, g) % FpSpan
    BY <2>3, Remainders
  <2>5. is_fp_reg(id) => Steps(m, WriteReg(m, id, v))
    BY WriteFp
  <2> QED
    BY <1>1, <2>1, <2>4, <2>5, StepNone DEF movgmFPR
<1> QED
  BY <1>4, <1>5, <1>6

LEMMA StepSdzs ==
  ASSUME NEW m \in Machine, NEW a, Fits(a)
  PROVE  Steps(m, sdzsMem(m, a))
<1>1. PICK id \in Nat : id = ATTOREGID(m, a)
  BY OperandType
<1>2. 4096 % Word \in Int
  BY Remainders
<1>3. is_num_reg(id) => Steps(m, WriteReg(m, id, 4096 % Word))
  BY <1>2, WriteNumber64
<1> QED
  BY <1>1, <1>3, StepNone DEF sdzsMem

-----------------------------------------------------------------------------
(* The instructions that store: only at their address and above.           *)
LEMMA StoresAgain ==
  ASSUME NEW m \in Machine, NEW n, Steps(m, n), NEW k, NEW addr, Above(n, k, addr)
  PROVE  Above(m, k, addr)
BY DEF Steps, Above

LEMMA NothingStored ==
  ASSUME NEW m \in Machine, NEW n, Steps(m, n), NEW addr
  PROVE  Above(m, n, addr)
BY DEF Steps, Above

LEMMA StoreMovsm ==
  ASSUME NEW m \in Machine, NEW a, Fits(a)
  PROVE  /\ Above(m, movsm(m, a), ReadReg(m, ATTOREGID(m, a)))
         /\ Above(m, movsmCR(m, a), ReadReg(m, ATTOREGID(m, a)))
         /\ Above(m, movsmFPR(m, a), ReadReg(m, R.RAX))
<1>1. PICK id \in Nat : id = ATTOREGID(m, a)
  BY OperandType
<1>2. PICK addr \in Nat : addr = ReadReg(m, id)
  BY ReadType
<1>3. PICK w \in 1..8 : w = Width(a)
  BY WidthType
<1>4. Above(m, movsm(m, a), addr)
  <2>1. w \in 0..16 /\ 0 \in Nat
    OBVIOUS
  <2>2. PICK v \in Nat : v = Top(m, w, 0)
    BY <2>1, TopNumber
  <2>3. PICK n \in Machine : n = Drop(m, w) /\ Steps(m, n)
    BY DropStep DEF Steps
  <2>4. Above(n, _MS(n, addr, v, w), addr)
    BY <2>1, WriteNumber
  <2>5. Above(m, _MS(n, addr, v, w), addr) /\ Above(m, m, addr)
    BY <2>3, <2>4, StoresAgain, NothingStored, StepNone
  <2> QED
    BY <1>1, <1>2, <1>3, <2>2, <2>3, <2>5 DEF movsm
<1>5. Above(m, movsmCR(m, a), addr)
  <2>1. m.cr \in Nat /\ 1 \in 0..16
    BY Widths DEF Machine, Byte
  <2>2. Above(m, _MS(m, addr, m.cr, 1), addr) /\ Above(m, m, addr)
    BY <2>1, WriteNumber, NothingStored, StepNone
  <2> QED
    BY <1>1, <1>2, <2>2 DEF movsmCR
<1>6. Above(m, movsmFPR(m, a), ReadReg(m, R.RAX))
  <2>1. PICK at \in Nat : at = ReadReg(m, R.RAX)
    BY ReadType DEF R
  <2>2. PICK v \in Nat : v = ReadReg(m, id)
    BY ReadType
  <2>3. Above(m, _MS(m, at, v, 16), at) /\ Above(m, m, at)
    BY WriteNumber, NothingStored, StepNone
  <2> QED
    BY <1>1, <2>1, <2>2, <2>3 DEF movsmFPR
<1> QED
  BY <1>1, <1>2, <1>4, <1>5, <1>6

LEMMA DecimalType ==
  ASSUME NEW v \in Nat
  PROVE  \E n \in Nat : Decimal(v) \in [1..n -> Byte]
<1>1. PICK n \in Nat : n = LogFloor(v, 10) + 1
  BY LogType
<1>2. \A i \in 1..n : (48 + ((v \div Power(10, n - i)) % 10)) % Radix \in Byte
  <2> SUFFICES ASSUME NEW i \in 1..n PROVE (48 + ((v \div Power(10, n - i)) % 10)) % Radix \in Byte
    OBVIOUS
  <2>1. PICK p \in Nat : p = Power(10, n - i) /\ p > 0
    <3>1. n - i \in Nat
      OBVIOUS
    <3> QED
      BY <3>1, PowerFacts
  <2>2. PICK q \in Nat : q = v \div p
    BY <2>1, DivNat
  <2>3. 48 + (q % 10) \in Nat
    OBVIOUS
  <2> QED
    BY <2>1, <2>2, <2>3, Remainders
<1>3. Decimal(v) \in [1..n -> Byte]
  BY <1>1, <1>2 DEF Decimal
<1> QED
  BY <1>3

LEMMA StoreToString ==
  ASSUME NEW m \in Machine, NEW a, Fits(a)
  PROVE  Above(m, b_toString(m, a), m.orphan[R.RDI])
<1>1. PICK id \in Nat : id = ATTOREGID(m, a)
  BY OperandType
<1>2. PICK v \in Nat : v = ReadReg(m, id)
  BY ReadType
<1>3. PICK n \in Nat : Decimal(v) \in [1..n -> Byte]
  BY DecimalType
<1>10. PICK text \in [1..n -> Byte] : text = Decimal(v)
  BY <1>3
<1>4. Len(text) = n
  BY FunctionSequence
<1>5. PICK at \in Nat, len \in Nat : at = m.orphan[R.RDI] /\ len = m.orphan[R.RSI]
  BY OrphanType
<1>6. PICK bytes \in [1..len -> Byte] : bytes = [i \in 1..len |-> IF i <= Len(text) /\ i < len THEN text[i] ELSE 0]
  <2>1. 0 \in Byte
    BY Widths DEF Byte
  <2>2. \A i \in 1..len : (IF i <= Len(text) /\ i < len THEN text[i] ELSE 0) \in Byte
    BY <1>4, <2>1
  <2> QED
    BY <2>2
<1>7. Above(m, _MSBytes(m, at, bytes), at)
  BY WriteBytes
<1>8. Above(m, Written(m, text), at)
  BY <1>5, <1>6, <1>7, StepNone, NothingStored DEF Written
<1>9. Above(m, m, at)
  BY StepNone, NothingStored
<1> QED
  BY <1>1, <1>2, <1>5, <1>8, <1>9, <1>10 DEF b_toString
-----------------------------------------------------------------------------
(* Control flow, interrupts and devices.                                   *)
LEMMA StepCastreg ==
  ASSUME NEW m \in Machine, NEW a, Fits(a), NEW g \in Nat
  PROVE  Steps(m, b_castreg(m, a, g))
<1>1. PICK id \in Nat : id = ATTOREGID(m, a)
  BY OperandType
<1>2. PICK v \in Nat : v = Top(m, 8, g)
  BY TopNumber
<1>3. PICK n \in Machine : n = Drop(m, 8) /\ Steps(m, n)
  BY DropStep DEF Steps
<1>4. is_num_reg(id) => Steps(n, WriteReg(n, id, v))
  BY WriteNumber64
<1> QED
  BY <1>1, <1>2, <1>3, <1>4, StepNone, StepsAgain DEF b_castreg

LEMMA StepJumps ==
  ASSUME NEW m \in Machine, NEW a, Fits(a)
  PROVE  /\ Steps(m, p_jmp(m, a))
         /\ \A flags : Steps(m, JumpIf(m, a, flags))
<1>1. PICK v \in Nat : v = ARGTOULL(m, a)
  BY OperandType
<1>2. m.step \in Nat
  BY Widths DEF Machine
<1>3. PICK s \in 0..(Word - 1) : s = (m.step + v) % Word
  <2>1. m.step + v \in Nat
    BY <1>2
  <2> QED
    BY <2>1, Remainders
<1>4. p_jmp(m, a) = [m EXCEPT !.step = s]
  BY <1>1, <1>3 DEF p_jmp
<1>5. Steps(m, p_jmp(m, a))
  BY <1>4 DEF Machine, Steps
<1>6. Steps(m, [p_jmp(m, a) EXCEPT !.flag = NoFlag])
  BY <1>5 DEF Machine, Steps
<1> QED
  BY <1>5, <1>6, StepNone DEF JumpIf

LEMMA StepCompares ==
  ASSUME NEW m \in Machine, NEW g \in Nat
  PROVE  Steps(m, p_cmp(m, g)) /\ Steps(m, p_cmpdbl(m))
<1>1. \A n \in Machine : \A x, y : Steps(n, [n EXCEPT !.flag = Compared(x, y)])
  <2>1. \A x, y : Compared(x, y) \in {0, 1, 2}
    BY DEF Compared
  <2> QED
    BY <2>1 DEF Machine, Steps
<1>2. \A k \in Nat : Steps(m, Drop(Drop(m, k), k)) /\ Drop(Drop(m, k), k) \in Machine
  <2> SUFFICES ASSUME NEW k \in Nat PROVE Steps(m, Drop(Drop(m, k), k))
    BY DEF Steps
  <2>1. PICK n \in Machine : n = Drop(m, k) /\ Steps(m, n)
    BY DropStep DEF Steps
  <2>2. Steps(n, Drop(n, k))
    BY DropStep
  <2> QED
    BY <2>1, <2>2, StepsAgain
<1>3. Steps(m, p_cmp(m, g))
  <2>1. PICK n \in Machine : n = Drop(Drop(m, 8), 8) /\ Steps(m, n)
    BY <1>2
  <2>2. PICK c : p_cmp(m, g) = [n EXCEPT !.flag = c] /\ c \in {0, 1, 2}
    BY <2>1 DEF p_cmp, Compared
  <2> QED
    BY <2>1, <2>2 DEF Steps, Machine
<1>4. Steps(m, p_cmpdbl(m))
  <2>1. PICK n \in Machine : n = Drop(Drop(m, 16), 16) /\ Steps(m, n)
    BY <1>2
  <2>2. PICK c : p_cmpdbl(m) = [n EXCEPT !.flag = c] /\ c \in {0, 1, 2}
    BY <2>1 DEF p_cmpdbl, Compared
  <2> QED
    BY <2>1, <2>2 DEF Steps, Machine
<1> QED
  BY <1>3, <1>4

LEMMA StepCalls ==
  ASSUME NEW m \in Machine, NEW a, Fits(a)
  PROVE  /\ Steps(m, p_call(m, a)) /\ Steps(m, p_lcall(m, a)) /\ Steps(m, p_ret(m))
         /\ Steps(m, p_svcall(m)) /\ Steps(m, p_rscall(m))
<1>1. PICK v \in 0..(Word - 1) : v = ARGTOULL(m, a)
  BY OperandType
<1>2. Steps(m, p_call(m, a)) /\ Steps(m, p_lcall(m, a)) /\ Steps(m, p_ret(m))
  BY <1>1 DEF p_call, p_lcall, p_ret, Machine, Steps
<1>3. m.tree \in Seq(0..(Word - 1)) /\ m.pca \in 0..(Word - 1)
  BY DEF Machine
<1>4. Steps(m, p_svcall(m))
  <2>1. Append(m.tree, m.pca) \in Seq(0..(Word - 1))
    BY <1>3, AppendProperties
  <2> QED
    BY <2>1 DEF p_svcall, Machine, Steps
<1>5. Steps(m, p_rscall(m))
  <2>1. CASE m.tree = <<>>
    BY <2>1, StepNone DEF p_rscall
  <2>2. CASE m.tree # <<>>
    <3>1. Len(m.tree) \in Nat /\ Len(m.tree) > 0
      BY <1>3, <2>2, LenProperties, EmptySeq
    <3>2. \A i \in 1..Len(m.tree) : m.tree[i] \in 0..(Word - 1)
      BY <1>3, ElementOfSeq
    <3>3. PICK last \in 0..(Word - 1) : last = Last(m.tree)
      BY <3>1, <3>2 DEF Last
    <3>4. PICK front \in Seq(0..(Word - 1)) : front = Front(m.tree)
      <4>1. 1 \in Int /\ Len(m.tree) - 1 \in Int /\ \A i \in 1..(Len(m.tree) - 1) : m.tree[i] \in 0..(Word - 1)
        BY <3>1, <3>2
      <4>2. SubSeq(m.tree, 1, Len(m.tree) - 1) \in Seq(0..(Word - 1))
        BY <4>1, SubSeqProperties
      <4> QED
        BY <4>2 DEF Front
    <3>5. p_rscall(m) = [m EXCEPT !.pca = last, !.tree = front]
      BY <2>2, <3>3, <3>4 DEF p_rscall
    <3> QED
      BY <3>5 DEF Machine, Steps
  <2> QED
    BY <2>1, <2>2
<1> QED
  BY <1>2, <1>4, <1>5

LEMMA EmitStep ==
  ASSUME NEW m \in Machine, NEW event \in Requests
  PROVE  Steps(m, Emit(m, event))
<1>1. m.ext \in Seq(Requests)
  BY DEF Machine
<1>2. Append(m.ext, event) \in Seq(Requests)
  BY <1>1, AppendProperties
<1> QED
  BY <1>2 DEF Emit, Machine, Steps

LEMMA StepDisplay ==
  ASSUME NEW m \in Machine
  PROVE  Steps(m, handle_display(m))
<1>1. PICK at \in Nat, len \in Nat : at = m.orphan[R.RSI] /\ len = m.orphan[R.RDI]
  BY OrphanType
<1>2. PICK mode \in Nat : mode = ReadReg(m, R.RAX) % Span(1)
  <2>1. ReadReg(m, R.RAX) \in Nat
    BY ReadType DEF R
  <2>2. Span(1) \in Nat /\ Span(1) > 0
    BY Widths
  <2> QED
    BY <2>1, <2>2
<1>3. PICK text \in Seq(Byte) : text = IF Valid(at, len) THEN Bytes(m, at, len) ELSE <<>>
  <2>1. CASE Valid(at, len)
    <3>1. \A i \in 1..len : at + i - 1 \in 0..(MemLen - 1)
      BY <2>1, MemLenAssumption DEF Valid
    <3>2. Bytes(m, at, len) \in [1..len -> Byte]
      BY <3>1 DEF Bytes, Machine
    <3> QED
      BY <2>1, <3>2, FunctionSequence
  <2>2. CASE ~Valid(at, len)
    <3>1. <<>> \in Seq(Byte)
      BY EmptySeq
    <3> QED
      BY <2>2, <3>1
  <2> QED
    BY <2>1, <2>2
<1>4. <<"print", mode, text>> \in Requests
  BY DEF Requests
<1> QED
  BY <1>1, <1>2, <1>3, <1>4, EmitStep DEF handle_display

LEMMA StepConversions ==
  ASSUME NEW m \in Machine
  PROVE  Steps(m, handle_conversion(m))
<1>1. PICK n \in Machine : n = Drop(m, 16) /\ Steps(m, n)
  BY DropStep DEF Steps
<1>2. PICK v \in Nat : v = Top(m, 16, 0) % FpSpan
  <2>1. Top(m, 16, 0) \in Nat
    BY TopNumber
  <2> QED
    BY <2>1, Remainders, Widths DEF FpValue
<1>3. Steps(n, Push(n, v, 8))
  BY PushStep
<1>4. Steps(m, b_FPToULL(m)) /\ Steps(m, b_FPToLL(m))
  BY <1>1, <1>2, <1>3, StepsAgain DEF b_FPToULL, b_FPToLL
<1> QED
  BY <1>4, StepNone DEF handle_conversion

LEMMA StepRecast ==
  ASSUME NEW m \in Machine, NEW g \in Nat
  PROVE  Steps(m, b_recast(m, g))
<1>1. PICK v \in Nat : v = Top(m, 8, g)
  BY TopNumber
<1>2. PICK n \in Machine : n = Drop(m, 8) /\ Steps(m, n)
  BY DropStep DEF Steps
<1>3. PICK rest \in Machine : rest = Drop(n, 8) /\ Steps(n, rest)
  BY DropStep DEF Steps
<1>4. Steps(m, rest)
  BY <1>2, <1>3, StepsAgain
<1>5. Steps(rest, Push(rest, v, 8))
  BY PushStep
<1>6. Steps(m, Push(rest, v, 8))
  BY <1>4, <1>5, StepsAgain
<1> QED
  BY <1>1, <1>2, <1>3, <1>4, <1>6 DEF b_recast

LEMMA StepInt ==
  ASSUME NEW m \in Machine, NEW a, NEW g \in Nat
  PROVE  Steps(m, _intcall(m, a, g))
BY StepDisplay, StepRecast, StepConversions, StepNone DEF _intcall, pass

LEMMA StepNetwork ==
  ASSUME NEW m \in Machine, NEW a, Fits(a), a.op \in NetworkOps
  PROVE  Steps(m, Network(m, a))
<1>1. PICK v \in Nat, x \in Nat : v = ARGTOULL(m, a) /\ x = ReadReg(m, R.RDX)
  BY OperandType, ReadType DEF R
<1>2. PICK rdi \in Nat, rsi \in Nat : rdi = m.orphan[R.RDI] /\ rsi = m.orphan[R.RSI]
  BY OrphanType
<1>3. <<a.op, v, rdi, rsi, x>> \in Requests
  BY DEF Requests
<1> QED
  BY <1>1, <1>2, <1>3, EmitStep DEF Network

-----------------------------------------------------------------------------
(* The table: every instruction keeps the machine typed, and four of them  *)
(* store, at the address in a register and above.                          *)
Stores   == {"movsm", "movsmCR", "movsmFP", "toString"}
Arithmetic == {"set", "mov", "inc", "dec", "mul", "div", "add", "sub"}
Singles  == {"not", "log2", "log10", "log", "dlog2", "dlog10", "dlog"}
Pairs    == {"and", "or", "xor", "shl", "shr", "pow", "dpow"}
Moved    == {"push", "pop", "pushCR", "popCR", "pushFP", "popFP", "movgm", "movgmCR", "movgmFP", "sdzs"}
Flow     == {"jmp", "je", "jne", "jl", "jg", "jle", "jge", "cmp", "cmpdbl",
             "call", "lcall", "ret", "svcall", "rscall"}
Asked    == {"int", "castreg"} \cup NetworkOps
Plainly  == Arithmetic \cup Singles \cup Pairs \cup Moved \cup Flow \cup Asked

LEMMA ExecArithmetic ==
  ASSUME NEW m \in Machine, NEW a, Fits(a), NEW g \in Nat, a.op \in Arithmetic
  PROVE  Steps(m, Exec(m, a, g))
<1>1. PICK id \in Nat : id = ATTOREGID(m, a)
  BY OperandType
<1>2. CASE a.op = "set"
  BY <1>2, StepSet DEF Exec, NetworkOps
<1>3. CASE a.op = "mov"
  BY <1>3, StepMov DEF Exec, NetworkOps
<1>4. CASE a.op = "inc"
  BY <1>1, <1>4, StepByOne DEF Exec, NetworkOps, b_incGP
<1>5. CASE a.op = "dec"
  BY <1>1, <1>5, StepByOne DEF Exec, NetworkOps, b_decGP
<1>6. CASE a.op = "mul"
  BY <1>6, StepBetween DEF Exec, NetworkOps, b_mulGP
<1>7. CASE a.op = "div"
  BY <1>7, StepBetween DEF Exec, NetworkOps, b_divGP
<1>8. CASE a.op = "add"
  BY <1>8, StepBetween DEF Exec, NetworkOps, b_addGP
<1>9. CASE a.op = "sub"
  BY <1>9, StepBetween DEF Exec, NetworkOps, b_subGP
<1> QED
  BY <1>2, <1>3, <1>4, <1>5, <1>6, <1>7, <1>8, <1>9 DEF Arithmetic

LEMMA ExecSingles ==
  ASSUME NEW m \in Machine, NEW a, Fits(a), NEW g \in Nat, a.op \in Singles
  PROVE  Steps(m, Exec(m, a, g))
<1>1. PICK id \in Nat : id = ATTOREGID(m, a)
  BY OperandType
<1>2. CASE a.op = "not"
  BY <1>1, <1>2, StepAlone DEF Exec, NetworkOps, b_not
<1>3. CASE a.op = "log2"
  BY <1>1, <1>3, StepAlone DEF Exec, NetworkOps, b_log2
<1>4. CASE a.op = "log10"
  BY <1>1, <1>4, StepAlone DEF Exec, NetworkOps, b_log10
<1>5. CASE a.op = "log"
  BY <1>1, <1>5, StepAlone DEF Exec, NetworkOps, b_log
<1>6. CASE a.op = "dlog2"
  BY <1>1, <1>6, StepFpAlone DEF Exec, NetworkOps, b_dlog2
<1>7. CASE a.op = "dlog10"
  BY <1>1, <1>7, StepFpAlone DEF Exec, NetworkOps, b_dlog10
<1>8. CASE a.op = "dlog"
  BY <1>1, <1>8, StepFpAlone DEF Exec, NetworkOps, b_dlog
<1> QED
  BY <1>2, <1>3, <1>4, <1>5, <1>6, <1>7, <1>8 DEF Singles

LEMMA ExecPairs ==
  ASSUME NEW m \in Machine, NEW a, Fits(a), NEW g \in Nat, a.op \in Pairs
  PROVE  Steps(m, Exec(m, a, g))
<1>1. CASE a.op = "and"
  BY <1>1, StepWithPopped DEF Exec, NetworkOps, b_and
<1>2. CASE a.op = "or"
  BY <1>2, StepWithPopped DEF Exec, NetworkOps, b_or
<1>3. CASE a.op = "xor"
  BY <1>3, StepWithPopped DEF Exec, NetworkOps, b_xor
<1>4. CASE a.op = "shl"
  BY <1>4, StepWithPopped DEF Exec, NetworkOps, b_shl
<1>5. CASE a.op = "shr"
  BY <1>5, StepWithPopped DEF Exec, NetworkOps, b_shr
<1>6. CASE a.op = "pow"
  BY <1>6, StepPow DEF Exec, NetworkOps
<1>7. CASE a.op = "dpow"
  BY <1>7, StepFpPow DEF Exec, NetworkOps
<1> QED
  BY <1>1, <1>2, <1>3, <1>4, <1>5, <1>6, <1>7 DEF Pairs

LEMMA ExecMoved ==
  ASSUME NEW m \in Machine, NEW a, Fits(a), NEW g \in Nat, a.op \in Moved
  PROVE  Steps(m, Exec(m, a, g))
<1>1. CASE a.op \in {"push", "pushCR", "pushFP"}
  BY <1>1, StepPush DEF Exec, NetworkOps
<1>2. CASE a.op = "pop"
  BY <1>2, StepPop DEF Exec, NetworkOps
<1>3. CASE a.op = "popCR"
  BY <1>3, StepPopCR DEF Exec, NetworkOps
<1>4. CASE a.op = "popFP"
  BY <1>4, StepPopFp DEF Exec, NetworkOps
<1>5. CASE a.op \in {"movgm", "movgmCR", "movgmFP"}
  BY <1>5, StepLoads DEF Exec, NetworkOps
<1>6. CASE a.op = "sdzs"
  BY <1>6, StepSdzs DEF Exec, NetworkOps
<1> QED
  BY <1>1, <1>2, <1>3, <1>4, <1>5, <1>6 DEF Moved

LEMMA ExecFlow ==
  ASSUME NEW m \in Machine, NEW a, Fits(a), NEW g \in Nat, a.op \in Flow
  PROVE  Steps(m, Exec(m, a, g))
<1>1. CASE a.op = "jmp"
  BY <1>1, StepJumps DEF Exec, NetworkOps
<1>2. CASE a.op \in {"je", "jne", "jl"}
  BY <1>2, StepJumps DEF Exec, NetworkOps, p_je, p_jne, p_jl
<1>3. CASE a.op \in {"jg", "jle", "jge"}
  BY <1>3, StepJumps DEF Exec, NetworkOps, p_jg, p_jle, p_jge
<1>4. CASE a.op \in {"cmp", "cmpdbl"}
  BY <1>4, StepCompares DEF Exec, NetworkOps
<1>5. CASE a.op \in {"call", "lcall", "ret", "svcall", "rscall"}
  BY <1>5, StepCalls DEF Exec, NetworkOps
<1> QED
  BY <1>1, <1>2, <1>3, <1>4, <1>5 DEF Flow

LEMMA ExecAsked ==
  ASSUME NEW m \in Machine, NEW a, Fits(a), NEW g \in Nat, a.op \in Asked
  PROVE  Steps(m, Exec(m, a, g))
<1>1. CASE a.op = "int"
  BY <1>1, StepInt DEF Exec, NetworkOps
<1>2. CASE a.op = "castreg"
  BY <1>2, StepCastreg DEF Exec, NetworkOps
<1>3. CASE a.op \in NetworkOps
  <2>1. Exec(m, a, g) = Network(m, a)
    BY <1>3 DEF Exec, NetworkOps
  <2> QED
    BY <1>3, <2>1, StepNetwork
<1> QED
  BY <1>1, <1>2, <1>3 DEF Asked

(* Where a storing instruction stores.                                     *)
Destination(m, a) ==
  CASE a.op \in {"movsm", "movsmCR"} -> ReadReg(m, ATTOREGID(m, a))
    [] a.op = "movsmFP"  -> ReadReg(m, R.RAX)
    [] a.op = "toString" -> m.orphan[R.RDI]

LEMMA DestinationType ==
  ASSUME NEW m \in Machine, NEW a, Fits(a), a.op \in Stores
  PROVE  Destination(m, a) \in Nat
<1>1. ATTOREGID(m, a) \in Nat /\ R.RAX \in Nat /\ m.orphan[R.RDI] \in Nat
  BY OperandType, OrphanType DEF R
<1>2. ReadReg(m, ATTOREGID(m, a)) \in Nat /\ ReadReg(m, R.RAX) \in Nat
  BY <1>1, ReadType
<1> QED
  BY <1>1, <1>2 DEF Destination, Stores

LEMMA ExecStores ==
  ASSUME NEW m \in Machine, NEW a, Fits(a), NEW g \in Nat, a.op \in Stores
  PROVE  Above(m, Exec(m, a, g), Destination(m, a))
<1>1. CASE a.op = "movsm"
  <2>1. Exec(m, a, g) = movsm(m, a) /\ Destination(m, a) = ReadReg(m, ATTOREGID(m, a))
    BY <1>1 DEF Exec, NetworkOps, Destination
  <2> QED
    BY <2>1, StoreMovsm
<1>2. CASE a.op = "movsmCR"
  <2>1. Exec(m, a, g) = movsmCR(m, a) /\ Destination(m, a) = ReadReg(m, ATTOREGID(m, a))
    BY <1>2 DEF Exec, NetworkOps, Destination
  <2> QED
    BY <2>1, StoreMovsm
<1>3. CASE a.op = "movsmFP"
  <2>1. Exec(m, a, g) = movsmFPR(m, a) /\ Destination(m, a) = ReadReg(m, R.RAX)
    BY <1>3 DEF Exec, NetworkOps, Destination
  <2> QED
    BY <2>1, StoreMovsm
<1>4. CASE a.op = "toString"
  <2>1. Exec(m, a, g) = b_toString(m, a) /\ Destination(m, a) = m.orphan[R.RDI]
    BY <1>4 DEF Exec, NetworkOps, Destination
  <2> QED
    BY <2>1, StoreToString
<1> QED
  BY <1>1, <1>2, <1>3, <1>4 DEF Stores

LEMMA StepEnds ==
  ASSUME NEW n \in Machine
  PROVE  Steps(n, [n EXCEPT !.step = (n.step + 1) % Word])
<1>1. n.step + 1 \in Nat
  <2>1. n.step \in 0..(Word - 1)
    BY DEF Machine
  <2> QED
    BY <2>1, Widths
<1>2. (n.step + 1) % Word \in 0..(Word - 1)
  BY <1>1, Remainders
<1> QED
  BY <1>2 DEF Machine, Steps

(* An instruction leaves a machine that has the type of one, whatever the  *)
(* registers, the stack and the operand hold; and its memory as it was     *)
(* below the address it stores at, all of it when it is not one of the     *)
(* four that store (actions_engine::execute).                              *)
THEOREM InstructionsKeepMachine ==
  ASSUME NEW m \in Machine, NEW a, Fits(a), NEW g \in Nat, a.op \in Plainly \cup Stores
  PROVE  /\ execute1(m, a, g) \in Machine
         /\ \A c \in 0..(MemLen - 1) :
               (a.op \in Stores => c < Destination(m, a)) => execute1(m, a, g).mem[c] = m.mem[c]
<1>1. PICK n : n = Exec(m, a, g) /\ execute1(m, a, g) = [n EXCEPT !.step = (n.step + 1) % Word]
  BY DEF execute1
<1>2. n \in Machine => Steps(n, execute1(m, a, g))
  BY <1>1, StepEnds
<1>3. CASE a.op \in Plainly
  <2>1. Steps(m, n)
    BY <1>1, <1>3, ExecArithmetic, ExecSingles, ExecPairs, ExecMoved, ExecFlow, ExecAsked DEF Plainly
  <2>2. a.op \notin Stores
    BY <1>3 DEF Plainly, Stores, Arithmetic, Singles, Pairs, Moved, Flow, Asked, NetworkOps
  <2> QED
    BY <1>2, <2>1, <2>2 DEF Steps
<1>4. CASE a.op \in Stores
  <2>1. Above(m, n, Destination(m, a))
    BY <1>1, <1>4, ExecStores
  <2> QED
    BY <1>2, <1>4, <2>1 DEF Steps, Above
<1> QED
  BY <1>3, <1>4
=============================================================================
