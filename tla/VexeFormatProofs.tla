--------------------------- MODULE VexeFormatProofs ---------------------------
(***************************************************************************)
(* The runner reads back what the assembler wrote, for every opcode, every *)
(* operand and every place in a file.  The format has neither lengths nor  *)
(* ends of actions: where the next one begins follows from what this one   *)
(* was taken for, so one wrong length garbles all that comes behind it.    *)
(***************************************************************************)
EXTENDS VexeFormat, VasmMachineProofs, SequenceTheorems

Ops == DOMAIN instructions_set

(* An action the code generator may emit, with its label resolved. *)
Action(a) == /\ a.op \in Ops /\ a.val \in Nat /\ a.opt \in Nat
             /\ instructions_set[a.op] \in opt_arg_ops \/ a.opt = 0

(* data holds bytes from place i on. *)
Holds(data, i, bytes) ==
  /\ i + Len(bytes) - 1 <= Len(data)
  /\ \A k \in 1..Len(bytes) : data[(i + k) - 1] = bytes[k]

(* The operand as the machine reads it, eight bytes for all but floats and *)
(* the register CR.                                                        *)
Operand(a) ==
  CASE a.op = "set" /\ is_fp_reg(a.opt) -> FpBytes(a.val)
    [] a.op = "set" /\ a.opt = R.CR -> <<a.val>>
    [] instructions_set[a.op] \in zero_args_opcodes -> <<>>
    [] OTHER -> ULLTOA(a.val)

(* Everything the bytes of a value and its description are made of. *)
FileBytes(v) == Nat \cup {ULLTOA(v)[i] : i \in 1..8} \cup {FpBytes(v)[i] : i \in 1..16}

-----------------------------------------------------------------------------
(* The opcodes.                                                            *)
LEMMA OpcodesDiffer ==
  ASSUME NEW p \in Ops, NEW q \in Ops, instructions_set[p] = instructions_set[q]
  PROVE  p = q
BY SMTT(60) DEF Ops, instructions_set

LEMMA FindsKey ==
  ASSUME NEW p \in Ops
  PROVE  instructions_set[p] \in Nat /\ findKeyByValue(instructions_set[p]) = p
<1>1. instructions_set[p] \in Nat
  BY DEF Ops, instructions_set
<1> QED
  BY <1>1, OpcodesDiffer DEF findKeyByValue, Ops

LEMMA InClass ==
  ASSUME NEW p \in Ops, NEW ops, ops \subseteq Ops
  PROVE  instructions_set[p] \in OpcodesOf(ops) <=> p \in ops
BY OpcodesDiffer DEF OpcodesOf

(* Every opcode is of one class: what it is read as is what it was written *)
(* as.                                                                     *)
Class(p) ==
  LET code == instructions_set[p]
  IN  /\ \/ p = "set" \/ code \in zero_args_opcodes
         \/ code \in uint64_args_opcodes \/ code \in reg_args_opcodes
      /\ p = "set" => code \notin zero_args_opcodes \cup uint64_args_opcodes \cup reg_args_opcodes
      /\ code \in zero_args_opcodes => code \notin uint64_args_opcodes \cup reg_args_opcodes \cup opt_arg_ops
      /\ code \in uint64_args_opcodes => code \notin reg_args_opcodes \cup opt_arg_ops
      /\ p = "set" => code \in opt_arg_ops
      /\ code = instructions_set.set <=> p = "set"

LEMMA OneClass == \A p \in Ops : Class(p)
BY OpcodesDiffer DEF Ops, instructions_set, Class, zero_args_opcodes, uint64_args_opcodes,
   reg_args_opcodes, opt_arg_ops, OpcodesOf

-----------------------------------------------------------------------------
(* Sequences in a file.                                                    *)
LEMMA HeldPart ==
  ASSUME NEW S, NEW data \in Seq(S), NEW i \in Nat \ {0},
         NEW T, NEW bytes \in Seq(T), Holds(data, i, bytes)
  PROVE  SubSeq(data, i, (i + Len(bytes)) - 1) = bytes
<1> DEFINE n == Len(bytes)  U == S \cup T
<1>1. n \in Nat /\ (i + n) - 1 \in Int /\ i \in Int /\ bytes \in Seq(U)
  BY LenProperties, SeqMonotonic
<1>2. \A k \in 1..n : data[(i + k) - 1] = bytes[k] /\ bytes[k] \in U
  BY <1>1, ElementOfSeq DEF Holds
<1>3. \A k \in i..((i + n) - 1) : data[k] \in U
  <2> SUFFICES ASSUME NEW k \in i..((i + n) - 1) PROVE data[k] \in U
    OBVIOUS
  <2>1. (k - i) + 1 \in 1..n /\ (i + ((k - i) + 1)) - 1 = k
    BY <1>1
  <2> QED
    BY <1>2, <2>1
<1>4. PICK s : s = SubSeq(data, i, (i + n) - 1)
  OBVIOUS
<1>5. /\ s \in Seq(U)
      /\ Len(s) = IF i <= (i + n) - 1 THEN ((i + n) - 1) - i + 1 ELSE 0
      /\ \A k \in 1..(((i + n) - 1) - i + 1) : s[k] = data[i + k - 1]
  BY <1>1, <1>3, <1>4, SubSeqProperties
<1>6. Len(s) = n /\ ((i + n) - 1) - i + 1 = n
  BY <1>1, <1>5
<1>7. \A k \in 1..n : s[k] = bytes[k]
  BY <1>1, <1>2, <1>5, <1>6
<1> QED
  BY <1>1, <1>4, <1>5, <1>6, <1>7, SeqEqual

LEMMA HeldConcat ==
  ASSUME NEW data, Len(data) \in Nat, NEW i \in Nat \ {0},
         NEW T, NEW s \in Seq(T), NEW t \in Seq(T), Holds(data, i, s \o t)
  PROVE  Holds(data, i, s) /\ Holds(data, i + Len(s), t)
<1>1. PICK c : c = s \o t /\ Holds(data, i, c)
  OBVIOUS
<1>2. /\ Len(s) \in Nat /\ Len(t) \in Nat /\ Len(c) = Len(s) + Len(t)
      /\ \A k \in 1..(Len(s) + Len(t)) : c[k] = IF k <= Len(s) THEN s[k] ELSE t[k - Len(s)]
  BY <1>1, ConcatProperties, LenProperties
<1>3. Holds(data, i, s)
  BY <1>1, <1>2 DEF Holds
<1>4. ASSUME NEW k \in 1..Len(t)
      PROVE  data[((i + Len(s)) + k) - 1] = t[k]
  <2>1. Len(s) + k \in 1..Len(c) /\ ~(Len(s) + k <= Len(s)) /\ (Len(s) + k) - Len(s) = k
        /\ (i + (Len(s) + k)) - 1 = ((i + Len(s)) + k) - 1
    BY <1>2
  <2>2. data[(i + (Len(s) + k)) - 1] = c[Len(s) + k]
    BY <1>1, <2>1 DEF Holds
  <2> QED
    BY <1>2, <2>1, <2>2
<1>5. Holds(data, i + Len(s), t)
  BY <1>1, <1>2, <1>4 DEF Holds
<1> QED
  BY <1>3, <1>5

LEMMA HeldOne ==
  ASSUME NEW data, Len(data) \in Nat, NEW i \in Nat \ {0}, NEW v, Holds(data, i, <<v>>)
  PROVE  data[i] = v /\ i <= Len(data)
<1>1. Len(<<v>>) = 1 /\ <<v>>[1] = v
  OBVIOUS
<1> QED
  BY <1>1 DEF Holds

-----------------------------------------------------------------------------
(* Numbers without their leading zeros.                                    *)
Leading(bytes, z) ==
  /\ \A k \in 1..z : bytes[k] = 0
  /\ z = Len(bytes) \/ bytes[z + 1] # 0

LEMMA LeadingExists ==
  ASSUME NEW T, NEW bytes \in Seq(T), Len(bytes) = 8
  PROVE  \E z \in 0..8 : Leading(bytes, z)
<1>1. CASE \A k \in 1..8 : bytes[k] = 0
  BY <1>1 DEF Leading
<1>2. CASE \E k \in 1..8 : bytes[k] # 0
  <2>1. PICK k \in 1..8 : bytes[k] # 0 /\ \A j \in 1..8 : j < k => bytes[j] = 0
    <3>1. PICK b1, b2, b3, b4, b5, b6, b7, b8 :
            /\ b1 = bytes[1] /\ b2 = bytes[2] /\ b3 = bytes[3] /\ b4 = bytes[4]
            /\ b5 = bytes[5] /\ b6 = bytes[6] /\ b7 = bytes[7] /\ b8 = bytes[8]
      OBVIOUS
    <3>2. \A k \in 1..8 : k = 1 \/ k = 2 \/ k = 3 \/ k = 4 \/ k = 5 \/ k = 6 \/ k = 7 \/ k = 8
      OBVIOUS
    <3> QED
      BY <1>2, <3>1, <3>2
  <2>2. k - 1 \in 0..8 /\ (k - 1) + 1 = k /\ \A j \in 1..(k - 1) : j \in 1..8 /\ j < k
    OBVIOUS
  <2>3. Leading(bytes, k - 1)
    BY <2>1, <2>2 DEF Leading
  <2> QED
    BY <2>2, <2>3
<1> QED
  BY <1>1, <1>2

LEMMA Shortened ==
  ASSUME NEW T, Nat \subseteq T, NEW bytes \in Seq(T), Len(bytes) = 8
  PROVE  LET cba == COMPBA(bytes)
         IN  /\ cba \in Seq(T)
             /\ cba[1] \in 0..8
             /\ Len(cba) = IF cba[1] < 8 THEN 9 - cba[1] ELSE 2
             /\ EXTDBA(cba) = bytes
<1> DEFINE n == CHOOSE z \in 0..Len(bytes) : Leading(bytes, z)
<1>1. n \in 0..8 /\ Leading(bytes, n)
  BY LeadingExists
<1>2. COMPBA(bytes) = IF n < 8 THEN <<n>> \o SubSeq(bytes, n + 1, 8) ELSE <<n, 0>>
  BY DEF COMPBA, Leading
<1> HIDE DEF n
<1>3. \A k \in 1..n : bytes[k] = 0
  BY <1>1 DEF Leading
<1> DEFINE zeros == [k \in 1..n |-> 0]
<1>4. zeros \in Seq(T) /\ Len(zeros) = n
  <2>1. n \in Nat /\ 0 \in T
    BY <1>1
  <2>2. zeros \in Seq(T) /\ zeros \in [1..n -> T]
    BY <2>1, IsASeq
  <2> QED
    BY <2>1, <2>2, LenProperties
<1>5. CASE n = 8
  <2>1. COMPBA(bytes) = <<8, 0>>
    BY <1>2, <1>5
  <2>2. EXTDBA(<<8, 0>>) = zeros
    BY <1>5 DEF EXTDBA
  <2>3. zeros = bytes
    BY <1>3, <1>4, <1>5, SeqEqual
  <2>4. <<8, 0>> \in Seq(T) /\ Len(<<8, 0>>) = 2 /\ <<8, 0>>[1] = 8
    <3>1. 8 \in T /\ 0 \in T
      OBVIOUS
    <3> QED
      BY <3>1
  <2>5. EXTDBA(<<8, 0>>) = bytes
    BY <2>2, <2>3
  <2> HIDE DEF zeros
  <2> QED
    BY <2>1, <2>4, <2>5
<1>6. CASE n < 8
  <2> HIDE DEF zeros
  <2>1. PICK rest : rest = SubSeq(bytes, n + 1, 8)
    OBVIOUS
  <2>2. /\ rest \in Seq(T) /\ Len(rest) = 8 - n
        /\ \A k \in 1..(8 - n) : rest[k] = bytes[n + k]
    <3>1. \A k \in 1..8 : bytes[k] \in T
      BY ElementOfSeq
    <3>2. PICK m \in Int, e \in Int : m = n + 1 /\ e = 8 /\ \A k \in m..e : bytes[k] \in T
      BY <1>1, <3>1
    <3>5. /\ rest \in Seq(T)
          /\ Len(rest) = IF m <= e THEN e - m + 1 ELSE 0
          /\ \A k \in 1..(e - m + 1) : rest[k] = bytes[m + k - 1]
      <4>1. rest = SubSeq(bytes, m, e)
        BY <2>1, <3>2
      <4>2. /\ SubSeq(bytes, m, e) \in Seq(T)
            /\ Len(SubSeq(bytes, m, e)) = IF m <= e THEN e - m + 1 ELSE 0
            /\ \A k \in 1..(e - m + 1) : SubSeq(bytes, m, e)[k] = bytes[m + k - 1]
        BY <3>2, SubSeqProperties, SMTT(30)
      <4> QED
        BY <4>1, <4>2
    <3>3. Len(rest) = 8 - n
      BY <1>1, <1>6, <3>2, <3>5
    <3>4. ASSUME NEW k \in 1..(8 - n) PROVE rest[k] = bytes[n + k]
      <4>1. k \in 1..(e - m + 1) /\ m + k - 1 = n + k
        BY <1>1, <3>2
      <4> QED
        BY <3>5, <4>1
    <3> QED
      BY <3>3, <3>4, <3>5
  <2>3. PICK cba : cba = <<n>> \o rest /\ cba = COMPBA(bytes)
    BY <1>2, <1>6, <2>1
  <2>4. /\ cba \in Seq(T) /\ Len(cba) = 9 - n /\ cba[1] = n
        /\ \A k \in 2..(9 - n) : cba[k] = rest[k - 1]
    <3>1. <<n>> \in Seq(T) /\ Len(<<n>>) = 1 /\ <<n>>[1] = n
      BY <1>1
    <3>2. /\ cba \in Seq(T) /\ Len(cba) = 1 + Len(rest)
          /\ \A k \in 1..(1 + Len(rest)) : cba[k] = IF k <= 1 THEN <<n>>[k] ELSE rest[k - 1]
      BY <2>2, <2>3, <3>1, ConcatProperties
    <3>3. Len(cba) = 9 - n /\ 1 + Len(rest) = 9 - n
      BY <1>1, <2>2, <3>2
    <3> QED
      BY <1>1, <1>6, <3>1, <3>2, <3>3
  <2>5. PICK tail : tail = Tail(cba)
    OBVIOUS
  <2>6. tail = rest
    <3>1. cba # <<>>
      BY <1>1, <1>6, <2>4, EmptySeq
    <3>2. tail \in Seq(T) /\ Len(tail) = 8 - n /\ \A k \in 1..Len(tail) : tail[k] = cba[k + 1]
      BY <1>1, <1>6, <2>4, <2>5, <3>1, HeadTailProperties
    <3>3. \A k \in 1..(8 - n) : k + 1 \in 2..(9 - n) /\ (k + 1) - 1 = k
      BY <1>1
    <3> QED
      BY <2>2, <2>4, <3>2, <3>3, SeqEqual
  <2>7. cba[2] # 0
    <3>1. n + 1 # 0 /\ n # Len(bytes) /\ 2 \in 2..(9 - n) /\ 1 \in 1..(8 - n) /\ 2 - 1 = 1
      BY <1>1, <1>6
    <3> QED
      BY <1>1, <2>2, <2>4, <3>1 DEF Leading
  <2>8. EXTDBA(cba) = zeros \o rest
    BY <2>4, <2>5, <2>6, <2>7 DEF EXTDBA, zeros
  <2>9. zeros \o rest = bytes
    <3>1. PICK whole : whole = zeros \o rest
      OBVIOUS
    <3>2. /\ whole \in Seq(T) /\ Len(whole) = n + (8 - n)
          /\ \A k \in 1..(n + (8 - n)) : whole[k] = IF k <= n THEN zeros[k] ELSE rest[k - n]
      <4>1. PICK z \in Seq(T) : z = zeros /\ Len(z) = n
        BY <1>4
      <4> QED
        BY <2>2, <3>1, <4>1, ConcatProperties
    <3>3. ASSUME NEW k \in 1..8 PROVE whole[k] = bytes[k]
      <4>1. CASE k <= n
        BY <1>1, <1>3, <3>2, <4>1 DEF zeros
      <4>2. CASE k > n
        <5>1. k - n \in 1..(8 - n) /\ n + (k - n) = k /\ ~(k <= n) /\ n + (8 - n) = 8
          BY <1>1, <4>2
        <5> QED
          BY <2>2, <3>2, <5>1
      <4> QED
        BY <1>1, <4>1, <4>2
    <3>4. n + (8 - n) = 8
      BY <1>1
    <3> QED
      BY <3>1, <3>2, <3>3, <3>4, SeqEqual
  <2> QED
    BY <1>1, <1>6, <2>3, <2>4, <2>8, <2>9
<1> QED
  BY <1>1, <1>5, <1>6

(* A number in a file is read whole, and left behind whole. *)
LEMMA NumberHeld ==
  ASSUME NEW S, NEW data \in Seq(S), NEW i \in Nat \ {0},
         NEW T, Nat \subseteq T, NEW bytes \in Seq(T), Len(bytes) = 8,
         Holds(data, i, COMPBA(bytes))
  PROVE  NumberAt(data, i) = [bytes |-> bytes, size |-> Len(COMPBA(bytes))]
<1>1. PICK cba \in Seq(T) :
        /\ cba = COMPBA(bytes) /\ cba[1] \in 0..8 /\ EXTDBA(cba) = bytes
        /\ Len(cba) = IF cba[1] < 8 THEN 9 - cba[1] ELSE 2
  BY Shortened
<1>2. Len(cba) \in Nat /\ 1 \in 1..Len(cba)
  BY <1>1
<1>3. (i + 1) - 1 = i /\ data[(i + 1) - 1] = cba[1]
  BY <1>1, <1>2 DEF Holds
<1>4. SubSeq(data, i, (i + Len(cba)) - 1) = cba
  BY <1>1, HeldPart
<1>5. data[i] = cba[1]
  BY <1>3
<1>6. (IF data[i] < 8 THEN 9 - data[i] ELSE 2) = Len(cba)
  BY <1>1, <1>5
<1>7. i + Len(cba) - 1 = (i + Len(cba)) - 1
  BY <1>2
<1>8. NumberAt(data, i) = [bytes |-> EXTDBA(SubSeq(data, i, i + Len(cba) - 1)), size |-> Len(cba)]
  BY <1>6 DEF NumberAt
<1> QED
  BY <1>1, <1>4, <1>7, <1>8

-----------------------------------------------------------------------------
(* The parts of a written action.                                          *)
LEMMA ValueBytes ==
  ASSUME NEW v
  PROVE  /\ ULLTOA(v) \in Seq(FileBytes(v)) /\ Len(ULLTOA(v)) = 8
         /\ FpBytes(v) \in Seq(FileBytes(v)) /\ Len(FpBytes(v)) = 16
<1> DEFINE T == FileBytes(v)
<1>1. PICK f : f = FpBytes(v)
  OBVIOUS
<1>2. f = [k \in 1..16 |-> f[k]] /\ \A k \in 1..16 : f[k] \in T
  BY <1>1 DEF FpBytes, Digits, FileBytes
<1>3. f \in Seq(T) /\ Len(f) = 16
  <2>1. [k \in 1..16 |-> f[k]] \in Seq(T) /\ [k \in 1..16 |-> f[k]] \in [1..16 -> T]
    BY <1>2, IsASeq
  <2> QED
    BY <1>2, <2>1, LenProperties
<1>4. PICK u : u = ULLTOA(v)
  OBVIOUS
<1>5. Len(Digits(v, 8)) = 8
  <2> DEFINE D == {Digits(v, 8)[k] : k \in 1..8}
  <2>1. PICK g : g = Digits(v, 8)
    OBVIOUS
  <2>2. g = [k \in 1..8 |-> g[k]] /\ \A k \in 1..8 : g[k] \in D
    BY <2>1 DEF Digits
  <2>3. [k \in 1..8 |-> g[k]] \in Seq(D) /\ [k \in 1..8 |-> g[k]] \in [1..8 -> D]
    BY <2>2, IsASeq
  <2> QED
    BY <2>1, <2>2, <2>3, LenProperties
<1>6. u = [k \in 1..8 |-> u[k]] /\ \A k \in 1..8 : u[k] \in T
  BY <1>4, <1>5 DEF ULLTOA, Reverse, FileBytes
<1>7. u \in Seq(T) /\ Len(u) = 8
  <2>1. [k \in 1..8 |-> u[k]] \in Seq(T) /\ [k \in 1..8 |-> u[k]] \in [1..8 -> T]
    BY <1>6, IsASeq
  <2> QED
    BY <1>6, <2>1, LenProperties
<1> QED
  BY <1>1, <1>3, <1>4, <1>7

(* The bytes of a number the other way round are its bytes again.          *)
LEMMA ReverseTwice ==
  ASSUME NEW n \in Nat, NEW s, s = [i \in 1..n |-> s[i]], Len(s) = n
  PROVE  Reverse(Reverse(s)) = s
<1>1. PICK r : r = Reverse(s)
  OBVIOUS
<1>2. r = [i \in 1..n |-> s[(n - i) + 1]]
  BY <1>1 DEF Reverse
<1>3. Len(r) = n
  <2> DEFINE D == {s[i] : i \in 1..n}
  <2>1. \A i \in 1..n : s[(n - i) + 1] \in D
    <3> SUFFICES ASSUME NEW i \in 1..n PROVE (n - i) + 1 \in 1..n
      OBVIOUS
    <3> QED
      OBVIOUS
  <2> HIDE DEF D
  <2>2. r = [i \in 1..n |-> r[i]] /\ \A i \in 1..n : r[i] \in D
    BY <1>2, <2>1
  <2>3. [i \in 1..n |-> r[i]] \in Seq(D)
    BY <2>2, IsASeq
  <2> QED
    BY <2>2, <2>3, LenProperties
<1>4. Reverse(r) = [i \in 1..n |-> r[(n - i) + 1]]
  BY <1>3 DEF Reverse
<1>5. \A i \in 1..n : r[(n - i) + 1] = s[i]
  <2> SUFFICES ASSUME NEW i \in 1..n PROVE r[(n - i) + 1] = s[i]
    OBVIOUS
  <2>1. (n - i) + 1 \in 1..n /\ (n - ((n - i) + 1)) + 1 = i
    OBVIOUS
  <2> QED
    BY <1>2, <2>1
<1> QED
  BY <1>1, <1>4, <1>5

LEMMA NumberOfULLTOA ==
  ASSUME NEW v \in 0..(Word - 1)
  PROVE  Number(Reverse(ULLTOA(v))) = v
<1>1. 8 \in 0..16 /\ v \in 0..(Span(8) - 1) /\ v \in Nat
  BY WordFacts DEF Word
<1>2. PICK d : d = Digits(v, 8) /\ d \in [1..8 -> 0..(Radix - 1)]
  BY <1>1, DigitsType
<1>3. Len(d) = 8
  <2>1. d \in Seq(0..(Radix - 1))
    <3>1. [i \in 1..8 |-> d[i]] \in Seq(0..(Radix - 1))
      BY <1>2, IsASeq
    <3> QED
      BY <1>2, <3>1
  <2> QED
    BY <1>2, <2>1, LenProperties
<1>4. Reverse(Reverse(d)) = d
  BY <1>2, <1>3, ReverseTwice
<1> QED
  BY <1>1, <1>2, <1>4, NumberOfDigits DEF ULLTOA

LEMMA FileBytesAreNumbers ==
  ASSUME NEW v \in Nat
  PROVE  FileBytes(v) = Nat
<1>1. PICK d : d = Digits(v, 8) /\ \A i \in 1..8 : d[i] \in Nat
  <2>1. Digits(v, 8) \in [1..8 -> 0..(Radix - 1)] /\ 0..(Radix - 1) \subseteq Nat
    BY DigitsType, RadixFacts
  <2> QED
    BY <2>1
<1>2. \A i \in 1..16 : FpBytes(v)[i] \in Nat
  <2>1. Digits(v, 16) \in [1..16 -> 0..(Radix - 1)]
    BY DigitsType
  <2>2. 0..(Radix - 1) \subseteq Nat
    BY RadixFacts
  <2> QED
    BY <2>1, <2>2 DEF FpBytes
<1>3. Len(d) = 8
  <2>1. d = [k \in 1..8 |-> d[k]] /\ \A k \in 1..8 : d[k] \in Nat
    BY <1>1 DEF Digits
  <2>2. [k \in 1..8 |-> d[k]] \in Seq(Nat) /\ [k \in 1..8 |-> d[k]] \in [1..8 -> Nat]
    BY <2>1, IsASeq
  <2> QED
    BY <2>1, <2>2, LenProperties
<1>4. \A i \in 1..8 : ULLTOA(v)[i] \in Nat
  <2> SUFFICES ASSUME NEW i \in 1..8 PROVE Reverse(d)[i] \in Nat
    BY <1>1 DEF ULLTOA
  <2>1. (8 - i) + 1 \in 1..8 /\ Reverse(d)[i] = d[(8 - i) + 1]
    BY <1>3 DEF Reverse
  <2> QED
    BY <1>1, <2>1
<1> QED
  BY <1>2, <1>4 DEF FileBytes

LEMMA OneKind ==
  ASSUME NEW r \in Nat
  PROVE  /\ is_num_reg(r) => ~is_fp_reg(r) /\ r # R.CR
         /\ is_fp_reg(r) => r # R.CR
<1>1. R.CR = 25 /\ (is_num_reg(r) <=> r < 25)
  BY DEF R, is_num_reg
<1>2. is_fp_reg(r) <=> r \in 26..37
  BY DEF R, is_fp_reg
<1> QED
  BY <1>1, <1>2

Encoded(a) ==
  CASE a.op = "set" /\ is_fp_reg(a.opt) -> FpBytes(a.val)
    [] a.op = "set" /\ a.opt = R.CR -> <<a.val>>
    [] (a.op = "set" /\ is_num_reg(a.opt)) \/ instructions_set[a.op] \in uint64_args_opcodes
         -> COMPBA(ULLTOA(a.val))
    [] instructions_set[a.op] \in reg_args_opcodes -> <<a.val>>
    [] OTHER -> <<>>

HasOption(a) == instructions_set[a.op] \in opt_arg_ops

(* What the operand of an action is, by the kind of the action.            *)
LEMMA Encodings ==
  ASSUME NEW a, Action(a), Compiles(a)
  PROVE  /\ a.op = "set" => \/ /\ is_num_reg(a.opt)
                               /\ Encoded(a) = COMPBA(ULLTOA(a.val)) /\ Operand(a) = ULLTOA(a.val)
                            \/ /\ ~is_num_reg(a.opt) /\ is_fp_reg(a.opt)
                               /\ Encoded(a) = FpBytes(a.val) /\ Operand(a) = FpBytes(a.val)
                            \/ /\ ~is_num_reg(a.opt) /\ ~is_fp_reg(a.opt)
                               /\ Encoded(a) = <<a.val>> /\ Operand(a) = <<a.val>>
         /\ instructions_set[a.op] \in zero_args_opcodes => Encoded(a) = <<>> /\ Operand(a) = <<>>
         /\ instructions_set[a.op] \in uint64_args_opcodes
              => Encoded(a) = COMPBA(ULLTOA(a.val)) /\ Operand(a) = ULLTOA(a.val)
         /\ instructions_set[a.op] \in reg_args_opcodes
              => Encoded(a) = <<a.val>> /\ Operand(a) = ULLTOA(a.val)
<1> DEFINE code == instructions_set[a.op]
<1>1. Class(a.op) /\ a.opt \in Nat /\ a.op \in Ops
  BY OneClass DEF Action
<1>2. CASE a.op = "set"
  <2>1. code \notin zero_args_opcodes \cup uint64_args_opcodes \cup reg_args_opcodes
    BY <1>1, <1>2 DEF Class
  <2>2. is_num_reg(a.opt) \/ is_fp_reg(a.opt) \/ a.opt = R.CR
    BY <1>2, <2>1 DEF Compiles
  <2>4. CASE is_num_reg(a.opt)
    <3>1. ~is_fp_reg(a.opt) /\ a.opt # R.CR
      BY <1>1, <2>4, OneKind
    <3> QED
      BY <1>2, <2>1, <2>4, <3>1 DEF Encoded, Operand
  <2>5. CASE is_fp_reg(a.opt)
    <3>1. ~is_num_reg(a.opt) /\ a.opt # R.CR
      BY <1>1, <2>5, OneKind
    <3> QED
      BY <1>2, <2>1, <2>5, <3>1 DEF Encoded, Operand
  <2>6. CASE a.opt = R.CR
    <3>1. ~is_fp_reg(a.opt) /\ ~is_num_reg(a.opt)
      BY <1>1, <2>6, OneKind
    <3> QED
      BY <1>2, <2>1, <2>6, <3>1 DEF Encoded, Operand
  <2> QED
    BY <2>2, <2>4, <2>5, <2>6
<1>3. CASE a.op # "set"
  BY <1>1, <1>3 DEF Class, Encoded, Operand
<1> QED
  BY <1>2, <1>3

LEMMA EncodedType ==
  ASSUME NEW a, Action(a), Compiles(a)
  PROVE  Encoded(a) \in Seq(FileBytes(a.val)) /\ Len(Encoded(a)) \in Nat
<1> DEFINE T == FileBytes(a.val)
<1>1. Class(a.op) /\ a.val \in Nat
  BY OneClass DEF Action
<1>2. Nat \subseteq T
  BY DEF FileBytes
<1>3. PICK u \in Seq(T) : u = ULLTOA(a.val) /\ Len(u) = 8
  BY ValueBytes
<1>4. COMPBA(ULLTOA(a.val)) \in Seq(T)
  BY <1>2, <1>3, Shortened
<1>5. <<a.val>> \in Seq(T) /\ <<>> \in Seq(T)
  BY <1>1, <1>2
<1>6. FpBytes(a.val) \in Seq(T)
  BY ValueBytes
<1> HIDE DEF T
<1>7. Encoded(a) \in Seq(T)
  BY <1>1, <1>4, <1>5, <1>6, Encodings DEF Class
<1>8. Len(Encoded(a)) \in Nat
  BY <1>7, LenProperties
<1> QED
  BY <1>7, <1>8 DEF T

LEMMA OneElement ==
  ASSUME NEW T, NEW v \in T
  PROVE  \E one \in Seq(T) : one = <<v>> /\ Len(one) = 1
<1>1. <<v>> \in Seq(T)
  OBVIOUS
<1>2. Len(<<v>>) = 1
  OBVIOUS
<1> QED
  BY <1>1, <1>2

LEMMA NoElement ==
  ASSUME NEW T
  PROVE  \E none \in Seq(T) : none = <<>> /\ Len(none) = 0
<1>1. <<>> \in Seq(T) /\ Len(<<>>) = 0
  OBVIOUS
<1> QED
  BY <1>1

(* Where the parts of a written action are.                                *)
OptionLength(a) == IF HasOption(a) THEN 1 ELSE 0

LEMMA Placed ==
  ASSUME NEW a, Action(a), Compiles(a),
         NEW data, Len(data) \in Nat, NEW i \in Nat \ {0}, Holds(data, i, compileInst(a))
  PROVE  /\ data[i] = instructions_set[a.op] /\ i <= Len(data)
         /\ HasOption(a) => data[i + 1] = a.opt
         /\ Holds(data, i + 1 + OptionLength(a), Encoded(a))
         /\ Len(compileInst(a)) = 1 + OptionLength(a) + Len(Encoded(a))
<1> DEFINE T == FileBytes(a.val)
<1>1. PICK code \in T : code = instructions_set[a.op]
  BY FindsKey DEF Action, FileBytes
<1>0. a.opt \in T
  BY DEF Action, FileBytes
<1> HIDE DEF T
<1>2. PICK opt \in Seq(T) :
        /\ opt = IF HasOption(a) THEN <<a.opt>> ELSE <<>>
        /\ Len(opt) = OptionLength(a)
  <2>1. CASE HasOption(a)
    <3>1. PICK o \in Seq(T) : o = <<a.opt>> /\ Len(o) = 1
      BY <1>0, OneElement
    <3>2. OptionLength(a) = 1
      BY <2>1 DEF OptionLength
    <3> QED
      BY <2>1, <3>1, <3>2
  <2>2. CASE ~HasOption(a)
    <3>1. PICK o \in Seq(T) : o = <<>> /\ Len(o) = 0
      BY NoElement
    <3>2. OptionLength(a) = 0
      BY <2>2 DEF OptionLength
    <3> QED
      BY <2>2, <3>1, <3>2
  <2> QED
    BY <2>1, <2>2
<1>3. PICK enc \in Seq(T) : enc = Encoded(a)
  BY EncodedType DEF T
<1>4. PICK one \in Seq(T) : one = <<code>> /\ Len(one) = 1
  BY OneElement
<1>5. compileInst(a) = (one \o opt) \o enc
  BY <1>1, <1>2, <1>3, <1>4 DEF compileInst, Encoded, HasOption
<1>6. PICK front \in Seq(T) : front = one \o opt /\ Len(front) = 1 + OptionLength(a)
  <2>1. one \o opt \in Seq(T) /\ Len(one \o opt) = Len(one) + Len(opt)
    BY ConcatProperties
  <2> QED
    BY <1>2, <1>4, <2>1
<1>7. Holds(data, i, front) /\ Holds(data, i + Len(front), enc)
  BY <1>5, <1>6, HeldConcat
<1>8. Holds(data, i, one) /\ Holds(data, i + Len(one), opt)
  BY <1>6, <1>7, HeldConcat
<1>9. data[i] = code /\ i <= Len(data)
  BY <1>4, <1>8, HeldOne
<1>10. HasOption(a) => data[i + 1] = a.opt
  BY <1>2, <1>4, <1>8, HeldOne
<1>11. Len(front \o enc) = Len(front) + Len(enc)
  BY ConcatProperties
<1>12. OptionLength(a) \in Nat /\ i + Len(front) = i + 1 + OptionLength(a)
  BY <1>6 DEF OptionLength
<1> QED
  BY <1>1, <1>3, <1>5, <1>6, <1>7, <1>9, <1>10, <1>11, <1>12

-----------------------------------------------------------------------------
(* The runner reads the action at the place where it is as the action that *)
(* was written: its word, its register and its operand, eight bytes again  *)
(* behind the operands before it; and it goes on behind its last byte.     *)
Decoded(d, a) ==
  [i       |-> d.i + Len(compileInst(a)),
   actions |-> Append(d.actions,
                 [op   |-> a.op,
                  addr |-> IF instructions_set[a.op] \in zero_args_opcodes THEN 0 ELSE Len(d.sdz),
                  opt  |-> a.opt]),
   sdz     |-> d.sdz \o Operand(a)]

Reader(A, B) == [i : Nat \ {0}, actions : Seq(A), sdz : Seq(B)]

THEOREM DecodesWhatIsCompiled ==
  ASSUME NEW a, Action(a), Compiles(a),
         NEW S, NEW data \in Seq(S),
         NEW A, NEW B, NEW d \in Reader(A, B), Holds(data, d.i, compileInst(a))
  PROVE  decodeByteArray(data, d) = Decoded(d, a)
<1> DEFINE code == instructions_set[a.op]
           T    == FileBytes(a.val)
<1>1. /\ a.op \in Ops /\ a.val \in Nat /\ a.opt \in Nat /\ (HasOption(a) \/ a.opt = 0)
      /\ d.i \in Nat \ {0} /\ d.sdz \in Seq(B)
      /\ d = [i |-> d.i, actions |-> d.actions, sdz |-> d.sdz]
  BY DEF Action, Reader, HasOption
<1>2. Class(a.op) /\ findKeyByValue(code) = a.op
  BY <1>1, OneClass, FindsKey
<1>3. /\ data[d.i] = code
      /\ HasOption(a) => data[d.i + 1] = a.opt
      /\ Holds(data, d.i + 1 + OptionLength(a), Encoded(a))
      /\ Len(compileInst(a)) = 1 + OptionLength(a) + Len(Encoded(a))
  BY <1>1, Placed, LenProperties
<1>4. PICK enc \in Seq(T) : enc = Encoded(a) /\ Len(enc) \in Nat
  BY EncodedType
<1>5. Nat \subseteq T
  BY DEF FileBytes
<1> HIDE DEF T
<1>6. CASE a.op = "set"
  <2>1. HasOption(a) /\ OptionLength(a) = 1 /\ code = instructions_set.set
        /\ code \notin zero_args_opcodes /\ code \notin uint64_args_opcodes
        /\ code \notin reg_args_opcodes
    BY <1>2, <1>6 DEF Class, HasOption, OptionLength
  <2>2. decodeByteArray(data, d) = DecodeSet(data, d)
    BY <1>3, <2>1 DEF decodeByteArray
  <2>3. PICK at \in Nat \ {0} : at = d.i + 2 /\ Holds(data, at, Encoded(a))
    <3>1. d.i + 1 + OptionLength(a) = d.i + 2
      BY <1>1, <2>1
    <3> QED
      BY <1>1, <1>3, <3>1
  <2>4. data[d.i + 1] = a.opt
    BY <1>3, <2>1
  <2>5. ASSUME NEW n \in Nat, Len(Encoded(a)) = n
        PROVE  Decoded(d, a) = WithOperand(d, at + n, "set", a.opt, Operand(a))
    <3>1. d.i + Len(compileInst(a)) = at + n
      BY <1>1, <1>3, <2>1, <2>3, <2>5
    <3> QED
      BY <1>6, <2>1, <3>1 DEF Decoded, WithOperand
  <2>6. CASE is_num_reg(a.opt) /\ Encoded(a) = COMPBA(ULLTOA(a.val)) /\ Operand(a) = ULLTOA(a.val)
    <3>0. PICK num \in Seq(T) : num = ULLTOA(a.val) /\ Len(num) = 8
      BY ValueBytes DEF T
    <3>1. NumberAt(data, at) = [bytes |-> Operand(a), size |-> Len(Encoded(a))]
      <4>1. Holds(data, at, COMPBA(num)) /\ Operand(a) = num /\ Encoded(a) = COMPBA(num)
        BY <2>3, <2>6, <3>0
      <4> QED
        BY <1>5, <3>0, <4>1, NumberHeld
    <3>2. DecodeSet(data, d) = WithOperand(d, at + Len(Encoded(a)), "set", a.opt, Operand(a))
      BY <2>3, <2>4, <2>6, <3>1 DEF DecodeSet
    <3> QED
      BY <1>4, <2>2, <2>5, <3>2
  <2>7. CASE ~is_num_reg(a.opt) /\ is_fp_reg(a.opt)
             /\ Encoded(a) = FpBytes(a.val) /\ Operand(a) = FpBytes(a.val)
    <3>1. PICK f \in Seq(T) : f = FpBytes(a.val) /\ Len(f) = 16
      BY ValueBytes DEF T
    <3>2. SubSeq(data, at, at + 15) = f
      <4>1. (at + Len(f)) - 1 = at + 15
        BY <3>1
      <4>2. SubSeq(data, at, (at + Len(f)) - 1) = f
        BY <2>3, <2>7, <3>1, HeldPart
      <4> QED
        BY <4>1, <4>2
    <3>3. DecodeSet(data, d) = WithOperand(d, at + 16, "set", a.opt, Operand(a))
      BY <2>3, <2>4, <2>7, <3>1, <3>2 DEF DecodeSet
    <3>4. Len(Encoded(a)) = 16
      BY <2>7, <3>1
    <3>5. Decoded(d, a) = WithOperand(d, at + 16, "set", a.opt, Operand(a))
      BY <2>5, <3>4
    <3> QED
      BY <2>2, <3>3, <3>5
  <2>8. CASE ~is_num_reg(a.opt) /\ ~is_fp_reg(a.opt)
             /\ Encoded(a) = <<a.val>> /\ Operand(a) = <<a.val>>
    <3>1. data[at] = a.val
      BY <2>3, <2>8, HeldOne, LenProperties
    <3>2. DecodeSet(data, d) = WithOperand(d, at + 1, "set", a.opt, Operand(a))
      BY <2>3, <2>4, <2>8, <3>1 DEF DecodeSet
    <3>3. Len(Encoded(a)) = 1
      BY <2>8
    <3>4. Decoded(d, a) = WithOperand(d, at + 1, "set", a.opt, Operand(a))
      BY <2>5, <3>3
    <3> QED
      BY <2>2, <3>2, <3>4
  <2> QED
    BY <1>6, <2>6, <2>7, <2>8, Encodings
<1>7. CASE code \in zero_args_opcodes
  <2>1. /\ a.op # "set" /\ code # instructions_set.set /\ a.opt = 0
        /\ OptionLength(a) = 0 /\ Encoded(a) = <<>> /\ Operand(a) = <<>>
        /\ code \notin uint64_args_opcodes /\ code \notin reg_args_opcodes
    BY <1>1, <1>2, <1>7, Encodings DEF Class, HasOption, OptionLength
  <2>2. decodeByteArray(data, d) = DecodeZero(d, a.op)
    BY <1>2, <1>3, <1>7, <2>1 DEF decodeByteArray
  <2>3. d.i + Len(compileInst(a)) = d.i + 1 /\ d.sdz \o Operand(a) = d.sdz
    <3>1. Len(Encoded(a)) = 0
      BY <2>1
    <3>2. d.sdz \o <<>> = d.sdz
      BY <1>1, ConcatEmptySeq
    <3> QED
      BY <1>1, <1>3, <2>1, <3>1, <3>2
  <2>4. Decoded(d, a) = [i |-> d.i + 1,
                         actions |-> Append(d.actions, [op |-> a.op, addr |-> 0, opt |-> 0]),
                         sdz |-> d.sdz]
    BY <1>7, <2>1, <2>3 DEF Decoded
  <2> QED
    BY <2>2, <2>4 DEF DecodeZero
<1>8. CASE code \in uint64_args_opcodes
  <2>1. /\ a.op # "set" /\ code # instructions_set.set /\ a.opt = 0 /\ OptionLength(a) = 0
        /\ code \notin zero_args_opcodes /\ code \notin reg_args_opcodes
        /\ Encoded(a) = COMPBA(ULLTOA(a.val)) /\ Operand(a) = ULLTOA(a.val)
    BY <1>1, <1>2, <1>8, Encodings DEF Class, HasOption, OptionLength
  <2>2. decodeByteArray(data, d) = DecodeUint64(data, d, a.op)
    BY <1>2, <1>3, <1>8, <2>1 DEF decodeByteArray
  <2>3. PICK at \in Nat \ {0} : at = d.i + 1 /\ Holds(data, at, Encoded(a))
    <3>1. d.i + 1 + OptionLength(a) = d.i + 1
      BY <1>1, <2>1
    <3> QED
      BY <1>1, <1>3, <3>1
  <2>4. NumberAt(data, at) = [bytes |-> Operand(a), size |-> Len(Encoded(a))]
    <3>1. PICK num \in Seq(T) : num = ULLTOA(a.val) /\ Len(num) = 8
      BY ValueBytes DEF T
    <3> QED
      BY <1>5, <2>1, <2>3, <3>1, NumberHeld, SMTT(30)
  <2>5. DecodeUint64(data, d, a.op) = WithOperand(d, at + Len(Encoded(a)), a.op, 0, Operand(a))
    BY <2>3, <2>4 DEF DecodeUint64
  <2>6. d.i + Len(compileInst(a)) = at + Len(Encoded(a))
    BY <1>1, <1>3, <1>4, <2>1, <2>3
  <2>7. Decoded(d, a) = WithOperand(d, at + Len(Encoded(a)), a.op, 0, Operand(a))
    BY <2>1, <2>6 DEF Decoded, WithOperand
  <2> QED
    BY <2>2, <2>5, <2>7
<1>9. CASE code \in reg_args_opcodes
  <2>1. /\ a.op # "set" /\ code # instructions_set.set
        /\ code \notin zero_args_opcodes /\ code \notin uint64_args_opcodes
        /\ Encoded(a) = <<a.val>> /\ Operand(a) = ULLTOA(a.val)
    BY <1>2, <1>9, Encodings DEF Class
  <2>2. decodeByteArray(data, d) = DecodeReg(data, d, a.op)
    BY <1>2, <1>3, <1>9, <2>1 DEF decodeByteArray
  <2>3. PICK at \in Nat \ {0} : /\ at = d.i + 1 + OptionLength(a)
                                /\ at = IF HasOption(a) THEN d.i + 2 ELSE d.i + 1
    BY <1>1 DEF OptionLength
  <2>4. data[at] = a.val
    BY <1>3, <2>1, <2>3, HeldOne, LenProperties
  <2>5. (IF HasOption(a) THEN data[d.i + 1] ELSE 0) = a.opt
    BY <1>1, <1>3
  <2>6. DecodeReg(data, d, a.op) = WithOperand(d, at + 1, a.op, a.opt, Operand(a))
    BY <1>3, <2>1, <2>3, <2>4, <2>5 DEF DecodeReg, HasOption
  <2>7. d.i + Len(compileInst(a)) = at + 1
    <3>1. Len(Encoded(a)) = 1
      BY <2>1
    <3>2. OptionLength(a) \in Nat
      BY DEF OptionLength
    <3> QED
      BY <1>1, <1>3, <2>3, <3>1, <3>2
  <2>8. Decoded(d, a) = WithOperand(d, at + 1, a.op, a.opt, Operand(a))
    BY <2>1, <2>7 DEF Decoded, WithOperand
  <2> QED
    BY <2>2, <2>6, <2>8
<1> QED
  BY <1>2, <1>6, <1>7, <1>8, <1>9 DEF Class

LEMMA ByteRest == \A v \in 0..255 : v % 256 = v
OBVIOUS

(* The assembler of the other language writes the same bytes for an action *)
(* whose operand it finds in its static data zone, whatever the action, if *)
(* the number of a register is a byte; so the runner reads its files back. *)
RegisterIsByte(a) == instructions_set[a.op] \in reg_args_opcodes => a.val \in 0..255

THEOREM AssemblersAgree ==
  ASSUME NEW a, Action(a), Compiles(a),
         RegisterIsByte(a),
         NEW S, NEW sdz \in Seq(S), NEW addr \in Nat, Holds(sdz, addr + 1, Operand(a))
  PROVE  assembleAction(sdz, [op |-> a.op, addr |-> addr, opt |-> a.opt]) = compileInst(a)
<1> DEFINE code == instructions_set[a.op]
           At(n) == SubSeq(sdz, addr + 1, addr + n)
           T     == FileBytes(a.val)
           act   == [op |-> a.op, addr |-> addr, opt |-> a.opt]
           first == <<code>> \o (IF code \in opt_arg_ops THEN <<a.opt>> ELSE <<>>)
           there == CASE a.op = "set" /\ is_fp_reg(a.opt) -> At(16)
                      [] a.op = "set" /\ a.opt = R.CR -> At(1)
                      [] (a.op = "set" /\ is_num_reg(a.opt)) \/ code \in uint64_args_opcodes -> COMPBA(At(8))
                      [] code \in reg_args_opcodes -> <<Number(Reverse(At(8))) % 256>>
                      [] OTHER -> <<>>
<1>1. Class(a.op) /\ a.val \in Nat /\ a.opt \in Nat
  BY OneClass DEF Action
<1>2. compileInst(a) = first \o Encoded(a)
  BY DEF compileInst, Encoded
<1>3. assembleAction(sdz, act) = first \o there
  BY DEF assembleAction
<1>4. ASSUME NEW n \in Nat, NEW bytes \in Seq(T), bytes = Operand(a), Len(bytes) = n
      PROVE  At(n) = bytes
  <2>1. ((addr + 1) + Len(bytes)) - 1 = addr + n /\ addr + 1 \in Nat \ {0}
    BY <1>4
  <2>2. SubSeq(sdz, addr + 1, ((addr + 1) + Len(bytes)) - 1) = bytes
    BY <1>4, <2>1, HeldPart
  <2> QED
    BY <2>1, <2>2
<1>5. PICK num \in Seq(T) : num = ULLTOA(a.val) /\ Len(num) = 8
  BY ValueBytes
<1>6. PICK f \in Seq(T) : f = FpBytes(a.val) /\ Len(f) = 16
  BY ValueBytes
<1>7. PICK one \in Seq(T) : one = <<a.val>> /\ Len(one) = 1
  BY <1>1, OneElement DEF FileBytes
<1> HIDE DEF T
<1>8. there = Encoded(a)
  <2>1. CASE a.op = "set"
    <3>1. code \notin zero_args_opcodes /\ code \notin uint64_args_opcodes /\ code \notin reg_args_opcodes
      BY <1>1, <2>1 DEF Class
    <3>2. is_num_reg(a.opt) \/ is_fp_reg(a.opt) \/ a.opt = R.CR
      BY <2>1, <3>1 DEF Compiles
    <3>3. CASE is_num_reg(a.opt)
      <4>1. ~is_fp_reg(a.opt) /\ a.opt # R.CR
        BY <1>1, <3>3, OneKind
      <4>2. Operand(a) = num /\ Encoded(a) = COMPBA(num)
        BY <1>5, <2>1, <3>3, <4>1, Encodings
      <4>3. At(8) = num
        BY <1>4, <1>5, <4>2
      <4>4. there = COMPBA(At(8))
        BY <2>1, <3>1, <3>3, <4>1
      <4> QED
        BY <4>2, <4>3, <4>4
    <3>4. CASE is_fp_reg(a.opt)
      <4>1. ~is_num_reg(a.opt) /\ a.opt # R.CR
        BY <1>1, <3>4, OneKind
      <4>2. Operand(a) = f /\ Encoded(a) = f
        BY <1>6, <2>1, <3>4, <4>1, Encodings
      <4>3. At(16) = f
        BY <1>4, <1>6, <4>2
      <4>4. there = At(16)
        BY <2>1, <3>1, <3>4, <4>1
      <4> QED
        BY <4>2, <4>3, <4>4
    <3>5. CASE a.opt = R.CR
      <4>1. ~is_num_reg(a.opt) /\ ~is_fp_reg(a.opt)
        BY <1>1, <3>5, OneKind
      <4>2. Operand(a) = one /\ Encoded(a) = one
        BY <1>7, <2>1, <3>5, <4>1, Encodings
      <4>3. At(1) = one
        BY <1>4, <1>7, <4>2
      <4>4. there = At(1)
        BY <2>1, <3>1, <3>5, <4>1
      <4> QED
        BY <4>2, <4>3, <4>4
    <3> QED
      BY <3>2, <3>3, <3>4, <3>5
  <2>2. CASE code \in zero_args_opcodes
    <3>1. a.op # "set" /\ code \notin uint64_args_opcodes /\ code \notin reg_args_opcodes
      BY <1>1, <2>2 DEF Class
    <3>2. there = <<>>
      BY <3>1
    <3> QED
      BY <2>2, <3>2, Encodings
  <2>3. CASE code \in uint64_args_opcodes
    <3>1. a.op # "set" /\ code \notin reg_args_opcodes
      BY <1>1, <2>3 DEF Class
    <3>2. Operand(a) = num /\ Encoded(a) = COMPBA(num)
      BY <1>5, <2>3, Encodings
    <3>3. At(8) = num
      BY <1>4, <1>5, <3>2
    <3>4. there = COMPBA(At(8))
      BY <2>3, <3>1
    <3> QED
      BY <3>2, <3>3, <3>4
  <2>4. CASE code \in reg_args_opcodes
    <3>1. a.op # "set" /\ code \notin uint64_args_opcodes
      BY <1>1, <2>4 DEF Class
    <3>2. Operand(a) = num /\ Encoded(a) = one
      BY <1>5, <1>7, <2>4, Encodings
    <3>3. At(8) = num
      BY <1>4, <1>5, <3>2
    <3>4. there = <<Number(Reverse(At(8))) % 256>>
      BY <2>4, <3>1
    <3>5. PICK v \in 0..255 : v = a.val
      BY <2>4 DEF RegisterIsByte
    <3>6. v % 256 = v
      BY ByteRest
    <3>7. v \in 0..(Word - 1)
      <4>1. PICK w \in Nat : w = Word /\ w >= 256
        BY WordFacts
      <4> QED
        BY <4>1
    <3>8. Number(Reverse(num)) = v
      BY <1>5, <3>5, <3>7, NumberOfULLTOA
    <3> QED
      BY <1>7, <3>2, <3>3, <3>4, <3>5, <3>6, <3>8
  <2> QED
    BY <1>1, <2>1, <2>2, <2>3, <2>4 DEF Class
<1> HIDE DEF first, there
<1> QED
  BY <1>2, <1>3, <1>8

-----------------------------------------------------------------------------
(* The code of several actions is their codes one after another.           *)
IsFlatten(f, seqs) ==
  f = [i \in 1..Len(seqs) |-> IF i = 1 THEN seqs[i] ELSE f[i - 1] \o seqs[i]]

LEMMA FlattenExists ==
  ASSUME NEW T, NEW n \in Nat \ {0}, NEW seqs \in [1..n -> Seq(T)], Len(seqs) = n
  PROVE  IsFlatten(CHOOSE f : IsFlatten(f, seqs), seqs)
<1>1. PICK U : U = Seq(T)
  OBVIOUS
<1> DEFINE step == [i \in Nat |-> [x \in U |-> IF i \in 1..n THEN x \o seqs[i] ELSE x]]
<1>2. step \in StepsOn(U)
  <2>1. \A i \in Nat : \A x \in U : (IF i \in 1..n THEN x \o seqs[i] ELSE x) \in U
    <3> SUFFICES ASSUME NEW i \in 1..n, NEW x \in U PROVE x \o seqs[i] \in U
      OBVIOUS
    <3>1. seqs[i] \in Seq(T)
      OBVIOUS
    <3> QED
      BY <1>1, <3>1, ConcatProperties
  <2> QED
    BY <2>1 DEF StepsOn
<1>3. PICK none \in U : none = <<>>
  <2>1. <<>> \in Seq(T)
    OBVIOUS
  <2> QED
    BY <1>1, <2>1
<1>4. PICK p : Iterated(p, U, none, step, n)
  <2> HIDE DEF step
  <2> QED
    BY <1>2, Iterates
<1>5. p \in [0..n -> U] /\ p[0] = <<>> /\ \A i \in 1..n : p[i] = step[i][p[i - 1]]
  BY <1>3, <1>4 DEF Iterated
<1>6. \A i \in 1..n : p[i] = p[i - 1] \o seqs[i]
  <2> SUFFICES ASSUME NEW i \in 1..n PROVE p[i] = p[i - 1] \o seqs[i]
    OBVIOUS
  <2>1. i \in Nat /\ p[i - 1] \in U
    BY <1>5
  <2>2. step[i][p[i - 1]] = p[i - 1] \o seqs[i]
    BY <2>1
  <2> QED
    BY <1>5, <2>2
<1>7. p[1] = seqs[1]
  <2>1. 1 \in 1..n /\ 1 - 1 = 0 /\ seqs[1] \in Seq(T)
    OBVIOUS
  <2>2. <<>> \o seqs[1] = seqs[1]
    BY <2>1, ConcatEmptySeq
  <2>3. p[1] = p[1 - 1] \o seqs[1]
    BY <1>6, <2>1
  <2>4. p[1 - 1] = <<>>
    BY <1>5, <2>1
  <2> QED
    BY <2>2, <2>3, <2>4
<1> DEFINE f == [i \in 1..n |-> p[i]]
<1>8. \A i \in 1..n : f[i] = IF i = 1 THEN seqs[i] ELSE f[i - 1] \o seqs[i]
  <2> SUFFICES ASSUME NEW i \in 1..n PROVE f[i] = IF i = 1 THEN seqs[i] ELSE f[i - 1] \o seqs[i]
    OBVIOUS
  <2>1. CASE i = 1
    BY <1>7, <2>1
  <2>2. CASE i # 1
    <3>1. i - 1 \in 1..n /\ f[i - 1] = p[i - 1] /\ f[i] = p[i]
      BY <2>2
    <3> QED
      BY <1>6, <2>2, <3>1
  <2> QED
    BY <2>1, <2>2
<1>9. IsFlatten(f, seqs)
  BY <1>8 DEF IsFlatten
<1> QED
  BY <1>9

IsSeqs(s, n, T)  == s \in [1..n -> Seq(T)] /\ Len(s) = n
StartsAs(s, t, k) == Len(t) = k /\ \A i \in 1..k : t[i] = s[i]

LEMMA FlattensAgree ==
  ASSUME NEW T, NEW n \in Nat, NEW k \in 0..n,
         NEW s, IsSeqs(s, n, T), NEW t, StartsAs(s, t, k),
         NEW f, IsFlatten(f, s), NEW g, IsFlatten(g, t)
  PROVE  \A i \in 1..k : f[i] = g[i] /\ f[i] \in Seq(T)
<1> USE DEF IsSeqs, StartsAs
<1> DEFINE S == {i \in Nat : i \in 1..k => f[i] = g[i] /\ f[i] \in Seq(T)}
<1>1. 0 \in S
  OBVIOUS
<1>2. ASSUME NEW i \in Nat, i \in S PROVE i + 1 \in S
  <2> SUFFICES ASSUME i + 1 \in 1..k PROVE f[i + 1] = g[i + 1] /\ f[i + 1] \in Seq(T)
    OBVIOUS
  <2>1. i + 1 \in 1..n /\ i + 1 \in 1..k /\ s[i + 1] \in Seq(T) /\ t[i + 1] = s[i + 1]
    OBVIOUS
  <2>2. CASE i = 0
    <3>1. f[1] = s[1] /\ g[1] = t[1]
      BY <2>1, <2>2 DEF IsFlatten
    <3> QED
      BY <2>1, <2>2, <3>1
  <2>3. CASE i # 0
    <3>1. i \in 1..k /\ i + 1 # 1 /\ (i + 1) - 1 = i
      BY <2>1, <2>3
    <3>2. f[i] = g[i] /\ f[i] \in Seq(T)
      BY <1>2, <3>1
    <3>3. f[i + 1] = f[i] \o s[i + 1] /\ g[i + 1] = g[i] \o t[i + 1]
      BY <2>1, <3>1 DEF IsFlatten
    <3>4. f[i] \o s[i + 1] \in Seq(T)
      BY <2>1, <3>2, ConcatProperties
    <3> QED
      BY <2>1, <3>2, <3>3, <3>4
  <2> QED
    BY <2>2, <2>3
<1>3. Nat \subseteq S
  <2> HIDE DEF S
  <2> QED
    BY <1>1, <1>2, SetInduction
<1> QED
  BY <1>3

LEMMA FunctionIsSeq ==
  ASSUME NEW n \in Nat, NEW S, NEW t \in [1..n -> S]
  PROVE  t \in Seq(S) /\ Len(t) = n
<1>1. [i \in 1..n |-> t[i]] \in Seq(S)
  BY IsASeq
<1>2. t = [i \in 1..n |-> t[i]]
  OBVIOUS
<1>3. t \in Seq(S)
  BY <1>1, <1>2
<1> QED
  BY <1>3, LenProperties

LEMMA FlattenMore ==
  ASSUME NEW T, NEW n \in Nat, NEW s \in [1..(n + 1) -> Seq(T)],
         NEW t \in [1..n -> Seq(T)], \A i \in 1..n : t[i] = s[i]
  PROVE  FlattenSeq(t) \in Seq(T) /\ FlattenSeq(s) = FlattenSeq(t) \o s[n + 1]
<1>0. Len(s) = n + 1 /\ Len(t) = n /\ n + 1 \in Nat \ {0} /\ n + 1 \in 1..(n + 1) /\ s[n + 1] \in Seq(T)
  BY FunctionIsSeq
<1>1. PICK f : f = (CHOOSE h : IsFlatten(h, s)) /\ IsFlatten(f, s)
  BY <1>0, FlattenExists
<1>2. FlattenSeq(s) = f[n + 1]
  BY <1>0, <1>1, Zenon DEF FlattenSeq, IsFlatten
<1>3. CASE n = 0
  <2>1. FlattenSeq(t) = t /\ t = <<>>
    BY <1>0, <1>3 DEF FlattenSeq
  <2>2. f[n + 1] = s[n + 1]
    BY <1>0, <1>1, <1>3 DEF IsFlatten
  <2>3. <<>> \o s[n + 1] = s[n + 1] /\ <<>> \in Seq(T)
    BY <1>0, ConcatEmptySeq
  <2> QED
    BY <1>2, <2>1, <2>2, <2>3
<1>4. CASE n # 0
  <2>1. PICK g : g = (CHOOSE h : IsFlatten(h, t)) /\ IsFlatten(g, t)
    BY <1>0, <1>4, FlattenExists
  <2>2. FlattenSeq(t) = g[n]
    BY <1>0, <1>4, <2>1, Zenon DEF FlattenSeq, IsFlatten
  <2>3. n \in 0..(n + 1) /\ n \in 1..n
    BY <1>4
  <2>4. f[n] = g[n] /\ f[n] \in Seq(T)
    <3>1. PICK m \in Nat : m = n + 1 /\ n \in 0..m
      BY <1>0, <2>3
    <3>2. IsSeqs(s, m, T) /\ StartsAs(s, t, n)
      BY <1>0, <3>1 DEF IsSeqs, StartsAs
    <3>3. \A i \in 1..n : f[i] = g[i] /\ f[i] \in Seq(T)
      BY <1>1, <2>1, <3>1, <3>2, FlattensAgree
    <3> QED
      BY <2>3, <3>3
  <2>5. f[n + 1] = f[n] \o s[n + 1]
    <3>1. n + 1 \in 1..Len(s) /\ n + 1 # 1 /\ (n + 1) - 1 = n
      BY <1>0, <1>4
    <3> QED
      BY <1>1, <3>1 DEF IsFlatten
  <2> QED
    BY <1>2, <2>2, <2>4, <2>5
<1> QED
  BY <1>3, <1>4

-----------------------------------------------------------------------------
(* The code of the first k actions.                                        *)
Compiled(acts, k) == FlattenSeq([i \in 1..k |-> compileInst(acts[i])])

LEMMA CompileType ==
  ASSUME NEW a, Action(a), Compiles(a)
  PROVE  /\ compileInst(a) \in Seq(Nat) /\ Len(compileInst(a)) \in Nat \ {0}
         /\ Operand(a) \in Seq(Nat) /\ Len(Operand(a)) \in Nat
<1>1. a.val \in Nat /\ a.opt \in Nat /\ instructions_set[a.op] \in Nat
  BY FindsKey DEF Action
<1>2. Encoded(a) \in Seq(Nat)
  BY <1>1, EncodedType, FileBytesAreNumbers
<1>3. PICK one \in Seq(Nat) : one = <<instructions_set[a.op]>> /\ Len(one) = 1
  BY <1>1, OneElement
<1>4. PICK opt \in Seq(Nat) : opt = IF HasOption(a) THEN <<a.opt>> ELSE <<>>
  <2>1. \E o \in Seq(Nat) : o = <<a.opt>>
    BY <1>1, OneElement
  <2>2. \E o \in Seq(Nat) : o = <<>>
    BY NoElement
  <2> QED
    BY <2>1, <2>2
<1>5. PICK front \in Seq(Nat) : front = one \o opt /\ Len(front) >= 1
  <2>1. one \o opt \in Seq(Nat) /\ Len(one \o opt) = Len(one) + Len(opt)
    BY ConcatProperties
  <2>2. Len(opt) \in Nat /\ Len(one) = 1
    BY <1>3, LenProperties
  <2>3. Len(one \o opt) >= 1
    BY <2>1, <2>2
  <2> QED
    BY <2>1, <2>3
<1>6. compileInst(a) = front \o Encoded(a)
  BY <1>3, <1>4, <1>5 DEF compileInst, Encoded, HasOption
<1>7. front \o Encoded(a) \in Seq(Nat) /\ Len(front \o Encoded(a)) \in Nat \ {0}
  <2>1. Len(Encoded(a)) \in Nat /\ Len(front) \in Nat
    BY <1>2, LenProperties
  <2>2. front \o Encoded(a) \in Seq(Nat) /\ Len(front \o Encoded(a)) = Len(front) + Len(Encoded(a))
    BY <1>2, ConcatProperties
  <2> QED
    BY <1>5, <2>1, <2>2
<1>8. Operand(a) \in Seq(Nat)
  <2>1. ULLTOA(a.val) \in Seq(Nat) /\ FpBytes(a.val) \in Seq(Nat)
    BY <1>1, ValueBytes, FileBytesAreNumbers
  <2>2. <<a.val>> \in Seq(Nat) /\ <<>> \in Seq(Nat)
    BY <1>1
  <2>3. Class(a.op)
    BY OneClass DEF Action
  <2> QED
    BY <2>1, <2>2, <2>3, Encodings DEF Class
<1> QED
  BY <1>6, <1>7, <1>8, LenProperties

LEMMA CompiledNone == \A acts : Compiled(acts, 0) = <<>>
<1> SUFFICES ASSUME NEW acts PROVE Compiled(acts, 0) = <<>>
  OBVIOUS
<1>1. PICK e : e = [i \in 1..0 |-> compileInst(acts[i])]
  OBVIOUS
<1>2. e \in [1..0 -> Seq(Nat)] /\ e = <<>>
  BY <1>1
<1>3. FlattenSeq(e) = e
  BY <1>2, FunctionIsSeq DEF FlattenSeq
<1> QED
  BY <1>1, <1>2, <1>3 DEF Compiled

LEMMA CompiledMore ==
  ASSUME NEW acts, NEW k \in Nat, \A i \in 1..(k + 1) : compileInst(acts[i]) \in Seq(Nat)
  PROVE  /\ Compiled(acts, 0) = <<>>
         /\ Compiled(acts, k) \in Seq(Nat)
         /\ Compiled(acts, k + 1) = Compiled(acts, k) \o compileInst(acts[k + 1])
<1> DEFINE s == [i \in 1..(k + 1) |-> compileInst(acts[i])]
           t == [i \in 1..k |-> compileInst(acts[i])]
<1>1. s \in [1..(k + 1) -> Seq(Nat)] /\ t \in [1..k -> Seq(Nat)] /\ \A i \in 1..k : t[i] = s[i]
  OBVIOUS
<1>2. s[k + 1] = compileInst(acts[k + 1])
  OBVIOUS
<1>3. Compiled(acts, k) = FlattenSeq(t) /\ Compiled(acts, k + 1) = FlattenSeq(s)
  BY Zenon DEF Compiled
<1>4. Compiled(acts, 0) = <<>>
  BY CompiledNone
<1> HIDE DEF s, t
<1>5. FlattenSeq(t) \in Seq(Nat) /\ FlattenSeq(s) = FlattenSeq(t) \o s[k + 1]
  BY <1>1, FlattenMore
<1> QED
  BY <1>2, <1>3, <1>4, <1>5

(* What a sequence holds it still holds when more is put behind it.        *)
LEMMA HoldsLonger ==
  ASSUME NEW T, NEW s \in Seq(T), NEW t \in Seq(T), NEW i \in Nat \ {0},
         NEW bytes, Len(bytes) \in Nat, Holds(s, i, bytes)
  PROVE  Holds(s \o t, i, bytes)
<1>1. PICK c : c = s \o t
  OBVIOUS
<1>2. /\ Len(s) \in Nat /\ Len(t) \in Nat /\ Len(c) = Len(s) + Len(t)
      /\ \A k \in 1..(Len(s) + Len(t)) : c[k] = IF k <= Len(s) THEN s[k] ELSE t[k - Len(s)]
  BY <1>1, ConcatProperties, LenProperties
<1>3. i + Len(bytes) - 1 <= Len(s) /\ \A k \in 1..Len(bytes) : s[(i + k) - 1] = bytes[k]
  BY DEF Holds
<1>4. \A k \in 1..Len(bytes) : (i + k) - 1 \in 1..Len(s) /\ (i + k) - 1 \in 1..(Len(s) + Len(t))
  BY <1>2, <1>3
<1>5. ASSUME NEW k \in 1..Len(bytes) PROVE c[(i + k) - 1] = bytes[k]
  <2>1. PICK j \in 1..(Len(s) + Len(t)) : j = (i + k) - 1 /\ j <= Len(s)
    BY <1>2, <1>4
  <2>2. c[j] = s[j]
    BY <1>2, <2>1
  <2> QED
    BY <1>3, <2>1, <2>2
<1>6. i + Len(bytes) - 1 <= Len(c)
  BY <1>2, <1>3
<1> QED
  BY <1>1, <1>5, <1>6 DEF Holds

LEMMA HoldsLast ==
  ASSUME NEW T, NEW s \in Seq(T), NEW t \in Seq(T)
  PROVE  Holds(s \o t, Len(s) + 1, t)
<1>1. PICK c : c = s \o t
  OBVIOUS
<1>2. /\ Len(s) \in Nat /\ Len(t) \in Nat /\ Len(c) = Len(s) + Len(t)
      /\ \A k \in 1..(Len(s) + Len(t)) : c[k] = IF k <= Len(s) THEN s[k] ELSE t[k - Len(s)]
  BY <1>1, ConcatProperties, LenProperties
<1>3. ASSUME NEW k \in 1..Len(t) PROVE c[((Len(s) + 1) + k) - 1] = t[k]
  <2>1. /\ ((Len(s) + 1) + k) - 1 = Len(s) + k /\ Len(s) + k \in 1..(Len(s) + Len(t))
        /\ ~(Len(s) + k <= Len(s)) /\ (Len(s) + k) - Len(s) = k
    BY <1>2
  <2> QED
    BY <1>2, <2>1
<1>4. (Len(s) + 1) + Len(t) - 1 <= Len(c)
  BY <1>2
<1> QED
  BY <1>1, <1>3, <1>4 DEF Holds

Codes(acts, n) == \A i \in 1..n : Action(acts[i]) /\ Compiles(acts[i])

LEMMA CompiledStep ==
  ASSUME NEW acts, NEW k \in Nat, Codes(acts, k + 1)
  PROVE  /\ Compiled(acts, 0) = <<>>
         /\ Compiled(acts, k) \in Seq(Nat) /\ Len(Compiled(acts, k)) \in Nat
         /\ compileInst(acts[k + 1]) \in Seq(Nat) /\ Len(compileInst(acts[k + 1])) \in Nat \ {0}
         /\ Compiled(acts, k + 1) = Compiled(acts, k) \o compileInst(acts[k + 1])
         /\ Compiled(acts, k + 1) \in Seq(Nat)
         /\ Len(Compiled(acts, k + 1)) = Len(Compiled(acts, k)) + Len(compileInst(acts[k + 1]))
<1>1. \A i \in 1..(k + 1) : compileInst(acts[i]) \in Seq(Nat) /\ Len(compileInst(acts[i])) \in Nat \ {0}
  BY CompileType DEF Codes
<1>2. k + 1 \in 1..(k + 1)
  OBVIOUS
<1>3. PICK s \in Seq(Nat) : s = Compiled(acts, k)
  BY <1>1, CompiledMore
<1>4. PICK t \in Seq(Nat) : t = compileInst(acts[k + 1])
  BY <1>1, <1>2
<1>5. Compiled(acts, 0) = <<>> /\ Compiled(acts, k + 1) = s \o t
  BY <1>1, <1>3, <1>4, CompiledMore
<1>6. s \o t \in Seq(Nat) /\ Len(s \o t) = Len(s) + Len(t) /\ Len(s) \in Nat
  BY ConcatProperties, LenProperties
<1> QED
  BY <1>1, <1>2, <1>3, <1>4, <1>5, <1>6

(* Where the k-th action is among n.                                       *)
InPlace(acts, k, n) ==
  /\ Len(Compiled(acts, k)) <= Len(Compiled(acts, n))
  /\ Holds(Compiled(acts, n), Len(Compiled(acts, k - 1)) + 1, compileInst(acts[k]))

LEMMA CompiledHolds ==
  ASSUME NEW acts, NEW n \in Nat, Codes(acts, n), NEW k \in 1..n
  PROVE  InPlace(acts, k, n)
<1> DEFINE S == {j \in Nat : j <= n => \A i \in 1..j : InPlace(acts, i, j)}
<1>1. 0 \in S
  OBVIOUS
<1>2. ASSUME NEW j \in Nat, j \in S PROVE j + 1 \in S
  <2> SUFFICES ASSUME j + 1 <= n, NEW i \in 1..(j + 1) PROVE InPlace(acts, i, j + 1)
    OBVIOUS
  <2>1. Codes(acts, j + 1)
    BY DEF Codes
  <2>2. PICK s \in Seq(Nat) : s = Compiled(acts, j) /\ Len(s) \in Nat
    BY <2>1, CompiledStep
  <2>3. PICK t \in Seq(Nat) : t = compileInst(acts[j + 1]) /\ Len(t) \in Nat
    BY <2>1, CompiledStep
  <2>4. Compiled(acts, j + 1) = s \o t /\ Len(s \o t) = Len(s) + Len(t)
    BY <2>1, <2>2, <2>3, CompiledStep, ConcatProperties
  <2>5. CASE i = j + 1
    <3>1. (j + 1) - 1 = j
      OBVIOUS
    <3>2. Holds(s \o t, Len(s) + 1, t)
      BY HoldsLast
    <3>3. Len(Compiled(acts, j + 1)) \in Nat
      BY <2>2, <2>3, <2>4
    <3>4. PICK l \in Nat : l = Len(Compiled(acts, j + 1))
      BY <3>3
    <3>5. Len(Compiled(acts, j + 1)) <= Len(Compiled(acts, j + 1))
      BY <3>4
    <3>6. Holds(Compiled(acts, j + 1), Len(Compiled(acts, (j + 1) - 1)) + 1, compileInst(acts[j + 1]))
      BY <2>2, <2>3, <2>4, <3>1, <3>2
    <3>7. InPlace(acts, j + 1, j + 1)
      BY <3>5, <3>6 DEF InPlace
    <3> QED
      BY <2>5, <3>7
  <2>6. CASE i # j + 1
    <3>1. i \in 1..j /\ i - 1 \in Nat /\ (i - 1) + 1 = i
      BY <2>6
    <3>2. InPlace(acts, i, j)
      BY <1>2, <3>1
    <3>3. Codes(acts, (i - 1) + 1)
      BY <3>1 DEF Codes
    <3>4. /\ Len(Compiled(acts, i - 1)) \in Nat /\ Len(Compiled(acts, i)) \in Nat
          /\ Len(compileInst(acts[i])) \in Nat
      <4>1. PICK h \in Nat : h = i - 1
        BY <3>1
      <4>2. /\ Len(Compiled(acts, h)) \in Nat /\ Len(compileInst(acts[h + 1])) \in Nat
            /\ Len(Compiled(acts, h + 1)) = Len(Compiled(acts, h)) + Len(compileInst(acts[h + 1]))
        BY <3>3, <4>1, CompiledStep
      <4>3. Len(Compiled(acts, h + 1)) \in Nat
        BY <4>2
      <4> QED
        BY <3>1, <4>1, <4>2, <4>3
    <3>5. Holds(s \o t, Len(Compiled(acts, i - 1)) + 1, compileInst(acts[i]))
      <4>1. PICK p \in Nat \ {0} : p = Len(Compiled(acts, i - 1)) + 1
        BY <3>4
      <4>2. Holds(s, p, compileInst(acts[i]))
        BY <2>2, <3>2, <4>1 DEF InPlace
      <4>3. Holds(s \o t, p, compileInst(acts[i]))
        BY <3>4, <4>2, HoldsLonger
      <4> QED
        BY <4>1, <4>3
    <3>6. Len(Compiled(acts, i)) <= Len(s) + Len(t)
      BY <2>2, <2>3, <3>2, <3>4 DEF InPlace
    <3> QED
      BY <2>4, <3>5, <3>6 DEF InPlace
  <2> QED
    BY <2>5, <2>6
<1>3. Nat \subseteq S
  <2> HIDE DEF S
  <2> QED
    BY <1>1, <1>2, SetInduction
<1> QED
  BY <1>3

-----------------------------------------------------------------------------
(* The file: two numbers of eight bytes in front of the code.              *)
LinkedFile(main) == Header \o ULLTOA(Len(main)) \o main

LEMMA NumberBytes ==
  ASSUME NEW v \in Nat
  PROVE  \E num \in Seq(Nat) : num = ULLTOA(v) /\ Len(num) = 8
BY ValueBytes, FileBytesAreNumbers

LEMMA HoldsFirst ==
  ASSUME NEW T, NEW s \in Seq(T), NEW t \in Seq(T)
  PROVE  Holds(s \o t, 1, s)
<1>1. Len(s) \in Nat
  BY LenProperties
<1>2. Holds(s, 1, s)
  <2>1. 1 + Len(s) - 1 <= Len(s) /\ \A k \in 1..Len(s) : (1 + k) - 1 = k
    BY <1>1
  <2> QED
    BY <2>1 DEF Holds
<1> QED
  BY <1>1, <1>2, HoldsLonger

(* A file is a sequence of numbers.                                        *)
LEMMA FileParts ==
  ASSUME NEW s \in Seq(Nat), NEW t \in Seq(Nat)
  PROVE  /\ s \o t \in Seq(Nat) /\ Len(s \o t) = Len(s) + Len(t)
         /\ Len(s) \in Nat /\ Len(t) \in Nat /\ Len(s \o t) \in Nat
<1>1. s \o t \in Seq(Nat) /\ Len(s \o t) = Len(s) + Len(t)
  BY ConcatProperties
<1> QED
  BY <1>1, LenProperties

LEMMA PartHeld ==
  ASSUME NEW data \in Seq(Nat), NEW bytes \in Seq(Nat), NEW i \in Nat \ {0}, Holds(data, i, bytes),
         NEW last, last = (i + Len(bytes)) - 1
  PROVE  SubSeq(data, i, last) = bytes
BY HeldPart

(* The linker takes the code out of the file it was written to.            *)
LEMMA LinksTheCode ==
  ASSUME NEW main \in Seq(Nat)
  PROVE  link(Header \o main) = LinkedFile(main)
<1>1. PICK h \in Seq(Nat) : h = Header /\ Len(h) = 8
  BY NumberBytes, DefaultMemAssumption DEF Header
<1>2. PICK out \in Seq(Nat) : out = h \o main /\ Len(out) = 8 + Len(main)
  <2>1. h \o main \in Seq(Nat) /\ Len(h \o main) = Len(h) + Len(main)
    BY FileParts
  <2> QED
    BY <1>1, <2>1
<1>3. PICK n \in Nat : n = Len(main)
  BY LenProperties
<1>4. Holds(out, 1, h) /\ Holds(out, 9, main)
  <2>1. Len(h) + 1 = 9
    BY <1>1
  <2> QED
    BY <1>2, <2>1, HoldsFirst, HoldsLast
<1>5. SubSeq(out, 1, 8) = h
  <2>1. PICK last : last = (1 + Len(h)) - 1
    OBVIOUS
  <2>2. last = 8
    BY <1>1, <2>1
  <2>3. SubSeq(out, 1, last) = h
    BY <1>4, <2>1, PartHeld
  <2> QED
    BY <2>2, <2>3
<1>6. SubSeq(out, 9, Len(out)) = main
  <2>1. (9 + Len(main)) - 1 = Len(out)
    BY <1>2, <1>3
  <2> QED
    BY <1>4, <2>1, PartHeld
<1>7. Len(out) - 8 = Len(main)
  BY <1>2, <1>3
<1> QED
  BY <1>1, <1>2, <1>5, <1>6, <1>7 DEF link, LinkedFile

(* The runner finds the code in the linked file, if its length has eight   *)
(* bytes.                                                                  *)
LEMMA FindsTheCode ==
  ASSUME NEW main \in Seq(Nat), Len(main) < Word
  PROVE  decodeFile(LinkedFile(main)).code = main
<1>1. PICK h \in Seq(Nat) : h = Header /\ Len(h) = 8
  BY NumberBytes, DefaultMemAssumption DEF Header
<1>2. PICK n \in Nat : n = Len(main)
  BY LenProperties
<1>3. PICK num \in Seq(Nat) : num = ULLTOA(n) /\ Len(num) = 8
  BY NumberBytes
<1>4. PICK front \in Seq(Nat) : front = h \o num /\ Len(front) = 16
  <2>1. h \o num \in Seq(Nat) /\ Len(h \o num) = Len(h) + Len(num)
    BY FileParts
  <2>2. Len(h) + Len(num) = 16
    BY <1>1, <1>3
  <2> QED
    BY <2>1, <2>2
<1>5. PICK file \in Seq(Nat) : file = front \o main
  BY <1>4, FileParts
<1>6. file = LinkedFile(main)
  BY <1>1, <1>2, <1>3, <1>4, <1>5 DEF LinkedFile
<1>7. Holds(file, 9, num)
  <2>1. Len(h) + 1 = 9
    BY <1>1
  <2>2. Holds(front, 9, num)
    BY <1>4, <2>1, HoldsLast
  <2> QED
    BY <1>3, <1>5, <2>2, HoldsLonger
<1>8. Holds(file, 17, main)
  <2>1. Len(front) + 1 = 17
    BY <1>4
  <2> QED
    BY <1>5, <2>1, HoldsLast
<1>9. SubSeq(file, 9, 16) = num
  <2>1. PICK last : last = (9 + Len(num)) - 1
    OBVIOUS
  <2>2. last = 16
    BY <1>3, <2>1
  <2>3. SubSeq(file, 9, last) = num
    BY <1>7, <2>1, PartHeld
  <2> QED
    BY <2>2, <2>3
<1>10. Number(Reverse(num)) = n
  <2>1. n \in 0..(Word - 1)
    <3>1. PICK w \in Nat : w = Word
      BY WordFacts
    <3> QED
      BY <1>2, <3>1
  <2> QED
    BY <1>3, <2>1, NumberOfULLTOA
<1>11. SubSeq(file, 17, 16 + n) = main
  <2>1. (17 + Len(main)) - 1 = 16 + n
    BY <1>2
  <2> QED
    BY <1>8, <2>1, PartHeld
<1> QED
  BY <1>6, <1>9, <1>10, <1>11 DEF decodeFile

(* What the other assembler writes for what the runner decoded.            *)
LEMMA AssembledFile ==
  ASSUME NEW sdz, NEW acts, NEW codes,
         [i \in DOMAIN acts |-> assembleAction(sdz, acts[i])] = codes
  PROVE  as(sdz, acts) = LinkedFile(FlattenSeq(codes))
BY DEF as, LinkedFile, Header
=============================================================================
