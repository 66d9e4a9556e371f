-------------------------- MODULE VpuMemoryProofs ---------------------------
(***************************************************************************)
(* Theorems about VpuMemory, for every modulus, block and stack size, set  *)
(* of payloads and set of register values its assumptions allow.           *)
(***************************************************************************)
EXTENDS VpuMemory, SequenceTheorems, TLAPS

(* The sizes and the stack limits stay where the checks expect them: the   *)
(* part of the inductive invariant TypeOK lacks.                           *)
Layout ==
  /\ memlen >= DefaultMemLen
  /\ sdzsize >= SdzFrame
  /\ sdzsize <= StaticLimit + SdzFrame
  /\ rsbgn <= getMemLen

-----------------------------------------------------------------------------
(* Lemmas about the operators.                                             *)

LEMMA SizeTRange ==
  ASSUME NEW x \in Int, -Modulus <= x, x < 2 * Modulus
  PROVE  SizeT(x) \in 0..(Modulus - 1)
BY SizesAssumption DEF SizeT

LEMMA PayloadFacts ==
  ASSUME NEW bs \in Payloads
  PROVE  /\ bs \in Seq(Byte)
         /\ Len(bs) \in Nat /\ Len(bs) > 0 /\ Len(bs) < Modulus
         /\ \A s \in MemSizes : Len(bs) + s + StaticLimit + SdzFrame < Modulus
         /\ \A i \in 1..Len(bs) : bs[i] \in Byte
<1>1. bs \in Seq(Byte)
  BY DataAssumption
<1>2. \A i \in 1..Len(bs) : bs[i] \in Byte
  BY <1>1
<1>3. /\ Len(bs) \in Nat /\ Len(bs) > 0
      /\ \A s \in MemSizes : Len(bs) + s + StaticLimit + SdzFrame < Modulus
  BY <1>1, DataAssumption
<1>4. Len(bs) < Modulus
  BY <1>3, SizesAssumption
<1>5. QED
  BY <1>1, <1>2, <1>3, <1>4

LEMMA WidthFacts ==
  ASSUME NEW n \in Widths
  PROVE  /\ n \in Nat /\ n > 0 /\ n < Modulus
         /\ \A s \in MemSizes : n + s + StaticLimit + SdzFrame < Modulus
BY PayloadFacts DEF Widths

\* The sizes and registers as numbers.
LEMMA StateNumbers ==
  ASSUME TypeOK, Layout
  PROVE  /\ memlen \in Nat /\ sdzsize \in Nat /\ sdztop \in Nat
         /\ getMemLen = sdzsize + memlen /\ getMemLen \in Nat /\ getMemLen < Modulus
         /\ rbp \in Nat /\ rsp \in Nat /\ rsend \in Nat /\ rsbgn \in Nat
         /\ rbp < Modulus /\ rsp < Modulus /\ rsend < Modulus /\ rsbgn < Modulus
         /\ rsbgn <= getMemLen /\ Modulus \in Nat
<1>1. memlen \in Nat /\ sdzsize \in Nat /\ sdztop \in Nat /\ Modulus \in Nat
  BY SizesAssumption DEF TypeOK
<1>2. memlen + StaticLimit + SdzFrame < Modulus
  BY SizesAssumption DEF TypeOK
<1>3. getMemLen \in Nat /\ getMemLen < Modulus
  BY <1>1, <1>2, SizesAssumption DEF getMemLen, Layout
<1>4. /\ rbp \in 0..(Modulus - 1) /\ rsp \in 0..(Modulus - 1)
      /\ rsend \in 0..(Modulus - 1) /\ rsbgn \in 0..(Modulus - 1)
  BY DEF TypeOK
<1>5. QED
  BY <1>1, <1>3, <1>4 DEF TypeOK, Layout, getMemLen

\* A buffer of n bytes is a sequence of bytes.
LEMMA BuffersAreSeqs ==
  ASSUME NEW n \in Nat, NEW b \in [1..n -> Byte]
  PROVE  b \in Seq(Byte)
BY SeqDef

\* A block extended by MRSZ is still a block of bytes.
LEMMA MRSZType ==
  ASSUME TypeOK, Layout, NEW s \in MemSizes, MRSZ(s)
  PROVE  /\ memlen' \in MemSizes
         /\ memlen' >= memlen
         /\ \E len : sdzsize + memlen' = len /\ mem' \in [0..(len - 1) -> Byte]
         /\ \A a \in 0..(getMemLen - 1) : mem'[a] = mem[a]
<1>1. /\ s \in Nat /\ sdzsize \in Nat /\ memlen \in Nat /\ getMemLen = sdzsize + memlen
      /\ memlen \in MemSizes /\ mem \in [0..(getMemLen - 1) -> Byte] /\ 0 \in Byte
  BY SizesAssumption, DataAssumption DEF TypeOK, getMemLen
<1>2. CASE s > memlen
  <2>1. /\ memlen' = s
        /\ mem' = [a \in 0..(s + sdzsize - 1) |-> IF a < getMemLen THEN mem[a] ELSE 0]
    BY <1>2 DEF MRSZ
  <2>2. PICK len \in Nat : len = s + sdzsize
    BY <1>1
  <2>3. sdzsize + memlen' = len
    BY <1>1, <2>1, <2>2
  <2>4. \A a \in 0..(s + sdzsize - 1) : a < getMemLen => mem[a] \in Byte
    BY <1>1
  <2>5. mem' \in [0..(s + sdzsize - 1) -> Byte]
    BY <1>1, <2>1, <2>4
  <2>6. mem' \in [0..(len - 1) -> Byte]
    BY <1>1, <2>2, <2>5
  <2>7. getMemLen <= s + sdzsize
    BY <1>1, <1>2
  <2>8. \A a \in 0..(getMemLen - 1) : a \in 0..(s + sdzsize - 1) /\ a < getMemLen
    BY <1>1, <2>7
  <2>9. \A a \in 0..(getMemLen - 1) : mem'[a] = mem[a]
    BY <2>1, <2>8
  <2>10. QED
    BY <1>1, <1>2, <2>1, <2>3, <2>6, <2>9
<1>3. CASE ~(s > memlen)
  <2>1. memlen' = memlen /\ mem' = mem
    BY <1>3 DEF MRSZ
  <2>2. QED
    BY <1>1, <2>1
<1>4. QED
  BY <1>2, <1>3

\* The static data zone and the block grow together.
LEMMA SDZRSZType ==
  ASSUME TypeOK, Layout, NEW tail \in Tails
  PROVE  SDZRSZ(tail) \in [0..(getMemLen + SdzFrame - 1) -> Byte]
BY SizesAssumption, DataAssumption DEF SDZRSZ, Tails, TypeOK, Layout, getMemLen

\* Storing a byte string over a block of bytes leaves a block of bytes.
LEMMA MemSetType ==
  ASSUME NEW D \in SUBSET Int, NEW m \in [D -> Byte], NEW addr \in Nat, NEW bs \in Payloads
  PROVE  MemSet(m, addr, bs) \in [D -> Byte]
<1>1. ASSUME NEW a \in D, a \in addr..(addr + Len(bs) - 1)
      PROVE  bs[a - addr + 1] \in Byte
  BY <1>1, PayloadFacts
<1>2. QED
  BY <1>1 DEF MemSet

LEMMA MSType ==
  ASSUME NEW D \in SUBSET Int, NEW m \in [D -> Byte], NEW addr \in RegValues,
         NEW bs \in Seq(Byte), Len(bs) > 0, Len(bs) < Modulus
  PROVE  MS(m, bs, addr) \in [D -> Byte]
<1>0. addr \in Nat /\ addr < Modulus /\ Len(bs) \in Nat
  BY DataAssumption, SizesAssumption
<1>1. ASSUME NEW a \in D, a \in AccessAddrs(addr, Len(bs))
      PROVE  bs[a - addr + 1] \in Byte
  <2>1. a - addr + 1 \in 1..Len(bs)
    BY <1>0, <1>1, SizesAssumption DEF AccessAddrs, SizeT
  <2>2. QED
    BY <2>1
<1>2. QED
  BY <1>1 DEF MS

\* Swapping the bytes of an operand changes their order and nothing else.
LEMMA SwapFacts ==
  ASSUME NEW data, NEW n \in Nat, data \in Seq(Byte), Len(data) = n
  PROVE  /\ Reverse(data) \in Seq(Byte) /\ Len(Reverse(data)) = n
         /\ \A i \in 1..n : Reverse(data)[i] = data[n - i + 1]
<1>1. Reverse(data) = [i \in 1..n |-> data[(n - i) + 1]]
  BY DEF Reverse
<1>2. \A i \in 1..n : (n - i) + 1 \in 1..n
  OBVIOUS
<1>3. Reverse(data) \in [1..n -> Byte]
  BY <1>1, <1>2
<1>4. QED
  BY <1>1, <1>3, BuffersAreSeqs

\* The bytes a push writes, swapped or not, are as many.
LEMMA PushedSwap ==
  ASSUME NEW data \in Seq(Byte), NEW swap \in BOOLEAN, push(data, swap)
  PROVE  \E bs \in Seq(Byte) :
           /\ Len(bs) = Len(data)
           /\ bs = IF swap THEN swap_endian(data) ELSE data
           /\ IF isvalidpush(Len(bs))
                THEN mem' = Pushed(bs) /\ rsp' = SizeT(rsp - Len(bs))
                ELSE UNCHANGED <<mem, rsp>>
<1>1. PICK bs : bs = IF swap THEN swap_endian(data) ELSE data
  OBVIOUS
<1>2. bs \in Seq(Byte) /\ Len(bs) = Len(data)
  <2>1. Len(data) \in Nat
    OBVIOUS
  <2>2. QED
    BY <1>1, <2>1, SwapFacts DEF swap_endian
<1>3. QED
  BY <1>1, <1>2 DEF push

\* A push writes only bytes of its operand, a pop only zeros.
LEMMA PushType ==
  ASSUME TypeOK, Layout, NEW data \in Seq(Byte), Len(data) > 0, Len(data) < Modulus,
         NEW swap \in BOOLEAN, push(data, swap)
  PROVE  /\ mem' \in [0..(getMemLen - 1) -> Byte]
         /\ rsp' \in 0..(Modulus - 1)
<1> PICK bs \in Seq(Byte) :
      /\ Len(bs) = Len(data)
      /\ IF isvalidpush(Len(bs))
           THEN mem' = Pushed(bs) /\ rsp' = SizeT(rsp - Len(bs))
           ELSE UNCHANGED <<mem, rsp>>
  BY PushedSwap
<1>0. Len(bs) \in Nat
  OBVIOUS
<1>1. CASE isvalidpush(Len(bs))
  <2>1. ASSUME NEW a \in PushAddrs(Len(bs))
        PROVE  bs[rsp - a + 1] \in Byte
    <3>1. rsp - a + 1 \in 1..Len(bs)
      BY <2>1 DEF PushAddrs, TypeOK
    <3>2. QED
      BY <3>1
  <2>2. Pushed(bs) \in [0..(getMemLen - 1) -> Byte]
    BY <2>1 DEF Pushed, TypeOK
  <2>3. SizeT(rsp - Len(bs)) \in 0..(Modulus - 1)
    <3>1. rsp - Len(bs) \in Int /\ -Modulus <= rsp - Len(bs)
          /\ rsp - Len(bs) < 2 * Modulus
      BY <1>0, StateNumbers
    <3>2. QED
      BY <3>1, SizeTRange
  <2>4. QED
    BY <1>1, <2>2, <2>3
<1>2. CASE ~isvalidpush(Len(bs))
  BY <1>2 DEF TypeOK
<1>3. QED
  BY <1>1, <1>2

\* A valid pop reads the block from RSP + 1 to RSP + count.
LEMMA PopRange ==
  ASSUME TypeOK, Layout, NEW n \in Widths, isvalidpop(n)
  PROVE  /\ SizeT(rsp + n) = rsp + n
         /\ rsp + n < rsbgn
         /\ rsend <= rsp
<1>1. n \in Nat /\ n + memlen + StaticLimit + SdzFrame < Modulus
  BY WidthFacts DEF TypeOK
<1>2. sdzsize <= StaticLimit + SdzFrame /\ StaticLimit \in Nat /\ SdzFrame \in Nat
  BY SizesAssumption DEF Layout
<1>3. n + getMemLen < Modulus
  BY <1>1, <1>2, StateNumbers
<1>4. /\ rsp <= rbp /\ rsp >= rsend /\ rbp < rsbgn
      /\ SizeT(rsp + n) <= rbp
  BY DEF isvalidpop, FrameOK
<1>5. rsp + n < Modulus
  BY <1>1, <1>3, <1>4, StateNumbers
<1>6. SizeT(rsp + n) = rsp + n
  BY <1>1, <1>5, StateNumbers DEF SizeT
<1>7. QED
  BY <1>1, <1>4, <1>6, StateNumbers

LEMMA PopType ==
  ASSUME TypeOK, Layout, NEW n \in Widths
  PROVE  /\ Cleared(n) \in [0..(getMemLen - 1) -> Byte]
         /\ isvalidpop(n) => /\ Popped(n) \in [1..n -> Byte]
                             /\ \A i \in 1..n : Popped(n)[i] = mem[rsp + i]
         /\ SizeT(rsp + n) \in 0..(Modulus - 1)
<1>1. Cleared(n) \in [0..(getMemLen - 1) -> Byte]
  BY DataAssumption DEF Cleared, TypeOK
<1>2. ASSUME isvalidpop(n), NEW i \in 1..n
      PROVE  mem[rsp + 1 + n - i] \in Byte
  <2>1. rsp + 1 + n - i \in 0..(getMemLen - 1)
    BY <1>2, PopRange, WidthFacts, StateNumbers
  <2>2. QED
    BY <2>1 DEF TypeOK
<1>3. ASSUME isvalidpop(n)
      PROVE  /\ Popped(n) \in [1..n -> Byte]
             /\ \A i \in 1..n : Popped(n)[i] = mem[rsp + i]
  <2>0. n \in Nat /\ rsp \in Nat
    BY WidthFacts, StateNumbers
  <2>1. Taken(n) \in [1..n -> Byte] /\ \A i \in 1..n : Taken(n)[i] = mem[rsp + 1 + n - i]
    BY <1>2, <1>3 DEF Taken
  <2>2. Taken(n) \in Seq(Byte) /\ Len(Taken(n)) = n
    BY <2>0, <2>1, BuffersAreSeqs
  <2>3. /\ Popped(n) \in Seq(Byte) /\ Len(Popped(n)) = n
        /\ \A i \in 1..n : Popped(n)[i] = Taken(n)[n - i + 1]
    BY <2>0, <2>2, SwapFacts DEF Popped, swap_endian
  <2>4. ASSUME NEW i \in 1..n
        PROVE  Popped(n)[i] = mem[rsp + i]
    <3>1. n - i + 1 \in 1..n /\ rsp + 1 + n - (n - i + 1) = rsp + i
      BY <2>0
    <3>2. QED
      BY <2>1, <2>3, <3>1
  <2>5. QED
    BY <2>0, <2>3, <2>4
<1>4. SizeT(rsp + n) \in 0..(Modulus - 1)
  <2>1. rsp + n \in Int /\ -Modulus <= rsp + n /\ rsp + n < 2 * Modulus
    BY WidthFacts, StateNumbers
  <2>2. QED
    BY <2>1, SizeTRange
<1>5. QED
  BY <1>1, <1>3, <1>4

\* What _MG hands back is a string of bytes.
LEMMA MGType ==
  ASSUME TypeOK, Layout, NEW n \in Widths, NEW addr \in RegValues
  PROVE  MG(n, addr) \in [1..n -> Byte]
<1>0. addr \in Nat /\ addr < Modulus /\ n \in Nat /\ n > 0 /\ n < Modulus
  BY DataAssumption, SizesAssumption, WidthFacts
<1>1. ASSUME ValidAccess(addr, n), NEW i \in 1..n,
             addr + i - 1 \in AccessAddrs(addr, n)
      PROVE  mem[addr + i - 1] \in Byte
  <2>1. addr + i - 1 \in 0..(getMemLen - 1)
    BY <1>0, <1>1, StateNumbers, SizesAssumption
       DEF ValidAccess, AccessAddrs, SizeT, Layout
  <2>2. QED
    BY <2>1 DEF TypeOK
<1>2. QED
  BY <1>0, <1>1, DataAssumption DEF MG, Zeros

\* The two ways to push a payload: both hand all its bytes to push.
LEMMA PayloadPushed ==
  ASSUME NEW bs \in Payloads, pushMem(bs) \/ PushCopied(bs)
  PROVE  \E data \in Seq(Byte), swap \in BOOLEAN :
           /\ Len(data) = Len(bs) /\ Len(bs) > 0 /\ Len(bs) < Modulus /\ Len(bs) \in Widths
           /\ (IF swap THEN swap_endian(data) ELSE data) = Reverse(bs)
           /\ Running /\ push(data, swap)
           /\ UNCHANGED <<phase, zone, rbp, rsend, rsbgn, buf, statics>>
<1>1. /\ bs \in Seq(Byte) /\ Len(bs) \in Nat /\ Len(bs) > 0 /\ Len(bs) < Modulus
      /\ Len(bs) \in Widths
  BY PayloadFacts DEF Widths
<1>2. CASE pushMem(bs)
  <2>1. Reverse(bs) \in Seq(Byte) /\ Len(Reverse(bs)) = Len(bs)
    BY <1>1, SwapFacts
  <2>2. QED
    BY <1>1, <1>2, <2>1 DEF pushMem, MostSignificantFirst
<1>3. CASE PushCopied(bs)
  BY <1>1, <1>3 DEF PushCopied, swap_endian
<1>4. QED
  BY <1>2, <1>3

-----------------------------------------------------------------------------
(* Type correctness and the layout of the block.                           *)

LEMMA InitInvariant == Init => TypeOK /\ Layout
<1> SUFFICES ASSUME Init PROVE TypeOK /\ Layout
  OBVIOUS
<1>1. /\ memlen \in MemSizes /\ memlen = DefaultMemLen /\ memlen \in Nat
      /\ sdzsize = SdzFrame /\ sdztop \in 0..StaticLimit
      /\ getMemLen \in Nat /\ getMemLen < Modulus /\ getMemLen > StackSize
  BY SizesAssumption DEF Init, getMemLen
<1>2. mem \in [0..(getMemLen - 1) -> Byte]
  <2>1. getMemLen - 1 = DefaultMemLen + SdzFrame - 1
    BY <1>1, SizesAssumption DEF getMemLen
  <2>2. QED
    BY <2>1, DataAssumption DEF Init
<1>3. {rbp, rsp, rsend, rsbgn} \subseteq 0..(Modulus - 1) /\ rsbgn <= getMemLen
  <2>1. CASE loader = "vasm"
    BY <1>1, <2>1, SizesAssumption DEF Init, MainStackTop
  <2>2. CASE loader = "vexe"
    BY <1>1, <2>2, SizesAssumption DEF Init
  <2>3. QED
    BY <2>1, <2>2 DEF Init
<1>4. buf \in Seq(Byte) /\ statics = {}
  BY DEF Init
<1>5. /\ stage \in {"build", "run"} /\ loader \in {"vasm", "vexe"}
      /\ resized \in BOOLEAN
  BY DEF Init
<1>6. TypeOK
  BY <1>1, <1>2, <1>3, <1>4, <1>5, SizesAssumption DEF TypeOK
<1>7. QED
  BY <1>1, <1>3, <1>6, SizesAssumption DEF Layout

\* What a building step leaves: TypeOK and Layout follow from it.
Sizes ==
  /\ memlen' \in MemSizes /\ memlen' >= memlen
  /\ sdzsize' \in Nat /\ sdzsize' >= sdzsize /\ sdzsize' <= StaticLimit + SdzFrame
  /\ rsbgn' <= getMemLen

Contents(len) ==
  /\ stage' \in {"build", "run"} /\ loader' = loader /\ resized' \in BOOLEAN
  /\ buf' = buf
  /\ sdztop' \in 0..StaticLimit
  /\ getMemLen' = len /\ mem' \in [0..(len - 1) -> Byte]
  /\ rbp' \in 0..(Modulus - 1) /\ rsp' \in 0..(Modulus - 1)
  /\ rsend' \in 0..(Modulus - 1) /\ rsbgn' \in 0..(Modulus - 1)
  /\ \A s \in statics' : s.addr \in 0..sdztop' /\ s.data \in Payloads

LEMMA GrowthBound ==
  ASSUME NEW z \in Nat, NEW m \in Nat, NEW z2 \in Nat, NEW m2 \in Nat, NEW r \in Nat,
         z <= z2, m <= m2, r <= z + m
  PROVE  r <= z2 + m2
OBVIOUS

LEMMA BuildInvariant ==
  ASSUME TypeOK, Layout, NEW len, Sizes, Contents(len)
  PROVE  TypeOK' /\ Layout'
<1>1. memlen' \in Nat /\ sdzsize' \in Nat /\ rsbgn' \in Nat
  BY SizesAssumption DEF Sizes, Contents
<1>2. rsbgn' <= sdzsize + memlen
  BY StateNumbers DEF Sizes
<1>4. rsbgn' <= getMemLen'
  <2>1. rsbgn' <= sdzsize' + memlen'
    BY <1>1, <1>2, GrowthBound, StateNumbers DEF Sizes
  <2>2. QED
    BY <2>1 DEF getMemLen
<1>5. memlen' >= DefaultMemLen /\ sdzsize' >= SdzFrame
  BY <1>1, StateNumbers, SizesAssumption DEF Layout, Sizes
<1>6. Layout'
  BY <1>4, <1>5 DEF Layout, Sizes
<1>7. mem' \in [0..(getMemLen' - 1) -> Byte]
  BY DEF Contents
<1>8. TypeOK'
  BY <1>7 DEF TypeOK, Sizes, Contents
<1>9. QED
  BY <1>6, <1>8

LEMMA SDZSInvariant ==
  ASSUME TypeOK, Layout, NEW bs \in Payloads, SDZS(bs)
  PROVE  TypeOK' /\ Layout'
<1>0. Len(bs) \in Nat /\ Len(bs) > 0 /\ SdzFrame \in Nat /\ StaticLimit \in Nat
  BY PayloadFacts, SizesAssumption
<1>1. /\ sdztop + Len(bs) <= StaticLimit /\ sdztop' = sdztop + Len(bs)
      /\ memlen' = memlen
  BY DEF SDZS
<1>2. sdztop' \in 0..StaticLimit /\ sdztop <= sdztop'
  BY <1>0, <1>1, StateNumbers
<1>3. SdzFits(Len(bs)) \/ sdzsize <= sdztop + Len(bs) - 1
  <2>1. sdztop + Len(bs) - 1 < Modulus
    <3>1. DefaultMemLen + StaticLimit + SdzFrame < Modulus /\ DefaultMemLen \in Nat
      BY SizesAssumption
    <3>2. QED
      BY <3>1, <1>0, <1>1, StateNumbers
  <2>2. SizeT(sdztop + Len(bs) - 1) = sdztop + Len(bs) - 1
    BY <2>1, <1>0, StateNumbers DEF SizeT
  <2>3. QED
    BY <2>2, <1>0, StateNumbers DEF SdzFits
<1>4. /\ sdzsize' \in Nat /\ sdzsize' >= sdzsize
      /\ sdzsize' <= StaticLimit + SdzFrame
      /\ \E len : getMemLen' = len /\ mem' \in [0..(len - 1) -> Byte]
  <2>1. CASE SdzFits(Len(bs))
    <3>1. sdzsize' = sdzsize /\ mem' = MemSet(mem, sdztop, bs)
      BY <2>1 DEF SDZS
    <3>2. 0..(getMemLen - 1) \in SUBSET Int /\ mem \in [0..(getMemLen - 1) -> Byte]
      BY DEF TypeOK
    <3>3. mem' \in [0..(getMemLen - 1) -> Byte]
      BY <3>1, <3>2, MemSetType, StateNumbers
    <3>4. getMemLen' = getMemLen
      BY <3>1, <1>1 DEF getMemLen
    <3>5. QED
      BY <3>1, <3>3, <3>4, StateNumbers DEF Layout
  <2>2. CASE ~SdzFits(Len(bs))
    <3>1. sdzsize' = sdzsize + SdzFrame
      BY <2>2 DEF SDZS
    <3>2. PICK tail \in Tails : mem' = MemSet(SDZRSZ(tail), sdztop, bs)
      BY <2>2 DEF SDZS
    <3>3. /\ 0..(getMemLen + SdzFrame - 1) \in SUBSET Int
          /\ SDZRSZ(tail) \in [0..(getMemLen + SdzFrame - 1) -> Byte]
      BY SDZRSZType, StateNumbers, <1>0
    <3>4. mem' \in [0..(getMemLen + SdzFrame - 1) -> Byte]
      BY <3>2, <3>3, MemSetType, StateNumbers
    <3>5. getMemLen' = getMemLen + SdzFrame
      <4>1. getMemLen' = (sdzsize + SdzFrame) + memlen
        BY <3>1, <1>1 DEF getMemLen
      <4>2. QED
        BY <4>1, <1>0, StateNumbers
    <3>6. /\ sdzsize' \in Nat /\ sdzsize' >= sdzsize
          /\ sdzsize' <= StaticLimit + SdzFrame
      BY <3>1, <2>2, <1>0, <1>1, <1>3, StateNumbers, SMTT(30)
    <3>7. \E len : getMemLen' = len /\ mem' \in [0..(len - 1) -> Byte]
      <4>1. PICK len : len = getMemLen + SdzFrame
        OBVIOUS
      <4>2. mem' \in [0..(len - 1) -> Byte]
        BY <1>0, <3>4, <4>1, StateNumbers, SMTT(30)
      <4>3. getMemLen' = len
        BY <3>5, <4>1
      <4>4. QED
        BY <4>2, <4>3
    <3>8. QED
      BY <3>6, <3>7
  <2>3. QED
    BY <2>1, <2>2
<1>5. \A s \in statics' : s.addr \in 0..sdztop' /\ s.data \in Payloads
  <2>1. statics' = statics \cup {[addr |-> sdztop, data |-> bs]}
    BY DEF SDZS
  <2>2. sdztop \in 0..sdztop'
    BY <1>2, StateNumbers
  <2>3. \A s \in statics : s.addr \in 0..sdztop' /\ s.data \in Payloads
    BY <1>2, StateNumbers DEF TypeOK
  <2>4. QED
    BY <2>1, <2>2, <2>3
<1>6. UNCHANGED <<stage, loader, resized, rbp, rsp, rsend, rsbgn, buf>>
  BY DEF SDZS, phase, stackRegs
<1>7. /\ stage' \in {"build", "run"} /\ resized' \in BOOLEAN
      /\ memlen' \in MemSizes /\ memlen' >= memlen
      /\ rbp' \in 0..(Modulus - 1) /\ rsp' \in 0..(Modulus - 1)
      /\ rsend' \in 0..(Modulus - 1) /\ rsbgn' \in 0..(Modulus - 1)
      /\ rsbgn' <= getMemLen
  BY <1>1, <1>6, StateNumbers DEF TypeOK
<1>8. QED
  BY <1>2, <1>4, <1>5, <1>6, <1>7, BuildInvariant DEF Sizes, Contents

LEMMA MRESInvariant ==
  ASSUME TypeOK, Layout, NEW s \in MemSizes, MRES(s)
  PROVE  TypeOK' /\ Layout'
<1>1. UNCHANGED <<stage, loader, sdzsize, sdztop, rbp, rsp, rsend, rsbgn, buf, statics>>
  BY DEF MRES, stackRegs
<1>2. /\ memlen' \in MemSizes /\ memlen' >= memlen
      /\ \E len : getMemLen' = len /\ mem' \in [0..(len - 1) -> Byte]
  BY <1>1, MRSZType DEF MRES, getMemLen
<1>3. /\ stage' \in {"build", "run"} /\ resized' \in BOOLEAN
      /\ sdzsize' \in Nat /\ sdzsize' >= sdzsize /\ sdzsize' <= StaticLimit + SdzFrame
      /\ sdztop' \in 0..StaticLimit
      /\ rbp' \in 0..(Modulus - 1) /\ rsp' \in 0..(Modulus - 1)
      /\ rsend' \in 0..(Modulus - 1) /\ rsbgn' \in 0..(Modulus - 1)
      /\ rsbgn' <= getMemLen
      /\ \A t \in statics' : t.addr \in 0..sdztop' /\ t.data \in Payloads
  <2>1. resized' = TRUE
    BY DEF MRES
  <2>2. QED
    BY <1>1, <2>1, StateNumbers DEF TypeOK, Layout
<1>4. QED
  BY <1>1, <1>2, <1>3, BuildInvariant DEF Sizes, Contents

LEMMA LoadInvariant ==
  ASSUME TypeOK, Layout, NEW s \in MemSizes, executeFile(s)
  PROVE  TypeOK' /\ Layout'
<1>1. /\ stage' = "run"
      /\ UNCHANGED <<loader, resized, sdzsize, sdztop, buf, statics>>
  BY DEF executeFile
<1>2. /\ memlen' \in MemSizes /\ memlen' >= memlen
      /\ \E len : getMemLen' = len /\ mem' \in [0..(len - 1) -> Byte]
  BY <1>1, MRSZType DEF executeFile, getMemLen
<1>3. getMemLen > StackSize /\ StackSize \in Nat
  BY StateNumbers, SizesAssumption DEF Layout
<1>4. /\ rbp' = getMemLen - 1 /\ rsp' = getMemLen - 1
      /\ rsend' = getMemLen - 1 - StackSize /\ rsbgn' = getMemLen - 1 + 1
  BY DEF executeFile, SetMainStack, MainStackTop
<1>5. /\ rbp' \in 0..(Modulus - 1) /\ rsp' \in 0..(Modulus - 1)
      /\ rsend' \in 0..(Modulus - 1) /\ rsbgn' \in 0..(Modulus - 1)
      /\ rsbgn' <= getMemLen
  BY <1>3, <1>4, StateNumbers
<1>6. /\ sdzsize' \in Nat /\ sdzsize' >= sdzsize /\ sdzsize' <= StaticLimit + SdzFrame
      /\ sdztop' \in 0..StaticLimit /\ resized' \in BOOLEAN
      /\ \A t \in statics' : t.addr \in 0..sdztop' /\ t.data \in Payloads
  BY <1>1, StateNumbers DEF TypeOK, Layout
<1>7. QED
  BY <1>1, <1>2, <1>5, <1>6, BuildInvariant DEF Sizes, Contents

\* Instructions keep the block's length and the stack limits; what is left to
\* show is the type of what they write.
LEMMA InstrInvariant ==
  ASSUME TypeOK, Layout,
         UNCHANGED <<phase, zone, rsend, rsbgn>>,
         mem' \in [0..(getMemLen - 1) -> Byte],
         rbp' \in 0..(Modulus - 1), rsp' \in 0..(Modulus - 1),
         buf' \in Seq(Byte), statics' \subseteq statics
  PROVE  TypeOK' /\ Layout'
<1>1. UNCHANGED <<stage, loader, resized, memlen, sdzsize, sdztop, rsend, rsbgn>>
  BY DEF phase, zone
<1>2. TypeOK'
  BY <1>1 DEF TypeOK, getMemLen
<1>3. Layout'
  BY <1>1 DEF Layout, getMemLen
<1>4. QED
  BY <1>2, <1>3

LEMMA StackInstrInvariant ==
  ASSUME TypeOK, Layout, StackInstr
  PROVE  TypeOK' /\ Layout'
<1>1. ASSUME NEW bs \in Payloads, pushMem(bs) \/ PushCopied(bs)
      PROVE  TypeOK' /\ Layout'
  <2>1. mem' \in [0..(getMemLen - 1) -> Byte] /\ rsp' \in 0..(Modulus - 1)
    BY <1>1, PayloadPushed, PushType
  <2>2. UNCHANGED <<phase, zone, rbp, rsend, rsbgn, buf, statics>>
    BY <1>1, PayloadPushed
  <2>3. QED
    BY <2>1, <2>2, InstrInvariant DEF TypeOK
<1>2. ASSUME NEW n \in Widths, PopInstr(n)
      PROVE  TypeOK' /\ Layout'
  <2>1. UNCHANGED <<phase, zone, rbp, rsend, rsbgn, statics>>
    BY <1>2 DEF PopInstr
  <2>2. n \in Nat
    BY WidthFacts
  <2>3. CASE isvalidpop(n)
    <3>1. buf' = Popped(n) /\ mem' = Cleared(n) /\ rsp' = SizeT(rsp + n)
      BY <1>2, <2>3 DEF PopInstr
    <3>2. buf' \in Seq(Byte)
      BY <3>1, <2>2, <2>3, PopType, BuffersAreSeqs
    <3>3. QED
      BY <2>1, <3>1, <3>2, PopType, InstrInvariant DEF TypeOK
  <2>4. CASE ~isvalidpop(n)
    <3>1. buf' \in [1..n -> Byte] /\ UNCHANGED <<mem, rsp>>
      BY <1>2, <2>4 DEF PopInstr, Buffers
    <3>2. buf' \in Seq(Byte)
      BY <3>1, <2>2, BuffersAreSeqs
    <3>3. QED
      BY <2>1, <3>1, <3>2, InstrInvariant DEF TypeOK
  <2>5. QED
    BY <2>3, <2>4
<1>3. QED
  BY <1>1, <1>2 DEF StackInstr

LEMMA MemInstrInvariant ==
  ASSUME TypeOK, Layout, MemInstr
  PROVE  TypeOK' /\ Layout'
<1>0. 0..(getMemLen - 1) \in SUBSET Int /\ mem \in [0..(getMemLen - 1) -> Byte]
  BY DEF TypeOK
<1>1. ASSUME NEW n \in Widths, NEW addr \in RegValues, movsm(n, addr)
      PROVE  TypeOK' /\ Layout'
  <2>0. /\ UNCHANGED <<phase, zone, rbp, rsend, rsbgn>>
        /\ statics' \subseteq statics
    BY <1>1 DEF movsm, Spared
  <2>1. n \in Nat /\ n > 0 /\ n < Modulus
    BY WidthFacts
  <2>2. ASSUME NEW b \in [1..n -> Byte]
        PROVE  b \in Seq(Byte) /\ Len(b) = n
    BY <2>1, <2>2, BuffersAreSeqs
  <2>3. CASE isvalidpop(n)
    <3>1. /\ buf' = Popped(n) /\ mem' = MS(Cleared(n), Popped(n), addr)
          /\ rsp' = SizeT(rsp + n)
      BY <1>1, <2>3 DEF movsm
    <3>2. Popped(n) \in Seq(Byte) /\ Len(Popped(n)) = n
      BY <2>2, <2>3, PopType
    <3>3. mem' \in [0..(getMemLen - 1) -> Byte]
      BY <1>0, <2>1, <3>1, <3>2, PopType, MSType
    <3>4. QED
      BY <2>0, <3>1, <3>2, <3>3, PopType, InstrInvariant DEF TypeOK
  <2>4. CASE ~isvalidpop(n)
    <3>1. buf' = Zeros(n) /\ mem' = MS(mem, Zeros(n), addr) /\ UNCHANGED rsp
      BY <1>1, <2>4 DEF movsm
    <3>2. Zeros(n) \in [1..n -> Byte]
      BY DataAssumption DEF Zeros
    <3>3. Zeros(n) \in Seq(Byte) /\ Len(Zeros(n)) = n
      BY <2>2, <3>2
    <3>4. mem' \in [0..(getMemLen - 1) -> Byte]
      BY <1>0, <2>1, <3>1, <3>3, MSType
    <3>5. QED
      BY <2>0, <3>1, <3>3, <3>4, InstrInvariant DEF TypeOK
  <2>5. QED
    BY <2>3, <2>4
<1>2. ASSUME NEW n \in Widths, NEW addr \in RegValues, movgm(n, addr)
      PROVE  TypeOK' /\ Layout'
  <2>1. n \in Nat /\ n > 0 /\ n < Modulus
    BY WidthFacts
  <2>2. MG(n, addr) \in Seq(Byte) /\ Len(MG(n, addr)) = n
    BY <2>1, MGType, BuffersAreSeqs
  <2>3. push(MG(n, addr), TRUE) /\ UNCHANGED <<phase, zone, rbp, rsend, rsbgn, buf, statics>>
    BY <1>2 DEF movgm
  <2>4. mem' \in [0..(getMemLen - 1) -> Byte] /\ rsp' \in 0..(Modulus - 1)
    BY <2>1, <2>2, <2>3, PushType
  <2>5. QED
    BY <2>3, <2>4, InstrInvariant DEF TypeOK
<1>3. ASSUME NEW bs \in Payloads, NEW addr \in RegValues, StoreInstr(bs, addr)
      PROVE  TypeOK' /\ Layout'
  <2>1. /\ mem' = MS(mem, bs, addr)
        /\ statics' \subseteq statics
        /\ UNCHANGED <<phase, zone, stackRegs, buf>>
    BY <1>3 DEF StoreInstr, Spared
  <2>2. mem' \in [0..(getMemLen - 1) -> Byte]
    BY <1>0, <2>1, PayloadFacts, MSType
  <2>3. UNCHANGED <<phase, zone, rsend, rsbgn>> /\ UNCHANGED <<rbp, rsp, buf>>
    BY <2>1 DEF stackRegs
  <2>4. QED
    BY <2>1, <2>2, <2>3, InstrInvariant DEF TypeOK
<1>4. QED
  BY <1>1, <1>2, <1>3 DEF MemInstr

LEMMA RegInstrInvariant ==
  ASSUME TypeOK, Layout, RegInstr
  PROVE  TypeOK' /\ Layout'
<1>1. PICK v \in RegValues : WriteRBP(v) \/ WriteRSP(v)
  BY DEF RegInstr
<1>2. v \in 0..(Modulus - 1)
  BY DataAssumption
<1>3. CASE WriteRBP(v)
  BY <1>2, <1>3, InstrInvariant DEF WriteRBP, TypeOK
<1>4. CASE WriteRSP(v)
  BY <1>2, <1>4, InstrInvariant DEF WriteRSP, TypeOK
<1>5. QED
  BY <1>1, <1>3, <1>4

LEMMA NextInvariant ==
  ASSUME TypeOK, Layout, [Next]_vars
  PROVE  TypeOK' /\ Layout'
<1>1. ASSUME NEW bs \in Payloads, SDZS(bs)  PROVE TypeOK' /\ Layout'
  BY <1>1, SDZSInvariant
<1>2. ASSUME NEW s \in MemSizes, MRES(s)  PROVE TypeOK' /\ Layout'
  BY <1>2, MRESInvariant
<1>3. CASE StartScript
  <2>1. stage' = "run" /\ loader' = loader /\ resized' = resized
        /\ UNCHANGED <<memlen, sdzsize, sdztop, mem, rbp, rsp, rsend, rsbgn, buf, statics>>
    BY <1>3 DEF StartScript, zone, stackRegs
  <2>2. QED
    BY <2>1 DEF TypeOK, Layout, getMemLen
<1>4. ASSUME NEW s \in MemSizes, executeFile(s)  PROVE TypeOK' /\ Layout'
  BY <1>4, LoadInvariant
<1>5. CASE UNCHANGED vars
  <2>1. UNCHANGED <<phase, zone, mem, rbp, rsp, rsend, rsbgn, buf, statics>>
    BY <1>5 DEF vars, stackRegs
  <2>2. QED
    BY <2>1, InstrInvariant DEF TypeOK
<1>6. QED
  BY <1>1, <1>2, <1>3, <1>4, <1>5, StackInstrInvariant, MemInstrInvariant,
     RegInstrInvariant DEF Next, Build

\* Type correctness: through every build, resize and instruction the memory
\* stays one block of getMemLen bytes and the registers size_t values; and, what
\* the proofs below need, the block never shrinks under the stack limits.
THEOREM TypeCorrect == Spec => [](TypeOK /\ Layout)
<1>1. Init => TypeOK /\ Layout
  BY InitInvariant
<1>2. TypeOK /\ Layout /\ [Next]_vars => TypeOK' /\ Layout'
  BY NextInvariant
<1>3. QED
  BY <1>1, <1>2, PTL DEF Spec

-----------------------------------------------------------------------------
(* The loops of push, pop, _MS and _MG stay inside the block.              *)

LEMMA WidthRoom ==
  ASSUME TypeOK, Layout, NEW n \in Widths
  PROVE  n + getMemLen < Modulus
<1>1. n + memlen + StaticLimit + SdzFrame < Modulus
  BY WidthFacts DEF TypeOK
<1>2. QED
  BY <1>1, WidthFacts, StateNumbers, SizesAssumption DEF Layout

LEMMA PushInside ==
  ASSUME TypeOK, Layout, NEW n \in Widths, isvalidpush(n)
  PROVE  PushAddrs(n) \subseteq (rsend + 1)..(rsbgn - 1) \cap 0..(getMemLen - 1)
<1>1. rsp - n >= 0
  <2> SUFFICES ASSUME rsp - n < 0 PROVE FALSE
    BY WidthFacts, StateNumbers
  <2>1. SizeT(rsp - n) = rsp - n + Modulus
    BY WidthFacts, StateNumbers DEF SizeT
  <2>2. SizeT(rsp - n) < rbp /\ rbp < getMemLen
    BY StateNumbers DEF isvalidpush, FrameOK
  <2>3. QED
    BY <2>1, <2>2, WidthRoom, WidthFacts, StateNumbers
<1>2. QED
  BY <1>1, WidthFacts, StateNumbers DEF isvalidpush, FrameOK, PushAddrs, SizeT

\* The checks hold against wrapped sums and differences: whatever the program
\* put in RSP and RBP, and whatever address it uses, no byte outside the
\* allocated block is read or written.
THEOREM MemorySafe == Spec => []InBounds
<1>1. TypeOK /\ Layout => InBounds
  <2> SUFFICES ASSUME TypeOK, Layout PROVE InBounds
    OBVIOUS
  <2>0. DOMAIN mem = 0..(getMemLen - 1)
    BY DEF TypeOK
  <2>1. ASSUME NEW n \in Widths, isvalidpush(n)
        PROVE  PushAddrs(n) \subseteq DOMAIN mem
    BY <2>0, <2>1, PushInside
  <2>2. ASSUME NEW n \in Widths, isvalidpop(n)
        PROVE  PopAddrs(n) \subseteq DOMAIN mem
    BY <2>0, <2>2, PopRange, WidthFacts, StateNumbers DEF PopAddrs
  <2>3. ASSUME NEW n \in Widths, NEW a \in RegValues, ValidAccess(a, n)
        PROVE  AccessAddrs(a, n) \subseteq DOMAIN mem
    <3>1. a \in Nat /\ a < Modulus /\ SdzFrame > 0 /\ SdzFrame \in Nat
      BY DataAssumption, SizesAssumption
    <3>2. sdzsize > 0
      BY <3>1, StateNumbers DEF Layout
    <3>3. CASE a + n - 1 < Modulus
      <4>1. a + n - 1 <= memlen
        BY <2>3, <3>1, <3>3, WidthFacts, StateNumbers DEF ValidAccess, SizeT
      <4>2. SizeT(a + n) = a + n
        BY <3>1, <3>2, <4>1, WidthFacts, StateNumbers DEF SizeT
      <4>3. QED
        BY <2>0, <3>1, <3>2, <4>1, <4>2, WidthFacts, StateNumbers, SMTT(30) DEF AccessAddrs
    <3>4. CASE a + n - 1 >= Modulus
      <4>1. SizeT(a + n) = a + n - Modulus
        BY <3>1, <3>4, WidthFacts, StateNumbers DEF SizeT
      <4>2. QED
        BY <3>1, <4>1, WidthFacts, StateNumbers DEF AccessAddrs
    <3>5. QED
      BY <3>1, <3>3, <3>4, WidthFacts, StateNumbers
  <2>4. QED
    BY <2>1, <2>2, <2>3 DEF InBounds
<1>2. QED
  BY <1>1, TypeCorrect, PTL

-----------------------------------------------------------------------------
(* The stack instructions stay inside the stack.                           *)

LEMMA PushConfined ==
  ASSUME TypeOK, Layout, NEW n \in Widths, NEW data \in Seq(Byte), Len(data) = n,
         NEW swap \in BOOLEAN, push(data, swap),
         NEW a \in DOMAIN mem, a <= rsend \/ a >= rsbgn
  PROVE  mem'[a] = mem[a]
<1> PICK bs \in Seq(Byte) :
      /\ Len(bs) = n
      /\ IF isvalidpush(n) THEN mem' = Pushed(bs) /\ rsp' = SizeT(rsp - n)
                           ELSE UNCHANGED <<mem, rsp>>
  BY PushedSwap
<1>1. CASE isvalidpush(n)
  <2>1. a \notin PushAddrs(n)
    <3>1. a \in Nat
      BY StateNumbers DEF TypeOK
    <3>2. QED
      BY <1>1, <3>1, PushInside, StateNumbers
  <2>2. QED
    BY <1>1, <2>1 DEF Pushed
<1>2. CASE ~isvalidpush(n)
  BY <1>2
<1>3. QED
  BY <1>1, <1>2

\* Whatever the program did to RBP and RSP, push, pop and movgm change no byte
\* outside the stack limited by RSEND and RSBGN.
THEOREM StackWritesConfined == Spec => StackConfined
<1> DEFINE Outside(a) == a <= rsend \/ a >= rsbgn
<1>1. TypeOK /\ Layout /\ [Next]_vars
        => [ StackInstr \/ (\E n \in Widths, a \in RegValues : movgm(n, a))
             => \A a \in DOMAIN mem : Outside(a) => mem'[a] = mem[a] ]_vars
  <2> SUFFICES ASSUME TypeOK, Layout,
                      StackInstr \/ (\E n \in Widths, a \in RegValues : movgm(n, a)),
                      NEW a \in DOMAIN mem, Outside(a)
               PROVE  mem'[a] = mem[a]
    OBVIOUS
  <2>1. ASSUME NEW bs \in Payloads, pushMem(bs) \/ PushCopied(bs)  PROVE mem'[a] = mem[a]
    BY <2>1, PayloadPushed, PushConfined
  <2>2. ASSUME NEW n \in Widths, PopInstr(n)  PROVE mem'[a] = mem[a]
    <3>1. CASE isvalidpop(n)
      <4>1. a \notin PopAddrs(n)
        <5>1. a \in Nat
          BY StateNumbers DEF TypeOK
        <5>2. QED
          BY <3>1, <5>1, PopRange, WidthFacts, StateNumbers DEF PopAddrs
      <4>2. QED
        BY <2>2, <3>1, <4>1 DEF PopInstr, Cleared
    <3>2. CASE ~isvalidpop(n)
      BY <2>2, <3>2 DEF PopInstr
    <3>3. QED
      BY <3>1, <3>2
  <2>3. ASSUME NEW n \in Widths, NEW addr \in RegValues, movgm(n, addr)
        PROVE  mem'[a] = mem[a]
    <3>1. n \in Nat
      BY WidthFacts
    <3>2. MG(n, addr) \in Seq(Byte) /\ Len(MG(n, addr)) = n
      BY <3>1, MGType, BuffersAreSeqs
    <3>3. push(MG(n, addr), TRUE)
      BY <2>3 DEF movgm
    <3>4. QED
      BY <3>2, <3>3, PushConfined
  <2>4. QED
    BY <2>1, <2>2, <2>3 DEF StackInstr
<1>2. QED
  BY <1>1, TypeCorrect, PTL DEF Spec, StackConfined

-----------------------------------------------------------------------------
(* Static data and stack never meet.                                       *)

\* What keeps them apart: a zone as large as what it holds, data entirely below
\* sdztop, and a stack that starts above everything a script can add later.
Apart ==
  /\ sdztop <= sdzsize
  /\ loader = "vasm" => StaticLimit <= rsend + 1
  /\ Running => sdztop <= rsend + 1
  /\ loader = "vasm" \/ Running => rsend < rsbgn
  /\ \A s \in statics : s.addr + Len(s.data) <= sdztop
  /\ StaticIntact

LEMMA RangeArith ==
  ASSUME NEW a \in Nat, NEW n \in Nat, NEW top \in Nat, a + n <= top
  PROVE  /\ a..(a + n - 1) \subseteq 0..(top - 1)
         /\ \A i \in 1..n : /\ a + i - 1 \in a..(a + n - 1)
                            /\ a + i - 1 < top /\ (a + i - 1) - a + 1 = i
OBVIOUS

\* The bytes of a constant lie in the block, below sdztop and below the stack.
LEMMA StaticAddrs ==
  ASSUME TypeOK, Layout, Apart, NEW s \in statics, NEW i \in 1..Len(s.data)
  PROVE  /\ s.addr + i - 1 \in DOMAIN mem
         /\ s.addr + i - 1 \in s.addr..(s.addr + Len(s.data) - 1)
         /\ s.addr + i - 1 < sdztop
         /\ Running => s.addr + i - 1 <= rsend
         /\ mem[s.addr + i - 1] = s.data[i]
<1>1. s.addr \in Nat /\ s.data \in Payloads
  BY StateNumbers DEF TypeOK
<1>2. Len(s.data) \in Nat /\ s.addr + Len(s.data) <= sdztop
  BY <1>1, PayloadFacts DEF Apart
<1>3. /\ s.addr + i - 1 \in s.addr..(s.addr + Len(s.data) - 1)
      /\ s.addr + i - 1 < sdztop
  BY <1>1, <1>2, RangeArith, StateNumbers
<1>4. s.addr + i - 1 \in 0..(getMemLen - 1)
  BY <1>1, <1>3, StateNumbers, SMTT(30) DEF Apart
<1>5. Running => s.addr + i - 1 <= rsend
  BY <1>1, <1>3, StateNumbers DEF Apart
<1>6. mem[s.addr + i - 1] = s.data[i]
  BY DEF Apart, StaticIntact
<1>7. QED
  BY <1>3, <1>4, <1>5, <1>6 DEF TypeOK

\* A step that adds no static data and changes no byte of those it keeps.
LEMMA StaticKept ==
  ASSUME TypeOK, Layout, Apart, statics' \subseteq statics,
         \A s \in statics' : \A a \in s.addr..(s.addr + Len(s.data) - 1) :
           a \in DOMAIN mem => mem'[a] = mem[a]
  PROVE  StaticIntact'
<1> SUFFICES ASSUME NEW s \in statics', NEW i \in 1..Len(s.data)
             PROVE  mem'[s.addr + i - 1] = s.data[i]
  BY DEF StaticIntact
<1>1. s \in statics
  OBVIOUS
<1>2. QED
  BY <1>1, StaticAddrs

LEMMA InitApart ==
  ASSUME StaticFits, Init
  PROVE  Apart
<1>1. StaticLimit <= DefaultMemLen + SdzFrame - StackSize /\ StackSize \in Nat /\ StackSize > 0
      /\ StaticLimit \in Nat /\ SdzFrame \in Nat /\ DefaultMemLen \in Nat
  BY SizesAssumption DEF StaticFits
<1>2. sdztop = 0 /\ sdzsize = SdzFrame /\ statics = {} /\ stage = "build"
      /\ memlen = DefaultMemLen
  BY DEF Init
<1>3. loader = "vasm" => StaticLimit <= rsend + 1 /\ rsend < rsbgn
  <2> SUFFICES ASSUME loader = "vasm" PROVE StaticLimit <= rsend + 1 /\ rsend < rsbgn
    OBVIOUS
  <2>1. getMemLen = SdzFrame + DefaultMemLen
    BY <1>2 DEF getMemLen
  <2>2. rbp = getMemLen - 1 /\ rsend = rbp - StackSize /\ rsbgn = rbp + 1
    BY DEF Init, MainStackTop
  <2>3. QED
    BY <1>1, <2>1, <2>2
<1>4. QED
  BY <1>1, <1>2, <1>3 DEF Apart, StaticIntact, Running

LEMMA SDZSApart ==
  ASSUME ShortData, TypeOK, Layout, Apart, NEW bs \in Payloads, SDZS(bs)
  PROVE  Apart'
<1>0. Len(bs) \in Nat /\ Len(bs) > 0 /\ Len(bs) <= SdzFrame
      /\ SdzFrame \in Nat /\ StaticLimit \in Nat
  BY PayloadFacts, SizesAssumption DEF ShortData
<1>1. /\ sdztop + Len(bs) <= StaticLimit /\ sdztop' = sdztop + Len(bs)
      /\ statics' = statics \cup {[addr |-> sdztop, data |-> bs]}
      /\ stage = "build" /\ stage' = "build" /\ loader' = loader
      /\ rsend' = rsend /\ rsbgn' = rsbgn
  BY DEF SDZS, phase, stackRegs
<1>2. SizeT(sdztop + Len(bs) - 1) = sdztop + Len(bs) - 1
  <2>1. DefaultMemLen + StaticLimit + SdzFrame < Modulus /\ DefaultMemLen \in Nat
    BY SizesAssumption
  <2>2. QED
    BY <1>0, <1>1, <2>1, StateNumbers, SMTT(30) DEF SizeT
<1>3. /\ sdztop' <= sdzsize'
      /\ \E m : /\ mem' = MemSet(m, sdztop, bs)
                /\ sdztop..(sdztop + Len(bs) - 1) \subseteq DOMAIN m
                /\ \A a \in 0..(sdztop - 1) : a \in DOMAIN m /\ m[a] = mem[a]
  <2>0. DOMAIN mem = 0..(getMemLen - 1) /\ sdztop <= sdzsize /\ getMemLen = sdzsize + memlen
    BY StateNumbers DEF TypeOK, Apart
  <2>1. CASE SdzFits(Len(bs))
    <3>1. sdzsize' = sdzsize /\ mem' = MemSet(mem, sdztop, bs)
      BY <2>1 DEF SDZS
    <3>2. sdztop + Len(bs) <= sdzsize
      BY <2>1, <1>0, <1>2, StateNumbers DEF SdzFits
    <3>3. /\ sdztop..(sdztop + Len(bs) - 1) \subseteq DOMAIN mem
          /\ \A a \in 0..(sdztop - 1) : a \in DOMAIN mem
      <4>1. sdztop + Len(bs) <= getMemLen
        BY <1>0, <2>0, <3>2, StateNumbers
      <4>2. sdztop..(sdztop + Len(bs) - 1) \subseteq 0..(getMemLen - 1)
        BY <1>0, <4>1, RangeArith, StateNumbers
      <4>3. 0..(sdztop - 1) \subseteq 0..(getMemLen - 1)
        BY <2>0, StateNumbers
      <4>4. QED
        BY <2>0, <4>2, <4>3
    <3>4. QED
      BY <1>1, <3>1, <3>2, <3>3
  <2>2. CASE ~SdzFits(Len(bs))
    <3>1. sdzsize' = sdzsize + SdzFrame
      BY <2>2 DEF SDZS
    <3>2. PICK tail \in Tails : mem' = MemSet(SDZRSZ(tail), sdztop, bs)
      BY <2>2 DEF SDZS
    <3>3. DOMAIN SDZRSZ(tail) = 0..(getMemLen + SdzFrame - 1)
      BY DEF SDZRSZ
    <3>4. sdztop..(sdztop + Len(bs) - 1) \subseteq DOMAIN SDZRSZ(tail)
      <4>1. sdztop + Len(bs) <= getMemLen + SdzFrame /\ getMemLen + SdzFrame \in Nat
        BY <1>0, <2>0, StateNumbers, SMTT(30)
      <4>2. PICK top \in Nat : top = getMemLen + SdzFrame
        BY <4>1
      <4>3. sdztop..(sdztop + Len(bs) - 1) \subseteq 0..(top - 1)
        BY <1>0, <4>1, <4>2, RangeArith, StateNumbers
      <4>4. DOMAIN SDZRSZ(tail) = 0..(top - 1)
        BY <1>0, <3>3, <4>2, StateNumbers, SMTT(30)
      <4>5. QED
        BY <4>3, <4>4
    <3>5. \A a \in 0..(sdztop - 1) : a \in DOMAIN SDZRSZ(tail) /\ SDZRSZ(tail)[a] = mem[a]
      <4> TAKE a \in 0..(sdztop - 1)
      <4>1. a \in 0..(getMemLen + SdzFrame - 1) /\ a < getMemLen
            /\ a \notin sdzsize..(sdzsize + SdzFrame - 1)
        BY <1>0, <2>0, StateNumbers, SMTT(30)
      <4>2. QED
        BY <4>1 DEF SDZRSZ
    <3>6. sdztop' <= sdzsize'
      BY <1>0, <1>1, <2>0, <3>1, StateNumbers, SMTT(30)
    <3>7. QED
      BY <3>2, <3>4, <3>5, <3>6
  <2>3. QED
    BY <2>1, <2>2
<1>4. PICK m : /\ mem' = MemSet(m, sdztop, bs)
               /\ sdztop..(sdztop + Len(bs) - 1) \subseteq DOMAIN m
               /\ \A a \in 0..(sdztop - 1) : a \in DOMAIN m /\ m[a] = mem[a]
  BY <1>3
<1>5. \A s \in statics' : s.addr + Len(s.data) <= sdztop'
  <2>1. ASSUME NEW s \in statics  PROVE s.addr + Len(s.data) <= sdztop'
    <3>1. s.addr \in Nat /\ Len(s.data) \in Nat /\ s.addr + Len(s.data) <= sdztop
      BY PayloadFacts, StateNumbers DEF TypeOK, Apart
    <3>2. QED
      BY <1>0, <1>1, <3>1, StateNumbers, SMTT(30)
  <2>2. QED
    BY <1>0, <1>1, <2>1, StateNumbers
<1>6. StaticIntact'
  <2> SUFFICES ASSUME NEW s \in statics', NEW i \in 1..Len(s.data)
               PROVE  mem'[s.addr + i - 1] = s.data[i]
    BY DEF StaticIntact
  <2>1. CASE s \in statics
    <3>1. PICK a : a = s.addr + i - 1
      OBVIOUS
    <3>2. a < sdztop /\ a \in DOMAIN mem /\ mem[a] = s.data[i]
      BY <2>1, <3>1, StaticAddrs
    <3>3. a \in 0..(sdztop - 1) /\ a \notin sdztop..(sdztop + Len(bs) - 1)
      BY <3>2, StateNumbers, SMTT(30) DEF TypeOK
    <3>4. mem'[a] = m[a] /\ m[a] = mem[a]
      BY <1>4, <3>3 DEF MemSet
    <3>5. QED
      BY <3>1, <3>2, <3>4
  <2>2. CASE s = [addr |-> sdztop, data |-> bs]
    <3>1. i \in 1..Len(bs) /\ s.addr = sdztop /\ s.data = bs
      BY <2>2
    <3>2. PICK a : a = sdztop + i - 1
      OBVIOUS
    <3>3. a \in sdztop..(sdztop + Len(bs) - 1) /\ a - sdztop + 1 = i
      BY <1>0, <3>1, <3>2, StateNumbers, SMTT(30)
    <3>4. mem'[a] = bs[i]
      BY <1>4, <3>3 DEF MemSet
    <3>5. QED
      BY <3>1, <3>2, <3>4
  <2>3. QED
    BY <1>1, <2>1, <2>2
<1>7. QED
  BY <1>1, <1>3, <1>5, <1>6 DEF Apart, Running

\* A resize keeps every byte there was.
LEMMA ResizeApart ==
  ASSUME TypeOK, Layout, Apart, NEW s \in MemSizes, MRSZ(s), statics' = statics
  PROVE  StaticIntact'
<1>1. \A a \in DOMAIN mem : mem'[a] = mem[a]
  BY MRSZType DEF TypeOK
<1>2. QED
  BY <1>1, StaticKept

LEMMA BuildApart ==
  ASSUME ShortData, TypeOK, Layout, Apart, Build
  PROVE  Apart'
<1>1. ASSUME NEW s \in MemSizes, MRES(s)  PROVE Apart'
  <2>1. MRSZ(s) /\ UNCHANGED <<stage, loader, sdzsize, sdztop, rsend, rsbgn, statics>>
    BY <1>1 DEF MRES, stackRegs
  <2>2. StaticIntact'
    BY <2>1, ResizeApart
  <2>3. QED
    BY <2>1, <2>2 DEF Apart, Running
<1>2. CASE StartScript
  <2>1. UNCHANGED <<loader, sdzsize, sdztop, mem, rsend, rsbgn, statics>> /\ loader = "vasm"
    BY <1>2 DEF StartScript, zone, stackRegs
  <2>2. StaticIntact'
    BY <2>1 DEF Apart, StaticIntact
  <2>3. rsend \in Nat /\ sdztop \in 0..StaticLimit /\ StaticLimit \in Nat
    BY StateNumbers, SizesAssumption DEF TypeOK
  <2>4. sdztop <= rsend + 1
    BY <2>1, <2>3 DEF Apart
  <2>5. QED
    BY <2>1, <2>2, <2>4 DEF Apart, Running
<1>3. ASSUME NEW s \in MemSizes, executeFile(s)  PROVE Apart'
  <2>1. /\ MRSZ(s) /\ loader = "vexe"
        /\ UNCHANGED <<loader, sdzsize, sdztop, statics>>
        /\ rsend' = getMemLen - 1 - StackSize /\ rsbgn' = getMemLen - 1 + 1
    BY <1>3 DEF executeFile, SetMainStack, MainStackTop
  <2>2. StaticIntact'
    BY <2>1, ResizeApart
  <2>3. StackSize \in Nat /\ StackSize > 0 /\ memlen >= StackSize /\ sdztop <= sdzsize
    BY StateNumbers, SizesAssumption DEF Layout, Apart
  <2>4. sdztop <= rsend' + 1 /\ rsend' < rsbgn'
    BY <2>1, <2>3, StateNumbers
  <2>5. QED
    BY <2>1, <2>2, <2>3, <2>4 DEF Apart
<1>4. QED
  BY <1>1, <1>2, <1>3, SDZSApart DEF Build

\* An instruction moves neither the zone nor the stack limits, and forgets the
\* constants the program stores over.
LEMMA InstrApart ==
  ASSUME TypeOK, Layout, Apart, Running,
         UNCHANGED <<phase, zone, rsend, rsbgn>>, statics' \subseteq statics,
         \A s \in statics' : \A a \in s.addr..(s.addr + Len(s.data) - 1) :
           a \in DOMAIN mem /\ a <= rsend => mem'[a] = mem[a]
  PROVE  Apart'
<1>1. UNCHANGED <<stage, loader, sdzsize, sdztop, rsend, rsbgn>>
  BY DEF phase, zone
<1>2. StaticIntact'
  <2> SUFFICES ASSUME NEW s \in statics', NEW i \in 1..Len(s.data)
               PROVE  mem'[s.addr + i - 1] = s.data[i]
    BY DEF StaticIntact
  <2>1. s \in statics
    OBVIOUS
  <2>2. QED
    BY <2>1, StaticAddrs
<1>3. QED
  BY <1>1, <1>2 DEF Apart, Running

\* A store spares the constants the model keeps track of.
LEMMA SparedIntact ==
  ASSUME NEW m, NEW bs, NEW addr,
         NEW s \in IF ValidAccess(addr, Len(bs)) THEN Spared(addr, Len(bs)) ELSE statics,
         NEW a \in DOMAIN m, a \in s.addr..(s.addr + Len(s.data) - 1)
  PROVE  s \in statics /\ MS(m, bs, addr)[a] = m[a]
BY DEF Spared, MS

LEMMA PopConfined ==
  ASSUME TypeOK, Layout, NEW n \in Widths, isvalidpop(n),
         NEW a \in DOMAIN mem, a <= rsend
  PROVE  Cleared(n)[a] = mem[a] /\ a \in DOMAIN Cleared(n)
<1>1. a \in Nat
  BY StateNumbers DEF TypeOK
<1>2. a \notin PopAddrs(n)
  BY <1>1, PopRange, WidthFacts, StateNumbers DEF PopAddrs
<1>3. QED
  BY <1>2 DEF Cleared

LEMMA StackInstrApart ==
  ASSUME TypeOK, Layout, Apart, StackInstr
  PROVE  Apart'
<1>1. ASSUME NEW bs \in Payloads, pushMem(bs) \/ PushCopied(bs)  PROVE Apart'
  <2>1. PICK data \in Seq(Byte), swap \in BOOLEAN :
          /\ Len(data) \in Widths /\ Running /\ push(data, swap)
          /\ UNCHANGED <<phase, zone, rsend, rsbgn, statics>>
    BY <1>1, PayloadPushed
  <2>3. \A a \in DOMAIN mem : a <= rsend => mem'[a] = mem[a]
    BY <2>1, PushConfined
  <2>4. QED
    BY <2>1, <2>3, InstrApart
<1>2. ASSUME NEW n \in Widths, PopInstr(n)  PROVE Apart'
  <2>1. Running /\ UNCHANGED <<phase, zone, rsend, rsbgn, statics>>
    BY <1>2 DEF PopInstr
  <2>2. \A a \in DOMAIN mem : a <= rsend => mem'[a] = mem[a]
    BY <1>2, PopConfined DEF PopInstr
  <2>3. QED
    BY <2>1, <2>2, InstrApart
<1>3. QED
  BY <1>1, <1>2 DEF StackInstr

LEMMA MemInstrApart ==
  ASSUME TypeOK, Layout, Apart, MemInstr
  PROVE  Apart'
<1>1. ASSUME NEW n \in Widths, NEW addr \in RegValues, movsm(n, addr)
      PROVE  Apart'
  <2>0. n \in Nat
    BY WidthFacts
  <2>1. /\ Running /\ UNCHANGED <<phase, zone, rsend, rsbgn>>
        /\ statics' = IF ValidAccess(addr, n) THEN Spared(addr, n) ELSE statics
    BY <1>1 DEF movsm
  <2>2. statics' \subseteq statics
    BY <2>1 DEF Spared
  <2>3. PICK m, bs : /\ mem' = MS(m, bs, addr) /\ Len(bs) = n
                     /\ \A a \in DOMAIN mem : a <= rsend => m[a] = mem[a] /\ a \in DOMAIN m
    <3>1. CASE isvalidpop(n)
      <4>1. mem' = MS(Cleared(n), Popped(n), addr)
        BY <1>1, <3>1 DEF movsm
      <4>2. Len(Popped(n)) = n
        BY <2>0, <3>1, PopType
      <4>3. \A a \in DOMAIN mem : a <= rsend => Cleared(n)[a] = mem[a] /\ a \in DOMAIN Cleared(n)
        BY <3>1, PopConfined
      <4>4. QED
        BY <4>1, <4>2, <4>3
    <3>2. CASE ~isvalidpop(n)
      <4>1. mem' = MS(mem, Zeros(n), addr)
        BY <1>1, <3>2 DEF movsm
      <4>2. Len(Zeros(n)) = n
        BY <2>0 DEF Zeros
      <4>3. QED
        BY <4>1, <4>2
    <3>3. QED
      BY <3>1, <3>2
  <2>4. ASSUME NEW s \in statics', NEW a \in s.addr..(s.addr + Len(s.data) - 1),
               a \in DOMAIN mem, a <= rsend
        PROVE  mem'[a] = mem[a]
    <3>1. m[a] = mem[a] /\ a \in DOMAIN m
      BY <2>3, <2>4
    <3>2. MS(m, bs, addr)[a] = m[a]
      <4>1. s \in IF ValidAccess(addr, Len(bs)) THEN Spared(addr, Len(bs)) ELSE statics
        BY <2>1, <2>3, Zenon
      <4>2. QED
        BY <2>4, <3>1, <4>1, SparedIntact
    <3>3. QED
      BY <2>3, <3>1, <3>2
  <2>5. QED
    BY <2>1, <2>2, <2>4, InstrApart
<1>2. ASSUME NEW n \in Widths, NEW addr \in RegValues, movgm(n, addr)
      PROVE  Apart'
  <2>1. Running /\ push(MG(n, addr), TRUE) /\ UNCHANGED <<phase, zone, rsend, rsbgn, statics>>
    BY <1>2 DEF movgm
  <2>2. MG(n, addr) \in Seq(Byte) /\ Len(MG(n, addr)) = n
    BY WidthFacts, MGType, BuffersAreSeqs
  <2>3. \A a \in DOMAIN mem : a <= rsend => mem'[a] = mem[a]
    BY <2>1, <2>2, PushConfined
  <2>4. QED
    BY <2>1, <2>3, InstrApart
<1>3. ASSUME NEW bs \in Payloads, NEW addr \in RegValues, StoreInstr(bs, addr)
      PROVE  Apart'
  <2>1. /\ Running /\ mem' = MS(mem, bs, addr)
        /\ statics' = IF ValidAccess(addr, Len(bs)) THEN Spared(addr, Len(bs)) ELSE statics
        /\ UNCHANGED <<phase, zone, rsend, rsbgn>>
    BY <1>3 DEF StoreInstr, stackRegs
  <2>2. statics' \subseteq statics
    BY <2>1 DEF Spared
  <2>3. ASSUME NEW s \in statics', NEW a \in s.addr..(s.addr + Len(s.data) - 1),
               a \in DOMAIN mem
        PROVE  mem'[a] = mem[a]
    BY <2>1, <2>3, SparedIntact
  <2>4. QED
    BY <2>1, <2>2, <2>3, InstrApart
<1>4. QED
  BY <1>1, <1>2, <1>3 DEF MemInstr

LEMMA RegInstrApart ==
  ASSUME TypeOK, Layout, Apart, RegInstr
  PROVE  Apart'
<1>1. Running /\ UNCHANGED <<phase, zone, mem, rsend, rsbgn, statics>>
  BY DEF RegInstr, WriteRBP, WriteRSP
<1>2. QED
  BY <1>1, InstrApart

LEMMA ApartAlways ==
  ASSUME ShortData, StaticFits
  PROVE  Spec => [](TypeOK /\ Layout /\ Apart)
<1>1. Init => TypeOK /\ Layout /\ Apart
  BY InitInvariant, InitApart
<1>2. TypeOK /\ Layout /\ Apart /\ [Next]_vars => TypeOK' /\ Layout' /\ Apart'
  <2> SUFFICES ASSUME TypeOK, Layout, Apart, [Next]_vars
               PROVE  TypeOK' /\ Layout' /\ Apart'
    OBVIOUS
  <2>1. TypeOK' /\ Layout'
    BY NextInvariant
  <2>2. CASE UNCHANGED vars
    <3>1. UNCHANGED <<stage, loader, sdzsize, sdztop, mem, rsend, rsbgn, statics>>
      BY <2>2 DEF vars, phase, zone, stackRegs
    <3>2. QED
      BY <2>1, <3>1 DEF Apart, Running, StaticIntact
  <2>3. QED
    BY <2>1, <2>2, BuildApart, StackInstrApart, MemInstrApart, RegInstrApart DEF Next
<1>3. QED
  BY <1>1, <1>2, PTL DEF Spec

\* While no constant is longer than a frame and the static data of a script end
\* below the stack, every constant and instruction operand keeps its bytes until
\* the program itself stores over them.
THEOREM StaticDataIntact ==
  ASSUME ShortData, StaticFits
  PROVE  Spec => []StaticIntact
<1>1. Apart => StaticIntact
  BY DEF Apart
<1>2. QED
  BY <1>1, ApartAlways, PTL

\* Under the same conditions the stack lies above the static data and inside the
\* memory, whichever loader placed it and however the memory grew afterwards.
THEOREM StackAboveStatics ==
  ASSUME ShortData, StaticFits
  PROVE  Spec => []StackPlaced
<1>1. TypeOK /\ Layout /\ Apart => StackPlaced
  BY DEF Apart, Layout, StackPlaced
<1>2. QED
  BY <1>1, ApartAlways, PTL

-----------------------------------------------------------------------------
(***************************************************************************)
(* The memory of VpuMemory implements BoundedStack for a program that      *)
(* leaves RBP and RSP to the stack instructions and stores outside the     *)
(* stack, for any sizes, operands and loaders: the addresses wrap modulo   *)
(* 2^64, the content is a part of a block that grows, and the two loaders  *)
(* place the stack at different moments, and push and pop swap bytes that  *)
(* pushMem has already put in order, but the program sees a bounded        *)
(* last-in first-out store that hands its operands back as they were.      *)
(***************************************************************************)
(* The loader has placed the stack. *)
Placed == Running \/ loader = "vasm"

(* The registers delimit the frame a loader placed, and nothing is on the  *)
(* stack before the program runs.                                          *)
Framed ==
  /\ rsp <= rbp
  /\ ~Running => rsp = rbp
  /\ Placed => rsbgn = rbp + 1 /\ rbp - StackSize = rsend /\ rsend <= rsp

DisciplinedInv == TypeOK /\ Layout /\ Framed

DisciplinedStackStep == StackInstr \/ DisciplinedMemInstr

-----------------------------------------------------------------------------
(* The invariant.                                                          *)

(* What disciplined programs do is what programs do. *)
LEMMA DisciplinedIsNext == [DisciplinedNext]_vars => [Next]_vars
BY DEF DisciplinedNext, Next, DisciplinedMemInstr, MemInstr

(* A block of the initial size has room for the stack. *)
LEMMA StackRoom ==
  ASSUME TypeOK, Layout
  PROVE  /\ StackSize \in Nat /\ getMemLen \in Nat /\ getMemLen > StackSize
         /\ rbp \in Nat /\ rsp \in Nat /\ rsend \in Nat /\ rsbgn \in Nat
BY StateNumbers, SizesAssumption DEF Layout

(* The stack instructions and movgm move RSP within the frame. *)
LEMMA MovesWithin ==
  ASSUME DisciplinedInv, DisciplinedStackStep
  PROVE  /\ Running /\ UNCHANGED <<phase, zone, rbp, rsend, rsbgn>>
         /\ rsend <= rsp' /\ rsp' <= rbp
<1>1. Running /\ UNCHANGED <<phase, zone, rbp, rsend, rsbgn>>
  BY DEF DisciplinedStackStep, StackInstr, DisciplinedMemInstr, pushMem, PushCopied, PopInstr, movsm, movgm, StoreInstr,
         stackRegs
<1>2. rsend <= rsp /\ rsp <= rbp /\ rsp \in Nat /\ rbp \in Nat /\ rsend \in Nat
  BY <1>1, StackRoom DEF DisciplinedInv, Framed, Placed
<1>3. ASSUME NEW bs, NEW swap, push(bs, swap), Len(bs) \in Widths
      PROVE  rsend <= rsp' /\ rsp' <= rbp
  <2>1. SizeT(rsp - Len(bs)) \in Int
    <3>1. Len(bs) \in Nat /\ Modulus \in Nat
      BY <1>3, WidthFacts, SizesAssumption
    <3> QED
      BY <1>2, <3>1 DEF SizeT
  <2> QED
    BY <1>2, <1>3, <2>1 DEF push, isvalidpush
<1>4. ASSUME NEW n \in Widths, isvalidpop(n), rsp' = SizeT(rsp + n)
      PROVE  rsend <= rsp' /\ rsp' <= rbp
  BY <1>4 DEF isvalidpop
<1>5. ASSUME NEW bs \in Payloads, pushMem(bs) \/ PushCopied(bs)
      PROVE  rsend <= rsp' /\ rsp' <= rbp
  BY <1>3, <1>5, PayloadPushed
<1>6. ASSUME NEW n \in Widths, NEW a \in RegValues, movgm(n, a)
      PROVE  rsend <= rsp' /\ rsp' <= rbp
  <2>1. Len(MG(n, a)) = n
    BY MGType, WidthFacts DEF DisciplinedInv
  <2> QED
    BY <1>3, <1>6, <2>1 DEF movgm
<1>7. ASSUME NEW n \in Widths, PopInstr(n) \/ \E a \in RegValues : movsm(n, a)
      PROVE  rsend <= rsp' /\ rsp' <= rbp
  BY <1>2, <1>4, <1>7 DEF PopInstr, movsm
<1>8. ASSUME NEW bs \in Payloads, NEW a \in RegValues, StoreInstr(bs, a)
      PROVE  rsend <= rsp' /\ rsp' <= rbp
  BY <1>2, <1>8 DEF StoreInstr, stackRegs
<1> QED
  BY <1>1, <1>5, <1>6, <1>7, <1>8 DEF DisciplinedStackStep, StackInstr, DisciplinedMemInstr

LEMMA FramedStays ==
  ASSUME DisciplinedInv, [DisciplinedNext]_vars
  PROVE  Framed'
<1>0. TypeOK /\ Layout /\ Framed
  BY DEF DisciplinedInv
<1>1. CASE DisciplinedStackStep
  <2>1. /\ Running /\ UNCHANGED <<stage, loader, rbp, rsend, rsbgn>> /\ rsend <= rsp' /\ rsp' <= rbp
    BY <1>1, MovesWithin DEF phase, DisciplinedInv
  <2> QED
    BY <1>0, <2>1 DEF Framed, Placed, Running
<1>2. ASSUME NEW s \in MemSizes, executeFile(s)
      PROVE  Framed'
  <2>1. /\ rbp' = getMemLen - 1 /\ rsp' = rbp' /\ rsend' = rbp' - StackSize /\ rsbgn' = rbp' + 1
        /\ stage' = "run"
    BY <1>0, <1>2, StackRoom DEF executeFile, SetMainStack, MainStackTop
  <2> QED
    BY <1>0, <2>1, StackRoom DEF Framed, Placed, Running
<1>3. CASE StartScript
  BY <1>0, <1>3 DEF StartScript, Framed, Placed, Running, stackRegs
<1>4. CASE UNCHANGED <<stage, loader, stackRegs>>
  BY <1>0, <1>4 DEF Framed, Placed, Running, stackRegs
<1> QED
  BY <1>1, <1>2, <1>3, <1>4
     DEF DisciplinedNext, DisciplinedStackStep, Build, SDZS, MRES, vars, phase, stackRegs

LEMMA InitFramed == Init => Framed
<1> SUFFICES ASSUME Init PROVE Framed
  OBVIOUS
<1>1. TypeOK /\ Layout
  BY InitInvariant
<1> QED
  BY <1>1, StackRoom DEF Init, MainStackTop, Framed, Placed, Running

LEMMA DisciplinedAlways == DisciplinedSpec => []DisciplinedInv
<1>1. Init => DisciplinedInv
  BY InitInvariant, InitFramed DEF DisciplinedInv
<1>2. DisciplinedInv /\ [DisciplinedNext]_vars => DisciplinedInv'
  BY DisciplinedIsNext, NextInvariant, FramedStays DEF DisciplinedInv
<1> QED
  BY <1>1, <1>2, PTL DEF DisciplinedSpec

-----------------------------------------------------------------------------
(* The content of the stack.                                               *)

(* The bytes between two addresses, read upwards. *)
LEMMA ReadUp ==
  ASSUME NEW m, NEW b \in Nat, NEW s \in Nat, s <= b,
         \A a \in (s + 1)..b : m[a] \in Byte,
         NEW c, c = [i \in 1..(b - s) |-> m[s + i]]
  PROVE  /\ c \in Seq(Byte) /\ Len(c) = b - s /\ b - s \in Nat
         /\ \A i \in 1..(b - s) : c[i] = m[s + i] /\ c[i] \in Byte
<1>1. b - s \in Nat
  OBVIOUS
<1>2. \A i \in 1..(b - s) : s + i \in (s + 1)..b
  OBVIOUS
<1>3. c \in [1..(b - s) -> Byte]
  BY <1>2
<1> QED
  BY <1>1, <1>3, SeqDef

(* The content of the stack is what lies between RSP and RBP. *)
LEMMA ContentFacts ==
  ASSUME DisciplinedInv
  PROVE  /\ StackContent \in Seq(Byte) /\ Len(StackContent) = rbp - rsp /\ rbp - rsp \in Nat
         /\ \A i \in 1..(rbp - rsp) : StackContent[i] = mem[rsp + i] /\ StackContent[i] \in Byte
<1>1. /\ rbp \in Nat /\ rsp \in Nat /\ rsp <= rbp /\ rsbgn <= getMemLen /\ rsbgn \in Nat /\ getMemLen \in Nat
      /\ rsp = rbp \/ rbp < rsbgn
      /\ mem \in [0..(getMemLen - 1) -> Byte]
  BY StateNumbers DEF DisciplinedInv, TypeOK, Framed, Placed
<1>2. \A a \in (rsp + 1)..rbp : a \in 0..(getMemLen - 1)
  BY <1>1
<1> QED
  BY <1>1, <1>2, ReadUp DEF StackContent

(* The frame lies inside a block of two parts. *)
LEMMA FrameInside ==
  ASSUME NEW b \in Nat, NEW s \in Nat, NEW g \in Nat, NEW z \in Nat, NEW l \in Nat,
         s <= b, s = b \/ g = b + 1, g <= z + l
  PROVE  \A a \in (s + 1)..b : a \in 0..((z + l) - 1)
OBVIOUS

(* The same, a step later. *)
LEMMA NextContentFacts ==
  ASSUME DisciplinedInv'
  PROVE  /\ StackContent' \in Seq(Byte) /\ Len(StackContent') = rbp' - rsp' /\ rbp' - rsp' \in Nat
         /\ \A i \in 1..(rbp' - rsp') : /\ StackContent'[i] = mem'[rsp' + i]
                                      /\ StackContent'[i] \in Byte
<1>0. TypeOK' /\ Layout' /\ Framed'
  BY DEF DisciplinedInv
<1>1. memlen' \in MemSizes /\ sdzsize' \in Nat /\ getMemLen' = sdzsize' + memlen'
  BY <1>0 DEF TypeOK, getMemLen
<1>2. rbp' \in Nat /\ rsp' \in Nat /\ rsbgn' \in Nat
  <2>1. \A k \in 0..(Modulus - 1) : k \in Nat
    BY SizesAssumption
  <2>2. {rbp', rsp', rsend', rsbgn'} \subseteq 0..(Modulus - 1)
    BY <1>0 DEF TypeOK
  <2> QED
    BY <2>1, <2>2
<1>3. rsbgn' <= sdzsize' + memlen' /\ memlen' \in Nat
  BY <1>0, <1>1, SizesAssumption DEF Layout
<1>4. rsp' <= rbp' /\ (rsp' = rbp' \/ rsbgn' = rbp' + 1)
  BY <1>0 DEF Framed, Placed
<1>5. \A a \in (rsp' + 1)..rbp' : mem'[a] \in Byte
  <2>1. \A a \in (rsp' + 1)..rbp' : a \in 0..((sdzsize' + memlen') - 1)
    BY <1>1, <1>2, <1>3, <1>4, FrameInside
  <2>2. \A a \in 0..((sdzsize' + memlen') - 1) : mem'[a] \in Byte
    BY <1>0 DEF TypeOK, getMemLen
  <2> QED
    BY <1>1, <2>1, <2>2
<1>6. StackContent' = [i \in 1..(rbp' - rsp') |-> mem'[rsp' + i]]
  BY DEF StackContent
<1>7. \A b, s \in Nat : \A m, c :
        s <= b /\ (\A a \in (s + 1)..b : m[a] \in Byte) /\ c = [i \in 1..(b - s) |-> m[s + i]]
        => /\ c \in Seq(Byte) /\ Len(c) = b - s /\ b - s \in Nat
           /\ \A i \in 1..(b - s) : c[i] = m[s + i] /\ c[i] \in Byte
  BY ReadUp
<1> DEFINE m == mem'  b == rbp'  s == rsp'  c == StackContent'
<1>8. b \in Nat /\ s \in Nat /\ s <= b /\ (\A a \in (s + 1)..b : m[a] \in Byte)
      /\ c = [i \in 1..(b - s) |-> m[s + i]]
  BY <1>2, <1>4, <1>5, <1>6
<1>9. /\ c \in Seq(Byte) /\ Len(c) = b - s /\ b - s \in Nat
      /\ \A i \in 1..(b - s) : c[i] = m[s + i] /\ c[i] \in Byte
  <2> HIDE DEF m, b, s, c
  <2> QED
    BY <1>7, <1>8
<1> QED
  BY <1>9

(* Two states with the same bytes between RSP and RBP have one content. *)
LEMMA SameContent ==
  ASSUME DisciplinedInv, rbp' = rbp, rsp' = rsp, \A a \in (rsp + 1)..rbp : mem'[a] = mem[a]
  PROVE  StackContent' = StackContent
<1>1. \A i \in 1..(rbp - rsp) : rsp + i \in (rsp + 1)..rbp
  BY StackRoom DEF DisciplinedInv
<1>2. StackContent' = [i \in 1..(rbp - rsp) |-> mem'[rsp + i]]
  BY DEF StackContent
<1> QED
  BY <1>1, <1>2 DEF StackContent

(* What two joined byte strings hold. *)
LEMMA JoinFacts ==
  ASSUME NEW s \in Seq(Byte), NEW t \in Seq(Byte)
  PROVE  /\ s \o t \in Seq(Byte) /\ Len(s \o t) = Len(s) + Len(t)
         /\ \A i \in 1..Len(s) : (s \o t)[i] = s[i]
         /\ \A i \in (Len(s) + 1)..(Len(s) + Len(t)) : (s \o t)[i] = t[i - Len(s)]
<1>1. /\ s \o t \in Seq(Byte) /\ Len(s \o t) = Len(s) + Len(t)
      /\ \A i \in 1..(Len(s) + Len(t)) :
           (s \o t)[i] = IF i <= Len(s) THEN s[i] ELSE t[i - Len(s)]
  BY ConcatProperties
<1>2. Len(s) \in Nat /\ Len(t) \in Nat
  OBVIOUS
<1>3. ASSUME NEW i \in 1..Len(s)
      PROVE  i \in 1..(Len(s) + Len(t)) /\ i <= Len(s)
  BY <1>2
<1>4. ASSUME NEW i \in (Len(s) + 1)..(Len(s) + Len(t))
      PROVE  i \in 1..(Len(s) + Len(t)) /\ ~(i <= Len(s))
  BY <1>2
<1> QED
  BY <1>1, <1>3, <1>4

(* What lies on the stack after a push of data is data, the last byte      *)
(* written first, above the rest.                                          *)
LEMMA PushContent ==
  ASSUME DisciplinedInv, DisciplinedInv', Running, NEW bs \in Seq(Byte), Len(bs) \in Widths,
         NEW data \in Seq(Byte), NEW swap \in BOOLEAN, Len(data) = Len(bs),
         (IF swap THEN swap_endian(data) ELSE data) = Reverse(bs),
         push(data, swap), rbp' = rbp
  PROVE  \/ UNCHANGED StackContent
         \/ /\ Len(StackContent) + Len(bs) <= StackSize
            /\ StackContent' = bs \o StackContent
<1> DEFINE n == Len(bs)
<1>0. n \in Nat /\ n > 0
  BY WidthFacts
<1>1. /\ rbp \in Nat /\ rsp \in Nat /\ rsend \in Nat /\ rsp <= rbp /\ rbp - StackSize = rsend
      /\ rsbgn = rbp + 1 /\ rsbgn <= getMemLen /\ getMemLen \in Nat /\ StackSize \in Nat
      /\ DOMAIN mem = 0..(getMemLen - 1)
  BY StackRoom DEF DisciplinedInv, Framed, Placed, Layout, TypeOK
<1>2. CASE ~isvalidpush(n)
  BY <1>2, SameContent DEF push
<1>3. CASE isvalidpush(n)
  <2>1. rsp - n >= rsend /\ SizeT(rsp - n) = rsp - n
    <3>1. rsp - n >= 0
      <4> SUFFICES ASSUME rsp - n < 0 PROVE FALSE
        BY <1>0, <1>1
      <4>1. SizeT(rsp - n) = rsp - n + Modulus
        BY <1>0, <1>1 DEF SizeT
      <4>2. SizeT(rsp - n) < rbp /\ rbp < getMemLen
        BY <1>1, <1>3 DEF isvalidpush
      <4>3. n + getMemLen < Modulus /\ Modulus \in Nat
        BY WidthRoom, SizesAssumption DEF DisciplinedInv
      <4> QED
        BY <1>0, <1>1, <4>1, <4>2, <4>3
    <3>2. rsp - n < Modulus
      BY <1>0, <1>1, StateNumbers DEF DisciplinedInv
    <3>3. SizeT(rsp - n) = rsp - n
      BY <1>0, <1>1, <3>1, <3>2, SizesAssumption DEF SizeT
    <3> QED
      BY <1>3, <3>3 DEF isvalidpush
  <2>2. /\ rsp' = rsp - n
        /\ \A i \in 1..n : mem'[rsp - n + i] = bs[i]
        /\ \A a \in (rsp + 1)..rbp : mem'[a] = mem[a]
    <3>1. rsp' = rsp - n /\ mem' = Pushed(Reverse(bs))
      BY <1>3, <2>1 DEF push
    <3>2. /\ Len(Reverse(bs)) = n
          /\ \A i \in 1..n : Reverse(bs)[i] = bs[n - i + 1]
      BY <1>0, SwapFacts
    <3>3. ASSUME NEW i \in 1..n
          PROVE  mem'[rsp - n + i] = bs[i]
      <4>1. rsp - n + i \in PushAddrs(n) /\ rsp - n + i \in DOMAIN mem
        BY <1>0, <1>1, <2>1 DEF PushAddrs
      <4>2. mem'[rsp - n + i] = Reverse(bs)[rsp - (rsp - n + i) + 1]
        BY <3>1, <3>2, <4>1 DEF Pushed
      <4>3. rsp - (rsp - n + i) + 1 = n - i + 1 /\ n - i + 1 \in 1..n /\ n - (n - i + 1) + 1 = i
        BY <1>0, <1>1
      <4> QED
        BY <3>2, <4>2, <4>3
    <3>4. ASSUME NEW a \in (rsp + 1)..rbp
          PROVE  a \notin PushAddrs(n) /\ a \in DOMAIN mem
      BY <1>0, <1>1 DEF PushAddrs
    <3> QED
      BY <3>1, <3>2, <3>3, <3>4 DEF Pushed
  <2>3. /\ StackContent \in Seq(Byte) /\ Len(StackContent) = rbp - rsp
        /\ \A i \in 1..(rbp - rsp) : StackContent[i] = mem[rsp + i]
    BY ContentFacts
  <2>4. /\ StackContent' \in Seq(Byte) /\ Len(StackContent') = n + (rbp - rsp)
        /\ \A i \in 1..(n + (rbp - rsp)) : StackContent'[i] = mem'[rsp - n + i]
    <3>1. /\ StackContent' \in Seq(Byte) /\ Len(StackContent') = rbp' - rsp'
          /\ \A i \in 1..(rbp' - rsp') : StackContent'[i] = mem'[rsp' + i]
      BY NextContentFacts
    <3>2. rbp' - rsp' = n + (rbp - rsp)
      BY <1>0, <1>1, <2>2
    <3> QED
      BY <2>2, <3>1, <3>2
  <2>5. /\ bs \o StackContent \in Seq(Byte) /\ Len(bs \o StackContent) = n + (rbp - rsp)
        /\ \A i \in 1..n : (bs \o StackContent)[i] = bs[i]
        /\ \A i \in (n + 1)..(n + (rbp - rsp)) :
             (bs \o StackContent)[i] = StackContent[i - n]
    <3>1. rbp - rsp \in Nat /\ n \in Nat /\ Len(bs) = n
      BY <1>0, <1>1
    <3>2. StackContent \in Seq(Byte) /\ Len(StackContent) = rbp - rsp
      BY <2>3
    <3>3. /\ bs \o StackContent \in Seq(Byte)
          /\ Len(bs \o StackContent) = Len(bs) + Len(StackContent)
          /\ \A i \in 1..Len(bs) : (bs \o StackContent)[i] = bs[i]
          /\ \A i \in (Len(bs) + 1)..(Len(bs) + Len(StackContent)) :
               (bs \o StackContent)[i] = StackContent[i - Len(bs)]
      BY <3>2, JoinFacts
    <3> QED
      BY <3>1, <3>2, <3>3
  <2>6. ASSUME NEW i \in 1..(n + (rbp - rsp))
        PROVE  StackContent'[i] = (bs \o StackContent)[i]
    <3>1. CASE i <= n
      BY <1>0, <2>2, <2>4, <2>5, <3>1
    <3>2. CASE ~(i <= n)
      <4>1. /\ rsp - n + i \in (rsp + 1)..rbp /\ rsp - n + i = rsp + (i - n)
            /\ i - n \in 1..(rbp - rsp) /\ i \in (n + 1)..(n + (rbp - rsp))
        BY <1>0, <1>1, <3>2
      <4>2. mem'[rsp - n + i] = mem[rsp - n + i]
        BY <2>2, <4>1
      <4>3. mem[rsp - n + i] = StackContent[i - n]
        BY <2>3, <4>1
      <4> QED
        BY <2>4, <2>5, <4>1, <4>2, <4>3
    <3> QED
      BY <3>1, <3>2
  <2>7. StackContent' = bs \o StackContent
    BY <2>4, <2>5, <2>6, SeqEqual
  <2>8. Len(StackContent) + n <= StackSize
    BY <1>0, <1>1, <2>1, <2>3
  <2> QED
    BY <2>7, <2>8
<1> QED
  BY <1>2, <1>3

(* Whatever is on the stack can be popped. *)
LEMMA PopValid ==
  ASSUME DisciplinedInv, Running, NEW n \in Widths
  PROVE  isvalidpop(n) <=> n <= Len(StackContent)
<1>1. /\ rbp \in Nat /\ rsp \in Nat /\ rsend \in Nat /\ rsend <= rsp /\ rsp <= rbp
      /\ rsbgn = rbp + 1 /\ rsbgn <= getMemLen /\ getMemLen \in Nat
  BY StackRoom DEF DisciplinedInv, Framed, Placed, Layout
<1>2. n \in Nat /\ n > 0 /\ n + getMemLen < Modulus /\ Modulus \in Nat
  BY WidthFacts, WidthRoom, SizesAssumption DEF DisciplinedInv
<1>3. SizeT(rsp + n) = rsp + n
  BY <1>1, <1>2 DEF SizeT
<1>4. Len(StackContent) = rbp - rsp
  BY ContentFacts
<1> QED
  BY <1>1, <1>2, <1>3, <1>4 DEF isvalidpop, FrameOK

(* A pop hands back the first bytes of the content. *)
LEMMA PopContent ==
  ASSUME DisciplinedInv, DisciplinedInv', Running, NEW n \in Widths, isvalidpop(n),
         rbp' = rbp, rsp' = SizeT(rsp + n), buf' = Popped(n),
         \A a \in (rsp + n + 1)..rbp : mem'[a] = mem[a]
  PROVE  /\ n <= Len(StackContent)
         /\ buf' = SubSeq(StackContent, 1, n)
         /\ StackContent' = SubSeq(StackContent, n + 1, Len(StackContent))
<1> DEFINE L == rbp - rsp
<1>1. /\ rbp \in Nat /\ rsp \in Nat /\ rsp <= rbp /\ n \in Nat /\ n > 0 /\ L \in Nat
      /\ rsp' = rsp + n /\ n <= L
  BY StackRoom, WidthFacts, PopRange, PopValid, ContentFacts DEF DisciplinedInv, Framed
<1>2. /\ StackContent \in Seq(Byte) /\ Len(StackContent) = L
      /\ \A i \in 1..L : StackContent[i] = mem[rsp + i] /\ StackContent[i] \in Byte
  BY ContentFacts
<1>3. /\ StackContent' \in Seq(Byte) /\ Len(StackContent') = L - n
      /\ \A i \in 1..(L - n) : StackContent'[i] = mem'[rsp + n + i]
  <2>1. /\ StackContent' \in Seq(Byte) /\ Len(StackContent') = rbp' - rsp'
        /\ \A i \in 1..(rbp' - rsp') : StackContent'[i] = mem'[rsp' + i]
    BY NextContentFacts
  <2>2. rbp' - rsp' = L - n
    BY <1>1
  <2> QED
    BY <1>1, <2>1, <2>2
<1>4. PICK newest : newest = SubSeq(StackContent, 1, n)
  OBVIOUS
<1>5. /\ newest \in Seq(Byte) /\ Len(newest) = n
      /\ \A i \in 1..n : newest[i] = StackContent[i]
  <2>1. 1 \in Int /\ n \in Int /\ \A i \in 1..n : StackContent[i] \in Byte
    BY <1>1, <1>2
  <2>2. /\ SubSeq(StackContent, 1, n) \in Seq(Byte)
        /\ Len(SubSeq(StackContent, 1, n)) = IF 1 <= n THEN n - 1 + 1 ELSE 0
        /\ \A i \in 1..(n - 1 + 1) : SubSeq(StackContent, 1, n)[i] = StackContent[1 + i - 1]
    BY <2>1, SubSeqProperties
  <2>3. (IF 1 <= n THEN n - 1 + 1 ELSE 0) = n /\ n - 1 + 1 = n
        /\ \A i \in 1..n : 1 + i - 1 = i
    BY <1>1
  <2> QED
    BY <1>4, <2>2, <2>3
<1>6. buf' = newest
  <2>1. Popped(n) \in [1..n -> Byte] /\ \A i \in 1..n : Popped(n)[i] = mem[rsp + i]
    BY PopType DEF DisciplinedInv
  <2>2. Popped(n) \in Seq(Byte) /\ Len(Popped(n)) = n
    BY <1>1, <2>1, BuffersAreSeqs
  <2>3. ASSUME NEW i \in 1..n
        PROVE  Popped(n)[i] = newest[i]
    <3>1. i \in 1..L
      BY <1>1
    <3> QED
      BY <1>2, <1>5, <2>1, <3>1
  <2> QED
    BY <1>5, <2>2, <2>3, SeqEqual
<1>7. PICK rest : rest = SubSeq(StackContent, n + 1, L)
  OBVIOUS
<1>8. /\ rest \in Seq(Byte) /\ Len(rest) = L - n
      /\ \A i \in 1..(L - n) : rest[i] = StackContent[n + i]
  <2>1. n + 1 \in Int /\ L \in Int /\ \A i \in (n + 1)..L : StackContent[i] \in Byte
    BY <1>1, <1>2
  <2>2. /\ SubSeq(StackContent, n + 1, L) \in Seq(Byte)
        /\ Len(SubSeq(StackContent, n + 1, L)) = IF n + 1 <= L THEN L - (n + 1) + 1 ELSE 0
        /\ \A i \in 1..(L - (n + 1) + 1) :
             SubSeq(StackContent, n + 1, L)[i] = StackContent[(n + 1) + i - 1]
    BY <2>1, SubSeqProperties
  <2>3. (IF n + 1 <= L THEN L - (n + 1) + 1 ELSE 0) = L - n /\ L - (n + 1) + 1 = L - n
        /\ \A i \in 1..(L - n) : (n + 1) + i - 1 = n + i
    BY <1>1
  <2> QED
    BY <1>7, <2>2, <2>3
<1>9. StackContent' = rest
  <2>1. ASSUME NEW i \in 1..(L - n)
        PROVE  StackContent'[i] = rest[i]
    <3>1. rsp + n + i \in (rsp + n + 1)..rbp /\ n + i \in 1..L /\ rsp + (n + i) = rsp + n + i
      BY <1>1
    <3> QED
      BY <1>2, <1>3, <1>8, <3>1
  <2> QED
    BY <1>3, <1>8, <2>1, SeqEqual
<1> QED
  BY <1>1, <1>2, <1>4, <1>6, <1>7, <1>9

-----------------------------------------------------------------------------
(* The refinement.                                                         *)

(* While the program is built nothing is on the stack. *)
LEMMA BuildEmpty ==
  ASSUME DisciplinedInv, DisciplinedInv', Build
  PROVE  UNCHANGED StackContent
<1>1. rsp = rbp
  BY DEF Build, SDZS, MRES, StartScript, executeFile, DisciplinedInv, Framed, Running
<1>2. rsp' = rbp'
  <2>1. CASE \E s \in MemSizes : executeFile(s)
    BY <2>1 DEF executeFile, SetMainStack
  <2>2. CASE UNCHANGED stackRegs
    BY <1>1, <2>2 DEF stackRegs
  <2> QED
    BY <2>1, <2>2 DEF Build, SDZS, MRES, StartScript
<1>3. Len(StackContent) = 0 /\ StackContent \in Seq(Byte)
  <2>1. Len(StackContent) = rbp - rsp /\ rbp \in Nat /\ StackContent \in Seq(Byte)
    BY ContentFacts, StackRoom DEF DisciplinedInv
  <2> QED
    BY <1>1, <2>1
<1>4. Len(StackContent') = 0 /\ StackContent' \in Seq(Byte)
  <2>1. Len(StackContent') = rbp' - rsp' /\ StackContent' \in Seq(Byte) /\ rbp' - rsp' \in Nat
    BY NextContentFacts
  <2>2. rbp' \in Int /\ rsp' \in Int
    <3>1. {rbp', rsp', rsend', rsbgn'} \subseteq 0..(Modulus - 1)
      BY DEF DisciplinedInv, TypeOK
    <3> QED
      BY <3>1, SizesAssumption
  <2>3. rbp' - rsp' = 0
    <3>1. \A x, y \in Int : x = y => x - y = 0
      OBVIOUS
    <3> QED
      BY <1>2, <2>2, <3>1
  <2> QED
    BY <2>1, <2>3
<1> QED
  BY <1>3, <1>4

(* A store outside the stack leaves the bytes between RSEND and RSBGN. *)
LEMMA StoreOutside ==
  ASSUME NEW m, NEW bs, NEW addr, OutsideStack(addr, Len(bs)),
         NEW x \in (rsend + 1)..(rsbgn - 1), x \in DOMAIN m
  PROVE  MS(m, bs, addr)[x] = m[x]
BY DEF MS, OutsideStack

(* The addresses of the stack, in the words the checks use. *)
LEMMA FrameAddrs ==
  ASSUME DisciplinedInv, Running
  PROVE  \A x \in (rsp + 1)..rbp : x \in (rsend + 1)..(rsbgn - 1) /\ x \in DOMAIN mem
<1>1. /\ rbp \in Nat /\ rsp \in Nat /\ rsend \in Nat /\ rsend <= rsp /\ rsp <= rbp
      /\ rsbgn = rbp + 1 /\ rsbgn <= getMemLen /\ getMemLen \in Nat
      /\ DOMAIN mem = 0..(getMemLen - 1)
  BY StackRoom DEF DisciplinedInv, Framed, Placed, Layout, TypeOK
<1> QED
  BY <1>1

LEMMA PushImplements ==
  ASSUME DisciplinedInv, DisciplinedInv', Running, NEW bs \in Seq(Byte), Len(bs) \in Widths,
         NEW data \in Seq(Byte), NEW swap \in BOOLEAN, Len(data) = Len(bs),
         (IF swap THEN swap_endian(data) ELSE data) = Reverse(bs),
         push(data, swap), UNCHANGED <<rbp, buf>>
  PROVE  [Stack!Next]_(Stack!vars)
<1>1. CASE UNCHANGED StackContent
  BY <1>1 DEF Stack!vars
<1>2. CASE /\ Len(StackContent) + Len(bs) <= StackSize
           /\ StackContent' = bs \o StackContent
  <2>1. bs \in Stack!Buffers(Len(bs))
    BY DEF Stack!Buffers
  <2>2. Stack!Push(bs)
    BY <1>2 DEF Stack!Push
  <2> QED
    BY <2>1, <2>2 DEF Stack!Next
<1> QED
  BY <1>1, <1>2, PushContent

LEMMA PopImplements ==
  ASSUME DisciplinedInv, DisciplinedInv', Running, NEW n \in Widths, isvalidpop(n),
         rbp' = rbp, rsp' = SizeT(rsp + n), buf' = Popped(n),
         \A a \in (rsp + n + 1)..rbp : mem'[a] = mem[a]
  PROVE  [Stack!Next]_(Stack!vars)
<1>1. Stack!Pop(n)
  BY PopContent DEF Stack!Pop
<1> QED
  BY <1>1 DEF Stack!Next

LEMMA PopShortImplements ==
  ASSUME DisciplinedInv, Running, NEW n \in Widths, ~isvalidpop(n),
         UNCHANGED <<rbp, rsp>>, buf' \in Buffers(n),
         \A a \in (rsp + 1)..rbp : mem'[a] = mem[a]
  PROVE  [Stack!Next]_(Stack!vars)
<1>1. UNCHANGED StackContent
  BY SameContent
<1>2. n > Len(StackContent)
  BY PopValid, ContentFacts, WidthFacts
<1>3. Stack!PopShort(n)
  BY <1>1, <1>2 DEF Stack!PopShort, Stack!Buffers, Buffers
<1> QED
  BY <1>3 DEF Stack!Next

(* The bytes below the popped ones stay. *)
LEMMA ClearedBelow ==
  ASSUME DisciplinedInv, Running, NEW n \in Widths, isvalidpop(n)
  PROVE  \A x \in (rsp + n + 1)..rbp : /\ x \in (rsp + 1)..rbp
                                      /\ Cleared(n)[x] = mem[x]
                                      /\ x \in DOMAIN Cleared(n)
<1>1. /\ rsp \in Nat /\ rbp \in Nat /\ n \in Nat /\ SizeT(rsp + n) = rsp + n
  BY StackRoom, WidthFacts, PopRange DEF DisciplinedInv
<1>2. ASSUME NEW x \in (rsp + n + 1)..rbp
      PROVE  x \in (rsp + 1)..rbp /\ x \notin PopAddrs(n)
  BY <1>1 DEF PopAddrs
<1> QED
  BY <1>2, FrameAddrs DEF Cleared

LEMMA MovsmImplements ==
  ASSUME DisciplinedInv, DisciplinedInv', NEW n \in Widths, NEW a \in RegValues,
         OutsideStack(a, n), movsm(n, a)
  PROVE  [Stack!Next]_(Stack!vars)
<1>0. TypeOK /\ Layout /\ Running /\ rbp' = rbp /\ n \in Nat
  BY WidthFacts DEF DisciplinedInv, movsm
<1>1. CASE isvalidpop(n)
  <2>1. /\ buf' = Popped(n) /\ rsp' = SizeT(rsp + n)
        /\ mem' = MS(Cleared(n), Popped(n), a)
    BY <1>1 DEF movsm
  <2>2. Len(Popped(n)) = n
    BY <1>0, <1>1, PopType, BuffersAreSeqs
  <2>3. ASSUME NEW x \in (rsp + n + 1)..rbp
        PROVE  mem'[x] = mem[x]
    <3>1. x \in (rsp + 1)..rbp /\ Cleared(n)[x] = mem[x] /\ x \in DOMAIN Cleared(n)
      BY <1>0, <1>1, ClearedBelow
    <3>2. x \in (rsend + 1)..(rsbgn - 1)
      BY <1>0, <3>1, FrameAddrs
    <3> QED
      BY <2>1, <2>2, <3>1, <3>2, StoreOutside
  <2> QED
    BY <1>0, <1>1, <2>1, <2>3, PopImplements
<1>2. CASE ~isvalidpop(n)
  <2>1. buf' = Zeros(n) /\ mem' = MS(mem, Zeros(n), a) /\ rsp' = rsp
    BY <1>2 DEF movsm
  <2>2. Zeros(n) \in Buffers(n) /\ Len(Zeros(n)) = n
    BY <1>0, DataAssumption DEF Zeros, Buffers
  <2>3. \A x \in (rsp + 1)..rbp : mem'[x] = mem[x]
    BY <1>0, <2>1, <2>2, FrameAddrs, StoreOutside
  <2> QED
    BY <1>0, <1>2, <2>1, <2>2, <2>3, PopShortImplements
<1> QED
  BY <1>1, <1>2

(* Every step of a disciplined program is a step of the bounded stack. *)
LEMMA StepImplements ==
  ASSUME DisciplinedInv, DisciplinedInv', [DisciplinedNext]_vars
  PROVE  [Stack!Next]_(Stack!vars)
<1>0. TypeOK /\ Layout
  BY DEF DisciplinedInv
<1>1. CASE Build
  <2>1. UNCHANGED buf
    BY <1>1 DEF Build, SDZS, MRES, StartScript, executeFile
  <2> QED
    BY <1>1, <2>1, BuildEmpty DEF Stack!vars
<1>2. ASSUME NEW bs \in Payloads, pushMem(bs) \/ PushCopied(bs)
      PROVE  [Stack!Next]_(Stack!vars)
  <2>1. PICK data \in Seq(Byte), swap \in BOOLEAN :
          /\ Len(data) = Len(bs)
          /\ (IF swap THEN swap_endian(data) ELSE data) = Reverse(bs)
          /\ Running /\ push(data, swap) /\ UNCHANGED <<rbp, buf>>
    BY <1>2, PayloadPushed
  <2>2. bs \in Seq(Byte) /\ Len(bs) \in Widths
    BY PayloadFacts DEF Widths
  <2> QED
    BY <2>1, <2>2, PushImplements
<1>3. ASSUME NEW n \in Widths, PopInstr(n)
      PROVE  [Stack!Next]_(Stack!vars)
  <2>1. Running /\ rbp' = rbp
    BY <1>3 DEF PopInstr
  <2>2. CASE isvalidpop(n)
    <3>1. buf' = Popped(n) /\ mem' = Cleared(n) /\ rsp' = SizeT(rsp + n)
      BY <1>3, <2>2 DEF PopInstr
    <3>2. \A x \in (rsp + n + 1)..rbp : mem'[x] = mem[x]
      BY <2>1, <2>2, <3>1, ClearedBelow
    <3> QED
      BY <2>1, <2>2, <3>1, <3>2, PopImplements
  <2>3. CASE ~isvalidpop(n)
    <3>1. buf' \in Buffers(n) /\ UNCHANGED <<mem, rsp>>
      BY <1>3, <2>3 DEF PopInstr
    <3> QED
      BY <2>1, <2>3, <3>1, PopShortImplements
  <2> QED
    BY <2>2, <2>3
<1>4. ASSUME NEW n \in Widths, NEW a \in RegValues, OutsideStack(a, n), movsm(n, a)
      PROVE  [Stack!Next]_(Stack!vars)
  BY <1>4, MovsmImplements
<1>5. ASSUME NEW n \in Widths, NEW a \in RegValues, movgm(n, a)
      PROVE  [Stack!Next]_(Stack!vars)
  <2>1. Running /\ push(MG(n, a), TRUE) /\ UNCHANGED <<rbp, buf>>
    BY <1>5 DEF movgm
  <2>2. MG(n, a) \in [1..n -> Byte] /\ n \in Nat
    BY <1>0, MGType, WidthFacts
  <2>3. MG(n, a) \in Seq(Byte) /\ Len(MG(n, a)) = n
    BY <2>2, BuffersAreSeqs
  <2> QED
    BY <2>1, <2>3, PushImplements DEF swap_endian
<1>6. ASSUME NEW bs \in Payloads, NEW a \in RegValues, OutsideStack(a, Len(bs)), StoreInstr(bs, a)
      PROVE  [Stack!Next]_(Stack!vars)
  <2>1. Running /\ UNCHANGED <<rbp, rsp, buf>> /\ mem' = MS(mem, bs, a)
    BY <1>6 DEF StoreInstr, stackRegs
  <2>2. \A x \in (rsp + 1)..rbp : mem'[x] = mem[x]
    BY <1>6, <2>1, FrameAddrs, StoreOutside
  <2> QED
    BY <2>1, <2>2, SameContent DEF Stack!vars
<1>7. CASE UNCHANGED vars
  BY <1>7, SameContent DEF vars, stackRegs, Stack!vars
<1> QED
  BY <1>1, <1>2, <1>3, <1>4, <1>5, <1>6, <1>7
     DEF DisciplinedNext, StackInstr, DisciplinedMemInstr

(* memory::push and memory::pop (memory_decl.cpp:49-73), run by every      *)
(* stack instruction, movsm and movgm, give a program that leaves RBP and  *)
(* RSP to them and stores outside the stack a last-in first-out store of   *)
(* StackSize bytes: an operand is pushed whole or dropped, a pop hands it  *)
(* back byte for byte in the order of the host although pushMem, push and  *)
(* pop each reverse its bytes on the way, and nothing else the program or  *)
(* its loader does changes what is on the stack.                           *)
THEOREM StackKeepsPromise == DisciplinedSpec => StackPromise
<1>1. ASSUME Init
      PROVE  Stack!Init
  <2>1. rsp = rbp /\ buf = <<>> /\ DisciplinedInv
    BY <1>1, InitInvariant, InitFramed DEF Init, DisciplinedInv
  <2>2. StackContent \in Seq(Byte) /\ Len(StackContent) = 0
    <3>1. rbp \in Nat /\ rsp \in Nat
      BY <2>1, StackRoom DEF DisciplinedInv
    <3> QED
      BY <2>1, <3>1, ContentFacts
  <2> QED
    BY <2>1, <2>2 DEF Stack!Init
<1>2. DisciplinedInv /\ DisciplinedInv' /\ [DisciplinedNext]_vars => [Stack!Next]_(Stack!vars)
  BY StepImplements
<1> QED
  BY <1>1, <1>2, DisciplinedAlways, PTL DEF DisciplinedSpec, StackPromise, Stack!Spec
=============================================================================
