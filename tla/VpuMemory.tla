----------------------------- MODULE VpuMemory ------------------------------
(***************************************************************************)
(* The memory of one virtual process (Memory/memory_decl.cpp) and the      *)
(* instructions that move bytes in it (Memory/memory_symbols.cpp).         *)
(*                                                                         *)
(*   0 ... sdztop ... sdzsize ......... rsend | rsend+1 ... rsbgn-1 | ...  *)
(*   static data zone          heap           |       stack         |      *)
(*                                                                         *)
(* While a script is built (or a VEXE file decoded) every constant and     *)
(* every instruction operand is appended to the static data zone, which    *)
(* grows by one frame when it is full.  Then the program runs: the stack   *)
(* instructions trust RSP and RBP, two registers the program may set to    *)
(* anything, and check them against the limits RSEND and RSBGN it cannot   *)
(* reach.  Addresses and sizes are size_t: sums and differences wrap.      *)
(* The host is taken to be little-endian, the case swap_endian is for:     *)
(* push and pop swap the bytes, and an operand lies on the stack with its  *)
(* most significant byte at the highest address.                           *)
(***************************************************************************)
EXTENDS Integers, Sequences, SequencesExt

CONSTANTS
  Modulus,        \* 2^64: size_t values are 0..Modulus-1
  DefaultMemLen,  \* initial _memlen (0x100000)
  SdzFrame,       \* initial sdzsize, and what the zone grows by (0x1000)
  StackSize,      \* memory::stacksize (0x8000)
  Byte,           \* the byte values, 0 among them
  Payloads,       \* the operands and constants, their bytes in the host's order
  RegValues,      \* the values a program puts in RBP, RSP or uses as address
  MemSizes,       \* the sizes [MRES] or a VEXE header asks for
  StaticLimit     \* bound: the bytes of static data a script has

Widths == {Len(bs) : bs \in Payloads}

ASSUME SizesAssumption ==
  /\ Modulus \in Nat /\ DefaultMemLen \in Nat /\ StaticLimit \in Nat
  /\ SdzFrame \in Nat \ {0} /\ StackSize \in Nat \ {0}
  /\ StackSize <= DefaultMemLen
  /\ DefaultMemLen \in MemSizes /\ MemSizes \subseteq Nat
  /\ \A s \in MemSizes : s + StaticLimit + SdzFrame < Modulus

ASSUME DataAssumption ==
  /\ 0 \in Byte
  /\ RegValues \subseteq 0..(Modulus - 1)
  /\ Payloads \subseteq Seq(Byte)
  /\ \A bs \in Payloads : Len(bs) > 0
  /\ \A bs \in Payloads, s \in MemSizes :
       Len(bs) + s + StaticLimit + SdzFrame < Modulus

\* No constant is longer than a frame of the zone.
ShortData == \A bs \in Payloads : Len(bs) <= SdzFrame

\* The static data of a script end below the stack the shell placed.
StaticFits == StaticLimit <= DefaultMemLen + SdzFrame - StackSize

VARIABLES
  stage,    \* "build", then "run"
  loader,   \* "vasm": built by the shell; "vexe": decoded by the VEXE runner
  resized,  \* is_mem_resized: [MRES] has been obeyed
  memlen,   \* _memlen, the length of the memory without the static data zone
  sdzsize, sdztop,
  mem,      \* _memory
  rbp, rsp, rsend, rsbgn,
  buf,      \* the bytes the last pop instruction got
  statics   \* history: the static data the program has not overwritten itself

stackRegs == <<rbp, rsp, rsend, rsbgn>>
zone == <<memlen, sdzsize, sdztop>>
phase == <<stage, loader, resized>>
vars == <<phase, zone, mem, stackRegs, buf, statics>>

getMemLen == sdzsize + memlen

\* size_t arithmetic: a sum or difference of two size_t wraps at most once.
SizeT(x) ==
  IF x < 0 THEN x + Modulus ELSE IF x >= Modulus THEN x - Modulus ELSE x

Zeros(n) == [i \in 1..n |-> 0]
Buffers(n) == [1..n -> Byte]

-----------------------------------------------------------------------------
(* The checks of push, pop, _MS and _MG, and the addresses their loops visit. *)

\* Mutant: the test of the stack base against RSBGN is missing.
FrameOKNoBase == rsp <= rbp /\ rsp >= rsend

FrameOK == rsp <= rbp /\ rsp >= rsend /\ rbp < rsbgn

\* Mutant: the future overflow is not tested.
isvalidpushNoEnd(count) == FrameOK /\ SizeT(rsp - count) < rbp

isvalidpush(count) ==
  /\ FrameOK
  /\ SizeT(rsp - count) < rbp
  /\ SizeT(rsp - count) >= rsend

isvalidpop(count) ==
  /\ FrameOK
  /\ SizeT(rsp + count) <= rbp
  /\ SizeT(rsp + count) >= rsend
  /\ SizeT(rsp + count) <= rsbgn

PushAddrs(count) == {a \in 0..rsp : a > rsp - count /\ a >= SizeT(rsp - count)}
PopAddrs(count) == (rsp + 1)..SizeT(rsp + count)

ValidAccess(addr, count) == SizeT(addr + count - 1) <= memlen
AccessAddrs(addr, count) == addr..(SizeT(addr + count) - 1)

-----------------------------------------------------------------------------
(* Building: the static data zone and the size of the memory.              *)

MemSet(m, addr, bs) ==
  [a \in DOMAIN m |-> IF a \in addr..(addr + Len(bs) - 1)
                        THEN bs[a - addr + 1] ELSE m[a]]

\* Mutants: the frame is zeroed at the start of the block; the block keeps its
\* length.
SDZRSZZeroesStart(tail) ==
  [a \in 0..(getMemLen + SdzFrame - 1) |->
     IF a < SdzFrame THEN 0 ELSE IF a < getMemLen THEN mem[a] ELSE tail[a]]

SDZRSZSameBlock(tail) ==
  [a \in DOMAIN mem |-> IF a \in sdzsize..(sdzsize + SdzFrame - 1) THEN 0 ELSE mem[a]]

\* _SDZRSZ: one more frame, zeroed where it joins the old zone; the end of the
\* new block, tail, is not initialised.
SDZRSZ(tail) ==
  [a \in 0..(getMemLen + SdzFrame - 1) |->
     IF a \in sdzsize..(sdzsize + SdzFrame - 1) THEN 0
     ELSE IF a < getMemLen THEN mem[a] ELSE tail[a]]

Tails == [getMemLen..(getMemLen + SdzFrame - 1) -> Byte]

SdzFits(count) == SizeT(sdztop + count - 1) < sdzsize

\* _SDZS: a zone without room grows by one frame, whatever the room needed.
SDZS(bs) ==
  /\ stage = "build"
  /\ sdztop + Len(bs) <= StaticLimit
  /\ \/ /\ SdzFits(Len(bs))
        /\ mem' = MemSet(mem, sdztop, bs)
        /\ UNCHANGED sdzsize
     \/ /\ ~SdzFits(Len(bs))
        /\ \E tail \in Tails : mem' = MemSet(SDZRSZ(tail), sdztop, bs)
        /\ sdzsize' = sdzsize + SdzFrame
  /\ sdztop' = sdztop + Len(bs)
  /\ statics' = statics \cup {[addr |-> sdztop, data |-> bs]}
  /\ UNCHANGED <<phase, memlen, stackRegs, buf>>

\* _MRSZ: the memory only grows, and what is new is zero.
MRSZ(newlen) ==
  IF newlen > memlen
    THEN /\ memlen' = newlen
         /\ mem' = [a \in 0..(newlen + sdzsize - 1) |->
                      IF a < getMemLen THEN mem[a] ELSE 0]
    ELSE UNCHANGED <<memlen, mem>>

\* [MRES] in a script: obeyed once, the stack stays where it is.
MRES(newlen) ==
  /\ stage = "build" /\ loader = "vasm" /\ ~resized
  /\ MRSZ(newlen)
  /\ resized' = TRUE
  /\ UNCHANGED <<stage, loader, sdzsize, sdztop, stackRegs, buf, statics>>

\* Mutant: the stack starts one byte above the memory.
MainStackTopPastEnd(len) == len

MainStackTop(len) == len - 1

\* SetMainStack, run by the constructors of process.
SetMainStack ==
  /\ rbp' = MainStackTop(getMemLen)
  /\ rsp' = MainStackTop(getMemLen)
  /\ rsend' = MainStackTop(getMemLen) - StackSize
  /\ rsbgn' = MainStackTop(getMemLen) + 1

\* The shell's start: the stack was placed before the script was built.
StartScript ==
  /\ stage = "build" /\ loader = "vasm"
  /\ stage' = "run"
  /\ UNCHANGED <<loader, resized, zone, mem, stackRegs, buf, statics>>

\* executeFile: the file is decoded, then the stack placed, then the memory
\* resized to what the header asks.
executeFile(req) ==
  /\ stage = "build" /\ loader = "vexe"
  /\ SetMainStack
  /\ MRSZ(req)
  /\ stage' = "run"
  /\ UNCHANGED <<loader, resized, sdzsize, sdztop, buf, statics>>

-----------------------------------------------------------------------------
(* Running: memory::push, memory::pop, _MS and _MG, then the instructions. *)

\* swap_endian: a little-endian host reverses the bytes.
swap_endian(data) == Reverse(data)

\* The loop of push: downwards from RSP.
Pushed(data) ==
  [a \in DOMAIN mem |->
     IF a \in PushAddrs(Len(data)) THEN data[rsp - a + 1] ELSE mem[a]]

\* The loop of pop: the byte above RSP goes to the end of the buffer.
Taken(count) == [i \in 1..count |-> mem[rsp + 1 + count - i]]

\* Mutant: the buffer of a pop is not swapped.
PoppedUnswapped(count) == Taken(count)

\* What pop hands back; every caller lets it swap.
Popped(count) == swap_endian(Taken(count))

\* A pop clears the bytes it takes.
Cleared(count) ==
  [a \in DOMAIN mem |-> IF a \in PopAddrs(count) THEN 0 ELSE mem[a]]

\* memory::push: nothing happens when the check fails.
push(data, swap) ==
  IF isvalidpush(Len(data))
    THEN /\ mem' = Pushed(IF swap THEN swap_endian(data) ELSE data)
         /\ rsp' = SizeT(rsp - Len(data))
    ELSE UNCHANGED <<mem, rsp>>

\* The static data a store to addr leaves alone.
Spared(addr, count) ==
  {s \in statics :
     AccessAddrs(addr, count) \cap s.addr..(s.addr + Len(s.data) - 1) = {}}

MS(m, bs, addr) ==
  IF ValidAccess(addr, Len(bs))
    THEN [a \in DOMAIN m |-> IF a \in AccessAddrs(addr, Len(bs))
                               THEN bs[a - addr + 1] ELSE m[a]]
    ELSE m

MG(count, addr) ==
  IF ValidAccess(addr, count)
    THEN [i \in 1..count |-> IF addr + i - 1 \in AccessAddrs(addr, count)
                               THEN mem[addr + i - 1] ELSE 0]
    ELSE Zeros(count)

Running == stage = "run"

\* The shifts of pushMem, on a value whose bytes the host keeps in the order bs.
MostSignificantFirst(bs) == Reverse(bs)

\* pushMem takes its value apart itself and forbids the swap.
pushMem(bs) ==
  /\ Running
  /\ push(MostSignificantFirst(bs), FALSE)
  /\ UNCHANGED <<phase, zone, rbp, rsend, rsbgn, buf, statics>>

\* pushMemCR, pushMemFPR: the register's bytes as the host keeps them.
PushCopied(bs) ==
  /\ Running
  /\ push(bs, TRUE)
  /\ UNCHANGED <<phase, zone, rbp, rsend, rsbgn, buf, statics>>

\* popMem, popMemCR, popMemFPR: when the check fails the instruction reads the
\* buffer it allocated, zeroed by popMem, not initialised by the other two.
PopInstr(count) ==
  /\ Running
  /\ \/ /\ isvalidpop(count)
        /\ buf' = Popped(count)
        /\ mem' = Cleared(count)
        /\ rsp' = SizeT(rsp + count)
     \/ /\ ~isvalidpop(count)
        /\ buf' \in Buffers(count)
        /\ UNCHANGED <<mem, rsp>>
  /\ UNCHANGED <<phase, zone, rbp, rsend, rsbgn, statics>>

\* movsm: the operand leaves the stack whether or not the address is valid;
\* without an operand the zeroed buffer is stored.
movsm(count, addr) ==
  /\ Running
  /\ \/ /\ isvalidpop(count)
        /\ buf' = Popped(count)
        /\ mem' = MS(Cleared(count), Popped(count), addr)
        /\ rsp' = SizeT(rsp + count)
     \/ /\ ~isvalidpop(count)
        /\ buf' = Zeros(count)
        /\ mem' = MS(mem, Zeros(count), addr)
        /\ UNCHANGED rsp
  /\ statics' = IF ValidAccess(addr, count) THEN Spared(addr, count) ELSE statics
  /\ UNCHANGED <<phase, zone, rbp, rsend, rsbgn>>

\* movgm: an operand is pushed whether or not the address is valid.
movgm(count, addr) ==
  /\ Running
  /\ push(MG(count, addr), TRUE)
  /\ UNCHANGED <<phase, zone, rbp, rsend, rsbgn, buf, statics>>

\* movsmCR, movsmFPR, and the strings and files other instructions store.
StoreInstr(bs, addr) ==
  /\ Running
  /\ mem' = MS(mem, bs, addr)
  /\ statics' = IF ValidAccess(addr, Len(bs)) THEN Spared(addr, Len(bs)) ELSE statics
  /\ UNCHANGED <<phase, zone, stackRegs, buf>>

\* mov, set, add... with RBP or RSP as destination.
WriteRBP(v) ==
  /\ Running
  /\ rbp' = v
  /\ UNCHANGED <<phase, zone, mem, rsp, rsend, rsbgn, buf, statics>>

WriteRSP(v) ==
  /\ Running
  /\ rsp' = v
  /\ UNCHANGED <<phase, zone, mem, rbp, rsend, rsbgn, buf, statics>>

-----------------------------------------------------------------------------
\* The shell's process is constructed, stack included, before its script is
\* built; the VEXE runner's after.
Init ==
  /\ stage = "build"
  /\ loader \in {"vasm", "vexe"}
  /\ resized = FALSE
  /\ memlen = DefaultMemLen
  /\ sdzsize = SdzFrame
  /\ sdztop = 0
  /\ mem = [a \in 0..(DefaultMemLen + SdzFrame - 1) |-> 0]
  /\ rbp = IF loader = "vasm" THEN MainStackTop(getMemLen) ELSE 0
  /\ rsp = rbp
  /\ rsend = IF loader = "vasm" THEN rbp - StackSize ELSE 0
  /\ rsbgn = IF loader = "vasm" THEN rbp + 1 ELSE 0
  /\ buf = <<>>
  /\ statics = {}

Build ==
  \/ \E bs \in Payloads : SDZS(bs)
  \/ \E s \in MemSizes : MRES(s)
  \/ StartScript
  \/ \E s \in MemSizes : executeFile(s)

StackInstr ==
  \/ \E bs \in Payloads : pushMem(bs) \/ PushCopied(bs)
  \/ \E n \in Widths : PopInstr(n)

MemInstr ==
  \/ \E n \in Widths, a \in RegValues : movsm(n, a)
  \/ \E n \in Widths, a \in RegValues : movgm(n, a)
  \/ \E bs \in Payloads, a \in RegValues : StoreInstr(bs, a)

RegInstr == \E v \in RegValues : WriteRBP(v) \/ WriteRSP(v)

Next == Build \/ StackInstr \/ MemInstr \/ RegInstr

Spec == Init /\ [][Next]_vars

\* A program that leaves RBP and RSP to the stack instructions and stores only
\* outside the stack.
OutsideStack(addr, count) ==
  AccessAddrs(addr, count) \cap (rsend + 1)..(rsbgn - 1) = {}

DisciplinedMemInstr ==
  \/ \E n \in Widths, a \in RegValues : OutsideStack(a, n) /\ movsm(n, a)
  \/ \E n \in Widths, a \in RegValues : movgm(n, a)
  \/ \E bs \in Payloads, a \in RegValues :
       OutsideStack(a, Len(bs)) /\ StoreInstr(bs, a)

DisciplinedNext == Build \/ StackInstr \/ DisciplinedMemInstr

DisciplinedSpec == Init /\ [][DisciplinedNext]_vars

-----------------------------------------------------------------------------
(* Properties.                                                             *)

\* Every variable has its type; in particular the memory is one block of
\* getMemLen bytes and the registers are size_t values.
TypeOK ==
  /\ stage \in {"build", "run"} /\ loader \in {"vasm", "vexe"}
  /\ resized \in BOOLEAN
  /\ memlen \in MemSizes /\ sdzsize \in Nat /\ sdztop \in 0..StaticLimit
  /\ mem \in [0..(getMemLen - 1) -> Byte]
  /\ {rbp, rsp, rsend, rsbgn} \subseteq 0..(Modulus - 1)
  /\ buf \in Seq(Byte)
  /\ \A s \in statics : s.addr \in 0..sdztop /\ s.data \in Payloads

\* Whatever values the program has put in RSP and RBP and uses as addresses,
\* no loop of push, pop, _MS or _MG leaves the allocated block: the checks
\* before the loops hold against wrapping sums and differences as well.
InBounds ==
  /\ \A n \in Widths : isvalidpush(n) => PushAddrs(n) \subseteq DOMAIN mem
  /\ \A n \in Widths : isvalidpop(n) => PopAddrs(n) \subseteq DOMAIN mem
  /\ \A n \in Widths, a \in RegValues :
       ValidAccess(a, n) => AccessAddrs(a, n) \subseteq DOMAIN mem

\* The stack instructions and movgm never change a byte outside the stack the
\* process was given, even after the program corrupted RBP or RSP: RSEND and
\* RSBGN protect the heap and the static data from them.
StackConfined ==
  [][ StackInstr \/ (\E n \in Widths, a \in RegValues : movgm(n, a))
      => \A a \in DOMAIN mem : a <= rsend \/ a >= rsbgn => mem'[a] = mem[a] ]_vars

\* Constants and instruction operands keep the bytes they were stored with
\* until the program itself stores over them, through every growth of the
\* zone, every resize of the memory and every stack instruction.
StaticIntact ==
  \A s \in statics : \A i \in 1..Len(s.data) : mem[s.addr + i - 1] = s.data[i]

\* The stack lies above the static data and inside the memory once the program
\* runs, whichever loader placed it and however the memory grew since.
StackPlaced ==
  Running => sdztop <= rsend + 1 /\ rsend < rsbgn /\ rsbgn <= getMemLen

\* The stack of a disciplined program is a bounded last-in first-out store of
\* operands: pop hands back, byte for byte and in the host's order, what push or
\* pushMem was given, whichever of them swapped the bytes on the way.
StackContent == [i \in 1..(rbp - rsp) |-> mem[rsp + i]]
Stack == INSTANCE BoundedStack
           WITH content <- StackContent, Capacity <- StackSize
StackPromise == Stack!Spec

=============================================================================
