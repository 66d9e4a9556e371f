------------------------------ MODULE RegisterFile ------------------------------
(***************************************************************************)
(* The registers of src/Registers/regs_decl.h that a program names.  A      *)
(* general purpose register is four cells, AL, AH, the high half of EAX     *)
(* and the high half of RAX, which AX, EAX and RAX share.                   *)
(*                                                                         *)
(* A byte has ByteBits bits (8 in the code).  A long double is abstracted   *)
(* to a number below FpSpan, where sums and products stop at the ends; a    *)
(* double keeps the multiples of 2 and a float the multiples of 4, so that  *)
(* a value that passes through a narrower register can be told apart.       *)
(***************************************************************************)
EXTENDS Integers, Sequences, SequencesExt

CONSTANT ByteBits   \* the bits of a byte

ASSUME ByteBitsAssumption == ByteBits \in Nat /\ ByteBits > 0

Power(b, n) == LET power[i \in 0 .. n] == IF i = 0 THEN 1 ELSE b * power[i - 1]
               IN  power[n]

Radix    == Power(2, ByteBits)
WordBits == 8 * ByteBits        \* sizeof(size_t) is 8
Spans    == [n \in 0 .. 16 |-> Power(Radix, n)]
Span(n)  == Spans[n]            \* how many values n bytes have, up to a long double
Word     == Span(8)
FpSpan   == Span(4)

(* n bytes of the value v, least significant first, and back: the bytes    *)
(* are taken from the last one to the first.                               *)
Digits(v, n)  == [i \in 1 .. n |-> (v \div Span(i - 1)) % Radix]
Number(bytes) == FoldRight(LAMBDA b, acc : b + Radix * acc, bytes, 0)

(* The registers and their numbers; AL .. DH have no entry in the table of *)
(* the instructions and the stack registers are left to VpuMemory.         *)
R == [AX |-> 9, BX |-> 10, CX |-> 11, DX |-> 12,
      EAX |-> 13, EBX |-> 14, ECX |-> 15, EDX |-> 16,
      RAX |-> 17, RBX |-> 18, RCX |-> 19, RDX |-> 20,
      RDI |-> 23, RSI |-> 24, CR |-> 25,
      FPR0 |-> 26, FPR1 |-> 27, EFPR0 |-> 30, EFPR1 |-> 31,
      RFPR0 |-> 34, RFPR1 |-> 35, RFPR2 |-> 36, RFPR3 |-> 37]
Orphans     == {R.RDI, R.RSI}
is_num_reg(id) == id < R.CR
is_fp_reg(id)  == id \in R.FPR0 .. R.RFPR3
Family(id)     == (id - R.AX) % 4

-----------------------------------------------------------------------------
(* The three views of one register p = [l, h, x, r]. *)
get16(p)    == p.l + Radix * p.h
\* Mutant of set16: the low byte is not masked.
set16Whole(p, v) == [p EXCEPT !.l = v, !.h = (v \div Radix) % Radix]
set16(p, v) == [p EXCEPT !.l = v % Radix, !.h = (v \div Radix) % Radix]
get32(p)    == get16(p) + Span(2) * p.x
set32(p, v) == [set16(p, v) EXCEPT !.x = (v \div Span(2)) % Span(2)]
get64(p)    == get32(p) + Span(4) * p.r
set64(p, v) == [set32(p, v) EXCEPT !.r = (v \div Span(4)) % Span(4)]

(* What a float, a double and a long double register keep of a value. *)
Clamp(v)     == IF v < 0 THEN 0 ELSE IF v >= FpSpan THEN FpSpan - 1 ELSE v
Round(id, v) == LET grain == IF id < R.EFPR0 THEN 4 ELSE IF id < R.RFPR0 THEN 2 ELSE 1
                IN  (v \div grain) * grain

(* Reading and writing a register of a record with fields gp, orphan, fp. *)
ReadReg(m, id) ==
    IF is_fp_reg(id) THEN m.fp[id]
    ELSE IF id \in Orphans THEN m.orphan[id]
    ELSE LET p == m.gp[Family(id)]
         IN  IF id < R.EAX THEN get16(p) ELSE IF id < R.RAX THEN get32(p) ELSE get64(p)

WriteReg(m, id, v) ==
    IF is_fp_reg(id) THEN [m EXCEPT !.fp[id] = Round(id, v)]
    ELSE IF id \in Orphans THEN [m EXCEPT !.orphan[id] = v % Word]
    ELSE LET p == m.gp[Family(id)]
         IN  [m EXCEPT !.gp[Family(id)] =
                 IF id < R.EAX THEN set16(p, v) ELSE IF id < R.RAX THEN set32(p, v) ELSE set64(p, v)]

(* What a register holds: a general purpose one, and a floating point one. *)
Byte    == 0 .. Radix - 1
Parts   == [l : Byte, h : Byte, x : 0 .. Span(2) - 1, r : 0 .. Span(4) - 1]
FpValue == 0 .. FpSpan - 1
=============================================================================
