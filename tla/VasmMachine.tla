------------------------------ MODULE VasmMachine ------------------------------
(***************************************************************************)
(* What each action of the virtual machine does (src/Registers,            *)
(* src/Memory/memory_symbols.cpp, src/Actions/process_symbols.cpp and      *)
(* interrupts.cpp) to one process: a function from the machine m and the   *)
(* decoded action a = [op, addr, opt] to the next machine.                 *)
(*                                                                         *)
(* The operand of an action is not in the action: the runner put it in the *)
(* static data zone, so the machine reads it from its own memory at        *)
(* a.addr, and a program can overwrite it.  g is the content of a buffer   *)
(* the code left uninitialised.  m.ok becomes FALSE where the code has no  *)
(* defined outcome (integer division by zero, a call through a null        *)
(* interrupt, a value moved through a pointer of another register kind).   *)
(***************************************************************************)
EXTENDS RegisterFile

CONSTANT MemLen     \* the addresses below it are those _MS and _MG accept

ASSUME MemLenAssumption == MemLen \in Nat /\ MemLen > 0

(* The largest k with base to the k not above x; 0 for a smaller x. *)
LogFloor(x, base) == CHOOSE k \in 0 .. x : /\ k = 0 \/ Power(base, k) <= x
                                           /\ x < Power(base, k + 1)

(* x to the y, or the limit when it is reached. *)
PowerUpTo(x, y, limit) ==
    LET power[i \in 0 .. y] ==
            IF i = 0 THEN 1 ELSE LET next == x * power[i - 1] IN IF next < limit THEN next ELSE limit
    IN  power[y]

(* The bits of a value, and the number with the bits of x and y combined. *)
Bit(x, i) == (x \div Power(2, i)) % 2
Both      == [p \in 0 .. 1 |-> [q \in 0 .. 1 |-> p * q]]
Either    == [p \in 0 .. 1 |-> [q \in 0 .. 1 |-> p + q - p * q]]
Unlike    == [p \in 0 .. 1 |-> [q \in 0 .. 1 |-> (p + q) % 2]]
BitByBit(x, y, combined) ==
    LET sum[i \in 0 .. WordBits] ==
            IF i = 0 THEN 0
            ELSE sum[i - 1] + Power(2, i - 1) * combined[Bit(x, i - 1)][Bit(y, i - 1)]
    IN  sum[WordBits]

(* The results of the integer instructions: x is the left operand.  The    *)
(* natural logarithm is taken in base 3, which tells it from the others.   *)
NumOp(op, x, y, g) ==
    CASE op = "mul" -> (x * y) % Word
      [] op = "div" -> x \div y
      [] op = "add" -> (x + y) % Word
      [] op = "sub" -> (x - y) % Word
      [] op = "and" -> BitByBit(x, y, Both)
      [] op = "or"  -> BitByBit(x, y, Either)
      [] op = "xor" -> BitByBit(x, y, Unlike)
      [] op = "shl" -> (x * Power(2, y % WordBits)) % Word
      [] op = "shr" -> x \div Power(2, y % WordBits)
      [] op = "pow" -> LET p == PowerUpTo(x, y, Word) IN IF p = Word THEN g ELSE p
      [] op = "not" -> Word - 1 - x
      [] op = "log2"  -> IF x = 0 THEN g ELSE LogFloor(x, 2)
      [] op = "log"   -> IF x = 0 THEN g ELSE LogFloor(x, 3)
      [] op = "log10" -> IF x = 0 THEN g ELSE LogFloor(x, 10)

(* The results of the floating point instructions. *)
FpOp(op, x, y) ==
    CASE op = "mul" -> Clamp(x * y)
      [] op = "div" -> IF y = 0 THEN FpSpan - 1 ELSE x \div y
      [] op = "add" -> Clamp(x + y)
      [] op = "sub" -> Clamp(x - y)
      [] op = "pow" -> PowerUpTo(x, y, FpSpan - 1)
      [] op = "log2"  -> IF x = 0 THEN 0 ELSE LogFloor(x, 2)
      [] op = "log"   -> IF x = 0 THEN 0 ELSE LogFloor(x, 3)
      [] op = "log10" -> IF x = 0 THEN 0 ELSE LogFloor(x, 10)

-----------------------------------------------------------------------------
(* Memory and stack.  The stack holds bytes, the top one first. *)
Valid(addr, n)     == addr + n - 1 < MemLen
Bytes(m, addr, n)  == [i \in 1 .. n |-> m.mem[addr + i - 1]]
_MG(m, addr, n, buffer) == IF Valid(addr, n) THEN Number(Bytes(m, addr, n)) ELSE buffer
_MSBytes(m, addr, bytes) ==
    IF Len(bytes) = 0 \/ ~Valid(addr, Len(bytes)) THEN m
    ELSE [m EXCEPT !.mem = [c \in DOMAIN @ |-> IF c \in addr .. addr + Len(bytes) - 1
                                               THEN bytes[c - addr + 1] ELSE @[c]]]
_MS(m, addr, v, n) == _MSBytes(m, addr, Digits(v, n))

Push(m, v, n) == [m EXCEPT !.stk = Digits(v, n) \o @]
(* A pop that does not find n bytes changes nothing: the buffer of the     *)
(* caller keeps what it had.                                               *)
Top(m, n, buffer) == IF Len(m.stk) < n THEN buffer ELSE Number(SubSeq(m.stk, 1, n))
Drop(m, n)        == IF Len(m.stk) < n THEN m ELSE [m EXCEPT !.stk = SubSeq(@, n + 1, Len(@))]

(* The operand of an action, most significant byte first. *)
ATOULL(bytes)  == Number(Reverse(bytes))
ARGTOULL(m, a) == ATOULL(Bytes(m, a.addr, 8))
ATTOREGID(m, a) == ARGTOULL(m, a)

VOPTTOTQ(opt) == CASE opt \in {1, 2} -> opt [] opt = 3 -> 4 [] opt = 4 -> 8 [] OTHER -> 0
Width(a)      == IF VOPTTOTQ(a.opt) = 0 THEN 8 ELSE VOPTTOTQ(a.opt)

Undefined(m)     == [m EXCEPT !.ok = FALSE]
Emit(m, event)   == [m EXCEPT !.ext = Append(@, event)]
-----------------------------------------------------------------------------
(* set and mov *)
b_setGP(m, a) ==
    IF is_num_reg(a.opt) THEN WriteReg(m, a.opt, ARGTOULL(m, a))
    ELSE IF a.opt = R.CR THEN [m EXCEPT !.cr = m.mem[a.addr]]
    ELSE WriteReg(m, a.opt, Number(Bytes(m, a.addr, 16)) % FpSpan)

(* For a destination that is no float the code tests the type of the       *)
(* source, and writes a double through a long double pointer or back.      *)
b_movGP(m, a) ==
    LET src == ATTOREGID(m, a)
        dst == a.opt
        Class(id) == (id - R.FPR0) \div 4
    IN  IF is_num_reg(dst) THEN (IF is_num_reg(src) THEN WriteReg(m, dst, ReadReg(m, src)) ELSE m)
        ELSE IF ~is_fp_reg(dst) \/ ~is_fp_reg(src) THEN m
        ELSE IF Class(dst) = 0 \/ (Class(dst) = 1) = (Class(src) = 1)
             THEN WriteReg(m, dst, ReadReg(m, src))
        ELSE Undefined(m)

(* An instruction between two registers of one kind; mixed kinds do nothing. *)
Between(m, a, op) ==
    LET src == ATTOREGID(m, a)
        dst == a.opt
    IN  IF is_num_reg(dst) /\ is_num_reg(src)
        THEN IF op = "div" /\ ReadReg(m, src) = 0 THEN Undefined(m)
             ELSE WriteReg(m, dst, NumOp(op, ReadReg(m, dst), ReadReg(m, src), 0))
        ELSE IF is_fp_reg(dst) /\ is_fp_reg(src)
        THEN WriteReg(m, dst, FpOp(op, ReadReg(m, dst), Round(dst, ReadReg(m, src))))
        ELSE m
b_mulGP(m, a) == Between(m, a, "mul")
b_divGP(m, a) == Between(m, a, "div")
b_addGP(m, a) == Between(m, a, "add")
b_subGP(m, a) == Between(m, a, "sub")

ByOne(m, id, op) == IF is_fp_reg(id) THEN WriteReg(m, id, FpOp(op, ReadReg(m, id), 1))
                    ELSE IF is_num_reg(id) THEN WriteReg(m, id, NumOp(op, ReadReg(m, id), 1, 0)) ELSE m
b_incGP(m, a) == ByOne(m, ATTOREGID(m, a), "add")
b_decGP(m, a) == ByOne(m, ATTOREGID(m, a), "sub")

(* Instructions on one register. *)
Alone(m, id, op, g) == IF is_num_reg(id) THEN WriteReg(m, id, NumOp(op, ReadReg(m, id), 0, g)) ELSE m
b_not(m, a)      == Alone(m, ATTOREGID(m, a), "not", 0)
b_log2(m, a, g)  == Alone(m, ATTOREGID(m, a), "log2", g)
b_log10(m, a, g) == Alone(m, ATTOREGID(m, a), "log10", g)
b_log(m, a, g)   == Alone(m, ATTOREGID(m, a), "log", g)
FpAlone(m, id, op) == IF is_fp_reg(id) THEN WriteReg(m, id, FpOp(op, ReadReg(m, id), 0)) ELSE m
b_dlog2(m, a)    == FpAlone(m, ATTOREGID(m, a), "log2")
b_dlog10(m, a)   == FpAlone(m, ATTOREGID(m, a), "log10")
b_dlog(m, a)     == FpAlone(m, ATTOREGID(m, a), "log")

(* The left operand comes from the stack, the right one is the register. *)
WithPopped(m, a, g, op) ==
    LET id == ATTOREGID(m, a)
    IN  IF ~is_num_reg(id) THEN m
        ELSE WriteReg(Drop(m, 8), id, NumOp(op, Top(m, 8, g), ReadReg(m, id), g))
b_and(m, a, g) == WithPopped(m, a, g, "and")
b_or(m, a, g)  == WithPopped(m, a, g, "or")
b_xor(m, a, g) == WithPopped(m, a, g, "xor")
b_shl(m, a, g) == WithPopped(m, a, g, "shl")
b_shr(m, a, g) == WithPopped(m, a, g, "shr")
b_pow(m, a, g) ==
    LET id == ATTOREGID(m, a)
    IN  IF ~is_num_reg(id) THEN m
        ELSE WriteReg(Drop(m, 8), id, NumOp("pow", ReadReg(m, id), Top(m, 8, g), g))
b_dpow(m, a) ==
    LET id == ATTOREGID(m, a)
        exponent == IF id < R.EFPR0 THEN ReadReg(m, id) ELSE Round(id, Top(m, 16, 0) % FpSpan)
    IN  IF ~is_fp_reg(id) THEN m ELSE WriteReg(Drop(m, 16), id, FpOp("pow", ReadReg(m, id), exponent))
-----------------------------------------------------------------------------
(* push, pop and the moves between the stack and the memory *)
pushMem(m, a) == LET id == ATTOREGID(m, a) IN
    IF is_num_reg(id) THEN Push(m, ReadReg(m, id), Width(a)) ELSE m
(* A narrow pop copies eight bytes from a buffer of Width(a). *)
popMem(m, a, g) == LET id == ATTOREGID(m, a)
                       low == Top(m, Width(a), 0)
                   IN  IF ~is_num_reg(id) THEN m
                       ELSE WriteReg(Drop(m, Width(a)), id,
                                     low + Span(Width(a)) * (g \div Span(Width(a))))
pushMemCR(m)       == Push(m, m.cr, 1)
popMemCR(m, g)     == [Drop(m, 1) EXCEPT !.cr = Top(m, 1, g % Radix)]
pushMemFPR(m, a)   == LET id == ATTOREGID(m, a) IN
    IF is_fp_reg(id) THEN Push(m, ReadReg(m, id), 16) ELSE m
popMemFPR(m, a, g) == LET id == ATTOREGID(m, a) IN
    IF is_fp_reg(id) THEN WriteReg(Drop(m, 16), id, Top(m, 16, g) % FpSpan) ELSE m

movsm(m, a) == LET id == ATTOREGID(m, a) IN
    IF is_num_reg(id) THEN _MS(Drop(m, Width(a)), ReadReg(m, id), Top(m, Width(a), 0), Width(a)) ELSE m
movgm(m, a) == LET id == ATTOREGID(m, a) IN
    IF is_num_reg(id) THEN Push(m, _MG(m, ReadReg(m, id), Width(a), 0), Width(a)) ELSE m
movsmCR(m, a) == LET id == ATTOREGID(m, a) IN
    IF is_num_reg(id) THEN _MS(m, ReadReg(m, id), m.cr, 1) ELSE m
movgmCR(m, a, g) == LET id == ATTOREGID(m, a) IN
    IF is_num_reg(id) THEN [m EXCEPT !.cr = _MG(m, ReadReg(m, id), 1, g % Radix)] ELSE m
movsmFPR(m, a) == LET id == ATTOREGID(m, a) IN
    IF is_fp_reg(id) THEN _MS(m, ReadReg(m, R.RAX), ReadReg(m, id), 16) ELSE m
movgmFPR(m, a, g) == LET id == ATTOREGID(m, a) IN
    IF is_fp_reg(id) THEN WriteReg(m, id, _MG(m, ReadReg(m, R.RAX), 16, g) % FpSpan) ELSE m
sdzsMem(m, a) == LET id == ATTOREGID(m, a) IN
    IF is_num_reg(id) THEN WriteReg(m, id, 4096 % Word) ELSE m
-----------------------------------------------------------------------------
(* Control flow.  The step counter wraps and is incremented after every action. *)
p_jmp(m, a) == [m EXCEPT !.step = (@ + ARGTOULL(m, a)) % Word]
Compared(x, y) == IF x = y THEN 0 ELSE IF x < y THEN 1 ELSE 2
p_cmp(m, g)    == LET c1 == Top(m, 8, g)
                      c2 == Top(Drop(m, 8), 8, c1)    \* one buffer for both
                  IN  [Drop(Drop(m, 8), 8) EXCEPT !.flag = Compared(c1, c2)]
p_cmpdbl(m)    == LET d1 == Top(m, 16, 0) % FpSpan
                      d2 == Top(Drop(m, 16), 16, d1) % FpSpan
                  IN  [Drop(Drop(m, 16), 16) EXCEPT !.flag = Compared(d1, d2)]
NoFlag == 255
JumpIf(m, a, flags) == IF m.flag \in flags THEN [p_jmp(m, a) EXCEPT !.flag = NoFlag] ELSE m
p_je(m, a)  == JumpIf(m, a, {0})
p_jne(m, a) == JumpIf(m, a, {1, 2, NoFlag})
p_jl(m, a)  == JumpIf(m, a, {1})
p_jg(m, a)  == JumpIf(m, a, {2})
p_jle(m, a) == JumpIf(m, a, {0, 1})
p_jge(m, a) == JumpIf(m, a, {0, 2})

p_call(m, a)  == [m EXCEPT !.pca = m.step, !.step = ARGTOULL(m, a)]
p_lcall(m, a) == [m EXCEPT !.step = ARGTOULL(m, a)]
p_ret(m)      == [m EXCEPT !.step = m.pca]
p_svcall(m)   == [m EXCEPT !.tree = Append(@, m.pca)]
\* Mutant of p_rscall: the address of the outer call is not restored.
p_rscallLost(m) == IF m.tree = <<>> THEN m ELSE [m EXCEPT !.tree = Front(@)]
p_rscall(m) == IF m.tree = <<>> THEN m
                 ELSE [m EXCEPT !.pca = Last(m.tree), !.tree = Front(@)]
-----------------------------------------------------------------------------
(* Interrupts and conversions; the ones that read the console or parse and *)
(* format floating point text are not modelled.                            *)
handle_display(m) ==
    LET mode == ReadReg(m, R.RAX) % Span(1)
        text == IF Valid(m.orphan[R.RSI], m.orphan[R.RDI])
                THEN Bytes(m, m.orphan[R.RSI], m.orphan[R.RDI]) ELSE <<>>
    IN  Emit(m, <<"print", mode, text>>)
b_FPToULL(m) == Push(Drop(m, 16), Top(m, 16, 0) % FpSpan, 8)
b_FPToLL(m)  == Push(Drop(m, 16), Top(m, 16, 0) % FpSpan, 8)
b_recast(m, g) ==     \* types 0, 1 and 2 push the value back
    LET value == Top(m, 8, g)
        type  == Top(Drop(m, 8), 8, value)
        rest  == Drop(Drop(m, 8), 8)
    IN  IF type < 3 THEN Push(rest, value, 8) ELSE rest
(* The lowest byte of RAX selects the conversion; the first two are called *)
(* with a null memory.                                                     *)
handle_conversion(m) ==
    CASE m.gp[0].l < 2 -> Undefined(m)
      [] m.gp[0].l = 3 -> b_FPToULL(m)
      [] m.gp[0].l = 4 -> b_FPToLL(m)
      [] OTHER -> m
init == {1, 4, 5, 6, 7, 8}
pass(m, n, g) == CASE n = 5 -> handle_display(m)
                   [] n = 6 -> b_recast(m, g)
                   [] n = 8 -> handle_conversion(m)
                   [] n \notin init -> Undefined(m)
                   [] OTHER -> m
_intcall(m, a, g) == pass(m, ARGTOULL(m, a) % 256, g)

(* The digits of the register at RDI, cut to RSI bytes with a final zero. *)
Decimal(v) == LET n == LogFloor(v, 10) + 1
              IN  [i \in 1 .. n |-> (48 + ((v \div Power(10, n - i)) % 10)) % Radix]
Written(m, text) ==
    LET len == m.orphan[R.RSI]
    IN  IF len = 0 THEN Undefined(m)
        ELSE _MSBytes(m, m.orphan[R.RDI],
                      [i \in 1 .. len |-> IF i <= Len(text) /\ i < len THEN text[i] ELSE 0])
b_toString(m, a) == LET id == ATTOREGID(m, a) IN
    IF is_num_reg(id) THEN Written(m, Decimal(ReadReg(m, id))) ELSE m
\* Whatever is no register of 16 or 32 bits is written as one of 64.
b_castreg(m, a, g) == LET id == ATTOREGID(m, a) IN
    IF is_num_reg(id) THEN WriteReg(Drop(m, 8), id, Top(m, 8, g)) ELSE Undefined(m)

(* A network instruction: its effect is NetStream's, here it is what the   *)
(* stream is asked for.                                                    *)
Network(m, a) == Emit(m, <<a.op, ARGTOULL(m, a), m.orphan[R.RDI], m.orphan[R.RSI],
                           ReadReg(m, R.RDX)>>)
-----------------------------------------------------------------------------
NetworkOps == {"nopen", "nclose", "nget", "nsend", "nhrecv", "ncrtep", "nselep"}

(* A process: its registers, memory, stack and control, and what it asked  *)
(* of the devices.  The constructor of regs leaves AL .. DH and the high   *)
(* halves uninitialised.                                                   *)
Requests == ({"print"} \X Nat \X Seq(Byte)) \cup (NetworkOps \X Nat \X Nat \X Nat \X Nat)
Machine  == [gp     : [0 .. 3 -> Parts],
             orphan : [Orphans -> 0 .. Word - 1],
             fp     : [R.FPR0 .. R.RFPR3 -> FpValue],
             cr     : Byte,
             mem    : [0 .. MemLen - 1 -> Byte],
             stk    : Seq(Byte),
             flag   : {0, 1, 2, NoFlag},
             step   : 0 .. Word - 1,
             pca    : 0 .. Word - 1,
             tree   : Seq(0 .. Word - 1),
             ext    : Seq(Requests),
             ok     : BOOLEAN]

(* The table of the engine. *)
Exec(m, a, g) ==
    CASE a.op = "set" -> b_setGP(m, a)        [] a.op = "mov" -> b_movGP(m, a)
      [] a.op = "inc" -> b_incGP(m, a)        [] a.op = "dec" -> b_decGP(m, a)
      [] a.op = "mul" -> b_mulGP(m, a)        [] a.op = "div" -> b_divGP(m, a)
      [] a.op = "add" -> b_addGP(m, a)        [] a.op = "sub" -> b_subGP(m, a)
      [] a.op = "not" -> b_not(m, a)          [] a.op = "log2" -> b_log2(m, a, g)
      [] a.op = "log10" -> b_log10(m, a, g)   [] a.op = "log" -> b_log(m, a, g)
      [] a.op = "dlog2" -> b_dlog2(m, a)      [] a.op = "dlog10" -> b_dlog10(m, a)
      [] a.op = "dlog" -> b_dlog(m, a)        [] a.op = "and" -> b_and(m, a, g)
      [] a.op = "or" -> b_or(m, a, g)         [] a.op = "xor" -> b_xor(m, a, g)
      [] a.op = "shl" -> b_shl(m, a, g)       [] a.op = "shr" -> b_shr(m, a, g)
      [] a.op = "pow" -> b_pow(m, a, g)       [] a.op = "dpow" -> b_dpow(m, a)
      [] a.op = "push" -> pushMem(m, a)       [] a.op = "pop" -> popMem(m, a, g)
      [] a.op = "pushCR" -> pushMemCR(m)      [] a.op = "popCR" -> popMemCR(m, g)
      [] a.op = "pushFP" -> pushMemFPR(m, a)  [] a.op = "popFP" -> popMemFPR(m, a, g)
      [] a.op = "movsm" -> movsm(m, a)        [] a.op = "movgm" -> movgm(m, a)
      [] a.op = "movsmCR" -> movsmCR(m, a)    [] a.op = "movgmCR" -> movgmCR(m, a, g)
      [] a.op = "movsmFP" -> movsmFPR(m, a)   [] a.op = "movgmFP" -> movgmFPR(m, a, g)
      [] a.op = "sdzs" -> sdzsMem(m, a)       [] a.op = "jmp" -> p_jmp(m, a)
      [] a.op = "cmp" -> p_cmp(m, g)          [] a.op = "cmpdbl" -> p_cmpdbl(m)
      [] a.op = "je" -> p_je(m, a)            [] a.op = "jne" -> p_jne(m, a)
      [] a.op = "jl" -> p_jl(m, a)            [] a.op = "jg" -> p_jg(m, a)
      [] a.op = "jle" -> p_jle(m, a)          [] a.op = "jge" -> p_jge(m, a)
      [] a.op = "call" -> p_call(m, a)        [] a.op = "lcall" -> p_lcall(m, a)
      [] a.op = "ret" -> p_ret(m)             [] a.op = "svcall" -> p_svcall(m)
      [] a.op = "rscall" -> p_rscall(m)       [] a.op = "int" -> _intcall(m, a, g)
      [] a.op = "toString" -> b_toString(m, a)
      [] a.op = "castreg" -> b_castreg(m, a, g)
      [] a.op \in NetworkOps -> Network(m, a)

execute1(m, a, g) == LET n == Exec(m, a, g) IN [n EXCEPT !.step = (@ + 1) % Word]
=============================================================================
