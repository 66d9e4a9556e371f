------------------------------- MODULE VexeFormat -------------------------------
(***************************************************************************)
(* The executable file: what compileInst and compileAll of                 *)
(* src/SVASM/Assembler/compiler.cpp, and assembleAction of                 *)
(* src/VirtualAssembler/assembler_main.cpp, write, and what                *)
(* src/VirtualExecutableRunner/runner_main.cpp reads back.                 *)
(*                                                                         *)
(* A file is a sequence of numbers.  A number of an operand's value is a   *)
(* byte; an opcode, a register or a count of zeros is itself, whatever     *)
(* ByteBits is.                                                            *)
(***************************************************************************)
EXTENDS SvasmCompiler

CONSTANT DefaultMem     \* the memory a program gets, 0x100000 bytes in the code

ASSUME DefaultMemAssumption == DefaultMem \in Nat

(* The opcodes; gca, hlt, cli, sti and the file instructions have no word  *)
(* in the language of SvasmCompiler.                                       *)
instructions_set ==
    [int |-> 0, set |-> 1, mov |-> 2, inc |-> 3, dec |-> 4, mul |-> 47, div |-> 48, add |-> 49,
     sub |-> 50, toString |-> 101, castreg |-> 102, push |-> 103, pop |-> 104, pushCR |-> 107,
     popCR |-> 108, not |-> 111, and |-> 112, or |-> 113, xor |-> 114, shl |-> 115, shr |-> 116,
     log |-> 117, log2 |-> 118, log10 |-> 119, pow |-> 120, jmp |-> 121, cmp |-> 122, je |-> 123,
     jne |-> 124, jl |-> 125, jg |-> 126, jle |-> 127, jge |-> 128, gca |-> 130, hlt |-> 131,
     call |-> 132, lcall |-> 133, ret |-> 134, svcall |-> 135, rscall |-> 136, dlog |-> 137,
     dlog2 |-> 138, dlog10 |-> 139, dpow |-> 140, movsm |-> 141, movgm |-> 142, movsmCR |-> 145,
     movgmCR |-> 146, nopen |-> 149, nclose |-> 150, nget |-> 151, nsend |-> 152, nhrecv |-> 153,
     ncrtep |-> 154, nselep |-> 155, sdzs |-> 159, cli |-> 160, sti |-> 161, pushFP |-> 162,
     popFP |-> 163, movsmFP |-> 164, movgmFP |-> 165, cmpdbl |-> 166, rfread |-> 167,
     rfwrite |-> 168, rflen |-> 169]
OpcodesOf(ops) == {instructions_set[op] : op \in ops}

zero_args_opcodes == OpcodesOf({"pushCR", "popCR", "cmp", "cmpdbl", "gca", "cli", "sti", "hlt", "ret",
                                "svcall", "rscall", "rflen"})
uint64_args_opcodes == OpcodesOf({"int", "jmp", "je", "jne", "jl", "jg", "jle", "jge", "call", "lcall",
                                  "nopen", "nclose", "nget", "nsend", "nhrecv", "ncrtep", "nselep",
                                  "rfread", "rfwrite"})
reg_args_opcodes == OpcodesOf({"mov", "inc", "dec", "mul", "div", "add", "sub", "sdzs", "push", "pop",
                               "pushFP", "popFP", "movsm", "movgm", "movsmCR", "movgmCR", "movsmFP",
                               "movgmFP", "toString", "castreg", "not", "and", "or", "xor", "shl", "shr",
                               "log", "log2", "log10", "pow", "dlog", "dlog2", "dlog10", "dpow"})
opt_arg_ops == OpcodesOf({"push", "pop", "movsm", "movgm", "set", "mov", "mul", "div", "add", "sub"})
findKeyByValue(code) == CHOOSE op \in DOMAIN instructions_set : instructions_set[op] = code
-----------------------------------------------------------------------------
(* Eight bytes, the most significant first; without the leading zeros and  *)
(* behind their number; and back.                                          *)
ULLTOA(v)     == Reverse(Digits(v, 8))
COMPBA(bytes) ==
    LET n == CHOOSE z \in 0 .. Len(bytes) :
                 /\ \A i \in 1 .. z : bytes[i] = 0
                 /\ z = Len(bytes) \/ bytes[z + 1] # 0
    IN  IF n < Len(bytes) THEN <<n>> \o SubSeq(bytes, n + 1, Len(bytes)) ELSE <<n, 0>>
EXTDBA(cba)   == LET zeros == [i \in 1 .. cba[1] |-> 0]
                 IN  IF cba[2] # 0 THEN zeros \o Tail(cba) ELSE zeros
FpBytes(v)    == Digits(v, 16)

(* compileInst: an operand of another type than the opcode takes, or a     *)
(* register without a number, ends the assembler.                          *)
Compiles(a) ==
    /\ a.op \in DOMAIN instructions_set
    /\ LET code == instructions_set[a.op]
       IN  CASE a.op = "set" -> \/ is_num_reg(a.opt) /\ a.type \in Number_n
                                \/ is_fp_reg(a.opt) /\ a.type = "double_n"
                                \/ a.opt = R.CR /\ a.type = "str"
             [] code \in uint64_args_opcodes -> a.type \in Number_n
             [] code \in reg_args_opcodes -> a.type \in Register /\ a.val # Unknown
             [] OTHER -> TRUE
compileInst(a) ==
    LET code == instructions_set[a.op]
        Operand == CASE a.op = "set" /\ is_fp_reg(a.opt) -> FpBytes(a.val)
                     [] a.op = "set" /\ a.opt = R.CR -> <<a.val>>
                     [] (a.op = "set" /\ is_num_reg(a.opt)) \/ code \in uint64_args_opcodes -> COMPBA(ULLTOA(a.val))
                     [] code \in reg_args_opcodes -> <<a.val>>
                     [] OTHER -> <<>>
    IN  <<code>> \o (IF code \in opt_arg_ops THEN <<a.opt>> ELSE <<>>) \o Operand

(* compileAll puts the memory size before the code, the linker the length  *)
(* of the code between them.                                               *)
compileAll(out, a) == out \o compileInst(a)
Header == ULLTOA(DefaultMem)
link(out) == SubSeq(out, 1, 8) \o ULLTOA(Len(out) - 8) \o SubSeq(out, 9, Len(out))

(* The assembler of the other language: its actions already have their     *)
(* operands in a zone, at a.addr.                                          *)
assembleAction(sdz, a) ==
    LET code == instructions_set[a.op]
        At(n) == SubSeq(sdz, a.addr + 1, a.addr + n)
        Operand == CASE a.op = "set" /\ is_fp_reg(a.opt) -> At(16)
                     [] a.op = "set" /\ a.opt = R.CR -> At(1)
                     [] (a.op = "set" /\ is_num_reg(a.opt)) \/ code \in uint64_args_opcodes -> COMPBA(At(8))
                     [] code \in reg_args_opcodes -> <<Number(Reverse(At(8))) % 256>>
                     [] OTHER -> <<>>
    IN  <<code>> \o (IF code \in opt_arg_ops THEN <<a.opt>> ELSE <<>>) \o Operand
as(sdz, actions) ==
    LET main_linked == FlattenSeq([i \in DOMAIN actions |-> assembleAction(sdz, actions[i])])
    IN  ULLTOA(DefaultMem) \o ULLTOA(Len(main_linked)) \o main_linked
-----------------------------------------------------------------------------
(* The runner reads the code action by action: i is the place of the next  *)
(* opcode, the operands go to the static data zone one after another and   *)
(* an action keeps the address of its own.  d = [i, actions, sdz].         *)
Undecoded == [i |-> 1, actions |-> <<>>, sdz |-> <<>>]
WithOperand(d, next, op, opt, bytes) ==
    [i       |-> next,
     actions |-> Append(d.actions, [op |-> op, addr |-> Len(d.sdz), opt |-> opt]),
     sdz     |-> d.sdz \o bytes]

(* The compressed number at i and how many places it takes. *)
NumberAt(data, i) == LET n == IF data[i] < 8 THEN 9 - data[i] ELSE 2
                     IN  [bytes |-> EXTDBA(SubSeq(data, i, i + n - 1)), size |-> n]

DecodeSet(data, d) ==
    LET opt == data[d.i + 1]
        at  == d.i + 2
        num == NumberAt(data, at)
    IN  IF is_num_reg(opt) THEN WithOperand(d, at + num.size, "set", opt, num.bytes)
        ELSE IF is_fp_reg(opt) THEN WithOperand(d, at + 16, "set", opt, SubSeq(data, at, at + 15))
        ELSE WithOperand(d, at + 1, "set", opt, <<data[at]>>)
DecodeZero(d, op) ==
    [i       |-> d.i + 1,
     actions |-> Append(d.actions, [op |-> op, addr |-> 0, opt |-> 0]),
     sdz     |-> d.sdz]
DecodeUint64(data, d, op) ==
    LET num == NumberAt(data, d.i + 1)
    IN  WithOperand(d, d.i + 1 + num.size, op, 0, num.bytes)
\* Mutant of DecodeReg: the optional byte is skipped and not kept.
DecodeRegOnly(data, d, op) ==
    LET at == IF data[d.i] \in opt_arg_ops THEN d.i + 2 ELSE d.i + 1
    IN  WithOperand(d, at + 1, op, 0, ULLTOA(data[at]))
DecodeReg(data, d, op) ==
    LET has_opt_arg == data[d.i] \in opt_arg_ops
        at == IF has_opt_arg THEN d.i + 2 ELSE d.i + 1
    IN  WithOperand(d, at + 1, op, IF has_opt_arg THEN data[d.i + 1] ELSE 0, ULLTOA(data[at]))

decodeByteArray(data, d) ==
    LET code == data[d.i]
        op   == findKeyByValue(code)
    IN  CASE code = instructions_set.set -> DecodeSet(data, d)
          [] code \in zero_args_opcodes -> DecodeZero(d, op)
          [] code \in uint64_args_opcodes -> DecodeUint64(data, d, op)
          [] code \in reg_args_opcodes -> DecodeReg(data, d, op)
          [] OTHER -> [d EXCEPT !.i = @ + 1]

decodeFile(file) == LET req_mem  == Number(Reverse(SubSeq(file, 1, 8)))
                        main_len == Number(Reverse(SubSeq(file, 9, 16)))
                    IN  [req_mem |-> req_mem, code |-> SubSeq(file, 17, 16 + main_len)]
=============================================================================
