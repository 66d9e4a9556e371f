----------------------------- MODULE SvasmCompiler -----------------------------
(***************************************************************************)
(* The code generator of src/SVASM/Assembler/compiler.cpp: the actions it  *)
(* emits for each instruction, as a function of the tokens of its operands *)
(* and of unsafe_flag (u).                                                 *)
(*                                                                         *)
(* A token is [type, val]: the number of a register, the value of a        *)
(* number, the address in brackets, the identity of a label, the code of a *)
(* type quantifier.  An emitted action keeps the type of its operand until *)
(* compileInst has checked it.                                             *)
(***************************************************************************)
EXTENDS RegisterFile

Number_n == {"unsigned_n", "signed_n"}
Address  == {"at_reg", "at_imm"}    \* stored_addr_reg and stored_addr_raw
Register == {"reg", "fp_reg"}

pushAction(op, type, val, opt) == <<[op |-> op, type |-> type, val |-> val, opt |-> opt]>>
Refused == pushAction("refused", "reg", 0, 0)       \* assert_err ends the assembler
Unknown == 0                                        \* a register name that does not exist

Plain(op)             == pushAction(op, "reg", Unknown, 0)
OnReg(op, r)          == pushAction(op, IF is_fp_reg(r) THEN "fp_reg" ELSE "reg", r, 0)
SetTo(r, type, value) == pushAction("set", type, value, r)
IntCall(n)           == pushAction("int", "unsigned_n", n, 0)
PushReg(r)            == OnReg(IF is_fp_reg(r) THEN "pushFP" ELSE "push", r)
PopReg(r)             == OnReg(IF is_fp_reg(r) THEN "popFP" ELSE "pop", r)
\* Mutant of Saving: the register is not restored.
SavingOnly(r, u, body) == IF u THEN body ELSE PushReg(r) \o body
Saving(r, u, body) == IF u THEN body ELSE PushReg(r) \o body \o PopReg(r)

(* The register that holds an immediate operand: the other one is used     *)
(* only when the destination is the whole RAX, or RFPR3.                   *)
Scratch(d)   == IF d = R.RAX THEN R.RBX ELSE R.RAX
FpScratch(d) == IF d = R.RFPR3 THEN R.RFPR2 ELSE R.RFPR3

(* CR as a number on the stack, through the first eight bytes of memory. *)
CRToNum(r) == SetTo(r, "unsigned_n", 0) \o PushReg(r) \o OnReg("movsm", r)
              \o SetTo(r, "unsigned_n", 7) \o OnReg("movsmCR", r)
              \o SetTo(r, "unsigned_n", 0) \o OnReg("movgm", r)

SVOPTTOTQ(t) == IF t.type = "type_quantifier" THEN t.val ELSE 0
SVOPTTOTS(t) == CASE t.val = 3 -> 4 [] t.val = 2 -> 2 [] t.val = 1 -> 4 [] OTHER -> 8
-----------------------------------------------------------------------------
preprocInt(args) == IF args[1].type # "unsigned_n" THEN Refused ELSE IntCall(args[1].val)

preprocMov(args) ==
    LET d == args[1]
        s == args[2]
    IN  IF d.type \notin Register THEN Refused
        ELSE pushAction(IF s.type = d.type THEN "mov" ELSE "set", s.type, s.val, d.val)

preprocStr(args) ==
    LET d == args[1]
    IN  IF d.type \notin Register THEN Refused
        ELSE IF d.val = R.CR THEN IntCall(8)
        ELSE IF d.type = "fp_reg" THEN PushReg(d.val) \o IntCall(10)
        ELSE OnReg("toString", d.val)

ByOneForm(op, args) == IF args[1].type \notin Register \/ args[1].val = R.CR THEN Refused
                       ELSE OnReg(op, args[1].val)
preprocInc(args) == ByOneForm("inc", args)
preprocDec(args) == ByOneForm("dec", args)

MathForm(op, args, u) ==
    LET d == args[1]
        s == args[2]
        t == IF s.type = "double_n" THEN FpScratch(d.val) ELSE Scratch(d.val)
    IN  IF d.type \notin Register \/ d.val = R.CR
           \/ s.type \notin Register \cup Number_n \cup {"double_n"} THEN Refused
        ELSE IF s.type \in Register THEN pushAction(op, d.type, s.val, d.val)
        ELSE Saving(t, u, SetTo(t, s.type, s.val) \o pushAction(op, "reg", t, d.val))
preprocMul(args, u) == MathForm("mul", args, u)
preprocDiv(args, u) == MathForm("div", args, u)
preprocAdd(args, u) == MathForm("add", args, u)
preprocSub(args, u) == MathForm("sub", args, u)

preprocNot(args) == IF args[1].type # "reg" \/ args[1].val = R.CR THEN Refused
                    ELSE OnReg("not", args[1].val)

(* The right operand goes through the stack. *)
Stacked(op, d, s, u) ==
    LET t == Scratch(d.val)
    IN  IF s.type = "reg" THEN PushReg(s.val) \o OnReg(op, d.val)
        ELSE IF s.type # "unsigned_n" THEN Refused
        ELSE Saving(t, u, SetTo(t, "unsigned_n", s.val) \o PushReg(t) \o OnReg(op, d.val))
LgclForm(op, args, u) ==
    IF args[1].type # "reg" \/ \E i \in 1 .. 2 : args[i].type = "reg" /\ args[i].val = R.CR
    THEN Refused ELSE Stacked(op, args[1], args[2], u)
preprocAnd(args, u) == LgclForm("and", args, u)
preprocXor(args, u) == LgclForm("xor", args, u)
preprocOr(args, u)  == LgclForm("or", args, u)
preprocShr(args, u) == LgclForm("shr", args, u)
preprocShl(args, u) == LgclForm("shl", args, u)

LogForm(op, fpop, args) ==
    IF args[1].type \notin Register \/ args[1].val = R.CR THEN Refused
    ELSE OnReg(IF args[1].type = "fp_reg" THEN fpop ELSE op, args[1].val)
preprocLog(args)   == LogForm("log", "dlog", args)
preprocLog2(args)  == LogForm("log2", "dlog2", args)
preprocLog10(args) == LogForm("log10", "dlog10", args)

preprocPow(args, u) ==
    LET d == args[1]
        s == args[2]
        t == FpScratch(d.val)
        Raise == SetTo(t, "double_n", s.val) \o PushReg(t) \o OnReg("dpow", d.val)
    IN  IF d.type \notin Register \/ d.val = R.CR \/ (s.type = "reg" /\ s.val = R.CR) THEN Refused
        ELSE CASE d.type = "fp_reg" /\ s.type = "fp_reg" -> PushReg(s.val) \o OnReg("dpow", d.val)
               \* the register popped at the end is misspelt
               [] d.type = "fp_reg" /\ s.type = "double_n" ->
                      IF u THEN Raise ELSE PushReg(t) \o Raise \o Plain("popFP")
               [] d.type = "fp_reg" -> Refused
               [] s.type = "fp_reg" /\ s.val >= R.RFPR0 ->
                      PushReg(s.val) \o IntCall(11) \o OnReg("pow", d.val)
               [] s.type = "fp_reg" ->
                      Saving(R.RFPR3, u, SetTo(R.RFPR3, "fp_reg", s.val) \o PushReg(R.RFPR3)
                                         \o IntCall(11) \o OnReg("pow", d.val))
               [] OTHER -> Stacked("pow", d, s, u)
-----------------------------------------------------------------------------
StackArgs(args) ==
    IF Len(args) = 1 THEN args[1].type \notin {"type_quantifier", "label", "str"} \cup Address
    ELSE args[1].type = "type_quantifier" /\ args[2].type \in {"reg"} \cup Address

\* Mutant of StackReg: a character is pushed as a number.
StackRegNumber(inst, r) == IF r = R.CR THEN CRToNum(R.RAX)
                           ELSE IF inst = "push" THEN PushReg(r) ELSE PopReg(r)
StackReg(inst, r) == IF r = R.CR THEN Plain(IF inst = "push" THEN "pushCR" ELSE "popCR")
                     ELSE IF inst = "push" THEN PushReg(r) ELSE PopReg(r)

(* A pushed number is put below a saved register by moving RSP with an     *)
(* immediate operand, which the machine's add and sub do not have.         *)
MoveRsp(op, n) == pushAction(op, "unsigned_n", n, 22)
StackImm(inst, v, u) ==
    LET t == IF v.type = "double_n" THEN R.RFPR3 ELSE R.RAX
        n == IF v.type = "double_n" THEN 16 ELSE 8
        Load == SetTo(t, v.type, v.val) \o PushReg(t)
    IN  IF inst = "pop" THEN Refused
        ELSE IF u THEN Load
        ELSE MoveRsp("sub", n) \o PushReg(t) \o MoveRsp("add", 2 * n) \o Load
             \o MoveRsp("sub", n) \o PopReg(t)

(* With a type quantifier q.  The width of pop to an address in a register *)
(* is looked up under the name of the register, which gives none.          *)
StackTQ(inst, q, v, u) ==
    LET n == SVOPTTOTS(q)
        At(op, w) == pushAction(op, "reg", R.RAX, w)
        Load == SetTo(R.RAX, "unsigned_n", v.val)
    IN  CASE v.type = "reg" -> pushAction(inst, "reg", v.val, SVOPTTOTQ(q))
          [] v.type = "at_reg" /\ inst = "push" -> pushAction("movgm", "reg", v.val, SVOPTTOTQ(q))
          [] v.type = "at_reg" /\ inst = "pop"  -> pushAction("movsm", "reg", v.val, SVOPTTOTQ(v))
          [] v.type = "at_imm" /\ inst = "push" ->
                 IF u THEN Load \o At("movgm", SVOPTTOTQ(q))
                 ELSE MoveRsp("sub", n) \o PushReg(R.RAX) \o MoveRsp("add", 8 + n) \o Load
                      \o At("movgm", SVOPTTOTQ(q)) \o MoveRsp("sub", 8) \o PopReg(R.RAX)
          [] v.type = "at_imm" /\ inst = "pop" ->
                 IF u THEN Load \o At("movsm", SVOPTTOTQ(v))
                 ELSE PushReg(R.RAX) \o MoveRsp("add", 8) \o Load \o At("movsm", SVOPTTOTQ(v))
                      \o MoveRsp("sub", n + 8) \o PopReg(R.RAX) \o MoveRsp("add", n)

preprocStack(inst, args, u) ==
    IF ~StackArgs(args) THEN Refused
    ELSE IF Len(args) = 2 THEN StackTQ(inst, args[1], args[2], u)
    ELSE IF args[1].type \in Register THEN StackReg(inst, args[1].val)
    ELSE StackImm(inst, args[1], u)
-----------------------------------------------------------------------------
(* mload [d], v: stores. *)
StoreReg(d, v, u) ==
    LET t == IF d.type = "at_reg" THEN d.val ELSE Scratch(v.val)
        Store == IF v.val = R.CR THEN OnReg("movsmCR", t)
                 ELSE IF v.type = "fp_reg" THEN OnReg("movsmFP", v.val)
                 ELSE PushReg(v.val) \o OnReg("movsm", t)
    IN  IF d.type = "at_imm" THEN Saving(t, u, SetTo(t, "unsigned_n", d.val) \o Store)
        ELSE IF v.type = "fp_reg" /\ t # R.RAX
        THEN Saving(R.RAX, u, pushAction("mov", "reg", t, R.RAX) \o Store)
        ELSE Store

StoreNum(d, v, u) ==
    LET t == Scratch(d.val)
    IN  IF d.type = "at_reg"
        THEN Saving(t, u, SetTo(t, v.type, v.val) \o PushReg(t) \o OnReg("movsm", d.val))
        ELSE Saving(R.RAX, u, Saving(R.RBX, u,
                 SetTo(R.RAX, "unsigned_n", d.val) \o SetTo(R.RBX, v.type, v.val)
                 \o PushReg(R.RBX) \o OnReg("movsm", R.RAX)))

StoreDouble(d, v, u) ==
    LET Store == SetTo(R.RFPR3, "double_n", v.val) \o OnReg("movsmFP", R.RFPR3)
        Point == IF d.type = "at_reg" THEN pushAction("mov", "reg", d.val, R.RAX)
                 ELSE SetTo(R.RAX, "unsigned_n", d.val)
    IN  IF d = [type |-> "at_reg", val |-> R.RAX] THEN Saving(R.RFPR3, u, Store)
        ELSE Saving(R.RFPR3, u, Saving(R.RAX, u, Point \o Store))

(* mload d, [s]: loads. *)
Load(d, s, u) ==
    LET t == IF s.type = "at_reg" THEN s.val ELSE Scratch(d.val)
        Fetch == IF d.val = R.CR THEN OnReg("movgmCR", t)
                 ELSE IF d.type = "fp_reg" THEN OnReg("movgmFP", d.val)
                 ELSE OnReg("movgm", t) \o PopReg(d.val)
    IN  IF s.type = "at_imm" THEN Saving(t, u, SetTo(t, "unsigned_n", s.val) \o Fetch)
        ELSE IF d.type = "fp_reg" /\ t # R.RAX
        THEN Saving(R.RAX, u, pushAction("mov", "reg", t, R.RAX) \o Fetch)
        ELSE Fetch

preprocMload(args, u) ==
    LET d == args[1]
        s == args[2]
    IN  CASE d.type \in Address /\ s.type \in Register -> StoreReg(d, s, u)
          [] d.type \in Address /\ s.type \in Number_n -> StoreNum(d, s, u)
          [] d.type \in Address /\ s.type = "double_n" -> StoreDouble(d, s, u)
          [] d.type \in Address -> <<>>
          [] d.type \in Register /\ s.type \in Address -> Load(d, s, u)
          [] OTHER -> Refused
preprocSdzs(args) == IF args[1].type # "reg" THEN Refused ELSE OnReg("sdzs", args[1].val)
-----------------------------------------------------------------------------
preprocCalls(inst, args) ==
    IF inst = "ret" /\ args = <<>> THEN Plain("ret")
    ELSE IF args = <<>> \/ args[1].type \notin {"label"} \cup Number_n THEN Refused
    ELSE CASE inst = "call" /\ args[1].type # "signed_n" ->
                  Plain("svcall") \o pushAction("call", args[1].type, args[1].val, 0) \o Plain("rscall")
           [] inst = "call" -> Refused
           [] inst = "jmp"  -> pushAction(IF args[1].type = "label" THEN "lcall" ELSE "jmp",
                                          args[1].type, args[1].val, 0)
           [] OTHER -> <<>>

(* A conditional jump to a label: skip the jump over the long call. *)
preprocJmpCmpCalls(inst, t) ==
    IF t.type # "label" THEN pushAction(inst, t.type, t.val, 0)
    ELSE pushAction(inst, "unsigned_n", 1, 0) \o pushAction("jmp", "unsigned_n", 1, 0)
         \o pushAction("lcall", "label", t.val, 0)
preprocCmpCalls(inst, args) == IF args[1].type \notin {"label"} \cup Number_n THEN Refused
                               ELSE preprocJmpCmpCalls(inst, args[1])

(* The comparisons leave the second operand under the first one, except    *)
(* with an immediate operand.                                              *)
CompNum(d, s, u) ==
    LET t == Scratch(d.val)
    IN  CASE s.type = "reg" /\ s.val = R.CR ->
                 Saving(t, u, CRToNum(t) \o PushReg(d.val) \o Plain("cmp"))
          [] s.type = "reg" -> PushReg(s.val) \o PushReg(d.val) \o Plain("cmp")
          [] s.type = "fp_reg" -> PushReg(s.val) \o IntCall(11) \o PushReg(d.val) \o Plain("cmp")
          [] s.type = "double_n" ->
                 Saving(R.RFPR3, u, SetTo(R.RFPR3, "double_n", s.val) \o PushReg(R.RFPR3) \o IntCall(11)
                                    \o PushReg(d.val) \o Plain("cmp"))
          [] OTHER -> Saving(t, u, SetTo(t, s.type, s.val) \o PushReg(d.val) \o PushReg(t) \o Plain("cmp"))
CompCr(s, u) ==
    IF s.type \in {"fp_reg", "double_n"} THEN Refused
    ELSE Saving(R.RAX, u, (IF s.type = "reg" THEN PushReg(s.val)
                           ELSE SetTo(R.RAX, s.type, s.val) \o PushReg(R.RAX))
                          \o CRToNum(R.RAX) \o Plain("cmp"))
CompFp(d, s, u) ==
    LET t == FpScratch(d.val)
        Rest == PushReg(d.val) \o IntCall(11) \o Plain("cmp")
        Body == SetTo(R.RAX, "unsigned_n", s.val) \o PushReg(R.RAX) \o Rest
    IN  CASE s.type = "reg" /\ s.val = R.CR -> Refused
          [] s.type = "reg" -> PushReg(s.val) \o Rest
          [] s.type = "double_n" ->
                 Saving(t, u, SetTo(t, "double_n", s.val) \o PushReg(t) \o PushReg(d.val) \o Plain("cmpdbl"))
          [] s.type \in Number_n -> IF u THEN Body ELSE PushReg(R.RAX) \o Body \o PushReg(R.RAX)
          [] OTHER -> Refused     \* a name that stoull does not read
preprocComps(args, u) ==
    LET d == args[1]
        s == args[2]
    IN  CASE d.type \notin Register \/ s.type \in Address -> Refused
          [] s.type = "str" -> <<>>
          [] d.type = "fp_reg" -> CompFp(d, s, u)
          [] d.val = R.CR -> CompCr(s, u)
          [] OTHER -> CompNum(d, s, u)

NetOp == [nopn |-> "nopen", ncep |-> "ncrtep", ncls |-> "nclose", nrcv |-> "nhrecv",
          nsnd |-> "nsend", nget |-> "nget", nsep |-> "nselep"]
preprocNetwork(inst, args, u) ==
    LET Operands == <<R.RDI, R.RSI, R.RDX>>
        n == Len(args) - 1
        Sets == FlattenSeq([i \in 1 .. n |-> SetTo(Operands[i], "unsigned_n", args[i + 1].val)])
        Saves == FlattenSeq([i \in 1 .. n |-> PushReg(Operands[n + 1 - i])])
        Restores == FlattenSeq([i \in 1 .. n |-> PopReg(Operands[i])])
        Ask == Sets \o pushAction(NetOp[inst], "unsigned_n", args[1].val, 0)
    IN  IF \E i \in DOMAIN args : args[i].type # "unsigned_n" THEN Refused
        ELSE IF u THEN Ask ELSE Saves \o Ask \o Restores
-----------------------------------------------------------------------------
(* How many operands the handlers accept. *)
Arity(inst) ==
    CASE inst \in {"int", "str", "inc", "dec", "not", "log", "log2", "log10", "sdzs", "call", "jmp",
                   "je", "jl", "jle", "jg", "jge", "ncls", "nrcv"} -> {1}
      [] inst \in {"push", "pop"} -> {1, 2}
      [] inst \in {"nopn", "ncep"} -> {4}
      [] inst = "ret" -> {0, 1}
      [] OTHER -> {2}

(* The dispatch.  It names jge twice and jne not at all, so that jne, like *)
(* #resmem, whose tokens are overwritten before they get here, and every   *)
(* unknown word, emits nothing.                                            *)
preprocInst(inst, args, u) ==
    LET known == inst \in {"int", "mov", "inc", "dec", "mul", "div", "add", "sub", "not", "and", "xor",
                           "or", "shr", "shl", "log", "log2", "log10", "pow", "push", "pop", "mload",
                           "sdzs", "str", "call", "jmp", "ret", "je", "jge", "jl", "jle", "jg", "cmp"}
                          \cup DOMAIN NetOp
    IN  CASE ~known -> <<>>
          [] known /\ Len(args) \notin Arity(inst) -> Refused
          [] OTHER ->
          CASE inst = "int" -> preprocInt(args)       [] inst = "mov" -> preprocMov(args)
            [] inst = "inc" -> preprocInc(args)       [] inst = "dec" -> preprocDec(args)
            [] inst = "mul" -> preprocMul(args, u)    [] inst = "div" -> preprocDiv(args, u)
            [] inst = "add" -> preprocAdd(args, u)    [] inst = "sub" -> preprocSub(args, u)
            [] inst = "not" -> preprocNot(args)       [] inst = "and" -> preprocAnd(args, u)
            [] inst = "xor" -> preprocXor(args, u)    [] inst = "or" -> preprocOr(args, u)
            [] inst = "shr" -> preprocShr(args, u)    [] inst = "shl" -> preprocShl(args, u)
            [] inst = "log" -> preprocLog(args)       [] inst = "log2" -> preprocLog2(args)
            [] inst = "log10" -> preprocLog10(args)   [] inst = "pow" -> preprocPow(args, u)
            [] inst = "mload" -> preprocMload(args, u) [] inst = "sdzs" -> preprocSdzs(args)
            [] inst = "str" -> preprocStr(args)       [] inst = "cmp" -> preprocComps(args, u)
            [] inst \in {"push", "pop"} -> preprocStack(inst, args, u)
            [] inst \in {"call", "jmp", "ret"} -> preprocCalls(inst, args)
            [] inst \in DOMAIN NetOp -> preprocNetwork(inst, args, u)
            [] OTHER -> preprocCmpCalls(inst, args)
=============================================================================
