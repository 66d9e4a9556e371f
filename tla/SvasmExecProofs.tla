---------------------------- MODULE SvasmExecProofs ----------------------------
(***************************************************************************)
(* From the tokens of a program to the actions in the engine: whatever the *)
(* program, what the runner loads is what the code generator emitted.      *)
(***************************************************************************)
EXTENDS SvasmExec, VexeFormatProofs

(* What every handler of the code generator emits: the optional byte only  *)
(* with an instruction that has one, a register by a number of one byte.   *)
HaveOption == {"push", "pop", "movsm", "movgm", "set", "mov", "mul", "div", "add", "sub"}
IsAct(a) ==
  /\ a.op \in HaveOption \/ a.opt = 0
  /\ a.type \in Register => a.val \in 0..255
  /\ a.type = "str" => a.val \in Byte
Executed == Plainly \cup Stores
Words    == Executed \cup {"refused"}
Acts  == {a \in [op : Words, type : TokenTypes, val : Nat, opt : Nat] : IsAct(a)}
Emits(s) == s \in Seq(Acts)

-----------------------------------------------------------------------------
(* The parts the handlers are made of.                                     *)
LEMMA EmitOne ==
  ASSUME NEW op \in Words, NEW type \in TokenTypes, NEW val \in Nat, NEW opt \in Nat,
         op \in HaveOption \/ opt = 0, type \in Register => val \in 0..255, type = "str" => val \in Byte
  PROVE  Emits(pushAction(op, type, val, opt))
<1>1. PICK a : a = [op |-> op, type |-> type, val |-> val, opt |-> opt]
  OBVIOUS
<1>2. a \in Acts
  BY <1>1 DEF Acts, IsAct
<1> QED
  BY <1>1, <1>2, OneElement DEF Emits, pushAction

LEMMA EmitBoth ==
  ASSUME NEW s, Emits(s), NEW t, Emits(t)
  PROVE  Emits(s \o t)
BY ConcatProperties DEF Emits

LEMMA EmitNone == Emits(<<>>)
BY NoElement DEF Emits

LEMMA WordsUsed ==
  /\ \A op \in HaveOption : op \in Words
  /\ \A op \in {"int", "inc", "dec", "toString", "not", "and", "or", "xor", "shl", "shr", "log", "log2",
                "log10", "pow", "dlog", "dlog2", "dlog10", "dpow", "sdzs", "refused"} : op \in Words
  /\ \A op \in {"pushCR", "popCR", "pushFP", "popFP", "movsmCR", "movgmCR", "movsmFP", "movgmFP",
                "cmp", "cmpdbl", "svcall", "rscall", "call", "lcall", "ret"} : op \in Words
  /\ \A op \in {"jmp", "je", "jg", "jge", "jl", "jle", "nopen", "ncrtep", "nclose", "nhrecv", "nsend",
                "nget", "nselep"} : op \in Words
BY DEF Words, Executed, HaveOption, Plainly, Stores, Arithmetic, Singles, Pairs, Moved, Flow, Asked, NetworkOps

LEMMA TypesUsed ==
  /\ "reg" \in TokenTypes /\ "fp_reg" \in TokenTypes /\ "unsigned_n" \in TokenTypes
  /\ "double_n" \in TokenTypes /\ "label" \in TokenTypes
  /\ Register = {"reg", "fp_reg"} /\ Number_n = {"unsigned_n", "signed_n"}
  /\ \A t \in Number_n : t \in TokenTypes /\ t \notin Register /\ t # "str"
BY DEF TokenTypes, Register, Number_n

LEMMA EmitRefused == Emits(Refused)
<1> 0 \in Nat /\ 0 \in 0..255
  OBVIOUS
<1> QED
  BY EmitOne, WordsUsed, TypesUsed DEF Refused

LEMMA EmitPlain ==
  ASSUME NEW op \in Words
  PROVE  Emits(Plain(op))
<1> 0 \in Nat /\ 0 \in 0..255
  OBVIOUS
<1> QED
  BY EmitOne, TypesUsed DEF Plain, Unknown

LEMMA EmitOnReg ==
  ASSUME NEW op \in Words, NEW r \in 0..255
  PROVE  Emits(OnReg(op, r))
<1> 0 \in Nat /\ r \in Nat
  OBVIOUS
<1> QED
  BY EmitOne, TypesUsed DEF OnReg

LEMMA EmitPushReg ==
  ASSUME NEW r \in 0..255
  PROVE  Emits(PushReg(r)) /\ Emits(PopReg(r))
BY EmitOnReg, WordsUsed DEF HaveOption, PushReg, PopReg

LEMMA EmitInt ==
  ASSUME NEW n \in Nat
  PROVE  Emits(IntCall(n))
<1> 0 \in Nat
  OBVIOUS
<1> QED
  BY EmitOne, WordsUsed, TypesUsed DEF IntCall

LEMMA EmitSet ==
  ASSUME NEW r \in Nat, NEW type \in TokenTypes, NEW val \in Nat,
         type \in Register => val \in 0..255, type = "str" => val \in Byte
  PROVE  Emits(SetTo(r, type, val))
BY EmitOne, WordsUsed DEF SetTo, HaveOption

LEMMA EmitSetNumber ==
  ASSUME NEW r \in Nat, NEW val \in Nat
  PROVE  Emits(SetTo(r, "unsigned_n", val)) /\ Emits(SetTo(r, "double_n", val))
BY EmitSet, TypesUsed

LEMMA EmitSaving ==
  ASSUME NEW r \in 0..255, NEW u, NEW body, Emits(body)
  PROVE  Emits(Saving(r, u, body))
<1>1. Emits(PushReg(r)) /\ Emits(PopReg(r))
  BY EmitPushReg
<1> QED
  BY <1>1, EmitBoth DEF Saving

(* The registers the code generator names itself.                          *)
LEMMA ByteRegisters ==
  /\ R.RAX \in 0..255 /\ R.RBX \in 0..255 /\ R.RDI \in 0..255 /\ R.RSI \in 0..255 /\ R.RDX \in 0..255
  /\ R.RFPR2 \in 0..255 /\ R.RFPR3 \in 0..255 /\ R.RFPR0 \in Nat
  /\ \A d : Scratch(d) \in 0..255 /\ FpScratch(d) \in 0..255
BY DEF R, Scratch, FpScratch

LEMMA BytesAreNumbers == \A r \in 0..255 : r \in Nat
OBVIOUS

LEMMA EmitCRToNum ==
  ASSUME NEW r \in 0..255
  PROVE  Emits(CRToNum(r))
<1>1. r \in Nat /\ 0 \in Nat /\ 7 \in Nat
  OBVIOUS
<1>2. Emits(SetTo(r, "unsigned_n", 0)) /\ Emits(SetTo(r, "unsigned_n", 7))
  BY <1>1, EmitSetNumber
<1>3. Emits(PushReg(r)) /\ Emits(OnReg("movsm", r)) /\ Emits(OnReg("movsmCR", r)) /\ Emits(OnReg("movgm", r))
  BY EmitPushReg, EmitOnReg, WordsUsed DEF HaveOption
<1> HIDE DEF Emits
<1> QED
  BY <1>2, <1>3, EmitBoth DEF CRToNum

-----------------------------------------------------------------------------
(* The handlers.                                                           *)
Tok(t) == t.type \in TokenTypes /\ t.val \in Nat /\ IsToken(t)

LEMMA TokFacts ==
  ASSUME NEW t, Tok(t)
  PROVE  /\ t.type \in TokenTypes /\ t.val \in Nat
         /\ t.type \in Register => t.val \in 0..255
         /\ t.type = "reg" => t.val \in 0..255
         /\ t.type = "fp_reg" => t.val \in 0..255
         /\ t.type = "at_reg" => t.val \in 0..255
         /\ t.type = "str" => t.val \in Byte
BY DEF Tok, IsToken, Register

LEMMA EmitSetToken ==
  ASSUME NEW r \in Nat, NEW t, Tok(t)
  PROVE  Emits(SetTo(r, t.type, t.val))
BY TokFacts, EmitSet

LEMMA EmitsInt ==
  ASSUME NEW args, Tok(args[1])
  PROVE  Emits(preprocInt(args))
BY TokFacts, EmitInt, EmitRefused DEF preprocInt

LEMMA EmitsMov ==
  ASSUME NEW args, Tok(args[1]), Tok(args[2])
  PROVE  Emits(preprocMov(args))
<1>1. "mov" \in Words /\ "set" \in Words /\ "mov" \in HaveOption /\ "set" \in HaveOption
  BY WordsUsed DEF HaveOption
<1> QED
  BY <1>1, TokFacts, EmitOne, EmitRefused DEF preprocMov

LEMMA EmitsStr ==
  ASSUME NEW args, Tok(args[1])
  PROVE  Emits(preprocStr(args))
<1>1. 8 \in Nat /\ 10 \in Nat /\ "toString" \in Words
  BY WordsUsed
<1>2. Emits(IntCall(8)) /\ Emits(IntCall(10))
  BY <1>1, EmitInt
<1> QED
  BY <1>1, <1>2, TokFacts, EmitPushReg, EmitBoth, EmitOnReg, EmitRefused DEF preprocStr

LEMMA EmitsByOneForm ==
  ASSUME NEW op \in Words, NEW args, Tok(args[1])
  PROVE  Emits(ByOneForm(op, args))
BY TokFacts, EmitOnReg, EmitRefused DEF ByOneForm

LEMMA EmitsMathForm ==
  ASSUME NEW op \in Words, op \in HaveOption, NEW args, Tok(args[1]), Tok(args[2]), NEW u
  PROVE  Emits(MathForm(op, args, u))
<1> DEFINE d == args[1]
           s == args[2]
           t == IF s.type = "double_n" THEN FpScratch(d.val) ELSE Scratch(d.val)
<1>1. t \in 0..255 /\ t \in Nat
  BY ByteRegisters, BytesAreNumbers
<1>2. Emits(SetTo(t, s.type, s.val))
  BY <1>1, EmitSetToken
<1>3. Emits(pushAction(op, "reg", t, d.val))
  BY <1>1, TokFacts, TypesUsed, EmitOne
<1>4. Emits(Saving(t, u, SetTo(t, s.type, s.val) \o pushAction(op, "reg", t, d.val)))
  BY <1>1, <1>2, <1>3, EmitBoth, EmitSaving
<1>5. d.type \in Register /\ s.type \in Register => Emits(pushAction(op, d.type, s.val, d.val))
  BY TokFacts, TypesUsed, EmitOne
<1> QED
  BY <1>4, <1>5, EmitRefused DEF MathForm

LEMMA EmitsNot ==
  ASSUME NEW args, Tok(args[1])
  PROVE  Emits(preprocNot(args))
BY TokFacts, WordsUsed, EmitOnReg, EmitRefused DEF preprocNot

LEMMA EmitsStacked ==
  ASSUME NEW op \in Words, NEW d, d.val \in 0..255, NEW s, Tok(s), NEW u
  PROVE  Emits(Stacked(op, d, s, u))
<1> DEFINE t == Scratch(d.val)
<1>1. t \in 0..255 /\ t \in Nat
  BY ByteRegisters, BytesAreNumbers
<1>2. Emits(SetTo(t, "unsigned_n", s.val)) /\ Emits(PushReg(t)) /\ Emits(OnReg(op, d.val))
  BY <1>1, TokFacts, EmitSetNumber, EmitPushReg, EmitOnReg
<1>3. Emits(Saving(t, u, SetTo(t, "unsigned_n", s.val) \o PushReg(t) \o OnReg(op, d.val)))
  BY <1>1, <1>2, EmitBoth, EmitSaving
<1>4. s.type = "reg" => Emits(PushReg(s.val) \o OnReg(op, d.val))
  BY <1>2, TokFacts, EmitPushReg, EmitBoth
<1> QED
  BY <1>3, <1>4, EmitRefused DEF Stacked

LEMMA EmitsLgclForm ==
  ASSUME NEW op \in Words, NEW args, Tok(args[1]), Tok(args[2]), NEW u
  PROVE  Emits(LgclForm(op, args, u))
BY TokFacts, EmitsStacked, EmitRefused DEF LgclForm

LEMMA EmitsLogForm ==
  ASSUME NEW op \in Words, NEW fpop \in Words, NEW args, Tok(args[1])
  PROVE  Emits(LogForm(op, fpop, args))
BY TokFacts, EmitOnReg, EmitRefused DEF LogForm

LEMMA EmitsPow ==
  ASSUME NEW args, Tok(args[1]), Tok(args[2]), NEW u
  PROVE  Emits(preprocPow(args, u))
<1> DEFINE d == args[1]
           s == args[2]
           t == FpScratch(d.val)
           Raise == SetTo(t, "double_n", s.val) \o PushReg(t) \o OnReg("dpow", d.val)
<1>1. t \in 0..255 /\ t \in Nat /\ "pow" \in Words /\ "dpow" \in Words /\ "popFP" \in Words
      /\ R.RFPR3 \in 0..255 /\ R.RFPR3 \in Nat /\ 11 \in Nat
  BY ByteRegisters, BytesAreNumbers, WordsUsed
<1>2. Emits(PushReg(t)) /\ Emits(Plain("popFP")) /\ Emits(PushReg(R.RFPR3)) /\ Emits(IntCall(11))
      /\ Emits(SetTo(t, "double_n", s.val))
  BY <1>1, TokFacts, EmitPushReg, EmitPlain, EmitSetNumber, EmitInt
<1> SUFFICES ASSUME d.type \in Register PROVE Emits(preprocPow(args, u))
  BY EmitRefused DEF preprocPow
<1>3. d.val \in 0..255 /\ Emits(OnReg("dpow", d.val)) /\ Emits(OnReg("pow", d.val))
  BY <1>1, TokFacts, EmitOnReg
<1>4. Emits(Raise)
  BY <1>2, <1>3, EmitBoth
<1>5. Emits(IF u THEN Raise ELSE PushReg(t) \o Raise \o Plain("popFP"))
  BY <1>2, <1>4, EmitBoth
<1>6. s.type = "fp_reg" => /\ Emits(PushReg(s.val) \o OnReg("dpow", d.val))
                           /\ Emits(PushReg(s.val) \o IntCall(11) \o OnReg("pow", d.val))
                           /\ Emits(SetTo(R.RFPR3, "fp_reg", s.val))
  BY <1>1, <1>2, <1>3, TokFacts, EmitPushReg, EmitBoth, EmitSetToken
<1>7. s.type = "fp_reg" => Emits(Saving(R.RFPR3, u, SetTo(R.RFPR3, "fp_reg", s.val) \o PushReg(R.RFPR3)
                                                    \o IntCall(11) \o OnReg("pow", d.val)))
  BY <1>1, <1>2, <1>3, <1>6, EmitBoth, EmitSaving
<1>8. Emits(Stacked("pow", d, s, u))
  BY <1>1, <1>3, EmitsStacked
<1> HIDE DEF Raise
<1> QED
  BY <1>5, <1>6, <1>7, <1>8, EmitRefused DEF preprocPow, Raise

LEMMA EmitsStackReg ==
  ASSUME NEW inst, NEW r \in 0..255
  PROVE  Emits(StackReg(inst, r))
<1>1. "pushCR" \in Words /\ "popCR" \in Words
  BY WordsUsed
<1>2. Emits(Plain("pushCR")) /\ Emits(Plain("popCR")) /\ Emits(PushReg(r)) /\ Emits(PopReg(r))
  BY <1>1, EmitPlain, EmitPushReg
<1> QED
  BY <1>2 DEF StackReg

LEMMA EmitMoveRsp ==
  ASSUME NEW n \in Nat
  PROVE  Emits(MoveRsp("add", n)) /\ Emits(MoveRsp("sub", n))
<1>1. "add" \in Words /\ "sub" \in Words /\ "add" \in HaveOption /\ "sub" \in HaveOption
      /\ "unsigned_n" \in TokenTypes /\ "unsigned_n" \notin Register
  BY WordsUsed, TypesUsed DEF HaveOption
<1>2. PICK o \in Nat : o = 22
  OBVIOUS
<1>3. Emits(pushAction("add", "unsigned_n", n, o)) /\ Emits(pushAction("sub", "unsigned_n", n, o))
  BY <1>1, EmitOne
<1> QED
  BY <1>2, <1>3 DEF MoveRsp

LEMMA EmitsStackImm ==
  ASSUME NEW inst, NEW v, Tok(v), NEW u
  PROVE  Emits(StackImm(inst, v, u))
<1> DEFINE t == IF v.type = "double_n" THEN R.RFPR3 ELSE R.RAX
           n == IF v.type = "double_n" THEN 16 ELSE 8
           Fill == SetTo(t, v.type, v.val) \o PushReg(t)
<1>1. t \in 0..255 /\ t \in Nat /\ n \in Nat /\ 2 * n \in Nat
  BY ByteRegisters, BytesAreNumbers
<1>2. Emits(PushReg(t)) /\ Emits(PopReg(t)) /\ Emits(SetTo(t, v.type, v.val))
  BY <1>1, EmitPushReg, EmitSetToken
<1>3. Emits(Fill)
  BY <1>2, EmitBoth
<1>4. Emits(MoveRsp("sub", n)) /\ Emits(MoveRsp("add", 2 * n))
  BY <1>1, EmitMoveRsp
<1> HIDE DEF t, n, Fill
<1>5. Emits(MoveRsp("sub", n) \o PushReg(t) \o MoveRsp("add", 2 * n) \o Fill \o MoveRsp("sub", n) \o PopReg(t))
  BY <1>2, <1>3, <1>4, EmitBoth
<1> QED
  BY <1>3, <1>5, EmitRefused DEF StackImm, t, n, Fill

LEMMA EmitsStackTQ ==
  ASSUME NEW inst \in {"push", "pop"}, NEW q, Tok(q), NEW v, Tok(v), v.type \in {"reg"} \cup Address, NEW u
  PROVE  Emits(StackTQ(inst, q, v, u))
<1> DEFINE n == SVOPTTOTS(q)
           Fill == SetTo(R.RAX, "unsigned_n", v.val)
           At(op, w) == pushAction(op, "reg", R.RAX, w)
<1>1. n \in Nat /\ 8 + n \in Nat /\ n + 8 \in Nat /\ 8 \in Nat /\ SVOPTTOTQ(q) \in Nat /\ SVOPTTOTQ(v) \in Nat
  BY TokFacts DEF SVOPTTOTS, SVOPTTOTQ
<1>2. R.RAX \in 0..255 /\ R.RAX \in Nat /\ v.val \in Nat
  BY ByteRegisters, BytesAreNumbers, TokFacts
<1>3. inst \in Words /\ inst \in HaveOption /\ "movgm" \in Words /\ "movgm" \in HaveOption
      /\ "movsm" \in Words /\ "movsm" \in HaveOption /\ "reg" \in TokenTypes
  BY WordsUsed, TypesUsed DEF HaveOption
<1>4. Emits(Fill) /\ Emits(PushReg(R.RAX)) /\ Emits(PopReg(R.RAX))
  BY <1>2, EmitSetNumber, EmitPushReg
<1>5. Emits(At("movgm", SVOPTTOTQ(q))) /\ Emits(At("movsm", SVOPTTOTQ(v)))
  BY <1>1, <1>2, <1>3, EmitOne
<1>6. /\ Emits(MoveRsp("sub", n)) /\ Emits(MoveRsp("add", 8 + n)) /\ Emits(MoveRsp("sub", 8))
      /\ Emits(MoveRsp("add", 8)) /\ Emits(MoveRsp("sub", n + 8)) /\ Emits(MoveRsp("add", n))
  BY <1>1, EmitMoveRsp
<1>7. CASE v.type = "reg"
  <2>1. Emits(pushAction(inst, "reg", v.val, SVOPTTOTQ(q)))
    BY <1>1, <1>3, <1>7, TokFacts, EmitOne
  <2> QED
    BY <1>7, <2>1 DEF StackTQ
<1>8. CASE v.type = "at_reg"
  <2>1. Emits(pushAction("movgm", "reg", v.val, SVOPTTOTQ(q))) /\ Emits(pushAction("movsm", "reg", v.val, SVOPTTOTQ(v)))
    BY <1>1, <1>3, <1>8, TokFacts, EmitOne
  <2> QED
    BY <1>8, <2>1 DEF StackTQ
<1> HIDE DEF n, Fill, At
<1>9. CASE v.type = "at_imm"
  <2>1. Emits(Fill \o At("movgm", SVOPTTOTQ(q))) /\ Emits(Fill \o At("movsm", SVOPTTOTQ(v)))
    BY <1>4, <1>5, EmitBoth
  <2>2. Emits(MoveRsp("sub", n) \o PushReg(R.RAX) \o MoveRsp("add", 8 + n) \o Fill
              \o At("movgm", SVOPTTOTQ(q)) \o MoveRsp("sub", 8) \o PopReg(R.RAX))
    BY <1>4, <1>5, <1>6, EmitBoth
  <2>3. Emits(PushReg(R.RAX) \o MoveRsp("add", 8) \o Fill \o At("movsm", SVOPTTOTQ(v))
              \o MoveRsp("sub", n + 8) \o PopReg(R.RAX) \o MoveRsp("add", n))
    BY <1>4, <1>5, <1>6, EmitBoth
  <2>4. CASE inst = "push"
    BY <1>9, <2>1, <2>2, <2>4 DEF StackTQ, n, Fill, At
  <2>5. CASE inst = "pop"
    BY <1>9, <2>1, <2>3, <2>5 DEF StackTQ, n, Fill, At
  <2> QED
    BY <2>4, <2>5
<1> QED
  BY <1>7, <1>8, <1>9 DEF Address

LEMMA EmitsStack ==
  ASSUME NEW inst \in {"push", "pop"}, NEW args, Len(args) \in {1, 2},
         \A i \in 1..Len(args) : Tok(args[i]), NEW u
  PROVE  Emits(preprocStack(inst, args, u))
<1> SUFFICES ASSUME StackArgs(args) PROVE Emits(preprocStack(inst, args, u))
  BY EmitRefused DEF preprocStack
<1>1. CASE Len(args) = 2
  <2>1. Tok(args[1]) /\ Tok(args[2]) /\ args[2].type \in {"reg"} \cup Address
    BY <1>1 DEF StackArgs
  <2> QED
    BY <1>1, <2>1, EmitsStackTQ DEF preprocStack
<1>2. CASE Len(args) = 1
  <2>1. Tok(args[1])
    BY <1>2
  <2>2. args[1].type \in Register => args[1].val \in 0..255
    BY <2>1, TokFacts
  <2> QED
    BY <1>2, <2>1, <2>2, EmitsStackReg, EmitsStackImm DEF preprocStack
<1> QED
  BY <1>1, <1>2

-----------------------------------------------------------------------------
LEMMA EmitsStoreReg ==
  ASSUME NEW d, Tok(d), d.type \in Address, NEW v, Tok(v), v.type \in Register, NEW u
  PROVE  Emits(StoreReg(d, v, u))
<1> DEFINE t == IF d.type = "at_reg" THEN d.val ELSE Scratch(v.val)
           Store == IF v.val = R.CR THEN OnReg("movsmCR", t)
                    ELSE IF v.type = "fp_reg" THEN OnReg("movsmFP", v.val)
                    ELSE PushReg(v.val) \o OnReg("movsm", t)
<1>1. t \in 0..255 /\ t \in Nat /\ R.RAX \in 0..255 /\ R.RAX \in Nat /\ v.val \in 0..255 /\ d.val \in Nat
  BY ByteRegisters, BytesAreNumbers, TokFacts
<1>2. "movsmCR" \in Words /\ "movsmFP" \in Words /\ "movsm" \in Words /\ "mov" \in Words /\ "mov" \in HaveOption
      /\ "reg" \in TokenTypes
  BY WordsUsed, TypesUsed DEF HaveOption
<1>3. Emits(OnReg("movsmCR", t)) /\ Emits(OnReg("movsmFP", v.val)) /\ Emits(OnReg("movsm", t)) /\ Emits(PushReg(v.val))
  BY <1>1, <1>2, EmitOnReg, EmitPushReg
<1>4. Emits(SetTo(t, "unsigned_n", d.val)) /\ Emits(pushAction("mov", "reg", t, R.RAX))
  BY <1>1, <1>2, EmitSetNumber, EmitOne
<1>5. Emits(Store)
  BY <1>3, EmitBoth
<1> HIDE DEF t, Store
<1>6. Emits(Saving(t, u, SetTo(t, "unsigned_n", d.val) \o Store))
      /\ Emits(Saving(R.RAX, u, pushAction("mov", "reg", t, R.RAX) \o Store))
  BY <1>1, <1>4, <1>5, EmitBoth, EmitSaving
<1> QED
  BY <1>5, <1>6 DEF StoreReg, t, Store

LEMMA EmitsStoreNum ==
  ASSUME NEW d, Tok(d), d.type \in Address, NEW v, Tok(v), NEW u
  PROVE  Emits(StoreNum(d, v, u))
<1> DEFINE t == Scratch(d.val)
<1>1. t \in 0..255 /\ t \in Nat /\ R.RAX \in 0..255 /\ R.RAX \in Nat /\ R.RBX \in 0..255 /\ R.RBX \in Nat
      /\ d.val \in Nat /\ "movsm" \in Words
  BY ByteRegisters, BytesAreNumbers, TokFacts, WordsUsed DEF HaveOption
<1>2. /\ Emits(SetTo(t, v.type, v.val)) /\ Emits(SetTo(R.RBX, v.type, v.val))
      /\ Emits(SetTo(R.RAX, "unsigned_n", d.val))
      /\ Emits(PushReg(t)) /\ Emits(PushReg(R.RBX)) /\ Emits(OnReg("movsm", R.RAX))
  BY <1>1, EmitSetToken, EmitSetNumber, EmitPushReg, EmitOnReg
<1>3. CASE d.type = "at_reg"
  <2>1. Emits(OnReg("movsm", d.val))
    BY <1>1, <1>3, TokFacts, EmitOnReg
  <2>2. Emits(Saving(t, u, SetTo(t, v.type, v.val) \o PushReg(t) \o OnReg("movsm", d.val)))
    BY <1>1, <1>2, <2>1, EmitBoth, EmitSaving
  <2> QED
    BY <1>3, <2>2 DEF StoreNum
<1>4. Emits(Saving(R.RAX, u, Saving(R.RBX, u,
              SetTo(R.RAX, "unsigned_n", d.val) \o SetTo(R.RBX, v.type, v.val)
              \o PushReg(R.RBX) \o OnReg("movsm", R.RAX))))
  BY <1>1, <1>2, EmitBoth, EmitSaving
<1> QED
  BY <1>3, <1>4 DEF StoreNum

LEMMA EmitsStoreDouble ==
  ASSUME NEW d, Tok(d), d.type \in Address, NEW v, Tok(v), NEW u
  PROVE  Emits(StoreDouble(d, v, u))
<1> DEFINE Store == SetTo(R.RFPR3, "double_n", v.val) \o OnReg("movsmFP", R.RFPR3)
           Point == IF d.type = "at_reg" THEN pushAction("mov", "reg", d.val, R.RAX)
                    ELSE SetTo(R.RAX, "unsigned_n", d.val)
<1>1. R.RAX \in 0..255 /\ R.RAX \in Nat /\ R.RFPR3 \in 0..255 /\ R.RFPR3 \in Nat /\ d.val \in Nat /\ v.val \in Nat
      /\ "movsmFP" \in Words /\ "mov" \in Words /\ "mov" \in HaveOption /\ "reg" \in TokenTypes
  BY ByteRegisters, BytesAreNumbers, TokFacts, WordsUsed, TypesUsed DEF HaveOption
<1>2. Emits(SetTo(R.RFPR3, "double_n", v.val)) /\ Emits(OnReg("movsmFP", R.RFPR3))
      /\ Emits(SetTo(R.RAX, "unsigned_n", d.val))
  BY <1>1, EmitSetNumber, EmitOnReg
<1>3. d.type = "at_reg" => Emits(pushAction("mov", "reg", d.val, R.RAX))
  BY <1>1, TokFacts, EmitOne
<1>4. Emits(Store) /\ Emits(Point)
  BY <1>2, <1>3, EmitBoth
<1> HIDE DEF Store, Point
<1>5. Emits(Saving(R.RFPR3, u, Store)) /\ Emits(Saving(R.RFPR3, u, Saving(R.RAX, u, Point \o Store)))
  BY <1>1, <1>4, EmitBoth, EmitSaving
<1> QED
  BY <1>5 DEF StoreDouble, Store, Point

LEMMA EmitsLoad ==
  ASSUME NEW d, Tok(d), d.type \in Register, NEW s, Tok(s), s.type \in Address, NEW u
  PROVE  Emits(Load(d, s, u))
<1> DEFINE t == IF s.type = "at_reg" THEN s.val ELSE Scratch(d.val)
           Fetch == IF d.val = R.CR THEN OnReg("movgmCR", t)
                    ELSE IF d.type = "fp_reg" THEN OnReg("movgmFP", d.val)
                    ELSE OnReg("movgm", t) \o PopReg(d.val)
<1>1. t \in 0..255 /\ t \in Nat /\ R.RAX \in 0..255 /\ R.RAX \in Nat /\ d.val \in 0..255 /\ s.val \in Nat
  BY ByteRegisters, BytesAreNumbers, TokFacts
<1>2. "movgmCR" \in Words /\ "movgmFP" \in Words /\ "movgm" \in Words /\ "mov" \in Words /\ "mov" \in HaveOption
      /\ "reg" \in TokenTypes
  BY WordsUsed, TypesUsed DEF HaveOption
<1>3. Emits(OnReg("movgmCR", t)) /\ Emits(OnReg("movgmFP", d.val)) /\ Emits(OnReg("movgm", t)) /\ Emits(PopReg(d.val))
  BY <1>1, <1>2, EmitOnReg, EmitPushReg
<1>4. Emits(SetTo(t, "unsigned_n", s.val)) /\ Emits(pushAction("mov", "reg", t, R.RAX))
  BY <1>1, <1>2, EmitSetNumber, EmitOne
<1>5. Emits(Fetch)
  BY <1>3, EmitBoth
<1> HIDE DEF t, Fetch
<1>6. Emits(Saving(t, u, SetTo(t, "unsigned_n", s.val) \o Fetch))
      /\ Emits(Saving(R.RAX, u, pushAction("mov", "reg", t, R.RAX) \o Fetch))
  BY <1>1, <1>4, <1>5, EmitBoth, EmitSaving
<1> QED
  BY <1>5, <1>6 DEF Load, t, Fetch

LEMMA EmitsMload ==
  ASSUME NEW args, Tok(args[1]), Tok(args[2]), NEW u
  PROVE  Emits(preprocMload(args, u))
BY EmitsStoreReg, EmitsStoreNum, EmitsStoreDouble, EmitsLoad, EmitNone, EmitRefused DEF preprocMload

LEMMA EmitsSdzs ==
  ASSUME NEW args, Tok(args[1])
  PROVE  Emits(preprocSdzs(args))
BY TokFacts, WordsUsed, EmitOnReg, EmitRefused DEF preprocSdzs

-----------------------------------------------------------------------------
LEMMA EmitsCalls ==
  ASSUME NEW inst, NEW args, args = <<>> \/ Tok(args[1])
  PROVE  Emits(preprocCalls(inst, args))
<1>1. /\ "ret" \in Words /\ "svcall" \in Words /\ "rscall" \in Words /\ "call" \in Words
      /\ "jmp" \in Words /\ "lcall" \in Words /\ 0 \in Nat
  BY WordsUsed
<1>2. Emits(Plain("ret")) /\ Emits(Plain("svcall")) /\ Emits(Plain("rscall"))
  BY <1>1, EmitPlain
<1>3. ASSUME args # <<>>
      PROVE  \A op \in {"call", "jmp", "lcall"} : Emits(pushAction(op, args[1].type, args[1].val, 0))
  BY <1>1, <1>3, TokFacts, EmitOne
<1>4. args # <<>> => Emits(Plain("svcall") \o pushAction("call", args[1].type, args[1].val, 0) \o Plain("rscall"))
  BY <1>2, <1>3, EmitBoth
<1>5. args # <<>> => Emits(pushAction(IF args[1].type = "label" THEN "lcall" ELSE "jmp",
                                      args[1].type, args[1].val, 0))
  BY <1>3
<1> QED
  BY <1>2, <1>4, <1>5, EmitNone, EmitRefused DEF preprocCalls

LEMMA EmitsCmpCalls ==
  ASSUME NEW inst \in Words, NEW args, Tok(args[1])
  PROVE  Emits(preprocCmpCalls(inst, args))
<1> DEFINE t == args[1]
<1>1. "jmp" \in Words /\ "lcall" \in Words /\ "unsigned_n" \in TokenTypes /\ "unsigned_n" \notin Register
      /\ "label" \in TokenTypes /\ "label" \notin Register
  BY WordsUsed, TypesUsed
<1>2. PICK one \in Nat, none \in Nat : one = 1 /\ none = 0
  OBVIOUS
<1>3. Emits(pushAction(inst, "unsigned_n", one, none)) /\ Emits(pushAction("jmp", "unsigned_n", one, none))
      /\ Emits(pushAction("lcall", "label", t.val, none)) /\ Emits(pushAction(inst, t.type, t.val, none))
  BY <1>1, <1>2, TokFacts, EmitOne
<1>4. Emits(pushAction(inst, "unsigned_n", one, none) \o pushAction("jmp", "unsigned_n", one, none)
            \o pushAction("lcall", "label", t.val, none))
  BY <1>3, EmitBoth
<1>5. Emits(preprocJmpCmpCalls(inst, t))
  BY <1>2, <1>3, <1>4 DEF preprocJmpCmpCalls
<1> QED
  BY <1>5, EmitRefused DEF preprocCmpCalls

LEMMA EmitsCompNum ==
  ASSUME NEW d, Tok(d), d.type \in Register, NEW s, Tok(s), NEW u
  PROVE  Emits(CompNum(d, s, u))
<1> DEFINE t == Scratch(d.val)
<1>1. t \in 0..255 /\ t \in Nat /\ R.RFPR3 \in 0..255 /\ R.RFPR3 \in Nat /\ d.val \in 0..255 /\ s.val \in Nat
      /\ 11 \in Nat /\ "cmp" \in Words
  BY ByteRegisters, BytesAreNumbers, TokFacts, WordsUsed
<1>2. /\ Emits(PushReg(d.val)) /\ Emits(PushReg(t)) /\ Emits(PushReg(R.RFPR3)) /\ Emits(IntCall(11))
      /\ Emits(Plain("cmp")) /\ Emits(CRToNum(t)) /\ Emits(SetTo(t, s.type, s.val))
      /\ Emits(SetTo(R.RFPR3, "double_n", s.val))
  BY <1>1, EmitPushReg, EmitInt, EmitPlain, EmitCRToNum, EmitSetToken, EmitSetNumber
<1>3. Emits(Saving(t, u, CRToNum(t) \o PushReg(d.val) \o Plain("cmp")))
  BY <1>1, <1>2, EmitBoth, EmitSaving
<1>4. s.type \in Register => /\ Emits(PushReg(s.val) \o PushReg(d.val) \o Plain("cmp"))
                             /\ Emits(PushReg(s.val) \o IntCall(11) \o PushReg(d.val) \o Plain("cmp"))
  BY <1>2, TokFacts, EmitPushReg, EmitBoth
<1>5. Emits(Saving(R.RFPR3, u, SetTo(R.RFPR3, "double_n", s.val) \o PushReg(R.RFPR3) \o IntCall(11)
                               \o PushReg(d.val) \o Plain("cmp")))
  BY <1>1, <1>2, EmitBoth, EmitSaving
<1>6. Emits(Saving(t, u, SetTo(t, s.type, s.val) \o PushReg(d.val) \o PushReg(t) \o Plain("cmp")))
  BY <1>1, <1>2, EmitBoth, EmitSaving
<1> QED
  BY <1>3, <1>4, <1>5, <1>6, TypesUsed DEF CompNum

LEMMA EmitsCompCr ==
  ASSUME NEW s, Tok(s), NEW u
  PROVE  Emits(CompCr(s, u))
<1>1. R.RAX \in 0..255 /\ R.RAX \in Nat /\ "cmp" \in Words
  BY ByteRegisters, BytesAreNumbers, WordsUsed
<1>2. Emits(PushReg(R.RAX)) /\ Emits(CRToNum(R.RAX)) /\ Emits(Plain("cmp")) /\ Emits(SetTo(R.RAX, s.type, s.val))
  BY <1>1, EmitPushReg, EmitCRToNum, EmitPlain, EmitSetToken
<1>3. s.type = "reg" => Emits(PushReg(s.val))
  BY TokFacts, EmitPushReg
<1>4. Emits(Saving(R.RAX, u, (IF s.type = "reg" THEN PushReg(s.val)
                              ELSE SetTo(R.RAX, s.type, s.val) \o PushReg(R.RAX))
                             \o CRToNum(R.RAX) \o Plain("cmp")))
  BY <1>1, <1>2, <1>3, EmitBoth, EmitSaving
<1> QED
  BY <1>4, EmitRefused DEF CompCr

LEMMA EmitsCompFp ==
  ASSUME NEW d, Tok(d), d.type \in Register, NEW s, Tok(s), NEW u
  PROVE  Emits(CompFp(d, s, u))
<1> DEFINE t == FpScratch(d.val)
           Rest == PushReg(d.val) \o IntCall(11) \o Plain("cmp")
           Body == SetTo(R.RAX, "unsigned_n", s.val) \o PushReg(R.RAX) \o Rest
<1>1. t \in 0..255 /\ t \in Nat /\ R.RAX \in 0..255 /\ R.RAX \in Nat /\ d.val \in 0..255 /\ s.val \in Nat
      /\ 11 \in Nat /\ "cmp" \in Words /\ "cmpdbl" \in Words
  BY ByteRegisters, BytesAreNumbers, TokFacts, WordsUsed
<1>2. /\ Emits(PushReg(d.val)) /\ Emits(IntCall(11)) /\ Emits(Plain("cmp")) /\ Emits(Plain("cmpdbl"))
      /\ Emits(PushReg(R.RAX)) /\ Emits(PushReg(t)) /\ Emits(SetTo(t, "double_n", s.val))
      /\ Emits(SetTo(R.RAX, "unsigned_n", s.val))
  BY <1>1, EmitPushReg, EmitInt, EmitPlain, EmitSetNumber
<1>3. Emits(Rest) /\ Emits(Body)
  BY <1>2, EmitBoth
<1>4. Emits(Saving(t, u, SetTo(t, "double_n", s.val) \o PushReg(t) \o PushReg(d.val) \o Plain("cmpdbl")))
  BY <1>1, <1>2, EmitBoth, EmitSaving
<1> HIDE DEF Rest, Body
<1>5. s.type = "reg" => Emits(PushReg(s.val) \o Rest)
  BY <1>3, TokFacts, EmitPushReg, EmitBoth
<1>6. Emits(IF u THEN Body ELSE PushReg(R.RAX) \o Body \o PushReg(R.RAX))
  BY <1>2, <1>3, EmitBoth
<1> QED
  BY <1>4, <1>5, <1>6, EmitRefused DEF CompFp, Rest, Body

LEMMA EmitsComps ==
  ASSUME NEW args, Tok(args[1]), Tok(args[2]), NEW u
  PROVE  Emits(preprocComps(args, u))
<1> PICK d, s : d = args[1] /\ s = args[2]
  OBVIOUS
<1>1. Emits(CompCr(s, u))
  BY EmitsCompCr
<1>2. d.type = "fp_reg" => Emits(CompFp(d, s, u))
  BY EmitsCompFp, TypesUsed
<1>3. d.type \in Register => Emits(CompNum(d, s, u))
  BY EmitsCompNum
<1> QED
  BY <1>1, <1>2, <1>3, EmitNone, EmitRefused DEF preprocComps

-----------------------------------------------------------------------------
LEMMA EmitFlatten ==
  ASSUME NEW n \in Nat, NEW t \in [1..n -> Seq(Acts)]
  PROVE  Emits(FlattenSeq(t))
<1> DEFINE s == [i \in 1..(n + 1) |-> IF i <= n THEN t[i] ELSE <<>>]
<1>1. PICK none \in Seq(Acts) : none = <<>>
  BY NoElement
<1>2. s \in [1..(n + 1) -> Seq(Acts)] /\ \A i \in 1..n : t[i] = s[i]
  <2>1. \A i \in 1..(n + 1) : (IF i <= n THEN t[i] ELSE none) \in Seq(Acts)
    <3> SUFFICES ASSUME NEW i \in 1..(n + 1), i <= n PROVE t[i] \in Seq(Acts)
      OBVIOUS
    <3>1. i \in 1..n
      OBVIOUS
    <3> QED
      BY <3>1
  <2>2. \A i \in 1..n : i \in 1..(n + 1) /\ i <= n
    OBVIOUS
  <2> QED
    BY <1>1, <2>1, <2>2
<1> HIDE DEF s
<1> QED
  BY <1>2, FlattenMore DEF Emits

LEMMA EmitsNetwork ==
  ASSUME NEW inst \in DOMAIN NetOp, NEW args, Len(args) \in 1..4, DOMAIN args = 1..Len(args),
         \A i \in 1..Len(args) : Tok(args[i]), NEW u
  PROVE  Emits(preprocNetwork(inst, args, u))
<1> DEFINE Operands == <<R.RDI, R.RSI, R.RDX>>
           n == Len(args) - 1
           sets == [i \in 1..n |-> SetTo(Operands[i], "unsigned_n", args[i + 1].val)]
           saves == [i \in 1..n |-> PushReg(Operands[n + 1 - i])]
           restores == [i \in 1..n |-> PopReg(Operands[i])]
<1>1. PICK k \in 0..3 : k = n
  OBVIOUS
<1>2. \A i \in 1..3 : Operands[i] \in 0..255
  <2>1. \A i \in 1..3 : i = 1 \/ i = 2 \/ i = 3
    OBVIOUS
  <2>2. PICK a \in 0..255, b \in 0..255, c \in 0..255 : a = R.RDI /\ b = R.RSI /\ c = R.RDX
    BY ByteRegisters
  <2>3. Operands = <<a, b, c>>
    BY <2>2
  <2>4. <<a, b, c>>[1] = a /\ <<a, b, c>>[2] = b /\ <<a, b, c>>[3] = c
    OBVIOUS
  <2> HIDE DEF Operands
  <2> SUFFICES ASSUME NEW i \in 1..3 PROVE Operands[i] \in 0..255
    OBVIOUS
  <2>5. CASE i = 1
    BY <2>3, <2>4, <2>5
  <2>6. CASE i = 2
    BY <2>3, <2>4, <2>6
  <2>7. CASE i = 3
    BY <2>3, <2>4, <2>7
  <2> QED
    BY <2>1, <2>5, <2>6, <2>7
<1>3. \A i \in 1..k : Operands[i] \in 0..255 /\ Operands[k + 1 - i] \in 0..255
  <2> SUFFICES ASSUME NEW i \in 1..k PROVE Operands[i] \in 0..255 /\ Operands[k + 1 - i] \in 0..255
    OBVIOUS
  <2>1. i \in 1..3 /\ k + 1 - i \in 1..3
    OBVIOUS
  <2> HIDE DEF Operands
  <2> QED
    BY <1>2, <2>1
<1> HIDE DEF Operands
<1>4. \A i \in 1..k : Emits(PushReg(Operands[k + 1 - i])) /\ Emits(PopReg(Operands[i]))
  BY <1>3, EmitPushReg
<1>5. ASSUME NEW i \in 1..k PROVE Emits(SetTo(Operands[i], "unsigned_n", args[i + 1].val))
  <2>1. i + 1 \in 1..Len(args)
    BY <1>1
  <2>2. args[i + 1].val \in Nat
    BY <2>1, TokFacts
  <2> QED
    BY <1>3, <2>2, BytesAreNumbers, EmitSetNumber
<1>6. sets \in [1..k -> Seq(Acts)] /\ saves \in [1..k -> Seq(Acts)] /\ restores \in [1..k -> Seq(Acts)]
  BY <1>1, <1>4, <1>5 DEF Emits
<1>7. Emits(FlattenSeq(sets)) /\ Emits(FlattenSeq(saves)) /\ Emits(FlattenSeq(restores))
  <2>1. k \in Nat
    OBVIOUS
  <2> HIDE DEF sets, saves, restores
  <2> QED
    BY <1>6, <2>1, EmitFlatten
<1>8. Emits(pushAction(NetOp[inst], "unsigned_n", args[1].val, 0))
  <2>1. NetOp[inst] \in Words
    BY WordsUsed DEF NetOp
  <2>2. 1 \in 1..Len(args)
    OBVIOUS
  <2>3. args[1].val \in Nat
    BY <2>2, TokFacts
  <2> QED
    BY <2>1, <2>3, TypesUsed, EmitOne
<1>9. PICK ask : /\ ask = FlattenSeq(sets) \o pushAction(NetOp[inst], "unsigned_n", args[1].val, 0)
                 /\ Emits(ask)
  BY <1>7, <1>8, EmitBoth
<1>10. Emits(FlattenSeq(saves) \o ask \o FlattenSeq(restores))
  BY <1>7, <1>9, EmitBoth
<1>11. preprocNetwork(inst, args, u) \in {Refused, ask, FlattenSeq(saves) \o ask \o FlattenSeq(restores)}
  BY <1>9 DEF preprocNetwork, Operands
<1> QED
  BY <1>9, <1>10, <1>11, EmitRefused

-----------------------------------------------------------------------------
(* The dispatch: whatever the line, every emitted action is one a file can *)
(* hold.                                                                   *)
IsArgs(args) == /\ args \in Seq([type : TokenTypes, val : Nat])
                /\ \A i \in DOMAIN args : IsToken(args[i])

LEMMA ArgsFacts ==
  ASSUME NEW args, IsArgs(args)
  PROVE  /\ Len(args) \in Nat /\ DOMAIN args = 1..Len(args)
         /\ \A i \in 1..Len(args) : Tok(args[i])
         /\ Len(args) = 0 => args = <<>>
         /\ Len(args) >= 1 => Tok(args[1])
         /\ Len(args) >= 2 => Tok(args[2])
<1>1. Len(args) \in Nat /\ DOMAIN args = 1..Len(args)
  BY LenProperties DEF IsArgs
<1>2. \A i \in 1..Len(args) : args[i] \in [type : TokenTypes, val : Nat]
  BY ElementOfSeq DEF IsArgs
<1>3. \A i \in 1..Len(args) : Tok(args[i])
  BY <1>1, <1>2 DEF Tok, IsArgs
<1>4. Len(args) = 0 => args = <<>>
  BY EmptySeq DEF IsArgs
<1> QED
  BY <1>1, <1>3, <1>4

LEMMA Arities ==
  ASSUME NEW inst
  PROVE  /\ inst \in {"int", "str", "inc", "dec", "not", "log", "log2", "log10", "sdzs", "call", "jmp",
                      "je", "jl", "jle", "jg", "jge", "ncls", "nrcv"} => Arity(inst) = {1}
         /\ inst \in {"push", "pop"} => Arity(inst) = {1, 2}
         /\ inst \in {"nopn", "ncep"} => Arity(inst) = {4}
         /\ inst = "ret" => Arity(inst) = {0, 1}
         /\ inst \in {"mov", "mul", "div", "add", "sub", "and", "xor", "or", "shr", "shl", "pow", "mload",
                      "cmp", "nsnd", "nget", "nsep"} => Arity(inst) = {2}
BY DEF Arity

LEMMA EmitsInst ==
  ASSUME NEW inst, NEW args, IsArgs(args), NEW u
  PROVE  Emits(preprocInst(inst, args, u))
<1> DEFINE One == {"int", "str", "inc", "dec", "not", "log", "log2", "log10", "sdzs"}
           Two == {"mov", "mul", "div", "add", "sub", "and", "xor", "or", "shr", "shl", "pow", "mload", "cmp"}
           Jump == {"je", "jge", "jl", "jle", "jg"}
           Net == {"nopn", "ncep", "ncls", "nrcv", "nsnd", "nget", "nsep"}
<1>1. ASSUME inst \in One, Len(args) \in Arity(inst)
      PROVE  /\ Emits(preprocInt(args)) /\ Emits(preprocStr(args)) /\ Emits(preprocInc(args))
             /\ Emits(preprocDec(args)) /\ Emits(preprocNot(args)) /\ Emits(preprocSdzs(args))
             /\ Emits(preprocLog(args)) /\ Emits(preprocLog2(args)) /\ Emits(preprocLog10(args))
  <2>1. Tok(args[1])
    <3>1. Len(args) = 1
      <4>1. Arity(inst) = {1}
        BY <1>1, Arities
      <4> QED
        BY <1>1, <4>1
    <3> QED
      BY <3>1, ArgsFacts
  <2>2. "inc" \in Words /\ "dec" \in Words /\ "log" \in Words /\ "log2" \in Words /\ "log10" \in Words
        /\ "dlog" \in Words /\ "dlog2" \in Words /\ "dlog10" \in Words
    BY WordsUsed
  <2> QED
    BY <2>1, <2>2, EmitsInt, EmitsStr, EmitsByOneForm, EmitsNot, EmitsSdzs, EmitsLogForm
       DEF preprocInc, preprocDec, preprocLog, preprocLog2, preprocLog10
<1>2. ASSUME inst \in Two, Len(args) \in Arity(inst)
      PROVE  /\ Emits(preprocMov(args)) /\ Emits(preprocMul(args, u)) /\ Emits(preprocDiv(args, u))
             /\ Emits(preprocAdd(args, u)) /\ Emits(preprocSub(args, u)) /\ Emits(preprocAnd(args, u))
             /\ Emits(preprocXor(args, u)) /\ Emits(preprocOr(args, u)) /\ Emits(preprocShr(args, u))
             /\ Emits(preprocShl(args, u)) /\ Emits(preprocPow(args, u)) /\ Emits(preprocMload(args, u))
             /\ Emits(preprocComps(args, u))
  <2>1. Tok(args[1]) /\ Tok(args[2])
    <3>1. Len(args) = 2
      <4>1. Arity(inst) = {2}
        BY <1>2, Arities
      <4> QED
        BY <1>2, <4>1
    <3> QED
      BY <3>1, ArgsFacts
  <2>2. \A op \in {"mul", "div", "add", "sub"} : op \in Words /\ op \in HaveOption
    BY WordsUsed DEF HaveOption
  <2>3. \A op \in {"and", "xor", "or", "shr", "shl"} : op \in Words
    BY WordsUsed
  <2>4. \A op \in {"mul", "div", "add", "sub"} : Emits(MathForm(op, args, u))
    BY <2>1, <2>2, EmitsMathForm
  <2>5. \A op \in {"and", "xor", "or", "shr", "shl"} : Emits(LgclForm(op, args, u))
    BY <2>1, <2>3, EmitsLgclForm
  <2>6. Emits(preprocMov(args)) /\ Emits(preprocPow(args, u)) /\ Emits(preprocMload(args, u))
        /\ Emits(preprocComps(args, u))
    BY <2>1, EmitsMov, EmitsPow, EmitsMload, EmitsComps
  <2> QED
    BY <2>4, <2>5, <2>6 DEF preprocMul, preprocDiv, preprocAdd, preprocSub, preprocAnd, preprocXor,
       preprocOr, preprocShr, preprocShl
<1>3. ASSUME inst \in {"push", "pop"}, Len(args) \in Arity(inst)
      PROVE  Emits(preprocStack(inst, args, u))
  <2>1. Len(args) \in {1, 2} /\ \A i \in 1..Len(args) : Tok(args[i])
    BY <1>3, Arities, ArgsFacts
  <2> QED
    BY <1>3, <2>1, EmitsStack
<1>4. ASSUME inst \in {"call", "jmp", "ret"}, Len(args) \in Arity(inst)
      PROVE  Emits(preprocCalls(inst, args))
  <2>1. Len(args) \in {0, 1}
    BY <1>4, Arities
  <2>2. args = <<>> \/ Tok(args[1])
    BY <2>1, ArgsFacts
  <2> QED
    BY <2>2, EmitsCalls
<1>5. ASSUME inst \in Net, Len(args) \in Arity(inst)
      PROVE  Emits(preprocNetwork(inst, args, u))
  <2>1. Len(args) \in 1..4 /\ DOMAIN args = 1..Len(args) /\ \A i \in 1..Len(args) : Tok(args[i])
    <3>1. inst \in {"ncls", "nrcv"} \/ inst \in {"nopn", "ncep"} \/ inst \in {"nsnd", "nget", "nsep"}
      BY <1>5
    <3>2. Arity(inst) = {1} \/ Arity(inst) = {4} \/ Arity(inst) = {2}
      BY <3>1, Arities
    <3>3. Len(args) = 1 \/ Len(args) = 4 \/ Len(args) = 2
      BY <1>5, <3>2, Zenon
    <3>4. Len(args) \in 1..4
      BY <3>3
    <3> QED
      BY <3>4, ArgsFacts
  <2>2. inst \in DOMAIN NetOp
    BY <1>5 DEF NetOp
  <2> QED
    BY <2>1, <2>2, EmitsNetwork
<1>6. ASSUME inst \in Jump, Len(args) \in Arity(inst)
      PROVE  Emits(preprocCmpCalls(inst, args))
  <2>1. Tok(args[1])
    <3>1. Len(args) = 1
      BY <1>6, Arities
    <3> QED
      BY <3>1, ArgsFacts
  <2>2. inst \in Words
    BY <1>6, WordsUsed
  <2> QED
    BY <2>1, <2>2, EmitsCmpCalls
<1>7. DOMAIN NetOp = Net
  BY DEF NetOp
<1>8. CASE inst \notin One \cup Two \cup Jump \cup Net \cup {"push", "pop", "call", "jmp", "ret"}
  <2>1. preprocInst(inst, args, u) = <<>>
    BY <1>7, <1>8 DEF preprocInst
  <2> QED
    BY <2>1, EmitNone
<1>9. CASE inst \in One \cup Two \cup Jump \cup Net \cup {"push", "pop", "call", "jmp", "ret"}
           /\ Len(args) \notin Arity(inst)
  <2>1. preprocInst(inst, args, u) = Refused
    BY <1>7, <1>9 DEF preprocInst
  <2> QED
    BY <2>1, EmitRefused
<1>10. CASE inst \in One \cup Two \cup Jump \cup Net \cup {"push", "pop", "call", "jmp", "ret"}
            /\ Len(args) \in Arity(inst)
  <2>1. CASE inst \in One
    BY <1>1, <1>7, <1>10, <2>1 DEF preprocInst
  <2>2. CASE inst \in Two
    BY <1>2, <1>7, <1>10, <2>2 DEF preprocInst
  <2>3. CASE inst \in Jump
    BY <1>6, <1>7, <1>10, <2>3 DEF preprocInst
  <2>4. CASE inst \in Net
    BY <1>5, <1>7, <1>10, <2>4 DEF preprocInst
  <2>5. CASE inst \in {"push", "pop"}
    BY <1>3, <1>7, <1>10, <2>5 DEF preprocInst
  <2>6. CASE inst \in {"call", "jmp", "ret"}
    BY <1>4, <1>7, <1>10, <2>6 DEF preprocInst
  <2> QED
    BY <1>10, <2>1, <2>2, <2>3, <2>4, <2>5, <2>6
<1> QED
  BY <1>8, <1>9, <1>10

-----------------------------------------------------------------------------
(* What the runner has read when it has read k actions: it stands behind   *)
(* their code, and each of its actions is the emitted one, with its        *)
(* operand whole in the static data zone.                                  *)
LoadedAct == [op : Executed, addr : Nat, opt : Nat]
ReadAs(d, a, sdz) == d.op = a.op /\ d.opt = a.opt /\ Holds(sdz, d.addr + 1, Operand(a))
Reads(acts, d, k) ==
  /\ d \in Reader(LoadedAct, Nat)
  /\ d.i = 1 + Len(Compiled(acts, k))
  /\ Len(d.actions) = k
  /\ \A i \in 1..k : ReadAs(d.actions[i], acts[i], d.sdz)
  /\ d.sdz \in Seq(Byte)
  /\ \A i \in 1..k : d.actions[i].addr <= Len(d.sdz)

Main(acts) == Compiled(acts, Len(acts))

LEMMA ActIsAction ==
  ASSUME NEW a \in Acts, Compiles(a)
  PROVE  Action(a) /\ RegisterIsByte(a) /\ a.op \in Executed
<1>1. /\ a.op \in Words /\ a.val \in Nat /\ a.opt \in Nat /\ (a.op \in HaveOption \/ a.opt = 0)
      /\ a.type \in Register => a.val \in 0..255
  BY DEF Acts, IsAct
<1>2. a.op \in Ops
  BY DEF Compiles, Ops
<1>3. instructions_set[a.op] \in opt_arg_ops \/ a.opt = 0
  <2>1. HaveOption \subseteq Ops
    BY DEF HaveOption, Ops, instructions_set
  <2>2. opt_arg_ops = OpcodesOf(HaveOption)
    BY DEF opt_arg_ops, HaveOption
  <2> QED
    BY <1>1, <1>2, <2>1, <2>2, InClass
<1>4. Class(a.op)
  BY <1>2, OneClass
<1>5. instructions_set[a.op] \in reg_args_opcodes => a.type \in Register
  BY <1>4 DEF Compiles, Class
<1>6. a.op \in Executed
  <2>1. "refused" \notin Ops
    BY DEF Ops, instructions_set
  <2> QED
    BY <1>1, <1>2, <2>1 DEF Words
<1> QED
  BY <1>1, <1>2, <1>3, <1>5, <1>6 DEF Action, RegisterIsByte

(* The operand is bytes.                                                   *)
LEMMA NumberAsBytes ==
  ASSUME NEW v \in Nat, NEW n \in 0..16
  PROVE  Digits(v, n) \in [1..n -> Byte] /\ Digits(v, n) \in Seq(Byte)
<1>1. Digits(v, n) \in [1..n -> Byte]
  BY DigitsType DEF Byte
<1> QED
  BY <1>1, FunctionSequence

LEMMA OperandBytes ==
  ASSUME NEW a \in Acts, Compiles(a)
  PROVE  Operand(a) \in Seq(Byte)
<1>1. Action(a) /\ Class(a.op) /\ a.val \in Nat /\ a.opt \in Nat
  BY ActIsAction, OneClass DEF Action
<1>2. ULLTOA(a.val) \in Seq(Byte)
  <2>0. 8 \in 0..16
    OBVIOUS
  <2>1. PICK d : d = Digits(a.val, 8) /\ d \in [1..8 -> Byte]
    BY <1>1, <2>0, NumberAsBytes
  <2>2. Len(d) = 8
    BY <2>1, FunctionSequence
  <2>3. Reverse(d) = [i \in 1..8 |-> d[(8 - i) + 1]]
    BY <2>2 DEF Reverse
  <2>4. \A i \in 1..8 : (8 - i) + 1 \in 1..8
    OBVIOUS
  <2>5. Reverse(d) \in [1..8 -> Byte]
    BY <2>1, <2>3, <2>4
  <2> QED
    BY <2>1, <2>5, FunctionSequence DEF ULLTOA
<1>3. FpBytes(a.val) \in Seq(Byte)
  <2>1. 16 \in 0..16
    OBVIOUS
  <2> QED
    BY <1>1, <2>1, NumberAsBytes DEF FpBytes
<1>4. ASSUME a.op = "set", ~is_num_reg(a.opt), ~is_fp_reg(a.opt) PROVE <<a.val>> \in Seq(Byte)
  <2>0. instructions_set[a.op] \notin zero_args_opcodes \cup uint64_args_opcodes \cup reg_args_opcodes
    BY <1>1, <1>4 DEF Class
  <2>1. a.type = "str"
    BY <1>4, <2>0 DEF Compiles
  <2>2. a.val \in Byte
    BY <2>1 DEF Acts, IsAct
  <2> QED
    BY <2>2, OneElement
<1>5. <<>> \in Seq(Byte)
  BY NoElement
<1> QED
  BY <1>1, <1>2, <1>3, <1>4, <1>5, Encodings DEF Class

LEMMA ReadsNothing == \A acts : Reads(acts, Undecoded, 0)
<1> SUFFICES ASSUME NEW acts PROVE Reads(acts, Undecoded, 0)
  OBVIOUS
<1>1. <<>> \in Seq(LoadedAct) /\ <<>> \in Seq(Nat) /\ <<>> \in Seq(Byte) /\ Len(<<>>) = 0
  BY NoElement
<1>2. Undecoded \in Reader(LoadedAct, Nat) /\ Undecoded.i = 1 /\ Undecoded.actions = <<>>
      /\ Undecoded.sdz = <<>>
  BY <1>1 DEF Undecoded, Reader
<1>3. Undecoded.i = 1 + Len(Compiled(acts, 0)) /\ Len(Undecoded.actions) = 0
  BY <1>1, <1>2, CompiledNone
<1> QED
  BY <1>1, <1>2, <1>3 DEF Reads

LEMMA CompiledType ==
  ASSUME NEW acts, NEW n \in Nat, Codes(acts, n)
  PROVE  Compiled(acts, n) \in Seq(Nat) /\ Len(Compiled(acts, n)) \in Nat
<1>1. CASE n = 0
  <2>1. \E none \in Seq(Nat) : none = Compiled(acts, n) /\ Len(none) = 0
    BY <1>1, CompiledNone, NoElement
  <2> QED
    BY <2>1
<1>2. CASE n # 0
  <2>1. PICK j \in Nat : n = j + 1
    <3>1. n - 1 \in Nat /\ n = (n - 1) + 1
      BY <1>2
    <3> QED
      BY <3>1
  <2>2. Compiled(acts, j + 1) \in Seq(Nat)
    BY <2>1, CompiledStep
  <2> QED
    BY <2>1, <2>2, LenProperties
<1> QED
  BY <1>1, <1>2

(* As long as there is code left there is an action left.                  *)
LEMMA CodeLeft ==
  ASSUME NEW acts, Len(acts) \in Nat, Codes(acts, Len(acts)), NEW k \in 0..Len(acts),
         NEW d, Reads(acts, d, k)
  PROVE  d.i <= Len(Main(acts)) <=> k # Len(acts)
<1>1. CASE k = Len(acts)
  <2>1. d.i = 1 + Len(Main(acts)) /\ d.i \in Nat \ {0}
    BY <1>1 DEF Reads, Main, Reader
  <2>2. Len(Main(acts)) \in Nat
    BY CompiledType DEF Main
  <2>3. PICK l \in Nat : l = Len(Main(acts))
    BY <2>2
  <2> QED
    BY <1>1, <2>1, <2>3
<1>2. CASE k # Len(acts)
  <2>1. k \in Nat /\ k + 1 \in 1..Len(acts) /\ Codes(acts, k + 1)
    BY <1>2 DEF Codes
  <2>2. /\ Len(Compiled(acts, k)) \in Nat /\ Len(compileInst(acts[k + 1])) \in Nat \ {0}
        /\ Len(Compiled(acts, k + 1)) = Len(Compiled(acts, k)) + Len(compileInst(acts[k + 1]))
    BY <2>1, CompiledStep
  <2>3. Len(Compiled(acts, k + 1)) <= Len(Main(acts))
    <3>1. InPlace(acts, k + 1, Len(acts))
      BY <2>1, CompiledHolds
    <3> QED
      BY <3>1 DEF InPlace, Main
  <2>4. d.i = 1 + Len(Compiled(acts, k))
    BY DEF Reads
  <2>6. d.i <= Len(Compiled(acts, k + 1))
    BY <2>2, <2>4
  <2>7. Len(Main(acts)) \in Nat
    BY CompiledType DEF Main
  <2>8. PICK x \in Nat, y \in Nat : x = Len(Compiled(acts, k + 1)) /\ y = Len(Main(acts))
    <3>1. Len(Compiled(acts, k + 1)) \in Nat
      BY <2>2
    <3> QED
      BY <2>7, <3>1
  <2>9. d.i \in Nat
    BY DEF Reads, Reader
  <2> QED
    BY <1>2, <2>3, <2>6, <2>8, <2>9
<1> QED
  BY <1>1, <1>2

(* The runner reads one more action.                                       *)
LEMMA ReadsMore ==
  ASSUME NEW acts, Len(acts) \in Nat, Codes(acts, Len(acts)), NEW k \in Nat, k + 1 \in 1..Len(acts),
         acts[k + 1] \in Acts, NEW d, Reads(acts, d, k)
  PROVE  Reads(acts, decodeByteArray(Main(acts), d), k + 1)
<1> PICK a : a = acts[k + 1]
  OBVIOUS
<1>1. Action(a) /\ Compiles(a) /\ Codes(acts, k + 1) /\ a \in Acts /\ a.op \in Executed
  BY ActIsAction DEF Codes
<1>2. PICK main \in Seq(Nat) : main = Main(acts)
  BY CompiledType DEF Main
<1>3. /\ d \in Reader(LoadedAct, Nat) /\ d.i = 1 + Len(Compiled(acts, k)) /\ Len(d.actions) = k
      /\ \A i \in 1..k : ReadAs(d.actions[i], acts[i], d.sdz)
  BY DEF Reads
<1>4. d.i \in Nat \ {0} /\ d.actions \in Seq(LoadedAct) /\ d.sdz \in Seq(Nat) /\ Len(d.sdz) \in Nat
  <2>1. d.i \in Nat \ {0} /\ d.actions \in Seq(LoadedAct) /\ d.sdz \in Seq(Nat)
    BY <1>3 DEF Reader
  <2> QED
    BY <2>1, LenProperties
<1>5. Holds(main, d.i, compileInst(a))
  <2>1. InPlace(acts, k + 1, Len(acts))
    BY CompiledHolds
  <2>2. (k + 1) - 1 = k
    OBVIOUS
  <2>3. PICK l \in Nat : l = Len(Compiled(acts, k))
    BY <1>1, CompiledStep
  <2>4. d.i = l + 1
    BY <1>3, <2>3
  <2> QED
    BY <1>2, <2>1, <2>2, <2>3, <2>4 DEF InPlace, Main
<1>6. PICK e : e = decodeByteArray(main, d) /\ e = Decoded(d, a)
  BY <1>1, <1>3, <1>5, DecodesWhatIsCompiled
<1> DEFINE new == [op |-> a.op,
                   addr |-> IF instructions_set[a.op] \in zero_args_opcodes THEN 0 ELSE Len(d.sdz),
                   opt |-> a.opt]
<1>7. e = [i |-> d.i + Len(compileInst(a)), actions |-> Append(d.actions, new), sdz |-> d.sdz \o Operand(a)]
  BY <1>6 DEF Decoded
<1>8. new \in LoadedAct
  BY <1>1, <1>4 DEF LoadedAct, Action
<1> HIDE DEF new
<1>9. PICK bytes \in Seq(Nat) : bytes = Operand(a) /\ Len(bytes) \in Nat
  BY <1>1, CompileType
<1>10. d.sdz \o bytes \in Seq(Nat)
  BY <1>4, ConcatProperties
<1>11. /\ Append(d.actions, new) \in Seq(LoadedAct) /\ Len(Append(d.actions, new)) = k + 1
       /\ \A i \in 1..k : Append(d.actions, new)[i] = d.actions[i]
       /\ Append(d.actions, new)[k + 1] = new
  BY <1>3, <1>4, <1>8, AppendProperties
<1>12. Len(compileInst(a)) \in Nat /\ Len(Compiled(acts, k + 1)) = Len(Compiled(acts, k)) + Len(compileInst(a))
       /\ Len(Compiled(acts, k)) \in Nat
  BY <1>1, CompiledStep
<1>13. e \in Reader(LoadedAct, Nat)
  <2>1. d.i + Len(compileInst(a)) \in Nat \ {0}
    BY <1>4, <1>12
  <2> QED
    BY <1>7, <1>9, <1>10, <1>11, <2>1 DEF Reader
<1>14. e.i = 1 + Len(Compiled(acts, k + 1))
  BY <1>3, <1>7, <1>12
<1>15. ASSUME NEW i \in 1..(k + 1) PROVE ReadAs(e.actions[i], acts[i], e.sdz)
  <2>1. CASE i = k + 1
    <3>1. e.actions[i] = new /\ acts[i] = a /\ e.sdz = d.sdz \o bytes
      BY <1>7, <1>9, <1>11, <2>1
    <3>2. Holds(d.sdz \o bytes, new.addr + 1, bytes)
      <4>1. CASE instructions_set[a.op] \in zero_args_opcodes
        <5>1. new.addr = 0
          BY <4>1 DEF new
        <5>2. Len(bytes) = 0
          <6>1. Class(a.op)
            BY <1>1, OneClass DEF Action
          <6>2. bytes = <<>>
            BY <1>9, <4>1, <6>1, Encodings, <1>1
          <6> QED
            BY <6>2
        <5>3. Len(d.sdz \o bytes) \in Nat
          BY <1>10, LenProperties
        <5>4. (0 + 1) + 0 - 1 <= Len(d.sdz \o bytes)
          BY <5>3
        <5> QED
          BY <5>1, <5>2, <5>4 DEF Holds
      <4>2. CASE instructions_set[a.op] \notin zero_args_opcodes
        <5>1. new.addr = Len(d.sdz)
          BY <4>2 DEF new
        <5> QED
          BY <1>4, <5>1, HoldsLast
      <4> QED
        BY <4>1, <4>2
    <3> QED
      BY <1>9, <3>1, <3>2 DEF ReadAs, new
  <2>2. CASE i # k + 1
    <3>1. i \in 1..k
      BY <2>2
    <3>2. e.actions[i] = d.actions[i] /\ e.sdz = d.sdz \o bytes
      BY <1>7, <1>9, <1>11, <3>1
    <3>3. ReadAs(d.actions[i], acts[i], d.sdz)
      BY <1>3, <3>1
    <3>4. Action(acts[i]) /\ Compiles(acts[i])
      BY <3>1 DEF Codes
    <3>5. Len(Operand(acts[i])) \in Nat
      BY <3>4, CompileType
    <3>6. d.actions[i].addr + 1 \in Nat \ {0}
      <4>1. d.actions[i] \in LoadedAct
        BY <1>3, <1>4, <3>1, ElementOfSeq
      <4>2. PICK x \in Nat : x = d.actions[i].addr
        BY <4>1 DEF LoadedAct
      <4>3. x + 1 \in Nat \ {0}
        OBVIOUS
      <4> QED
        BY <4>2, <4>3
    <3>7. Holds(d.sdz \o bytes, d.actions[i].addr + 1, Operand(acts[i]))
      BY <1>4, <3>3, <3>5, <3>6, HoldsLonger DEF ReadAs
    <3> QED
      BY <3>2, <3>3, <3>7 DEF ReadAs
  <2> QED
    BY <2>1, <2>2
<1>16. Len(e.actions) = k + 1
  BY <1>7, <1>11
<1>17. e.sdz \in Seq(Byte) /\ Len(e.sdz) = Len(d.sdz) + Len(bytes)
  <2>1. bytes \in Seq(Byte)
    BY <1>1, <1>9, OperandBytes
  <2>2. PICK s \in Seq(Byte) : s = d.sdz
    BY DEF Reads
  <2>3. s \o bytes \in Seq(Byte) /\ Len(s \o bytes) = Len(s) + Len(bytes)
    BY <2>1, <2>2, ConcatProperties
  <2> QED
    BY <1>7, <1>9, <2>2, <2>3
<1>18. ASSUME NEW i \in 1..(k + 1) PROVE e.actions[i].addr <= Len(e.sdz)
  <2>1. CASE i = k + 1
    <3>1. e.actions[i] = new /\ (new.addr = 0 \/ new.addr = Len(d.sdz))
      BY <1>7, <1>11, <2>1 DEF new
    <3>2. PICK x \in Nat, y \in Nat : x = Len(d.sdz) /\ y = Len(bytes) /\ Len(e.sdz) = x + y
      BY <1>4, <1>9, <1>17
    <3> QED
      BY <3>1, <3>2
  <2>2. CASE i # k + 1
    <3>1. i \in 1..k
      BY <2>2
    <3>2. e.actions[i] = d.actions[i] /\ d.actions[i] \in LoadedAct
      BY <1>3, <1>4, <1>7, <1>11, <3>1, ElementOfSeq
    <3>3. d.actions[i].addr \in Nat /\ d.actions[i].addr <= Len(d.sdz)
      BY <3>1, <3>2 DEF LoadedAct, Reads
    <3>4. PICK x \in Nat, y \in Nat : x = Len(d.sdz) /\ y = Len(bytes) /\ Len(e.sdz) = x + y
      BY <1>4, <1>9, <1>17
    <3> QED
      BY <3>2, <3>3, <3>4
  <2> QED
    BY <2>1, <2>2
<1> QED
  BY <1>2, <1>6, <1>13, <1>14, <1>15, <1>16, <1>17, <1>18 DEF Reads

(* What the other assembler makes of the loaded actions.                   *)
LEMMA AssemblesAgain ==
  ASSUME NEW acts \in Seq(Acts), Codes(acts, Len(acts)), NEW d, Reads(acts, d, Len(acts))
  PROVE  as(d.sdz, d.actions) = LinkedFile(Main(acts))
<1>1. PICK n \in Nat : n = Len(acts)
  BY LenProperties
<1>2. /\ d.sdz \in Seq(Nat) /\ d.actions \in Seq(LoadedAct) /\ Len(d.actions) = n
      /\ \A i \in 1..n : ReadAs(d.actions[i], acts[i], d.sdz)
  BY <1>1 DEF Reads, Reader
<1>3. DOMAIN d.actions = 1..n
  BY <1>2, LenProperties
<1>4. ASSUME NEW i \in 1..n
      PROVE  assembleAction(d.sdz, d.actions[i]) = compileInst(acts[i])
  <2>1. PICK a : a = acts[i] /\ Action(a) /\ Compiles(a)
    BY <1>1 DEF Codes
  <2>2. a \in Acts
    BY <1>1, <2>1, ElementOfSeq
  <2>3. RegisterIsByte(a)
    BY <2>1, <2>2, ActIsAction
  <2>4. PICK e \in LoadedAct : e = d.actions[i]
    BY <1>2, ElementOfSeq
  <2>5. e.op = a.op /\ e.opt = a.opt /\ Holds(d.sdz, e.addr + 1, Operand(a))
    BY <1>2, <2>1, <2>4 DEF ReadAs
  <2>6. e.addr \in Nat /\ e = [op |-> a.op, addr |-> e.addr, opt |-> a.opt]
    BY <2>4, <2>5 DEF LoadedAct
  <2>7. assembleAction(d.sdz, [op |-> a.op, addr |-> e.addr, opt |-> a.opt]) = compileInst(a)
    BY <1>2, <2>1, <2>3, <2>5, <2>6, AssemblersAgree
  <2> QED
    BY <2>1, <2>4, <2>6, <2>7
<1>5. PICK codes : codes = [i \in 1..n |-> compileInst(acts[i])]
  OBVIOUS
<1>6. [i \in DOMAIN d.actions |-> assembleAction(d.sdz, d.actions[i])] = codes
  BY <1>3, <1>4, <1>5
<1>7. FlattenSeq(codes) = Main(acts)
  BY <1>1, <1>5 DEF Main, Compiled
<1> QED
  BY <1>6, <1>7, AssembledFile

(* The operand of a loaded action, as the machine finds it. *)
LEMMA OperandFound ==
  ASSUME NEW a, Action(a), Compiles(a), NEW sdz \in Seq(Nat), NEW addr \in Nat,
         Holds(sdz, addr + 1, Operand(a))
  PROVE  OperandOf(a) = SubSeq(sdz, addr + 1, addr + Len(OperandOf(a)))
<1>1. OperandOf(a) = Operand(a)
  BY DEF OperandOf, Operand, FpBytes, ULLTOA
<1>2. PICK bytes \in Seq(Nat) : bytes = Operand(a) /\ Len(bytes) \in Nat
  BY CompileType
<1>3. addr + Len(bytes) = ((addr + 1) + Len(bytes)) - 1 /\ addr + 1 \in Nat \ {0}
  BY <1>2
<1> QED
  BY <1>1, <1>2, <1>3, PartHeld

-----------------------------------------------------------------------------
(* The invariant: how far the assembler and the runner are.                *)
SvasmInv ==
  /\ prog \in Programs
  /\ actions \in Seq(Acts)
  /\ starts \in Seq(Nat)
  /\ \A l \in DOMAIN labels : labels[l] \in Nat
  /\ phase = "preproc" => compiled = 0 /\ file = Header /\ loaded = Undecoded
  /\ phase = "assemble" =>
       /\ compiled \in 0..Len(actions)
       /\ Codes(actions, compiled)
       /\ file = Header \o Compiled(actions, compiled)
       /\ loaded = Undecoded
  /\ phase \in {"load", "run", "done"} =>
       /\ Codes(actions, Len(actions))
       /\ file = LinkedFile(Main(actions))
  /\ phase = "load" => \E k \in 0..Len(actions) : Reads(actions, loaded, k)
  /\ phase \in {"run", "done"} => Reads(actions, loaded, Len(actions))

(* The length of a file fits in the eight bytes it has for it.             *)
ShortFile == Len(file) < Word

(* What the runner read is what was emitted, and so is what the other      *)
(* assembler makes of it.                                                  *)
LEMMA InvRoundTrip == SvasmInv => RoundTrip
<1> SUFFICES ASSUME SvasmInv, phase \in {"run", "done"} PROVE RoundTrip
  BY DEF RoundTrip
<1>1. /\ actions \in Seq(Acts) /\ Codes(actions, Len(actions)) /\ file = LinkedFile(Main(actions))
      /\ Reads(actions, loaded, Len(actions))
  BY DEF SvasmInv
<1>2. as(loaded.sdz, loaded.actions) = file
  BY <1>1, AssemblesAgain
<1>3. Len(loaded.actions) = Len(actions) /\ DOMAIN actions = 1..Len(actions)
  BY <1>1, LenProperties DEF Reads
<1>4. ASSUME NEW i \in DOMAIN actions
      PROVE  /\ loaded.actions[i].op = actions[i].op
             /\ loaded.actions[i].opt = actions[i].opt
             /\ OperandOf(actions[i]) = SubSeq(loaded.sdz, loaded.actions[i].addr + 1,
                                               loaded.actions[i].addr + Len(OperandOf(actions[i])))
  <2>1. PICK a : a = actions[i] /\ Action(a) /\ Compiles(a)
    BY <1>1, <1>3 DEF Codes
  <2>2. loaded.sdz \in Seq(Nat) /\ loaded.actions \in Seq(LoadedAct) /\ i \in 1..Len(loaded.actions)
    BY <1>1, <1>3 DEF Reads, Reader
  <2>3. PICK e \in LoadedAct : e = loaded.actions[i]
    BY <2>2, ElementOfSeq
  <2>4. e.op = a.op /\ e.opt = a.opt /\ Holds(loaded.sdz, e.addr + 1, Operand(a))
    BY <1>1, <1>3, <2>1, <2>3 DEF Reads, ReadAs
  <2>5. e.addr \in Nat
    BY <2>3 DEF LoadedAct
  <2>6. OperandOf(a) = SubSeq(loaded.sdz, e.addr + 1, e.addr + Len(OperandOf(a)))
    BY <2>1, <2>2, <2>4, <2>5, OperandFound
  <2> QED
    BY <2>1, <2>3, <2>4, <2>6
<1> QED
  BY <1>2, <1>3, <1>4 DEF RoundTrip

LEMMA InitInv == Init => SvasmInv
<1> SUFFICES ASSUME Init PROVE SvasmInv
  OBVIOUS
<1>1. <<>> \in Seq(Acts) /\ <<>> \in Seq(Nat)
  BY NoElement
<1>2. DOMAIN <<>> = {}
  OBVIOUS
<1> QED
  BY <1>1, <1>2 DEF Init, SvasmInv

-----------------------------------------------------------------------------
(* One lemma per step of the assembler and of the runner.                  *)
LEMMA LinesRead ==
  ASSUME SvasmInv
  PROVE  Append(starts, Len(actions)) \in Seq(Nat) /\ cur \in Nat \ {0} /\ Len(actions) \in Nat
<1>0. starts \in Seq(Nat) /\ actions \in Seq(Acts)
  BY DEF SvasmInv
<1>1. PICK s \in Seq(Nat) : s = starts
  BY <1>0
<1>2. PICK n \in Nat : n = Len(actions)
  BY <1>0, LenProperties
<1>3. Append(s, n) \in Seq(Nat) /\ Len(s) \in Nat
  BY AppendProperties, LenProperties
<1> QED
  BY <1>1, <1>2, <1>3 DEF cur

LEMMA PreprocSteps ==
  ASSUME SvasmInv, DefineLabel \/ SafetyControl \/ PreprocInst \/ RefuseLine
  PROVE  SvasmInv'
<1>0. Append(starts, Len(actions)) \in Seq(Nat) /\ cur \in Nat \ {0} /\ Len(actions) \in Nat
  BY LinesRead
<1>1. CASE DefineLabel
  <2>1. PICK w \in Nat : w = Word /\ w > 0
    BY WordFacts
  <2>2. PICK v \in Nat : v = (Len(actions) - 1) % w
    BY <1>0, <2>1
  <2>3. PICK label : labels' = [l \in DOMAIN labels \cup {label} |-> IF l = label THEN v ELSE labels[l]]
    BY <1>1, <2>1, <2>2 DEF DefineLabel
  <2>4. \A l \in DOMAIN labels' : labels'[l] \in Nat
    BY <2>2, <2>3 DEF SvasmInv
  <2> QED
    BY <1>0, <1>1, <2>4 DEF DefineLabel, Reading, SvasmInv
<1>2. CASE SafetyControl
  BY <1>0, <1>2 DEF SafetyControl, Reading, SvasmInv
<1>3. CASE PreprocInst
  <2>1. PICK line : line = code[cur]
    OBVIOUS
  <2>2. IsArgs(line.args)
    <3>1. code \in Seq([inst : STRING, args : Seq([type : TokenTypes, val : Nat])])
          /\ \A k \in DOMAIN code : \A i \in DOMAIN code[k].args : IsToken(code[k].args[i])
      BY ProgramsAssumption DEF SvasmInv, code
    <3>2. cur \in DOMAIN code /\ cur \in 1..Len(code)
      <4>1. Len(code) \in Nat /\ DOMAIN code = 1..Len(code)
        BY <3>1, LenProperties
      <4> QED
        BY <1>0, <1>3, <4>1 DEF PreprocInst, Reading
    <3>3. line \in [inst : STRING, args : Seq([type : TokenTypes, val : Nat])]
      BY <2>1, <3>1, <3>2, ElementOfSeq
    <3> QED
      BY <2>1, <3>1, <3>2, <3>3 DEF IsArgs
  <2>3. Emits(Emitted)
    BY <2>1, <2>2, EmitsInst DEF Emitted
  <2>4. actions' \in Seq(Acts)
    BY <1>3, <2>3, ConcatProperties DEF PreprocInst, SvasmInv, Emits
  <2> QED
    BY <1>0, <1>3, <2>4 DEF PreprocInst, Reading, SvasmInv
<1>4. CASE RefuseLine
  BY <1>4 DEF RefuseLine, Reading, SvasmInv
<1> QED
  BY <1>1, <1>2, <1>3, <1>4

LEMMA ResolveStep ==
  ASSUME SvasmInv, ResolveLabels
  PROVE  SvasmInv'
<1>1. PICK acts \in Seq(Acts) : acts = actions
  BY DEF SvasmInv
<1>2. ASSUME NEW a \in Acts PROVE Resolved(a) \in Acts
  <2>1. CASE a.type = "label"
    <3>1. PICK v \in Nat : v = IF a.val \in DOMAIN labels THEN labels[a.val] ELSE 0
      BY DEF SvasmInv
    <3>2. Resolved(a) = [a EXCEPT !.type = "unsigned_n", !.val = v]
      BY <2>1, <3>1 DEF Resolved
    <3>3. "unsigned_n" \in TokenTypes /\ "unsigned_n" \notin Register
      BY TypesUsed
    <3> QED
      BY <3>2, <3>3 DEF Acts, IsAct
  <2>2. CASE a.type # "label"
    BY <2>2 DEF Resolved
  <2> QED
    BY <2>1, <2>2
<1>3. PICK n \in Nat : n = Len(acts) /\ DOMAIN acts = 1..n
  BY LenProperties
<1>4. \A i \in 1..n : Resolved(acts[i]) \in Acts
  BY <1>2, <1>3, ElementOfSeq
<1>5. actions' = [i \in 1..n |-> Resolved(acts[i])]
  BY <1>1, <1>3 DEF ResolveLabels
<1>6. actions' \in Seq(Acts)
  BY <1>4, <1>5, IsASeq
<1>7. Len(actions') \in Nat
  BY <1>6, LenProperties
<1>8. phase = "preproc" /\ phase' = "assemble" /\ UNCHANGED <<prog, labels, starts, compiled, file, loaded>>
  BY DEF ResolveLabels
<1>9. Codes(actions', 0)
  BY DEF Codes
<1>10. Header \o Compiled(actions', 0) = Header
  <2>1. PICK h \in Seq(Nat) : h = Header
    BY NumberBytes, DefaultMemAssumption DEF Header
  <2> QED
    BY <2>1, CompiledNone, ConcatEmptySeq
<1> QED
  BY <1>6, <1>7, <1>8, <1>9, <1>10 DEF SvasmInv

LEMMA CompileStep ==
  ASSUME SvasmInv, CompileAction
  PROVE  SvasmInv'
<1>1. /\ phase = "assemble" /\ phase' = "assemble" /\ compiled < Len(actions) /\ compiled' = compiled + 1
      /\ Compiles(actions[compiled + 1]) /\ file' = file \o compileInst(actions[compiled + 1])
      /\ UNCHANGED <<prog, labels, starts, loaded, actions>>
  BY DEF CompileAction, compileAll
<1>2. PICK n \in Nat : n = Len(actions)
  BY LenProperties DEF SvasmInv
<1>3. PICK k \in Nat : k = compiled /\ k + 1 \in 1..n
  BY <1>1, <1>2 DEF SvasmInv
<1>4. Codes(actions, k + 1)
  <2>1. actions[k + 1] \in Acts
    BY <1>2, <1>3, ElementOfSeq DEF SvasmInv
  <2>2. Action(actions[k + 1]) /\ Compiles(actions[k + 1])
    BY <1>1, <1>3, <2>1, ActIsAction
  <2>3. Codes(actions, k)
    BY <1>1, <1>3 DEF SvasmInv
  <2>4. \A i \in 1..(k + 1) : i \in 1..k \/ i = k + 1
    OBVIOUS
  <2> QED
    BY <2>2, <2>3, <2>4 DEF Codes
<1>5. file' = Header \o Compiled(actions, k + 1)
  <2>1. PICK h \in Seq(Nat) : h = Header
    BY NumberBytes, DefaultMemAssumption DEF Header
  <2>0. /\ Compiled(actions, k) \in Seq(Nat) /\ compileInst(actions[k + 1]) \in Seq(Nat)
        /\ Compiled(actions, k + 1) = Compiled(actions, k) \o compileInst(actions[k + 1])
    <3>1. PICK acts : acts = actions
      OBVIOUS
    <3>2. Codes(acts, k + 1)
      BY <1>4, <3>1
    <3> QED
      BY <3>1, <3>2, CompiledStep
  <2>2. PICK s \in Seq(Nat) : s = Compiled(actions, k)
    BY <2>0
  <2>3. PICK t \in Seq(Nat) : t = compileInst(actions[k + 1])
    BY <2>0
  <2>4. Compiled(actions, k + 1) = s \o t
    BY <2>0, <2>2, <2>3
  <2>7. file = Header \o Compiled(actions, compiled)
    BY <1>1 DEF SvasmInv
  <2>8. file' = file \o compileInst(actions[k + 1])
    BY <1>1, <1>3
  <2>5. file' = (h \o s) \o t
    BY <1>3, <2>1, <2>2, <2>3, <2>7, <2>8
  <2>6. (h \o s) \o t = h \o (s \o t)
    BY ConcatAssociative
  <2> QED
    BY <2>1, <2>4, <2>5, <2>6
<1>6. compiled' \in 0..Len(actions)
  BY <1>1, <1>2, <1>3
<1> QED
  BY <1>1, <1>3, <1>4, <1>5, <1>6 DEF SvasmInv

LEMMA LinkStep ==
  ASSUME SvasmInv, Link
  PROVE  SvasmInv'
<1>1. /\ phase = "assemble" /\ phase' = "load" /\ compiled = Len(actions) /\ file' = link(file)
      /\ UNCHANGED <<prog, labels, starts, loaded, actions>>
  BY DEF Link
<1>2. PICK n \in Nat : n = Len(actions)
  BY LenProperties DEF SvasmInv
<1>3. Codes(actions, n) /\ file = Header \o Main(actions) /\ loaded = Undecoded
  BY <1>1, <1>2 DEF SvasmInv, Main
<1>4. file' = LinkedFile(Main(actions))
  <2>1. PICK main \in Seq(Nat) : main = Main(actions)
    BY <1>2, <1>3, CompiledType DEF Main
  <2> QED
    BY <1>1, <1>3, <2>1, LinksTheCode
<1>5. 0 \in 0..Len(actions) /\ Reads(actions, loaded, 0)
  BY <1>2, <1>3, ReadsNothing
<1> QED
  BY <1>1, <1>2, <1>3, <1>4, <1>5 DEF SvasmInv

(* The code the runner reads is the code that was written, if the file is  *)
(* short.                                                                  *)
LEMMA CodeOfFile ==
  ASSUME SvasmInv, ShortFile, phase = "load"
  PROVE  decodeFile(file).code = Main(actions)
<1>1. file = LinkedFile(Main(actions)) /\ Codes(actions, Len(actions)) /\ actions \in Seq(Acts)
  BY DEF SvasmInv
<1>2. PICK main \in Seq(Nat) : main = Main(actions) /\ Len(main) \in Nat
  <2>1. Len(actions) \in Nat
    BY <1>1, LenProperties
  <2> QED
    BY <1>1, <2>1, CompiledType DEF Main
<1>3. Len(main) < Word
  <2>1. PICK h \in Seq(Nat) : h = Header
    BY NumberBytes, DefaultMemAssumption DEF Header
  <2>2. PICK num \in Seq(Nat) : num = ULLTOA(Len(main))
    BY <1>2, NumberBytes
  <2>3. PICK front \in Seq(Nat) : front = h \o num /\ Len(front) \in Nat
    BY FileParts
  <2>4. Len(front \o main) = Len(front) + Len(main)
    BY FileParts
  <2>5. file = front \o main
    BY <1>1, <1>2, <2>1, <2>2, <2>3 DEF LinkedFile
  <2>6. PICK w \in Nat : w = Word
    BY WordFacts
  <2> QED
    BY <1>2, <2>3, <2>4, <2>5, <2>6 DEF ShortFile
<1> QED
  BY <1>1, <1>2, <1>3, FindsTheCode

LEMMA DecodeStep ==
  ASSUME SvasmInv, ShortFile, DecodeAction
  PROVE  SvasmInv'
<1>1. /\ phase = "load" /\ phase' = "load" /\ loaded.i <= Len(decodeFile(file).code)
      /\ loaded' = decodeByteArray(decodeFile(file).code, loaded)
      /\ UNCHANGED <<prog, labels, starts, actions, file>>
  BY DEF DecodeAction
<1>2. decodeFile(file).code = Main(actions)
  BY <1>1, CodeOfFile
<1>3. PICK n \in Nat : n = Len(actions)
  BY LenProperties DEF SvasmInv
<1>4. PICK k \in 0..n : Reads(actions, loaded, k)
  BY <1>1, <1>3 DEF SvasmInv
<1>5. Codes(actions, Len(actions)) /\ actions \in Seq(Acts)
  BY <1>1 DEF SvasmInv
<1>6. k # n
  BY <1>1, <1>2, <1>3, <1>4, <1>5, CodeLeft
<1>7. k \in Nat /\ k + 1 \in 1..n /\ k + 1 \in 0..n
  BY <1>6
<1>8. Reads(actions, loaded', k + 1)
  <2>1. actions[k + 1] \in Acts
    BY <1>3, <1>5, <1>7, ElementOfSeq
  <2> QED
    BY <1>1, <1>2, <1>3, <1>4, <1>5, <1>7, <2>1, ReadsMore
<1> QED
  BY <1>1, <1>3, <1>7, <1>8 DEF SvasmInv

LEMMA StartStep ==
  ASSUME SvasmInv, ShortFile, StartProcess
  PROVE  SvasmInv'
<1>1. /\ phase = "load" /\ phase' = "run" /\ loaded.i > Len(decodeFile(file).code)
      /\ UNCHANGED <<prog, labels, starts, actions, file, loaded>>
  BY DEF StartProcess
<1>2. decodeFile(file).code = Main(actions)
  BY <1>1, CodeOfFile
<1>3. PICK n \in Nat : n = Len(actions)
  BY LenProperties DEF SvasmInv
<1>4. PICK k \in 0..n : Reads(actions, loaded, k)
  BY <1>1, <1>3 DEF SvasmInv
<1>5. Codes(actions, Len(actions))
  BY <1>1 DEF SvasmInv
<1>6. k = n
  <2>1. loaded.i \in Nat
    BY <1>4 DEF Reads, Reader
  <2>2. PICK l \in Nat : l = Len(Main(actions))
    BY <1>3, <1>5, CompiledType DEF Main
  <2>3. ~(loaded.i <= Len(Main(actions)))
    BY <1>1, <1>2, <2>1, <2>2
  <2> QED
    BY <1>3, <1>4, <1>5, <2>3, CodeLeft
<1> QED
  BY <1>1, <1>3, <1>4, <1>6 DEF SvasmInv

LEMMA StepInv ==
  ASSUME SvasmInv, ShortFile, [Next]_vars
  PROVE  SvasmInv'
<1>1. CASE RefuseAction
  BY <1>1 DEF RefuseAction, SvasmInv
<1>2. CASE ExecuteStep
  BY <1>2 DEF ExecuteStep, SvasmInv
<1>3. CASE Finish
  BY <1>3 DEF Finish, SvasmInv
<1>4. CASE UNCHANGED vars
  BY <1>4 DEF vars, SvasmInv
<1> QED
  BY <1>1, <1>2, <1>3, <1>4, PreprocSteps, ResolveStep, CompileStep, LinkStep, DecodeStep, StartStep
     DEF Next

(* Whatever the program, as long as its file is shorter than 2^64 bytes:   *)
(* what the runner loads is what the code generator emitted, each operand  *)
(* whole in the static data zone, and the assembler of the other language  *)
(* would write the same file for it (compileInst, COMPBA, decodeByteArray, *)
(* EXTDBA, assembleAction).                                                *)
THEOREM RoundTripHolds == Spec /\ []ShortFile => []RoundTrip
<1>1. SvasmInv /\ ShortFile /\ [Next]_vars => SvasmInv'
  BY StepInv
<1> QED
  BY InitInv, InvRoundTrip, <1>1, PTL DEF Spec
-----------------------------------------------------------------------------
(* The machine that executes what was loaded.  The zone of the operands,   *)
(* and the longest operand behind it, lie in the memory.                   *)
ZoneFits == Len(loaded.sdz) + 16 <= MemLen

(* What is loaded, from the phase that loads it on. *)
LEMMA ZoneType ==
  ASSUME SvasmInv, phase \in {"load", "run", "done"}
  PROVE  loaded.sdz \in Seq(Byte) /\ Len(loaded.sdz) \in Nat
<1>1. PICK k : Reads(actions, loaded, k)
  BY DEF SvasmInv
<1>2. loaded.sdz \in Seq(Byte)
  BY <1>1 DEF Reads
<1> QED
  BY <1>2, LenProperties

(* The action the machine is at is an instruction with its operand in the  *)
(* memory.                                                                 *)
LEMMA AtAnInstruction ==
  ASSUME SvasmInv, ZoneFits, phase = "run", m \in Machine, m.step < Len(loaded.actions)
  PROVE  Fits(loaded.actions[m.step + 1]) /\ loaded.actions[m.step + 1].op \in Plainly \cup Stores
<1>1. PICK n : n = Len(actions) /\ Reads(actions, loaded, n)
  BY DEF SvasmInv
<1>2. /\ loaded.actions \in Seq(LoadedAct) /\ Len(loaded.actions) = n /\ n \in Nat
      /\ \A i \in 1..n : loaded.actions[i].addr <= Len(loaded.sdz)
  <2>1. loaded.actions \in Seq(LoadedAct) /\ Len(loaded.actions) = n
        /\ \A i \in 1..n : loaded.actions[i].addr <= Len(loaded.sdz)
    BY <1>1 DEF Reads, Reader
  <2> QED
    BY <2>1, LenProperties
<1>3. PICK i \in 1..n : i = m.step + 1
  <2>1. m.step \in 0..(Word - 1)
    BY DEF Machine
  <2>2. PICK s \in Nat : s = m.step
    <3>1. m.step \in Nat
      <4>1. \A x \in 0..(Word - 1) : x \in Nat
        BY Widths
      <4> QED
        BY <2>1, <4>1
    <3> QED
      BY <3>1
  <2>3. s + 1 \in 1..n
    BY <1>2, <2>2
  <2> QED
    BY <2>2, <2>3
<1>4. PICK a \in LoadedAct : a = loaded.actions[i] /\ a.addr <= Len(loaded.sdz)
  BY <1>2, ElementOfSeq
<1>5. a.op \in Executed /\ a.addr \in Nat /\ a.opt \in Nat
  BY DEF LoadedAct
<1>6. a.addr + 16 <= MemLen
  <2>1. PICK z \in Nat : z = Len(loaded.sdz) /\ z + 16 <= MemLen
    BY ZoneType DEF ZoneFits
  <2>2. PICK w \in Nat : w = MemLen
    BY MemLenAssumption
  <2> QED
    BY <1>4, <1>5, <2>1, <2>2
<1> QED
  BY <1>3, <1>4, <1>5, <1>6 DEF Fits, Executed

LEMMA StartsTyped ==
  ASSUME SvasmInv, ZoneFits, phase = "load", m \in Machine
  PROVE  /\ _MSBytes(m, 0, loaded.sdz) \in Machine
         /\ \A c \in DOMAIN loaded.sdz : _MSBytes(m, 0, loaded.sdz).mem[c - 1] = loaded.sdz[c]
<1>1. PICK n \in Nat : n = Len(loaded.sdz) /\ n + 16 <= MemLen
  BY ZoneType DEF ZoneFits
<1>2. PICK zone : zone = loaded.sdz /\ zone \in [1..n -> Byte]
  <2>1. loaded.sdz \in Seq(Byte)
    BY ZoneType
  <2> QED
    BY <1>1, <2>1, LenProperties
<1>3. 0 \in Nat /\ _MSBytes(m, 0, zone) \in Machine
  BY <1>2, WriteBytes DEF Above
<1>4. ASSUME NEW c \in 1..n PROVE _MSBytes(m, 0, zone).mem[c - 1] = zone[c]
  <2>1. Len(zone) = n /\ n # 0
    BY <1>2, <1>4, FunctionSequence
  <2>2. PICK w \in Nat : w = MemLen
    BY MemLenAssumption
  <2>3. Valid(0, n)
    BY <1>1, <2>2 DEF Valid
  <2>4. DOMAIN m.mem = 0..(w - 1)
    BY <2>2 DEF Machine
  <2>5. c - 1 \in 0..(w - 1) /\ c - 1 \in 0..(0 + n - 1) /\ (c - 1) - 0 + 1 = c
    BY <1>1, <2>2
  <2>6. _MSBytes(m, 0, zone) = [m EXCEPT !.mem = [x \in 0..(w - 1) |->
           IF x \in 0..(0 + n - 1) THEN zone[x - 0 + 1] ELSE m.mem[x]]]
    BY <2>1, <2>3, <2>4 DEF _MSBytes
  <2>7. _MSBytes(m, 0, zone).mem = [x \in 0..(w - 1) |->
           IF x \in 0..(0 + n - 1) THEN zone[x - 0 + 1] ELSE m.mem[x]]
    BY <2>6 DEF Machine
  <2> QED
    BY <2>5, <2>7
<1> QED
  BY <1>2, <1>3, <1>4

LEMMA InitTyped == Init => TypeOK
BY ProgramsAssumption DEF Init, TypeOK

LEMMA StepTyped ==
  ASSUME SvasmInv, ZoneFits, TypeOK, [Next]_vars
  PROVE  TypeOK'
<1>1. CASE StartProcess
  BY <1>1, StartsTyped DEF StartProcess, TypeOK
<1>2. CASE ExecuteStep
  <2>1. PICK a : a = loaded.actions[m.step + 1]
    OBVIOUS
  <2>2. PICK g \in Garbage : m' = execute1(m, a, g)
    BY <1>2, <2>1 DEF ExecuteStep
  <2>3. g \in Nat
    <3>1. g \in 0..(Word - 1)
      BY GarbageAssumption
    <3> QED
      BY <3>1, Widths
  <2>4. m \in Machine /\ snap \in Machine
    BY DEF TypeOK
  <2>5. Fits(a) /\ a.op \in Plainly \cup Stores
    BY <1>2, <2>1, <2>4, AtAnInstruction DEF ExecuteStep
  <2>6. m' \in Machine
    BY <2>2, <2>3, <2>4, <2>5, InstructionsKeepMachine
  <2>7. snap' \in Machine
    BY <1>2, <2>4, <2>6 DEF ExecuteStep
  <2> QED
    BY <1>2, <2>6, <2>7 DEF ExecuteStep, TypeOK
<1>3. CASE DefineLabel \/ SafetyControl \/ PreprocInst \/ RefuseLine \/ ResolveLabels
  BY <1>3 DEF TypeOK, DefineLabel, SafetyControl, PreprocInst, RefuseLine, ResolveLabels, Reading
<1>4. CASE CompileAction \/ RefuseAction \/ Link \/ DecodeAction \/ Finish
  BY <1>4 DEF TypeOK, CompileAction, RefuseAction, Link, DecodeAction, Finish
<1>5. CASE UNCHANGED vars
  BY <1>5 DEF vars, TypeOK
<1> QED
  BY <1>1, <1>2, <1>3, <1>4, <1>5 DEF Next

(* A machine stays one: whatever the program, its registers, bytes, flags  *)
(* and counters keep their widths through every instruction, and what was  *)
(* asked of the devices is made of numbers and bytes (execute1, the        *)
(* registers of regs_decl.h).                                              *)
THEOREM MachineTypeCorrect == Spec /\ []ShortFile /\ []ZoneFits => []TypeOK
<1>1. SvasmInv /\ TypeOK /\ ShortFile /\ ZoneFits /\ [Next]_vars => (SvasmInv /\ TypeOK)'
  BY StepInv, StepTyped
<1> QED
  BY InitInv, InitTyped, <1>1, PTL DEF Spec

-----------------------------------------------------------------------------
(* The operands.  Only a storing instruction can change one, and only by   *)
(* storing below the end of their zone.                                    *)
StoresAbove ==
  phase = "run" /\ m.ok /\ m.step < Len(loaded.actions) =>
     LET a == loaded.actions[m.step + 1]
     IN  a.op \in Stores => Destination(m, a) >= Len(loaded.sdz)

LEMMA ExecuteKeepsOperands ==
  ASSUME SvasmInv, ZoneFits, TypeOK, StoresAbove, OperandsIntact, ExecuteStep
  PROVE  OperandsIntact'
<1>1. PICK a : a = loaded.actions[m.step + 1]
  OBVIOUS
<1>2. PICK g \in Garbage : m' = execute1(m, a, g)
  BY <1>1 DEF ExecuteStep
<1>3. g \in Nat
  <2>1. g \in 0..(Word - 1)
    BY GarbageAssumption
  <2> QED
    BY <2>1, Widths
<1>4. m \in Machine
  BY DEF TypeOK
<1>5. phase = "run" /\ Fits(a) /\ a.op \in Plainly \cup Stores
  BY <1>1, <1>4, AtAnInstruction DEF ExecuteStep
<1>6. \A c \in 0..(MemLen - 1) : (a.op \in Stores => c < Destination(m, a)) => m'.mem[c] = m.mem[c]
  BY <1>2, <1>3, <1>4, <1>5, InstructionsKeepMachine
<1>7. PICK n \in Nat : n = Len(loaded.sdz) /\ n + 16 <= MemLen /\ DOMAIN loaded.sdz = 1..n
  <2>1. loaded.sdz \in Seq(Byte) /\ Len(loaded.sdz) \in Nat
    BY <1>5, ZoneType
  <2> QED
    BY <2>1, LenProperties DEF ZoneFits
<1>8. a.op \in Stores => Destination(m, a) \in Nat /\ Destination(m, a) >= n
  <2>1. a.op \in Stores => Destination(m, a) \in Nat
    BY <1>4, <1>5, DestinationType
  <2> QED
    BY <1>1, <1>7, <2>1 DEF StoresAbove, ExecuteStep
<1>9. ASSUME NEW c \in 1..n PROVE m'.mem[c - 1] = m.mem[c - 1]
  <2>1. PICK w \in Nat : w = MemLen
    BY MemLenAssumption
  <2>2. c - 1 \in 0..(w - 1) /\ (a.op \in Stores => c - 1 < Destination(m, a))
    BY <1>7, <1>8, <2>1
  <2> QED
    BY <1>6, <2>1, <2>2
<1> QED
  BY <1>5, <1>7, <1>9 DEF OperandsIntact, ExecuteStep

LEMMA StepIntact ==
  ASSUME SvasmInv, ZoneFits, TypeOK, StoresAbove, OperandsIntact, [Next]_vars
  PROVE  OperandsIntact'
<1>1. CASE StartProcess
  BY <1>1, StartsTyped DEF StartProcess, TypeOK, OperandsIntact
<1>2. CASE DefineLabel \/ SafetyControl \/ PreprocInst \/ RefuseLine \/ ResolveLabels
  BY <1>2 DEF OperandsIntact, DefineLabel, SafetyControl, PreprocInst, RefuseLine, ResolveLabels, Reading
<1>3. CASE CompileAction \/ RefuseAction \/ Link \/ DecodeAction
  BY <1>3 DEF OperandsIntact, CompileAction, RefuseAction, Link, DecodeAction
<1>4. CASE Finish \/ UNCHANGED vars
  BY <1>4 DEF OperandsIntact, Finish, vars
<1> QED
  BY <1>1, <1>2, <1>3, <1>4, ExecuteKeepsOperands DEF Next

(* While no storing instruction stores below the end of their zone, no     *)
(* operand changes, whatever else the program does: every other            *)
(* instruction leaves the memory alone, and a store reaches up from its    *)
(* address only (memory_decl.h:29, the zone of read only values).          *)
THEOREM OperandsStay == Spec /\ []ShortFile /\ []ZoneFits /\ []StoresAbove => []OperandsIntact
<1>1. Init => OperandsIntact
  BY DEF Init, OperandsIntact
<1>2. SvasmInv /\ TypeOK /\ OperandsIntact /\ ShortFile /\ ZoneFits /\ StoresAbove /\ [Next]_vars
        => (SvasmInv /\ TypeOK /\ OperandsIntact)'
  BY StepInv, StepTyped, StepIntact
<1> QED
  BY InitInv, InitTyped, <1>1, <1>2, PTL DEF Spec
=============================================================================
