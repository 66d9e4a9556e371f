------------------------------ MODULE MCSvasmExec ------------------------------
EXTENDS SvasmExec

(* Tokens and lines. *)
LOCAL T(type, val) == [type |-> type, val |-> val]
LOCAL Reg(r)   == T(IF is_fp_reg(r) THEN "fp_reg" ELSE "reg", r)
LOCAL N(n)     == T("unsigned_n", n)
LOCAL D(n)     == T("double_n", n)
LOCAL AtR(r)   == T("at_reg", r)
LOCAL AtI(n)   == T("at_imm", n)
LOCAL TQ(q)    == T("type_quantifier", q)
LOCAL L1(inst, a)    == [inst |-> inst, args |-> <<a>>]
LOCAL L2(inst, a, b) == [inst |-> inst, args |-> <<a, b>>]
LOCAL Label(n)  == L1("[labeldef]", T("label", n))
LOCAL To(i, n)  == L1(i, T("label", n))
LOCAL Return    == [inst |-> "ret", args |-> <<>>]
LOCAL Unsafe    == L1("[safety_control]", T("safety_directive", 1))
LOCAL Safe      == L1("[safety_control]", T("safety_directive", 0))

MCDataBase == 192
MCMemLen   == 216
MCGarbage  == {0, 3}

(* A machine as a program finds it: some values in the registers, the     *)
(* stack and the memory empty; RBX points into the data.                  *)
LOCAL Started(a, b, rdi, rsi) ==
    [gp     |-> [f \in 0 .. 3 |-> [l |-> IF f = 0 THEN a ELSE IF f = 1 THEN b % 2 ELSE 1,
                                   h |-> IF f = 1 THEN (b \div 2) % 2 ELSE 0,
                                   x |-> IF f = 1 THEN b \div 4 ELSE 1,
                                   r |-> IF f = 1 THEN 12 ELSE f]],
     orphan |-> (R.RDI :> rdi) @@ (R.RSI :> rsi),
     fp     |-> [f \in R.FPR0 .. R.RFPR3 |-> Round(f, 2 + (f % 7))],
     cr |-> 1, stk |-> <<>>, mem |-> [c \in 0 .. MCMemLen - 1 |-> 0], flag |-> 255,
     step |-> 0, pca |-> 0, tree |-> <<>>, ext |-> <<>>, ok |-> TRUE]
LOCAL First  == Started(0, 7, 194, 2)
LOCAL Second == Started(1, 2, 2, 194)

(* The forms the code generator translates, one per program. *)
LOCAL Nums  == {R.BX, R.EAX, R.RAX, R.RBX, R.RCX}
LOCAL Whole == {R.RAX, R.EBX, R.RBX, R.CX}      \* not a part of RAX
LOCAL Fps   == {R.EFPR1, R.RFPR0, R.RFPR3}
LOCAL Maths == {"mul", "div", "add", "sub"}
LOCAL Logic == {"and", "or", "xor", "shl", "shr", "pow"}

LOCAL Forms ==
    {L2("mov", Reg(d), Reg(e)) : d \in Nums, e \in Nums}
    \cup {L2("mov", Reg(d), N(v)) : d \in {R.AX, R.RBX}, v \in {0, 1, 255}}
    \cup {L2("mov", Reg(R.RFPR1), D(9)), L2("mov", Reg(R.CR), T("str", 0)),
          L2("mov", Reg(R.FPR0), Reg(R.RFPR0)), L2("mov", Reg(R.RFPR0), Reg(R.RFPR3))}
    \cup {L1(op, Reg(d)) : op \in {"inc", "dec", "log", "log2", "log10"}, d \in {R.AX, R.RBX, R.EFPR1}}
    \cup {L1("not", Reg(R.EBX)), L1("sdzs", Reg(R.RBX))}
    \cup {L2(op, Reg(d), Reg(e)) : op \in Maths \cup Logic, d \in {R.EAX, R.RBX}, e \in {R.RAX, R.BX}}
    \cup {L2(op, Reg(d), N(3)) : op \in Maths \cup Logic, d \in Whole}
    \cup {L2(op, Reg(d), Reg(e)) : op \in Maths \cup {"pow"}, d \in Fps, e \in {R.RFPR0, R.RFPR3}}
    \cup {L2(op, Reg(d), D(3)) : op \in Maths, d \in Fps}
    \cup {L1("push", Reg(r)) : r \in {R.AX, R.CR, R.RFPR1}}
    \cup {L2("push", TQ(q), t) : q \in 1 .. 4, t \in {Reg(R.RBX), AtR(R.RBX)}}
    \cup {L2("mload", t, v) : t \in {AtI(194), AtR(R.RBX)}, v \in {Reg(R.RBX), Reg(R.CR), N(7), D(9)}}
    \cup {L2("mload", AtI(194), Reg(R.ECX)), L2("mload", AtR(R.RBX), Reg(R.RFPR0))}
    \cup {L2("mload", d, t) : t \in {AtI(194), AtR(R.RBX)}, d \in {Reg(R.RBX), Reg(R.CR), Reg(R.RFPR1)}}
    \cup {L2("cmp", Reg(d), Reg(e)) : d \in {R.EAX, R.RBX}, e \in {R.AX, R.RBX}}
    \cup {L2("cmp", Reg(d), D(3)) : d \in Fps}
    \cup {[inst |-> "nopn", args |-> <<N(1), N(2), N(3), N(4)>>], L2("nsnd", N(1), N(194)), L1("nrcv", N(2))}

(* #unsafe, and what is refused without it. *)
LOCAL UnsafeForms ==
    {L2("add", Reg(R.RBX), N(3)), L2("xor", Reg(R.RAX), N(3)), L2("mul", Reg(R.RFPR3), D(2)),
     L2("mload", AtI(194), Reg(R.RAX)), L2("mload", Reg(R.RCX), AtI(194)), L2("cmp", Reg(R.RFPR0), D(3)),
     L2("nget", N(1), N(194)), L1("push", N(9)), L1("push", D(9)), L2("push", TQ(4), AtI(194)),
     L2("pow", Reg(R.RFPR0), D(2)), L2("mload", AtI(194), D(9))}
LOCAL RefusedForms == {L1("push", N(9)), L2("push", TQ(4), AtI(194)), L1("inc", Reg(R.CR)), L1("int", Reg(R.RAX)),
                       L2("pow", Reg(R.RFPR0), D(2)), L2("mov", Reg(R.RAX), D(1))}

(* Jumps, calls and data that goes through the stack and the memory. *)
LOCAL Control == {
    <<To("jmp", 2), Label(1), L1("inc", Reg(R.RBX)), To("jmp", 3), Label(2), To("call", 1), Label(3)>>,
    <<To("jmp", 9), Label(1), To("call", 2), L1("inc", Reg(R.RCX)), Return,
      Label(2), L1("inc", Reg(R.RBX)), Return, Label(9), To("call", 1), To("call", 2)>>,
    <<L2("mov", Reg(R.RCX), N(0)), Label(1), L1("inc", Reg(R.RCX)), L2("mov", Reg(R.RDX), N(2)),
      L2("cmp", Reg(R.RCX), Reg(R.RDX)), To("jl", 1), To("jge", 2), L1("dec", Reg(R.RCX)), Label(2)>>,
    <<L2("cmp", Reg(R.RAX), Reg(R.RBX)), To("je", 1), To("jg", 2), Label(1), L1("inc", Reg(R.RAX)), Label(2)>>,
    <<Label(1), L1("inc", Reg(R.RCX)), L2("cmp", Reg(R.BX), Reg(R.CX)), To("jg", 1)>>,
    <<L1("push", Reg(R.RBX)), L2("mload", AtI(194), Reg(R.RBX)), L2("mul", Reg(R.RBX), N(2)),
      L2("mload", Reg(R.RCX), AtI(194)), L1("pop", Reg(R.RAX)), Unsafe, L1("push", N(5)), Safe,
      L1("pop", Reg(R.RDX))>>,
    <<L1("push", Reg(R.RFPR0)), L1("pop", Reg(R.RFPR1)), L1("push", Reg(R.CR)), L1("pop", Reg(R.CR)),
      L2("push", TQ(2), Reg(R.RBX)), L2("pop", TQ(2), Reg(R.CX))>>}

LOCAL Single == {<<f>> : f \in Forms \cup RefusedForms} \cup {<<Unsafe, f>> : f \in UnsafeForms}
MCPrograms == [code : Single \cup Control, machine : {First, Second}]
              \cup [code : {<<L1("str", Reg(R.RBX))>>}, machine : {First}]
              \cup [code : {<<L1("int", N(5))>>}, machine : {Second}]

(* An operand that shares its register with the one that holds the number. *)
MCScratch == [code : {<<L2("add", Reg(R.EAX), N(3))>>}, machine : {First}]

(* A character compared in a loop. *)
MCCharacter == [code : {<<L2("mov", Reg(R.RCX), N(3)), Label(1), L1("dec", Reg(R.RCX)),
                          L2("cmp", Reg(R.RBX), Reg(R.CR)), To("jmp", 1)>>}, machine : {First}]
=============================================================================
