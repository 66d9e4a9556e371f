------------------------------ MODULE SvasmSource ------------------------------
(***************************************************************************)
(* What a program of src/SVASM means, line by line, with no scratch        *)
(* register, no operand in memory and no action numbers: an instruction    *)
(* changes what it names and nothing else, a call comes back to the line   *)
(* after it, and #unsafe gives up the registers the code generator uses.   *)
(* The state s is a machine whose memory starts at DataBase, the first     *)
(* address that src/SVASM/README.md leaves to programs.                    *)
(***************************************************************************)
EXTENDS VasmMachine

CONSTANTS
    Programs,   \* the programs [code, machine]: lines [inst, args], and what they start with
    Garbage,    \* what an uninitialised buffer may hold
    DataBase    \* the first address behind the static data zone

VARIABLES
    code,       \* the lines of the program
    s,          \* the machine
    line,       \* the next line
    rets        \* the lines the calls come back to

vars == <<code, s, line, rets>>

Directives == {"[labeldef]", "[safety_control]"}
LinesFrom(k) == {i \in k .. Len(code) : code[i].inst \notin Directives}
Skip(k)      == IF LinesFrom(k) = {} THEN Len(code) + 1 ELSE CHOOSE i \in LinesFrom(k) : \A j \in LinesFrom(k) : i <= j
LineOf(t)    == Skip(CHOOSE i \in DOMAIN code : code[i].inst = "[labeldef]" /\ code[i].args[1].val = t.val)
Unsafe(k)    == \E i \in 1 .. k : /\ code[i].inst = "[safety_control]" /\ code[i].args[1].val = 1
                                  /\ \A j \in i + 1 .. k : code[j].inst # "[safety_control]"

(* The value of an operand, and what a line does to its destination. *)
IsReg(t)   == t.type \in {"reg", "fp_reg"}
Value(t)   == IF ~IsReg(t) THEN t.val ELSE IF t.val = R.CR THEN s.cr ELSE ReadReg(s, t.val)
Where(t)   == IF t.type = "at_reg" THEN ReadReg(s, t.val) ELSE t.val
Put(t, d, v) == IF d.val = R.CR THEN [t EXCEPT !.cr = v % Radix] ELSE WriteReg(t, d.val, v)
As(d, v)   == IF is_fp_reg(d.val) THEN Round(d.val, v) ELSE v
Result(op, d, x, y, g) ==
    IF is_fp_reg(d.val) THEN Put(s, d, FpOp(op, x, y))
    ELSE IF op = "div" /\ y = 0 THEN Undefined(s) ELSE Put(s, d, NumOp(op, x, y, g))
Size(t)    == CASE t.type \in {"fp_reg", "double_n"} -> 16
                [] t.type = "reg" /\ t.val = R.CR -> 1
                [] OTHER -> 8

Stored(args, g) ==
    IF IsReg(args[1]) THEN Put(s, args[1], _MG(s, Where(args[2]), Size(args[1]), g))
    ELSE _MS(s, Where(args[1]), Value(args[2]), Size(args[2]))
Pushed(args) ==
    LET t == Last(args)
        n == IF Len(args) = 2 THEN VOPTTOTQ(args[1].val) ELSE Size(t)
    IN  Push(s, IF IsReg(t) \/ Len(args) = 1 THEN Value(t) ELSE _MG(s, Where(t), n, 0), n)
Popped(args, g) ==
    LET t == Last(args)
        n == IF Len(args) = 2 THEN VOPTTOTQ(args[1].val) ELSE Size(t)
    IN  IF IsReg(t) THEN Put(Drop(s, n), t, Top(s, n, g)) ELSE _MS(Drop(s, n), Where(t), Top(s, n, 0), n)

(* A network instruction: the operands not written are the registers'. *)
Request == [nopn |-> "nopen", ncep |-> "ncrtep", ncls |-> "nclose", nrcv |-> "nhrecv",
            nsnd |-> "nsend", nget |-> "nget", nsep |-> "nselep"]
Asked(inst, args) ==
    LET Given(i, r) == IF Len(args) > i THEN args[i + 1].val ELSE r
    IN  Emit(s, <<Request[inst], args[1].val, Given(1, s.orphan[R.RDI]), Given(2, s.orphan[R.RSI]),
                  Given(3, ReadReg(s, R.RDX))>>)

Effect(inst, args, g) ==
    LET d == args[1]
    IN  CASE inst = "mov" -> Put(s, d, Value(args[2]))
          [] inst = "inc" -> Result("add", d, Value(d), 1, g)
          [] inst = "dec" -> Result("sub", d, Value(d), 1, g)
          [] inst \in {"mul", "div", "add", "sub", "and", "or", "xor", "pow"} ->
                 Result(inst, d, Value(d), As(d, Value(args[2])), g)
             \* the second operand is shifted by the first, as the machine defines them
          [] inst \in {"shl", "shr"} -> Result(inst, d, Value(args[2]), Value(d), g)
          [] inst \in {"not", "log", "log2", "log10"} -> Result(inst, d, Value(d), 0, g)
          [] inst = "push" -> Pushed(args)
          [] inst = "pop" -> Popped(args, g)
          [] inst = "mload" -> Stored(args, g)
          [] inst = "sdzs" -> Put(s, d, 4096)
          [] inst = "cmp" -> [s EXCEPT !.flag = Compared(Value(d), Value(args[2]))]
          [] inst = "str" -> Written(s, Decimal(Value(d)))
          [] inst = "int" -> pass(s, d.val, g)
          [] inst \in DOMAIN Request -> Asked(inst, args)

(* What an #unsafe line may lose: the registers it does not name. *)
SameBut(t, l) ==
    LET named == {l.args[i].val : i \in {j \in DOMAIN l.args : IsReg(l.args[j]) \/ l.args[j].type = "at_reg"}}
        Kept(f) == f \notin {0, 1, 3} \/ \E r \in named : ~is_fp_reg(r) /\ r < R.CR /\ Family(r) = f
    IN  /\ \A f \in 0 .. 3 : Kept(f) => s'.gp[f] = t.gp[f]
        /\ \A r \in DOMAIN t.fp : r \in named \/ r < R.RFPR2 => s'.fp[r] = t.fp[r]
        /\ s' = [t EXCEPT !.gp = s'.gp, !.fp = s'.fp, !.orphan = s'.orphan]

Jumps == [jmp |-> 0 .. NoFlag, je |-> {0}, jl |-> {1}, jg |-> {2}, jle |-> {0, 1}, jge |-> {0, 2}]
-----------------------------------------------------------------------------
(* The part of a machine that the language gives a meaning to. *)
Visible(m) == [m EXCEPT !.step = 0, !.pca = 0, !.tree = <<>>,
                        !.mem = [c \in DataBase .. MemLen - 1 |-> m.mem[c]]]

Init == /\ \E p \in Programs : code = p.code /\ s = Visible(p.machine)
        /\ line = Skip(1)
        /\ rets = <<>>

Running == s.ok /\ line <= Len(code)

(* Memory, registers, stack and devices. *)
Instruction ==
    /\ Running
    /\ code[line].inst \notin DOMAIN Jumps \cup {"call", "ret"}
    /\ \E g \in Garbage :
          LET t == Effect(code[line].inst, code[line].args, g)
          IN  IF Unsafe(line) THEN SameBut(t, code[line]) ELSE s' = t
    /\ line' = Skip(line + 1)
    /\ UNCHANGED rets

Jump ==
    /\ Running
    /\ code[line].inst \in DOMAIN Jumps
    /\ IF s.flag \in Jumps[code[line].inst]
       THEN line' = LineOf(code[line].args[1]) /\ s' = IF code[line].inst = "jmp" THEN s ELSE [s EXCEPT !.flag = NoFlag]
       ELSE line' = Skip(line + 1) /\ s' = s
    /\ UNCHANGED rets

Call ==
    /\ Running
    /\ code[line].inst = "call"
    /\ line' = LineOf(code[line].args[1])
    /\ rets' = Append(rets, Skip(line + 1))
    /\ UNCHANGED s

Ret ==
    /\ Running
    /\ code[line].inst = "ret"
    /\ rets # <<>>
    /\ line' = Last(rets)
    /\ rets' = Front(rets)
    /\ UNCHANGED s

Next == (Instruction \/ Jump \/ Call \/ Ret) /\ UNCHANGED code
Spec == Init /\ [][Next]_vars
=============================================================================
