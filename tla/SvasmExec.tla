------------------------------- MODULE SvasmExec -------------------------------
(***************************************************************************)
(* A program of the assembler src/SVASM from its tokens to its end: the    *)
(* code generator line by line, the resolution of the labels, the file,    *)
(* the runner that loads it and the engine that executes its actions.      *)
(***************************************************************************)
EXTENDS VexeFormat, VasmMachine

CONSTANTS
    Programs,   \* the programs [code, machine]
    Garbage,    \* what an uninitialised buffer may hold
    DataBase    \* the first address behind the static data zone

(* What the tokenizer hands to the code generator: the number of a         *)
(* register is one byte, and so is a character.  A buffer has eight.       *)
TokenTypes == Register \cup Address \cup Number_n
              \cup {"double_n", "str", "label", "type_quantifier", "safety_directive"}
IsToken(t) ==
    /\ t.type \in Register \cup {"at_reg"} => t.val \in 0 .. 255
    /\ t.type = "str" => t.val \in Byte
ASSUME GarbageAssumption == Garbage \subseteq 0 .. Word - 1
ASSUME ProgramsAssumption ==
    \A p \in Programs :
        /\ p.code \in Seq([inst : STRING, args : Seq([type : TokenTypes, val : Nat])])
        /\ \A k \in DOMAIN p.code : \A i \in DOMAIN p.code[k].args : IsToken(p.code[k].args[i])
        /\ p.machine \in Machine

VARIABLES
    prog,       \* the program
    phase,      \* "preproc", "assemble", "load", "run", "done" or "refused"
    unsafe,     \* unsafe_flag
    actions,    \* the actions emitted so far
    labels,     \* preprocLabels
    starts,     \* the number of actions in front of every line read so far
    compiled,   \* how many actions are in the file
    file,       \* the executable file
    loaded,     \* what the runner decoded: the actions and the operands
    m,          \* the machine
    snap        \* the machine when the last line was completed

vars == <<prog, phase, unsafe, actions, labels, starts, compiled, file, loaded, m, snap>>

code    == prog.code
cur     == Len(starts) + 1      \* the line that preprocTokenized is at

Init ==
    /\ prog \in Programs
    /\ phase = "preproc"
    /\ unsafe = FALSE
    /\ actions = <<>>
    /\ labels = <<>>
    /\ starts = <<>>
    /\ compiled = 0
    /\ file = Header
    /\ loaded = Undecoded
    /\ m = prog.machine
    /\ snap = prog.machine
-----------------------------------------------------------------------------
(* preprocTokenized: a label is the index of the action in front of it. *)
Reading == phase = "preproc" /\ cur <= Len(code)

DefineLabel ==
    /\ Reading
    /\ code[cur].inst = "[labeldef]"
    /\ LET label == code[cur].args[1].val
       IN  labels' = [l \in DOMAIN labels \cup {label} |->
                         IF l = label THEN (Len(actions) - 1) % Word ELSE labels[l]]
    /\ starts' = Append(starts, Len(actions))
    /\ UNCHANGED <<prog, phase, unsafe, actions, compiled, file, loaded, m, snap>>

SafetyControl ==
    /\ Reading
    /\ code[cur].inst = "[safety_control]"
    /\ unsafe' = (code[cur].args[1].val = 1)
    /\ starts' = Append(starts, Len(actions))
    /\ UNCHANGED <<prog, phase, actions, labels, compiled, file, loaded, m, snap>>

Emitted == preprocInst(code[cur].inst, code[cur].args, unsafe)
IsInstructionAt(k) == code[k].inst \notin {"[labeldef]", "[safety_control]"}

PreprocInst ==
    /\ Reading
    /\ IsInstructionAt(cur)
    /\ \A i \in DOMAIN Emitted : Emitted[i].op # "refused"
    /\ actions' = actions \o Emitted
    /\ starts' = Append(starts, Len(actions))
    /\ UNCHANGED <<prog, phase, unsafe, labels, compiled, file, loaded, m, snap>>

RefuseLine ==
    /\ Reading
    /\ IsInstructionAt(cur)
    /\ \E i \in DOMAIN Emitted : Emitted[i].op = "refused"
    /\ phase' = "refused"
    /\ UNCHANGED <<prog, unsafe, actions, labels, starts, compiled, file, loaded, m, snap>>

Resolved(a) ==
    IF a.type = "label"
    THEN [a EXCEPT !.type = "unsigned_n", !.val = IF a.val \in DOMAIN labels THEN labels[a.val] ELSE 0]
    ELSE a
ResolveLabels ==
    /\ phase = "preproc" /\ cur > Len(code)
    /\ actions' = [i \in DOMAIN actions |-> Resolved(actions[i])]
    /\ unsafe' = FALSE
    /\ phase' = "assemble"
    /\ UNCHANGED <<prog, labels, starts, compiled, file, loaded, m, snap>>

CompileAction ==
    /\ phase = "assemble"
    /\ compiled < Len(actions)
    /\ Compiles(actions[compiled + 1])
    /\ file' = compileAll(file, actions[compiled + 1])
    /\ compiled' = compiled + 1
    /\ UNCHANGED <<prog, phase, unsafe, actions, labels, starts, loaded, m, snap>>

RefuseAction ==
    /\ phase = "assemble"
    /\ compiled < Len(actions)
    /\ ~Compiles(actions[compiled + 1])
    /\ phase' = "refused"
    /\ UNCHANGED <<prog, unsafe, actions, labels, starts, compiled, file, loaded, m, snap>>

Link ==
    /\ phase = "assemble"
    /\ compiled = Len(actions)
    /\ file' = link(file)
    /\ phase' = "load"
    /\ UNCHANGED <<prog, unsafe, actions, labels, starts, compiled, loaded, m, snap>>
-----------------------------------------------------------------------------
(* The runner: one action at a time, until the code of the file is used up. *)
DecodeAction ==
    /\ phase = "load"
    /\ loaded.i <= Len(decodeFile(file).code)
    /\ loaded' = decodeByteArray(decodeFile(file).code, loaded)
    /\ UNCHANGED <<prog, phase, unsafe, actions, labels, starts, compiled, file, m, snap>>

(* The operands are at the front of the memory when the process starts. *)
StartProcess ==
    /\ phase = "load"
    /\ loaded.i > Len(decodeFile(file).code)
    /\ m' = _MSBytes(m, 0, loaded.sdz)
    /\ snap' = _MSBytes(m, 0, loaded.sdz)
    /\ phase' = "run"
    /\ UNCHANGED <<prog, unsafe, actions, labels, starts, compiled, file, loaded>>

(* Where the lines begin, and the line of an action number. *)
Starts     == Append(starts, Len(actions))
AtBoundary(step) == \E k \in DOMAIN Starts : Starts[k] = step
LineAt(step)     == CHOOSE k \in DOMAIN Starts :
                        /\ Starts[k] = step
                        /\ \A j \in k + 1 .. Len(Starts) : Starts[j] # step

ExecuteStep ==
    /\ phase = "run"
    /\ m.ok /\ m.step < Len(loaded.actions)
    /\ \E g \in Garbage : m' = execute1(m, loaded.actions[m.step + 1], g)
    /\ snap' = IF AtBoundary(m'.step) THEN m' ELSE snap
    /\ UNCHANGED <<prog, phase, unsafe, actions, labels, starts, compiled, file, loaded>>

Finish ==
    /\ phase = "run"
    /\ ~m.ok \/ m.step >= Len(loaded.actions)
    /\ phase' = "done"
    /\ UNCHANGED <<prog, unsafe, actions, labels, starts, compiled, file, loaded, m, snap>>

Next ==
    \/ DefineLabel \/ SafetyControl \/ PreprocInst \/ RefuseLine \/ ResolveLabels
    \/ CompileAction \/ RefuseAction \/ Link \/ DecodeAction \/ StartProcess \/ ExecuteStep \/ Finish

(* One thread assembles, loads and executes without waiting for anything. *)
Spec == Init /\ [][Next]_vars /\ WF_vars(Next)
-----------------------------------------------------------------------------
TypeOK ==
    /\ phase \in {"preproc", "assemble", "load", "run", "done", "refused"}
    /\ unsafe \in BOOLEAN
    /\ m \in Machine /\ snap \in Machine

\* The runner reads back from a file the actions the code generator
\* emitted, each with its operand whole and the optional byte in place, and
\* the assembler of the other language would write the same file for them
\* (compileInst, COMPBA, decodeByteArray, EXTDBA, assembleAction).
OperandOf(a) ==
    LET code0 == instructions_set[a.op]
    IN  CASE a.op = "set" /\ is_fp_reg(a.opt) -> Digits(a.val, 16)
          [] a.op = "set" /\ a.opt = R.CR -> <<a.val>>
          [] code0 \in zero_args_opcodes -> <<>>
          [] OTHER -> Reverse(Digits(a.val, 8))
RoundTrip ==
    phase \in {"run", "done"} =>
        /\ Len(loaded.actions) = Len(actions)
        /\ \A i \in DOMAIN actions :
              LET a == actions[i]
                  d == loaded.actions[i]
              IN  /\ d.op = a.op
                  /\ instructions_set[a.op] \in opt_arg_ops => d.opt = a.opt
                  /\ OperandOf(a) # <<>> =>
                        OperandOf(a) = SubSeq(loaded.sdz, d.addr + 1, d.addr + Len(OperandOf(a)))
        /\ as(loaded.sdz, loaded.actions) = file

\* While a program runs, no operand of its actions changes: what an action
\* does the second time it is reached is what it did the first time
\* (memory_decl.h:29, the zone of read only values; CRToNum, StoreReg).
OperandsIntact ==
    phase \in {"run", "done"} => \A c \in DOMAIN loaded.sdz : m.mem[c - 1] = loaded.sdz[c]

(* A call action is the second of the three of its line. *)
Callers(n) == [i \in DOMAIN n.tree |-> LineAt((IF i < Len(n.tree) THEN n.tree[i + 1] ELSE n.pca) + 2)]
FirstLine  == CHOOSE k \in 1 .. Len(code) + 1 :
                 /\ k <= Len(code) => IsInstructionAt(k)
                 /\ \A j \in 1 .. k - 1 : ~IsInstructionAt(j)
Loaded     == phase \in {"run", "done"}
Source == INSTANCE SvasmSource
              WITH code <- code,
                   s    <- [snap EXCEPT !.step = 0, !.pca = 0, !.tree = <<>>,
                                        !.mem = [c \in DataBase .. MemLen - 1 |-> snap.mem[c]]],
                   line <- IF Loaded THEN LineAt(snap.step) ELSE FirstLine,
                   rets <- IF Loaded THEN Callers(snap) ELSE <<>>

\* What is executed is the program: a line changes the registers, stack,
\* memory, devices and next line its instruction names and no other, calls
\* return to the line after them and jumps reach their label (all of
\* compiler.cpp, the file, the runner and the instructions).
ImplementsSource == Source!Spec

\* Every program that ends as written comes to its end, or is refused.
Finishes == <>(phase \in {"done", "refused"})
=============================================================================
