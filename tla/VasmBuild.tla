------------------------------ MODULE VasmBuild -----------------------------
(***************************************************************************)
(* The program of VPU_main.cpp with the compiler of src/Compiler in its    *)
(* build step: VpuShell's commands over a file system, each script built   *)
(* by VasmLinker's build_process from the statics the builds before it     *)
(* left.                                                                   *)
(***************************************************************************)
EXTENDS VpuShell, VasmLinker

CONSTANT FileSystems    \* the contents the files may have: [name -> lines]

(* Finitely many files, each of them finitely many lines. *)
ASSUME FileSystemsAssumption ==
    \A g \in FileSystems:
        /\ IsFiniteSet(DOMAIN g)
        /\ \A f \in DOMAIN g: g[f] \in Seq(Range(g[f]))

VARIABLES
    fs,        \* the files, fixed
    statics,   \* the file-scope variables of action_parser.cpp
    images     \* for each built script its actions and its _MRSZ requests

buildVars == <<vars, fs, statics, images>>

BuildInit == Init /\ fs \in FileSystems /\ statics = NoStatics /\ images = <<>>

(* The loop body of build: allocate, then build_process *)
LinkScript ==
    /\ MoreToBuild
    /\ LET b == build_process(fs, scripts[turn], statics)
       IN  /\ statics' = b.st
           /\ IF b.refused THEN BuildRefused /\ UNCHANGED images
              ELSE BuildScript /\ images' = Append(images, [actions |-> b.actions, requests |-> b.requests])
    /\ UNCHANGED fs

Command ==
    \/ \E f \in Scripts: Load(f)
    \/ \E f \in Scripts \cup {NoScript}: FileArgument(f)
    \/ Build \/ BuildDone \/ Start \/ StartReturns \/ Exit \/ UnknownCommand

BuildNext ==
    \/ LinkScript
    \/ Command /\ UNCHANGED <<fs, statics, images>>

BuildSpec == BuildInit /\ [][BuildNext]_buildVars

-----------------------------------------------------------------------------
(* What the source says, read without the compiler: the files a script     *)
(* reaches, their instructions, and where a tag points.                    *)
Lines(f) == LinesOf(fs, f)
Named(f, kind) == {l.name : l \in {l \in Range(Lines(f)): l.kind = kind}}

(* The files a script includes, and those they include, and so on: what    *)
(* every set of files has that has the script and all it includes.         *)
Files == DOMAIN fs \cup UNION {Named(f, "include"): f \in DOMAIN fs}
Reached(f) ==
    LET edges    == UNION {{g} \X Named(g, "include"): g \in Files}
        complete == {S \in SUBSET (Files \cup {f}):
                       f \in S /\ \A e \in edges: e[1] \in S => e[2] \in S}
    IN  {g \in Files \cup {f}: \A S \in complete: g \in S}
HeadersOf(f) == Reached(f) \ {f}

(* The lines of f that are instructions, and how many there are up to k *)
InstructionsOf(f) == {k \in DOMAIN Lines(f): Lines(f)[k].kind = "ins"}
Upto(ins, k) == Cardinality({j \in ins: j <= k})
Code(files) == UNION {{f} \X InstructionsOf(f): f \in files}

Holds(operand, value) == operand.kind = "value" /\ operand.of = value

(* The instructions of f follow position k of the actions of the image *)
Same(action, l) ==
    /\ action.op = l.name /\ action.dest = l.dest
    /\ l.arg.kind = "lit" => Holds(action.operand, l.arg.of)
PlacedAt(image, f, ins, k) == \A n \in ins: Same(image.actions[k + Upto(ins, n)], Lines(f)[n])
PlacesOf(image, f) ==
    LET ins == InstructionsOf(f)
    IN  {k \in 0..(Len(image.actions) - Cardinality(ins)): PlacedAt(image, f, ins, k)}

(* A script shares its headers with no script built before it *)
Fresh(i) == \A j \in 1..(i - 1): Reached(scripts[j]) \cap HeadersOf(scripts[i]) = {}

(* A script that shares its headers with none before it has every          *)
(* instruction of every file it reaches, each file once and in one piece,  *)
(* however the includes repeat, cross or come back to it.  (A header that  *)
(* an earlier script included is left out: included_headers.)              *)
CompleteWhenFresh ==
    \A i \in DOMAIN images: Fresh(i) =>
        /\ Len(images[i].actions) = Cardinality(Code(Reached(scripts[i])))
        /\ \A f \in Reached(scripts[i]): PlacesOf(images[i], f) # {}

(* A tag of file g counts the instructions of g before it *)
TagOffset(g, t) ==
    Upto(InstructionsOf(g), CHOOSE k \in DOMAIN fs[g]: fs[g][k].kind = "tag" /\ fs[g][k].name = t)

StartsWithTag(f) ==
    LET code == SelectSeq(Lines(f), LAMBDA l: l.kind \in {"ins", "tag"})
    IN  code = <<>> \/ code[1].kind = "tag"

IncludesOnce(f) ==
    Cardinality({k \in DOMAIN Lines(f): Lines(f)[k].kind = "include"}) = Cardinality(Named(f, "include"))

(* The headers of a script are numbered as they are laid out if none of    *)
(* them includes another file, none is included twice and no script before *)
(* it included anything; the script's own tags always are.                 *)
Orderly(i, g) ==
    /\ ~StartsWithTag(scripts[i])
    /\ \/ g = scripts[i]
       \/ /\ \A h \in HeadersOf(scripts[i]): Named(h, "include") = {}
          /\ IncludesOnce(scripts[i])
          /\ \A j \in 1..(i - 1): Named(scripts[j], "include") = {}

(* Every operand in image that is the symbol s in the source *)
OperandsOf(image, f, s) ==
    LET ins == InstructionsOf(f)
    IN  {image.actions[k + Upto(ins, n)].operand:
            k \in PlacesOf(image, f), n \in {n \in ins: Lines(f)[n].arg = [kind |-> "sym", of |-> s]}}

FirstDeclared(f, v) == SelectSeq(fs[f], LAMBDA l: l.kind = "decl" /\ l.name = v)[1].arg.of

(* An operand that names a tag holds the address from which a jump or a    *)
(* call, which steps past it, reaches the first instruction after the tag; *)
(* one that names a variable of the script holds its first declaration.    *)
OperandsPointRight ==
    \A i \in DOMAIN images: Fresh(i) =>
        LET files   == Reached(scripts[i])
            ordered == {g \in files: Orderly(i, g)}
        IN  \A f \in files:
                /\ \A g \in ordered: \A t \in Named(g, "tag"): \A o \in OperandsOf(images[i], f, t):
                        o.kind = "tag" /\ o.of + 1 - TagOffset(g, t) \in PlacesOf(images[i], g)
                /\ \A v \in Named(scripts[i], "decl"): \A o \in OperandsOf(images[i], f, v):
                        Holds(o, FirstDeclared(scripts[i], v))

(* The [MRES] lines a script reaches; a script resizes its memory exactly  *)
(* once if it asks, unless a script before it already did (is_mem_resized  *)
(* is the program's, not the script's).                                    *)
Asks(f) == \E g \in Reached(f): Named(g, "mres") # {}
ResizedOnce ==
    \A i \in DOMAIN images: Fresh(i) /\ (\A j \in 1..(i - 1): ~Asks(scripts[j])) =>
        Len(images[i].requests) = IF Asks(scripts[i]) THEN 1 ELSE 0
=============================================================================
