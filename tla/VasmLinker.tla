----------------------------- MODULE VasmLinker -----------------------------
(***************************************************************************)
(* src/Compiler: how a VASM script and the files it includes become the    *)
(* actions of one process.  A file is a sequence of lines                  *)
(*    [kind, name, dest, arg]                                              *)
(* of one of the kinds the parsers tell apart:                             *)
(*    "include" [include] name          "mres"  [MRES] name                *)
(*    "tag"     decltag name            "decl"  decl <type> name arg       *)
(*    "size"    [QWORD] .. [BYTE]: the flag name applies to the next line  *)
(*    "ins"     an instruction: name is its mnemonic, dest the register    *)
(*              glued to it (setRAX) or NoDest, arg its operand            *)
(* An operand is [kind |-> "none"], a compile-time literal ("lit", ${{N1}})*)
(* or a symbol ("sym") with its content in "of".                           *)
(*                                                                         *)
(* The statics of action_parser.cpp live as long as the program, so they   *)
(* are a record st that one build hands to the next:                       *)
(*    headers  included_headers         included  global_toInclude         *)
(*    list     global_include_list      resized   is_mem_resized           *)
(* Two files of one name are one file: paths are not modelled.             *)
(***************************************************************************)
EXTENDS Integers, Sequences, SequencesExt, FiniteSets

CONSTANTS RegNames,     \* regs_names: what may follow set, mov, add, ...
          Assignable,   \* num_registers and fp_registers: those STOREGID knows
          NoDest

SpecialRegister == "CR"
NoStatics == [headers |-> {}, included |-> {}, list |-> <<>>, resized |-> FALSE]

(* multi_args_ops *)
multi_args_ops == {"set", "mov", "add", "sub", "mul", "div"}

(***************************************************************************)
(* build_variables_decl_tree: the declarations of the script itself, the   *)
(* first of a name wins; those of the files it includes are not looked at. *)
(***************************************************************************)
SetVar(vars, name, value) ==
    IF name \in DOMAIN vars THEN vars
    ELSE [n \in DOMAIN vars \cup {name} |-> IF n = name THEN value ELSE vars[n]]

LinesOf(fs, f) == IF f \in DOMAIN fs THEN fs[f] ELSE <<>>

build_variables_decl_tree(fs, f) ==
    FoldLeft(LAMBDA vars, l:
                IF l.kind = "decl" THEN SetVar(vars, l.name, l.arg.of) ELSE vars,
             <<>>, LinesOf(fs, f))

(***************************************************************************)
(* parseCodeLines.  An accumulator holds the statics, the literals of the  *)
(* script, the lines parsed so far, the files this file has to include,    *)
(* the pending size flag, the requests made of _MRSZ and, for all calls    *)
(* that have not returned, the files they still have to include.           *)
(***************************************************************************)
(* What follows the first word of the line is a literal; that of a         *)
(* declaration begins with its type.                                       *)
CompiletimeArg(l) == l.kind = "ins" /\ l.arg.kind = "lit"

(* processCompiletimeArg: the literal becomes a variable with a reserved   *)
(* name that ends in the number of those before it (sys_vars_count), and   *)
(* that name replaces it.                                                  *)
processCompiletimeArg(acc, l) ==
    IF ~CompiletimeArg(l) THEN [acc |-> acc, arg |-> l.arg]
    ELSE [acc |-> [acc EXCEPT !.literals = Append(@, l.arg.of)],
          arg |-> [kind |-> "sys", of |-> Len(acc.literals) + 1]]

Parsed(kind, l, arg, opt) == [kind |-> kind, name |-> l.name, dest |-> l.dest, arg |-> arg, opt |-> opt]

(* Any line that is none of the others is taken for an instruction, a      *)
(* declaration and a resize included: purgeParsed removes those.           *)
ParseInstruction(acc, l) ==
    LET read == processCompiletimeArg(acc, l)
    IN  [read.acc EXCEPT !.parsed = Append(@, Parsed(l.kind, l, read.arg, acc.opt)), !.opt = 0]

ParseInclude(acc, l) ==
    IF l.name \in acc.st.headers THEN acc
    ELSE [acc EXCEPT !.toInclude = Append(@, l.name), !.st.list = Append(@, l.name)]

(* A mutant of ParseResize: is_mem_resized is never set. *)
ResizeEach(acc, l) == ParseInstruction([acc EXCEPT !.requests = Append(@, l.name)], l)

ParseResize(acc, l) ==
    ParseInstruction(IF acc.st.resized THEN acc
                     ELSE [acc EXCEPT !.st.resized = TRUE, !.requests = Append(@, l.name)], l)

ParseLine(acc, l) ==
    CASE l.kind = "tag"     -> [acc EXCEPT !.parsed = Append(@, Parsed("tag", l, l.arg, 0))]
      [] l.kind = "include" -> ParseInclude(acc, l)
      [] l.kind = "mres"    -> ParseResize(acc, l)
      [] l.kind = "size"    -> [acc EXCEPT !.opt = l.name]
      [] OTHER              -> ParseInstruction(acc, l)

(* The lines of a file, the first one first. *)
parseLines(lines, acc) ==
    LET read[k \in 0 .. Len(lines)] == IF k = 0 THEN acc ELSE ParseLine(read[k - 1], lines[k])
    IN  read[Len(lines)]

(* A call of parseCodeLines up to its loop over toInclude.  What it has to *)
(* include is pending, in front of what its callers have; a file that      *)
(* cannot be opened has no lines.                                          *)
Enter(fs, f, acc) ==
    LET read == parseLines(LinesOf(fs, f),
                           [acc EXCEPT !.st.headers = @ \cup {f}, !.toInclude = <<>>, !.opt = 0])
    IN  [read EXCEPT !.pending =
            [k \in DOMAIN read.toInclude |-> [file |-> read.toInclude[k], open |-> FALSE]] \o @]

Opened(acc) == [acc EXCEPT !.pending = <<[Head(@) EXCEPT !.open = TRUE]>> \o Tail(@)]
Closed(acc) == [acc EXCEPT !.pending = Tail(@)]

(* A mutant of IncludeNext: global_toInclude is not looked at. *)
IncludeAgain(fs, acc) ==
    IF acc.pending = <<>> THEN acc
    ELSE LET next == Head(acc.pending)
         IN  IF next.open THEN Closed(acc) ELSE Enter(fs, next.file, Opened(acc))

(* One turn of the innermost loop over toInclude: a file is entered unless *)
(* it was included, and marked as included only when that call returns.    *)
IncludeNext(fs, acc) ==
    IF acc.pending = <<>> THEN acc
    ELSE LET next == Head(acc.pending)
         IN  IF next.open THEN [Closed(acc) EXCEPT !.st.included = @ \cup {next.file}]
             ELSE IF next.file \in acc.st.included THEN Closed(acc)
             ELSE Enter(fs, next.file, Opened(acc))

(* The recursion, as the steps of its stack: each line that includes is    *)
(* taken up once and returned from once.                                   *)
IncludeLines(fs) == UNION {{f} \X {k \in DOMAIN fs[f] : fs[f][k].kind = "include"} : f \in DOMAIN fs}

parseCodeLines(fs, f, acc) ==
    LET after[n \in 0 .. 2 * Cardinality(IncludeLines(fs))] ==
            IF n = 0 THEN Enter(fs, f, acc) ELSE IncludeNext(fs, after[n - 1])
    IN  after[2 * Cardinality(IncludeLines(fs))]

(***************************************************************************)
(* convertSymbols ends the program (std::exit) on a register it does not   *)
(* know, or that has no store; purgeParsed keeps the instructions.         *)
(***************************************************************************)
Refused(p) ==
    /\ p.kind = "ins" /\ p.name \in multi_args_ops
    /\ \/ p.dest \notin RegNames
       \/ p.dest \notin Assignable /\ ~(p.name = "set" /\ p.dest = SpecialRegister)

purgeParsed(parsed) ==
    LET kept[k \in 0 .. Len(parsed)] ==
            IF k = 0 THEN <<>>
            ELSE IF parsed[k].kind = "ins" THEN Append(kept[k - 1], parsed[k]) ELSE kept[k - 1]
    IN  kept[Len(parsed)]

(***************************************************************************)
(* finalizeTags walks the lines of the script and then those of every file *)
(* of global_include_list, in that list's order, and numbers a tag by the  *)
(* instructions before it, minus one (the step counter is incremented      *)
(* after a jump).  The first declaration of a name wins.  A tag before     *)
(* every instruction makes the index wrap around and ends the walk.        *)
(* Without the script there are no lines.                                  *)
(***************************************************************************)
makeCleanedParsed(fs, f, list) ==
    LET Lines(g) == SelectSeq(LinesOf(fs, g), LAMBDA l: l.kind \in {"ins", "tag"})
    IN  IF f \in DOMAIN fs THEN FoldLeft(LAMBDA ls, g: ls \o Lines(g), Lines(f), list)
                           ELSE <<>>

(* A mutant of finalizeTags: the index without minus one. *)
TagsOneLate(cleaned) ==
    FoldLeft(LAMBDA w, l:
                IF l.kind = "ins" THEN [w EXCEPT !.count = @ + 1]
                ELSE [w EXCEPT !.tags = SetVar(@, l.name, w.count)],
             [count |-> 0, tags |-> <<>>], cleaned).tags

finalizeTags(cleaned) ==
    LET Walk == FoldLeft(
          LAMBDA w, l:
            IF w.stopped THEN w
            ELSE IF l.kind = "ins" THEN [w EXCEPT !.count = @ + 1]
            ELSE [w EXCEPT !.tags = SetVar(@, l.name, w.count - 1), !.stopped = w.count = 0],
          [count |-> 0, tags |-> <<>>, stopped |-> FALSE], cleaned)
    IN  Walk.tags

(***************************************************************************)
(* The symbols of a process (data_ptrs): the variables, over them the      *)
(* registers, over them the tags.  A symbol that is none of those has no   *)
(* operand: getVarPtr returns a block too small to be one.                 *)
(***************************************************************************)
(* setRegisters: of the names, SR is given no operand. *)
setRegisters == RegNames \ {"SR"}

Symbol(vars, tags, s) ==
    CASE s \in DOMAIN tags -> [kind |-> "tag", of |-> tags[s]]
      [] s \notin DOMAIN tags /\ s \in setRegisters -> [kind |-> "register", of |-> s]
      [] s \notin DOMAIN tags \cup RegNames /\ s \in DOMAIN vars -> [kind |-> "value", of |-> vars[s]]
      [] OTHER -> [kind |-> "unknown", of |-> s]

convertVariables(vars, literals, tags, arg) ==
    CASE arg.kind = "none" -> arg
      [] arg.kind = "sys"  -> [kind |-> "value", of |-> literals[arg.of]]
      [] arg.kind = "sym"  -> Symbol(vars, tags, arg.of)

(* build_process *)
build_process(fs, f, st) ==
    LET vars   == build_variables_decl_tree(fs, f)
        acc    == parseCodeLines(fs, f, [st |-> st, literals |-> <<>>,
                                         parsed |-> <<>>, toInclude |-> <<>>, opt |-> 0, requests |-> <<>>,
                                         pending |-> <<>>])
        tags   == finalizeTags(makeCleanedParsed(fs, f, acc.st.list))
        ins    == purgeParsed(acc.parsed)
        Action(p) == [op |-> p.name, dest |-> p.dest, opt |-> p.opt,
                      operand |-> convertVariables(vars, acc.literals, tags, p.arg)]
    IN  [st       |-> acc.st,
         refused  |-> \E k \in DOMAIN ins: Refused(ins[k]),
         actions  |-> [k \in DOMAIN ins |-> Action(ins[k])],
         requests |-> acc.requests]
=============================================================================
