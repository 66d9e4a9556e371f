------------------------------ MODULE VpuShell ------------------------------
(***************************************************************************)
(* src/VPU_main.cpp: the program around the engine.  Without arguments it  *)
(* reads load, build, start and exit in a loop over a status (0: nothing   *)
(* built, 1: built, 2: has run); with -sf it builds and runs one script.   *)
(* The parallel vectors are sequences; an element is live until it is      *)
(* deleted.  What building does to a script is VasmLinker's subject and    *)
(* what running does VpuEngine's: here a process only counts how often a   *)
(* script was built into it, and with which memory.                        *)
(*                                                                         *)
(* The commands refused by the status only print: they are stutters.       *)
(***************************************************************************)
EXTENDS Integers, Sequences

CONSTANTS Scripts,       \* the names a user may load
          NoScript,      \* the command line names no file
          MaxScripts     \* bound of the model on loaded scripts

ASSUME ScriptsAssumption == NoScript \notin Scripts
ASSUME MaxScriptsAssumption == MaxScripts \in Nat

VARIABLES
    mode,            \* "shell", or "file" with -sf
    status,          \* of the prompt
    scripts,         \* what registers[i] and memory_table[i] were allocated for
    registers, memory_table, processes_mem,   \* which of them are live
    a_engines,       \* [live, memory]: the engine's index into the memories
    processes,       \* [live, engine, built]: the scripts built into it
    turn,            \* the loop variable of build, one more than in the code
    threading,       \* the indices of the processes in threading_engine
    phase            \* what main is doing, or how it ended

vars == <<mode, status, scripts, registers, memory_table, processes_mem, a_engines, processes, turn, threading, phase>>
heap == <<registers, memory_table, processes_mem, a_engines, processes>>

Ended == {"exit", "left", "refused", "crashed", "usage"}
Phases == {"arguments", "prompt", "building", "built", "running"} \cup Ended

AllFalse(s) == [i \in DOMAIN s |-> FALSE]

Init ==
    /\ mode \in {"shell", "file"}
    /\ status = 0
    /\ scripts = <<>> /\ registers = <<>> /\ memory_table = <<>> /\ processes_mem = <<>>
    /\ a_engines = <<>> /\ processes = <<>> /\ turn = 1 /\ threading = <<>>
    /\ phase = IF mode = "shell" THEN "prompt" ELSE "arguments"

allocateNewProcessMem(f) ==
    /\ scripts' = Append(scripts, f)
    /\ registers' = Append(registers, TRUE)
    /\ memory_table' = Append(memory_table, TRUE)
    /\ processes_mem' = Append(processes_mem, TRUE)

-----------------------------------------------------------------------------
(* A mutant of Load: without the test of the status. *)
LoadAnyTime(f) ==
    /\ phase = "prompt" /\ Len(scripts) < MaxScripts
    /\ allocateNewProcessMem(f)
    /\ UNCHANGED <<mode, status, a_engines, processes, turn, threading, phase>>

(* load: its file is read when it is built *)
Load(f) ==
    /\ phase = "prompt" /\ status = 0 /\ Len(scripts) < MaxScripts
    /\ allocateNewProcessMem(f)
    /\ UNCHANGED <<mode, status, a_engines, processes, turn, threading, phase>>

(* vpu -sf f; the name is kept in scripts although the code only needs it  *)
(* for the build that follows.                                             *)
FileArgument(f) ==
    /\ phase = "arguments"
    /\ IF f = NoScript
       THEN phase' = "usage" /\ UNCHANGED <<scripts, registers, memory_table, processes_mem>>
       ELSE phase' = "building" /\ allocateNewProcessMem(f)
    /\ UNCHANGED <<mode, status, a_engines, processes, turn, threading>>

Build ==
    /\ phase = "prompt" /\ status = 0
    /\ phase' = "building" /\ turn' = 1
    /\ UNCHANGED <<mode, status, scripts, heap, threading>>

MoreToBuild == phase = "building" /\ turn <= Len(scripts)

WithBuilt(p, built) == [live |-> p.live, engine |-> p.engine, built |-> p.built \o built]

(* A mutant of Allocated: every engine works on the first memory. *)
AllocatedShared(built) ==
    LET ps == Append(processes, [live |-> TRUE, engine |-> turn, built |-> <<>>])
    IN  /\ a_engines' = Append(a_engines, [live |-> TRUE, memory |-> 1])
        /\ processes' = [ps EXCEPT ![turn] = WithBuilt(ps[turn], built)]

(* allocateActionsEngine and allocateProcess append; build_process then    *)
(* adds its actions to the turn-th process, whatever that already holds.   *)
Allocated(built) ==
    LET ps == Append(processes, [live |-> TRUE, engine |-> turn, built |-> <<>>])
    IN  /\ a_engines' = Append(a_engines, [live |-> TRUE, memory |-> turn])
        /\ processes' = [ps EXCEPT ![turn] = WithBuilt(ps[turn], built)]

(* One turn of the loop of build *)
BuildScript ==
    /\ MoreToBuild
    /\ Allocated(<<scripts[turn]>>)
    /\ turn' = turn + 1
    /\ UNCHANGED <<mode, status, scripts, registers, memory_table, processes_mem, threading, phase>>

(* std::exit in convertSymbols: nothing is destroyed but what is static *)
BuildRefused ==
    /\ MoreToBuild
    /\ Allocated(<<>>)
    /\ phase' = "refused"
    /\ UNCHANGED <<mode, status, scripts, registers, memory_table, processes_mem, turn, threading>>

BuildDone ==
    /\ phase = "building" /\ ~MoreToBuild
    /\ IF mode = "shell" THEN phase' = "prompt" /\ status' = 1 ELSE phase' = "built" /\ UNCHANGED status
    /\ UNCHANGED <<mode, scripts, heap, turn, threading>>

(* start copies every process into the engine; processes[0] of an empty    *)
(* vector is undefined and taken for a crash.                              *)
Start ==
    /\ \/ phase = "prompt" /\ status = 1
       \/ phase = "built"
    /\ IF processes = <<>>
       THEN phase' = "crashed" /\ UNCHANGED threading
       ELSE phase' = "running" /\ threading' = [i \in DOMAIN processes |-> i]
    /\ UNCHANGED <<mode, status, scripts, heap, turn>>

DeletedEngine(e) == [live |-> FALSE, memory |-> e.memory]
DeletedProcess(p) == [live |-> FALSE, engine |-> p.engine, built |-> p.built]

(* clearMemory walks the registers and reads processes[i] for each of them *)
CanClear == Len(processes) = Len(registers)

(* A mutant of clearMemory: the symbols of the scripts are not deleted. *)
clearMemoryButSymbols ==
    /\ registers' = AllFalse(registers) /\ memory_table' = AllFalse(memory_table)
    /\ a_engines' = [i \in DOMAIN a_engines |-> DeletedEngine(a_engines[i])]
    /\ processes' = [i \in DOMAIN processes |-> DeletedProcess(processes[i])]
    /\ threading' = <<>>
    /\ phase' = "exit"
    /\ UNCHANGED processes_mem

clearMemory ==
    IF CanClear
    THEN /\ registers' = AllFalse(registers)
         /\ memory_table' = AllFalse(memory_table)
         /\ processes_mem' = [i \in DOMAIN processes_mem |-> processes_mem[i] /\ ~processes[i].live]
         /\ a_engines' = [i \in DOMAIN a_engines |-> DeletedEngine(a_engines[i])]
         /\ processes' = [i \in DOMAIN processes |-> DeletedProcess(processes[i])]
         /\ threading' = <<>>
         /\ phase' = "exit"
    ELSE /\ registers' = [registers EXCEPT ![1] = FALSE]
         /\ memory_table' = [memory_table EXCEPT ![1] = FALSE]
         /\ phase' = "crashed"
         /\ UNCHANGED <<processes_mem, a_engines, processes, threading>>

(* engine::start returns when it has erased its last process; with -sf the *)
(* program then clears up.                                                 *)
StartReturns ==
    /\ phase = "running"
    /\ \/ mode = "shell" /\ phase' = "prompt" /\ status' = 2 /\ threading' = <<>> /\ UNCHANGED heap
       \/ mode = "file" /\ clearMemory /\ UNCHANGED status
    /\ UNCHANGED <<mode, scripts, turn>>

Exit ==
    /\ phase = "prompt"
    /\ clearMemory
    /\ UNCHANGED <<mode, status, scripts, turn>>

(* A mutant of UnknownCommand: the status counts on. *)
UnknownCounts ==
    /\ phase = "prompt" /\ status # 0
    /\ status' = status + 1
    /\ UNCHANGED <<mode, scripts, heap, turn, threading, phase>>

(* Any other input returns status as if it were a result of processInput:  *)
(* 1 is the result of exit, 2 that of build.                               *)
UnknownCommand ==
    /\ phase = "prompt" /\ status # 0
    /\ IF status = 1 THEN phase' = "left" /\ UNCHANGED status
                     ELSE status' = 1 /\ UNCHANGED phase
    /\ UNCHANGED <<mode, scripts, heap, turn, threading>>

Next ==
    \/ \E f \in Scripts: Load(f)
    \/ \E f \in Scripts \cup {NoScript}: FileArgument(f)
    \/ Build \/ BuildScript \/ BuildRefused \/ BuildDone
    \/ Start \/ StartReturns \/ Exit \/ UnknownCommand

Spec == Init /\ [][Next]_vars

-----------------------------------------------------------------------------
EngineRecord == [live: BOOLEAN, memory: Nat]
ProcessRecord == [live: BOOLEAN, engine: Nat, built: Seq(Scripts)]

TypeOK ==
    /\ mode \in {"shell", "file"} /\ status \in 0..2 /\ phase \in Phases /\ turn \in Nat
    /\ scripts \in Seq(Scripts)
    /\ registers \in Seq(BOOLEAN) /\ memory_table \in Seq(BOOLEAN) /\ processes_mem \in Seq(BOOLEAN)
    /\ a_engines \in Seq(EngineRecord) /\ processes \in Seq(ProcessRecord) /\ threading \in Seq(Nat)

(* Whatever commands came before, what start runs is every loaded script,  *)
(* in the order of the loads, each built exactly once, into a process of   *)
(* its own whose engine holds the memory and the registers allocated for   *)
(* that script, none of them deleted.                                      *)
RunsWhatWasLoaded ==
    phase = "running" =>
        /\ threading = [i \in 1..Len(scripts) |-> i]
        /\ \A i \in 1..Len(scripts):
             LET p == processes[threading[i]]
                 e == a_engines[p.engine]
             IN  /\ p.live /\ p.built = <<scripts[i]>>
                 /\ e.live /\ e.memory = i
                 /\ registers[e.memory] /\ memory_table[e.memory] /\ processes_mem[e.memory]

(* A program that ends by exit, or after its only script, has deleted      *)
(* everything it allocated.                                                *)
ExitFreesAll ==
    phase = "exit" =>
        /\ \A i \in DOMAIN scripts: ~registers[i] /\ ~memory_table[i] /\ ~processes_mem[i]
        /\ \A i \in DOMAIN a_engines: ~a_engines[i].live
        /\ \A i \in DOMAIN processes: ~processes[i].live

(* The program crashes only where nothing had been built: an exit between  *)
(* the first load and build, or a start after a build without scripts.     *)
(* Once a script is built, no sequence of commands crashes it.             *)
BuiltNeverCrashes == phase = "crashed" => processes = <<>>
=============================================================================
