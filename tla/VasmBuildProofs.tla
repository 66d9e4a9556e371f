---------------------------- MODULE VasmBuildProofs ---------------------------
(***************************************************************************)
(* Theorems about VpuShell, for any scripts and any number of them, and    *)
(* about the linker in its build step, for any file systems.               *)
(*                                                                         *)
(* What a run finds depends on the whole history of the commands, so the   *)
(* invariant of the shell (IInv) says, for each status and phase, how far  *)
(* the parallel vectors have been filled and that no element was deleted   *)
(* before the end.                                                         *)
(*                                                                         *)
(* What a script links to depends on the statics the builds before it left *)
(* and on the order in which its files are read, so the invariant of the   *)
(* build (BuildIInv) says where the headers in the statics come from, and  *)
(* that of the loops over toInclude (Linked) what has been read so far,    *)
(* what of it is still open, and what each pending file was when its line  *)
(* was read.                                                               *)
(***************************************************************************)
EXTENDS VasmBuild, SequenceTheorems, FiniteSetTheorems, WellFoundedInduction, TLAPS

-----------------------------------------------------------------------------
(* The shell. *)
(* One register file, memory and symbol table for each loaded script, one  *)
(* engine and process for each script the loop of build has reached.       *)
Parallel ==
    /\ Len(registers) = Len(scripts) /\ Len(memory_table) = Len(scripts) /\ Len(processes_mem) = Len(scripts)
    /\ Len(a_engines) = Len(processes)

(* How many scripts are built in each phase. *)
Progress ==
    /\ phase = "prompt" /\ status = 0 => processes = <<>>
    /\ phase = "arguments" => scripts = <<>> /\ processes = <<>> /\ status = 0 /\ turn = 1
    /\ phase = "building" => status = 0 /\ turn = Len(processes) + 1 /\ turn <= Len(scripts) + 1
    /\ phase = "prompt" /\ status # 0 => Len(processes) = Len(scripts)
    /\ phase \in {"built", "running"} => Len(processes) = Len(scripts)
    /\ mode = "file" /\ phase # "arguments" /\ phase # "usage" => Len(scripts) > 0

Working == phase \notin {"exit", "crashed", "refused"}

AllLive ==
    Working =>
        /\ \A k \in 1..Len(scripts): registers[k] /\ memory_table[k] /\ processes_mem[k]
        /\ \A k \in 1..Len(processes): a_engines[k].live /\ processes[k].live

(* The i-th process holds the i-th script, built once, and the i-th memory. *)
Matched ==
    Working =>
        \A k \in 1..Len(processes):
            /\ processes[k].engine = k /\ processes[k].built = <<scripts[k]>>
            /\ a_engines[k].memory = k

Started == phase = "running" => threading = [k \in 1..Len(scripts) |-> k]

IInv == TypeOK /\ Parallel /\ Progress /\ AllLive /\ Matched /\ Started /\ ExitFreesAll /\ BuiltNeverCrashes

-----------------------------------------------------------------------------
(* A sequence rewritten element by element. *)
LEMMA Rewritten ==
    ASSUME NEW S, NEW T, NEW s \in Seq(S), NEW t,
           t = [k \in DOMAIN s |-> t[k]], \A k \in 1..Len(s): t[k] \in T
    PROVE  t \in Seq(T) /\ Len(t) = Len(s)
<1>1. t \in [1..Len(s) -> T] /\ Len(s) \in Nat
  BY LenProperties, ElementOfSeq
<1> QED
  BY <1>1, IsASeq, LenProperties

(* What TypeOK says of the elements and the lengths of the vectors. *)
LEMMA Typed ==
    ASSUME TypeOK
    PROVE  /\ \A k \in 1..Len(a_engines): a_engines[k] \in EngineRecord
           /\ \A k \in 1..Len(processes): processes[k] \in ProcessRecord
           /\ \A k \in 1..Len(scripts): scripts[k] \in Scripts
           /\ Len(a_engines) \in Nat /\ Len(processes) \in Nat /\ Len(scripts) \in Nat
           /\ Len(registers) \in Nat /\ Len(memory_table) \in Nat /\ Len(processes_mem) \in Nat
BY ElementOfSeq, LenProperties DEF TypeOK

(* The program starts with nothing loaded, built or running. *)
THEOREM InitIInv == Init => IInv
<1> SUFFICES ASSUME Init PROVE IInv
  OBVIOUS
<1>1. TypeOK
  BY EmptySeq DEF Init, TypeOK, Phases, Ended
<1>2. Len(scripts) = 0 /\ Len(processes) = 0
  BY DEF Init
<1> QED
  BY <1>1, <1>2 DEF Init, IInv, Parallel, Progress, Working, AllLive, Matched, Started, ExitFreesAll,
                    BuiltNeverCrashes

-----------------------------------------------------------------------------
(* One step of the proof for each action. *)

(* allocateNewProcessMem keeps the three vectors it appends to parallel. *)
LEMMA AllocateStep ==
    ASSUME IInv, processes = <<>>, phase \in {"prompt", "arguments"},
           NEW f \in Scripts, allocateNewProcessMem(f), UNCHANGED <<a_engines, processes>>
    PROVE  /\ scripts' \in Seq(Scripts) /\ registers' \in Seq(BOOLEAN)
           /\ memory_table' \in Seq(BOOLEAN) /\ processes_mem' \in Seq(BOOLEAN)
           /\ Len(scripts') = Len(scripts) + 1
           /\ Len(registers') = Len(scripts') /\ Len(memory_table') = Len(scripts') /\ Len(processes_mem') = Len(scripts')
           /\ \A k \in 1..Len(scripts'): registers'[k] /\ memory_table'[k] /\ processes_mem'[k]
<1>1. TypeOK /\ Parallel /\ AllLive
  BY DEF IInv
<1>2. \A k \in 1..Len(scripts): registers[k] /\ memory_table[k] /\ processes_mem[k]
  BY <1>1 DEF AllLive, Working
<1>3. /\ Len(scripts) \in Nat /\ Len(registers) = Len(scripts)
      /\ Len(memory_table) = Len(scripts) /\ Len(processes_mem) = Len(scripts)
  BY <1>1, Typed DEF Parallel
<1>4. /\ scripts \in Seq(Scripts) /\ registers \in Seq(BOOLEAN)
      /\ memory_table \in Seq(BOOLEAN) /\ processes_mem \in Seq(BOOLEAN)
  BY <1>1 DEF TypeOK
<1>5. scripts' \in Seq(Scripts) /\ Len(scripts') = Len(scripts) + 1
  BY <1>4, AppendProperties DEF allocateNewProcessMem
<1>6. ASSUME NEW s \in Seq(BOOLEAN), Len(s) = Len(scripts), \A k \in 1..Len(scripts): s[k]
      PROVE  /\ Append(s, TRUE) \in Seq(BOOLEAN) /\ Len(Append(s, TRUE)) = Len(scripts) + 1
             /\ \A k \in 1..(Len(scripts) + 1): Append(s, TRUE)[k]
  <2>1. /\ Append(s, TRUE) \in Seq(BOOLEAN) /\ Len(Append(s, TRUE)) = Len(s) + 1
        /\ \A k \in 1..Len(s): Append(s, TRUE)[k] = s[k]
        /\ Append(s, TRUE)[Len(s) + 1] = TRUE
    BY TRUE \in BOOLEAN, AppendProperties
  <2>2. \A k \in 1..(Len(scripts) + 1): k \in 1..Len(s) \/ k = Len(s) + 1
    BY <1>3, <1>6
  <2> QED
    BY <2>1, <2>2, <1>6, Zenon
<1> QED
  BY <1>2, <1>3, <1>4, <1>5, <1>6, Zenon DEF allocateNewProcessMem

(* load appends while nothing is built. *)
LEMMA LoadStep ==
    ASSUME IInv, NEW f \in Scripts, Load(f)
    PROVE  IInv'
<1>1. TypeOK /\ Parallel /\ Progress /\ processes = <<>> /\ phase = "prompt"
  BY DEF IInv, Progress, Load
<1>2. /\ scripts' \in Seq(Scripts) /\ registers' \in Seq(BOOLEAN)
      /\ memory_table' \in Seq(BOOLEAN) /\ processes_mem' \in Seq(BOOLEAN)
      /\ Len(scripts') = Len(scripts) + 1
      /\ Len(registers') = Len(scripts') /\ Len(memory_table') = Len(scripts') /\ Len(processes_mem') = Len(scripts')
      /\ \A k \in 1..Len(scripts'): registers'[k] /\ memory_table'[k] /\ processes_mem'[k]
  BY <1>1, AllocateStep DEF Load
<1>3. TypeOK'
  BY <1>1, <1>2 DEF TypeOK, Load
<1>4. Len(processes) = 0 /\ UNCHANGED <<mode, status, a_engines, processes, turn, threading, phase>> /\ status = 0
  BY <1>1 DEF Load
<1> QED
  BY <1>1, <1>2, <1>3, <1>4 DEF IInv, Parallel, Progress, Working, AllLive, Matched, Started, ExitFreesAll,
                                 BuiltNeverCrashes

(* -sf appends its one script, or ends the program. *)
LEMMA FileArgumentStep ==
    ASSUME IInv, NEW f \in Scripts \cup {NoScript}, FileArgument(f)
    PROVE  IInv'
<1>1. /\ TypeOK /\ Parallel /\ Progress /\ AllLive /\ processes = <<>> /\ scripts = <<>>
      /\ phase = "arguments" /\ Len(processes) = 0 /\ Len(scripts) = 0
  BY DEF IInv, FileArgument, Progress
<1>2. CASE f = NoScript
  <2>1. UNCHANGED <<mode, status, scripts, heap, turn, threading>> /\ phase' = "usage"
    BY <1>2 DEF FileArgument, heap
  <2> QED
    BY <1>1, <2>1 DEF heap, IInv, TypeOK, Phases, Ended, Parallel, Progress, Working, AllLive, Matched, Started,
                      ExitFreesAll, BuiltNeverCrashes
<1>3. CASE f # NoScript
  <2>1. /\ scripts' \in Seq(Scripts) /\ registers' \in Seq(BOOLEAN)
        /\ memory_table' \in Seq(BOOLEAN) /\ processes_mem' \in Seq(BOOLEAN)
        /\ Len(scripts') = Len(scripts) + 1
        /\ Len(registers') = Len(scripts') /\ Len(memory_table') = Len(scripts') /\ Len(processes_mem') = Len(scripts')
        /\ \A k \in 1..Len(scripts'): registers'[k] /\ memory_table'[k] /\ processes_mem'[k]
    BY <1>1, <1>3, AllocateStep DEF FileArgument
  <2>2. phase' = "building" /\ UNCHANGED <<mode, status, a_engines, processes, turn, threading>>
    BY <1>3 DEF FileArgument
  <2> QED
    BY <1>1, <2>1, <2>2 DEF IInv, TypeOK, Phases, Ended, Parallel, Progress, Working, AllLive, Matched, Started,
                             ExitFreesAll, BuiltNeverCrashes
<1> QED
  BY <1>2, <1>3

(* build starts with the first script. *)
LEMMA BuildStep ==
    ASSUME IInv, Build
    PROVE  IInv'
<1>1. processes = <<>> /\ Len(processes) = 0 /\ Len(scripts) \in Nat
  BY Typed DEF IInv, Progress, Build
<1> QED
  BY <1>1 DEF IInv, Build, heap, TypeOK, Phases, Ended, Parallel, Progress, Working, AllLive, Matched, Started,
              ExitFreesAll, BuiltNeverCrashes

(* allocateActionsEngine and allocateProcess, then a script built into the *)
(* process just allocated.                                                 *)
LEMMA AllocatedStep ==
    ASSUME IInv, MoreToBuild, NEW built \in Seq(Scripts), Allocated(built)
    PROVE  /\ a_engines' \in Seq(EngineRecord) /\ processes' \in Seq(ProcessRecord)
           /\ Len(a_engines') = turn /\ Len(processes') = turn /\ turn \in 1..Len(scripts)
           /\ \A k \in 1..turn: /\ a_engines'[k].live /\ a_engines'[k].memory = k
                                /\ processes'[k].live /\ processes'[k].engine = k
           /\ \A k \in 1..(turn - 1): processes'[k].built = <<scripts[k]>>
           /\ processes'[turn].built = built
<1> DEFINE e == [live |-> TRUE, memory |-> turn]
           p == [live |-> TRUE, engine |-> turn, built |-> <<>>]
           ps == Append(processes, p)
<1>1. /\ TypeOK /\ phase = "building" /\ turn \in 1..Len(scripts) /\ turn \in Nat
      /\ Len(processes) = turn - 1 /\ Len(a_engines) = turn - 1
  BY Typed DEF IInv, Parallel, Progress, MoreToBuild
<1>2. /\ \A k \in 1..(turn - 1): /\ a_engines[k].live /\ a_engines[k].memory = k
                                 /\ processes[k].live /\ processes[k].engine = k
                                 /\ processes[k].built = <<scripts[k]>>
      /\ \A k \in 1..(turn - 1): processes[k] \in ProcessRecord
  BY <1>1, Typed DEF IInv, AllLive, Matched, Working
<1>3. /\ a_engines' \in Seq(EngineRecord) /\ Len(a_engines') = turn
      /\ \A k \in 1..(turn - 1): a_engines'[k] = a_engines[k]
      /\ a_engines'[turn] = e
  <2>1. e \in EngineRecord /\ a_engines \in Seq(EngineRecord) /\ a_engines' = Append(a_engines, e)
    BY <1>1 DEF EngineRecord, TypeOK, Allocated
  <2> HIDE DEF e
  <2> QED
    BY <1>1, <2>1, AppendProperties
<1>4. /\ ps \in Seq(ProcessRecord) /\ Len(ps) = turn
      /\ \A k \in 1..(turn - 1): ps[k] = processes[k]
      /\ ps[turn] = p
  <2>1. p \in ProcessRecord /\ processes \in Seq(ProcessRecord)
    BY <1>1, EmptySeq DEF ProcessRecord, TypeOK
  <2> HIDE DEF p
  <2> QED
    BY <1>1, <2>1, AppendProperties
<1>5. <<>> \o built = built
  BY ConcatEmptySeq
<1> DEFINE q == [live |-> TRUE, engine |-> turn, built |-> built]
<1>6. q \in ProcessRecord /\ q.live /\ q.engine = turn /\ q.built = built
  BY <1>1 DEF ProcessRecord
<1>7. processes' = [ps EXCEPT ![turn] = q]
  <2>1. WithBuilt(ps[turn], built) = q
    <3>1. p.live = TRUE /\ p.engine = turn /\ p.built = <<>>
      OBVIOUS
    <3>2. ps[turn] = p
      BY <1>4
    <3> HIDE DEF ps, p
    <3> QED
      BY <3>1, <3>2, <1>5 DEF WithBuilt
  <2>2. processes' = [ps EXCEPT ![turn] = WithBuilt(ps[turn], built)]
    BY DEF Allocated
  <2> QED
    BY <2>1, <2>2
<1> HIDE DEF ps, q, e
<1>8. /\ processes' \in Seq(ProcessRecord) /\ Len(processes') = turn /\ processes'[turn] = q
      /\ \A k \in 1..(turn - 1): processes'[k] = processes[k]
  BY <1>1, <1>4, <1>6, <1>7, ExceptSeq
<1>9. e.live /\ e.memory = turn
  BY DEF e
<1>10. \A k \in 1..turn: k \in 1..(turn - 1) \/ k = turn
  BY <1>1
<1> QED
  BY <1>1, <1>2, <1>3, <1>6, <1>8, <1>9, <1>10

(* A turn of the loop of build fills the process it has appended. *)
LEMMA BuildScriptStep ==
    ASSUME IInv, BuildScript
    PROVE  IInv'
<1>1. /\ TypeOK /\ Parallel /\ Progress /\ AllLive /\ MoreToBuild /\ Allocated(<<scripts[turn]>>)
      /\ phase = "building" /\ Len(scripts) \in Nat /\ turn \in Nat /\ turn' = turn + 1
  BY Typed DEF IInv, BuildScript, MoreToBuild, TypeOK
<1>2. turn \in 1..Len(scripts) /\ <<scripts[turn]>> \in Seq(Scripts) /\ <<scripts[turn]>>[1] = scripts[turn]
  BY <1>1, Typed DEF Progress, MoreToBuild, IInv
<1>3. /\ a_engines' \in Seq(EngineRecord) /\ processes' \in Seq(ProcessRecord)
      /\ Len(a_engines') = turn /\ Len(processes') = turn
      /\ \A k \in 1..turn: /\ a_engines'[k].live /\ a_engines'[k].memory = k
                           /\ processes'[k].live /\ processes'[k].engine = k
      /\ \A k \in 1..(turn - 1): processes'[k].built = <<scripts[k]>>
      /\ processes'[turn].built = <<scripts[turn]>>
  BY <1>1, <1>2, AllocatedStep
<1>4. UNCHANGED <<mode, status, scripts, registers, memory_table, processes_mem, threading, phase>>
  BY DEF BuildScript
<1>5. \A k \in 1..turn: k \in 1..(turn - 1) \/ k = turn
  BY <1>1
<1>6. TypeOK'
  BY <1>1, <1>3, <1>4 DEF TypeOK
<1>7. Matched'
  BY <1>3, <1>4, <1>5 DEF Matched
<1> QED
  BY <1>1, <1>2, <1>3, <1>4, <1>6, <1>7 DEF IInv, Parallel, Progress, Working, AllLive, Started, ExitFreesAll,
                                             BuiltNeverCrashes

(* A script that is refused ends the program. *)
LEMMA BuildRefusedStep ==
    ASSUME IInv, BuildRefused
    PROVE  IInv'
<1>1. TypeOK /\ Parallel /\ MoreToBuild /\ Allocated(<<>>) /\ <<>> \in Seq(Scripts)
  BY EmptySeq DEF IInv, BuildRefused
<1>2. /\ a_engines' \in Seq(EngineRecord) /\ processes' \in Seq(ProcessRecord)
      /\ Len(a_engines') = turn /\ Len(processes') = turn
  BY <1>1, AllocatedStep
<1>3. UNCHANGED <<mode, status, scripts, registers, memory_table, processes_mem, turn, threading>> /\ phase' = "refused"
  BY DEF BuildRefused
<1>4. TypeOK'
  BY <1>1, <1>2, <1>3 DEF TypeOK, Phases, Ended
<1> QED
  BY <1>1, <1>2, <1>3, <1>4 DEF IInv, Parallel, Progress, MoreToBuild, Working, AllLive, Matched, Started,
                                 ExitFreesAll, BuiltNeverCrashes

(* The loop of build ends when every script has its process. *)
LEMMA BuildDoneStep ==
    ASSUME IInv, BuildDone
    PROVE  IInv'
<1>1. /\ phase = "building" /\ Len(processes) = Len(scripts) /\ status = 0 /\ Len(scripts) \in Nat
      /\ UNCHANGED <<mode, scripts, heap, turn, threading>>
  BY Typed DEF IInv, Progress, BuildDone, MoreToBuild, TypeOK
<1>2. mode = "file" => Len(scripts) > 0
  BY <1>1 DEF IInv, Progress
<1>3. \/ mode = "shell" /\ phase' = "prompt" /\ status' = 1
      \/ mode = "file" /\ phase' = "built" /\ status' = status
  BY DEF BuildDone, IInv, TypeOK
<1> QED
  BY <1>1, <1>2, <1>3 DEF heap, IInv, TypeOK, Phases, Ended, Parallel, Progress, Working, AllLive, Matched, Started,
                           ExitFreesAll, BuiltNeverCrashes

(* start hands every process to the engine; without one it crashes. *)
LEMMA StartStep ==
    ASSUME IInv, Start
    PROVE  IInv'
<1>1. /\ Len(processes) = Len(scripts) /\ Len(scripts) \in Nat /\ TypeOK /\ Parallel /\ Progress /\ AllLive /\ Matched
      /\ phase \in {"prompt", "built"} /\ (phase = "prompt" => status # 0)
      /\ UNCHANGED <<mode, status, scripts, heap, turn>>
  BY Typed DEF IInv, Progress, Start
<1>2. CASE processes = <<>>
  <2>1. phase' = "crashed" /\ UNCHANGED threading
    BY <1>2 DEF Start
  <2> QED
    BY <1>1, <1>2, <2>1 DEF heap, IInv, TypeOK, Phases, Ended, Parallel, Progress, Working, AllLive, Matched, Started,
                             ExitFreesAll, BuiltNeverCrashes
<1>3. CASE processes # <<>>
  <2>1. phase' = "running" /\ threading' = [k \in DOMAIN processes |-> k]
    BY <1>3 DEF Start
  <2>2. DOMAIN processes = 1..Len(scripts)
    BY <1>1, LenProperties DEF TypeOK
  <2>3. threading' \in Seq(Nat) /\ threading' = [k \in 1..Len(scripts) |-> k]
    BY <1>1, <2>1, <2>2, IsASeq
  <2> QED
    BY <1>1, <2>1, <2>3 DEF heap, IInv, TypeOK, Phases, Ended, Parallel, Progress, Working, AllLive, Matched, Started,
                             ExitFreesAll, BuiltNeverCrashes
<1> QED
  BY <1>2, <1>3

(* Deleting every element keeps the length of a vector. *)
LEMMA AllFalseFacts ==
    ASSUME NEW s \in Seq(BOOLEAN)
    PROVE  /\ AllFalse(s) \in Seq(BOOLEAN) /\ Len(AllFalse(s)) = Len(s)
           /\ \A k \in 1..Len(s): ~AllFalse(s)[k]
<1>1. DOMAIN s = 1..Len(s) /\ Len(s) \in Nat
  BY LenProperties
<1> QED
  BY <1>1, Rewritten DEF AllFalse

(* What is left after clearMemory, at a prompt or after the only script. *)
LEMMA ClearStep ==
    ASSUME IInv, clearMemory, phase \in {"prompt", "running"},
           UNCHANGED <<mode, status, scripts, turn>>
    PROVE  IInv'
<1>1. /\ TypeOK /\ Parallel /\ Progress /\ Len(scripts) \in Nat /\ Len(processes) \in Nat
      /\ DOMAIN processes_mem = 1..Len(scripts) /\ DOMAIN scripts = 1..Len(scripts)
      /\ DOMAIN a_engines = 1..Len(processes) /\ DOMAIN processes = 1..Len(processes)
      /\ \A k \in 1..Len(processes): a_engines[k] \in EngineRecord /\ processes[k] \in ProcessRecord
      /\ \A k \in 1..Len(processes): processes[k].live
  <2>1. TypeOK /\ Parallel /\ Progress /\ AllLive /\ Working
    BY DEF IInv, Working
  <2> QED
    BY <2>1, Typed, LenProperties DEF TypeOK, Parallel, AllLive
<1>2. CASE CanClear
  <2>1. Len(processes) = Len(scripts)
    BY <1>1, <1>2 DEF CanClear, Parallel
  <2>2. /\ registers' = AllFalse(registers) /\ memory_table' = AllFalse(memory_table)
        /\ processes_mem' = [k \in 1..Len(scripts) |-> processes_mem[k] /\ ~processes[k].live]
        /\ a_engines' = [k \in 1..Len(scripts) |-> DeletedEngine(a_engines[k])]
        /\ processes' = [k \in 1..Len(scripts) |-> DeletedProcess(processes[k])]
        /\ threading' = <<>> /\ phase' = "exit"
    BY <1>1, <1>2, <2>1, Zenon DEF clearMemory
  <2>3. /\ registers' \in Seq(BOOLEAN) /\ Len(registers') = Len(scripts) /\ \A k \in 1..Len(scripts): ~registers'[k]
        /\ memory_table' \in Seq(BOOLEAN) /\ Len(memory_table') = Len(scripts) /\ \A k \in 1..Len(scripts): ~memory_table'[k]
    BY <1>1, <2>2, AllFalseFacts DEF TypeOK, Parallel
  <2>4. /\ processes_mem' \in Seq(BOOLEAN) /\ Len(processes_mem') = Len(scripts)
        /\ \A k \in 1..Len(scripts): ~processes_mem'[k]
    <3>1. \A k \in 1..Len(scripts): processes_mem'[k] = FALSE
      BY <1>1, <2>1, <2>2
    <3>2. processes_mem' = [k \in 1..Len(scripts) |-> FALSE]
      BY <1>1, <2>1, <2>2
    <3>3. processes_mem' \in Seq(BOOLEAN)
      BY <1>1, <3>2, IsASeq
    <3> QED
      BY <1>1, <3>1, <3>2, <3>3, LenProperties
  <2>5. /\ a_engines' \in Seq(EngineRecord) /\ Len(a_engines') = Len(scripts)
        /\ \A k \in 1..Len(scripts): ~a_engines'[k].live
    <3>1. \A k \in 1..Len(scripts): /\ DeletedEngine(a_engines[k]) \in EngineRecord
                                    /\ ~DeletedEngine(a_engines[k]).live
      BY <1>1, <2>1 DEF EngineRecord, DeletedEngine
    <3> QED
      BY <1>1, <2>2, <3>1, IsASeq, LenProperties
  <2>6. /\ processes' \in Seq(ProcessRecord) /\ Len(processes') = Len(scripts)
        /\ \A k \in 1..Len(scripts): ~processes'[k].live
    <3>1. \A k \in 1..Len(scripts): /\ DeletedProcess(processes[k]) \in ProcessRecord
                                    /\ ~DeletedProcess(processes[k]).live
      BY <1>1, <2>1 DEF ProcessRecord, DeletedProcess
    <3> QED
      BY <1>1, <2>2, <3>1, IsASeq, LenProperties
  <2>7. TypeOK'
    BY <1>1, <2>2, <2>3, <2>4, <2>5, <2>6, EmptySeq DEF TypeOK, Phases, Ended
  <2>8. ExitFreesAll'
    <3>1. DOMAIN a_engines' = 1..Len(scripts) /\ DOMAIN processes' = 1..Len(scripts) /\ DOMAIN scripts' = 1..Len(scripts)
      BY <1>1, <2>5, <2>6, LenProperties
    <3> QED
      BY <2>3, <2>4, <2>5, <2>6, <3>1 DEF ExitFreesAll
  <2> QED
    BY <1>1, <2>1, <2>2, <2>3, <2>4, <2>5, <2>6, <2>7, <2>8
       DEF IInv, Parallel, Progress, Working, AllLive, Matched, Started, BuiltNeverCrashes
<1>3. CASE ~CanClear
  <2>1. /\ registers' = [registers EXCEPT ![1] = FALSE] /\ memory_table' = [memory_table EXCEPT ![1] = FALSE]
        /\ phase' = "crashed" /\ UNCHANGED <<processes_mem, a_engines, processes, threading>>
    BY <1>3 DEF clearMemory
  <2>2. processes = <<>> /\ 1 \in 1..Len(registers) /\ 1 \in 1..Len(memory_table)
    <3>1. Len(processes) # Len(scripts)
      BY <1>1, <1>3 DEF CanClear, Parallel
    <3>2. processes = <<>> /\ Len(processes) = 0
      BY <1>1, <3>1 DEF Progress, TypeOK
    <3> QED
      BY <1>1, <3>1, <3>2 DEF Parallel
  <2>3. /\ registers' \in Seq(BOOLEAN) /\ Len(registers') = Len(registers)
        /\ memory_table' \in Seq(BOOLEAN) /\ Len(memory_table') = Len(memory_table)
    <3>1. FALSE \in BOOLEAN /\ registers \in Seq(BOOLEAN) /\ memory_table \in Seq(BOOLEAN)
      BY <1>1 DEF TypeOK
    <3> QED
      BY <2>1, <2>2, <3>1, ExceptSeq
  <2> QED
    BY <1>1, <2>1, <2>2, <2>3 DEF IInv, TypeOK, Phases, Ended, Parallel, Progress, Working, AllLive, Matched, Started,
                                   ExitFreesAll, BuiltNeverCrashes
<1> QED
  BY <1>2, <1>3

(* The shell is prompted again; the single script is cleared away. *)
LEMMA StartReturnsStep ==
    ASSUME IInv, StartReturns
    PROVE  IInv'
<1>1. CASE mode = "file" /\ clearMemory /\ UNCHANGED status
  BY <1>1, ClearStep DEF StartReturns
<1>2. CASE mode = "shell" /\ phase' = "prompt" /\ status' = 2 /\ threading' = <<>> /\ UNCHANGED heap
  <2>1. /\ phase = "running" /\ TypeOK /\ Parallel /\ AllLive /\ Matched /\ Len(processes) = Len(scripts)
        /\ UNCHANGED <<mode, scripts, turn, heap>>
    BY <1>2 DEF StartReturns, IInv, Progress
  <2>2. TypeOK'
    BY <1>2, <2>1, EmptySeq DEF heap, TypeOK, Phases, Ended
  <2>3. AllLive' /\ Matched' /\ Parallel'
    BY <1>2, <2>1 DEF heap, Working, AllLive, Matched, Parallel
  <2> QED
    BY <1>2, <2>1, <2>2, <2>3 DEF heap, IInv, Progress, Started, ExitFreesAll, BuiltNeverCrashes
<1> QED
  BY <1>1, <1>2 DEF StartReturns

(* exit clears the memory at a prompt. *)
LEMMA ExitStep ==
    ASSUME IInv, Exit
    PROVE  IInv'
BY ClearStep DEF Exit

(* Other input leaves the program or sets the status back to built. *)
LEMMA UnknownCommandStep ==
    ASSUME IInv, UnknownCommand
    PROVE  IInv'
<1>1. /\ phase = "prompt" /\ TypeOK /\ Parallel /\ AllLive /\ Matched /\ Len(processes) = Len(scripts)
      /\ UNCHANGED <<mode, scripts, turn, heap, threading>>
      /\ mode = "file" => Len(scripts) > 0
      /\ \/ phase' = "left" /\ status' = status
         \/ phase' = "prompt" /\ status' = 1
  BY DEF UnknownCommand, IInv, Progress
<1>2. TypeOK'
  BY <1>1 DEF heap, TypeOK, Phases, Ended
<1>3. AllLive' /\ Matched' /\ Parallel'
  BY <1>1 DEF heap, Working, AllLive, Matched, Parallel
<1> QED
  BY <1>1, <1>2, <1>3 DEF heap, IInv, Progress, Started, ExitFreesAll, BuiltNeverCrashes

-----------------------------------------------------------------------------
(* Every step keeps the invariant. *)
THEOREM NextIInv == IInv /\ [Next]_vars => IInv'
<1> SUFFICES ASSUME IInv, [Next]_vars PROVE IInv'
  OBVIOUS
<1>1. CASE UNCHANGED vars
  BY <1>1 DEF vars, IInv, TypeOK, Parallel, Progress, Working, AllLive, Matched, Started, ExitFreesAll,
              BuiltNeverCrashes
<1>2. CASE Next
  BY <1>2, LoadStep, FileArgumentStep, BuildStep, BuildScriptStep, BuildRefusedStep, BuildDoneStep, StartStep,
     StartReturnsStep, ExitStep, UnknownCommandStep DEF Next
<1> QED
  BY <1>1, <1>2

(* The invariant holds in every state of the program. *)
THEOREM Invariance == Spec => []IInv
BY InitIInv, NextIInv, PTL DEF Spec

(* The types of VpuShell, for any scripts. *)
THEOREM TypeCorrect == Spec => []TypeOK
<1>1. IInv => TypeOK
  BY DEF IInv
<1> QED
  BY <1>1, Invariance, PTL

(* start runs what was loaded: every script once, each in its own memory. *)
THEOREM RunsLoaded == Spec => []RunsWhatWasLoaded
<1>1. IInv => RunsWhatWasLoaded
  <2> SUFFICES ASSUME IInv, phase = "running" PROVE RunsWhatWasLoaded
    BY DEF RunsWhatWasLoaded
  <2>1. /\ threading = [k \in 1..Len(scripts) |-> k] /\ Len(processes) = Len(scripts)
        /\ \A k \in 1..Len(scripts): threading[k] = k
    BY DEF IInv, Started, Progress
  <2>2. \A k \in 1..Len(scripts): /\ processes[k].engine = k /\ processes[k].built = <<scripts[k]>>
                                  /\ a_engines[k].memory = k /\ a_engines[k].live /\ processes[k].live
                                  /\ registers[k] /\ memory_table[k] /\ processes_mem[k]
    BY <2>1 DEF IInv, Working, AllLive, Matched
  <2> QED
    BY <2>1, <2>2 DEF RunsWhatWasLoaded
<1> QED
  BY <1>1, Invariance, PTL

(* A program that ended by exit has deleted all it allocated. *)
THEOREM NothingLeft == Spec => []ExitFreesAll
<1>1. IInv => ExitFreesAll
  BY DEF IInv
<1> QED
  BY <1>1, Invariance, PTL

(* Once a script is built no sequence of commands crashes the shell. *)
THEOREM NoCrashOnceBuilt == Spec => []BuiltNeverCrashes
<1>1. IInv => BuiltNeverCrashes
  BY DEF IInv
<1> QED
  BY <1>1, Invariance, PTL

-----------------------------------------------------------------------------
(* Induction, over sets of numbers.                                        *)
LEMMA Least ==
  ASSUME NEW T \in SUBSET Nat, T # {}
  PROVE  \E x \in T : \A y \in T : x <= y
<1>1. PICK less : less = OpToRel(<, Nat) /\ IsWellFoundedOn(less, Nat)
  BY NatLessThanWellFounded
<1>2. PICK x \in T : \A y \in T : ~(<<y, x>> \in less)
  BY <1>1, WFMin
<1>3. \A a \in Nat : \A b \in Nat : a < b => <<a, b>> \in less
  BY <1>1 DEF OpToRel
<1>4. \A y \in T : ~(y < x)
  BY <1>2, <1>3
<1> QED
  BY <1>2, <1>4

(* A set that has 0 and every successor has every number.                  *)
LEMMA SetInduction ==
  ASSUME NEW S, 0 \in S, \A n \in Nat : n \in S => n + 1 \in S
  PROVE  Nat \subseteq S
<1> SUFFICES ASSUME Nat \ S # {} PROVE FALSE
  OBVIOUS
<1>1. PICK x \in Nat \ S : \A y \in Nat \ S : x <= y
  BY Least
<1>2. x # 0
  BY <1>1
<1>3. x - 1 \in Nat /\ x - 1 \notin S
  BY <1>1, <1>2
<1> QED
  BY <1>1, <1>3

-----------------------------------------------------------------------------
(* The functions that parseLines, parseCodeLines and purgeParsed recurse   *)
(* with exist, for any number of steps.                                    *)
IsRead(h, lines, a, n)  == h = [k \in 0..n |-> IF k = 0 THEN a ELSE ParseLine(h[k - 1], lines[k])]
IsAfter(h, f, a, n)     == h = [k \in 0..n |-> IF k = 0 THEN Enter(fs, f, a) ELSE IncludeNext(fs, h[k - 1])]
IsKept(h, s, n) ==
  h = [k \in 0..n |-> IF k = 0 THEN <<>>
                      ELSE IF s[k].kind = "ins" THEN Append(h[k - 1], s[k]) ELSE h[k - 1]]

(* parseLines: one step for each line.                                     *)
LEMMA ReadExists ==
  ASSUME NEW lines, NEW a, NEW n \in Nat
  PROVE  \E h : IsRead(h, lines, a, n)
<1> DEFINE S == {m \in Nat : \E h : IsRead(h, lines, a, m)}
<1>1. 0 \in S
  <2> DEFINE h == [k \in 0..0 |-> a]
  <2>1. h = [k \in 0..0 |-> IF k = 0 THEN a ELSE ParseLine(h[k - 1], lines[k])]
    OBVIOUS
  <2> QED
    BY <2>1 DEF IsRead
<1>2. ASSUME NEW m \in Nat, m \in S PROVE m + 1 \in S
  <2>1. PICK h : IsRead(h, lines, a, m)
    BY <1>2
  <2> DEFINE g == [k \in 0..(m + 1) |-> IF k <= m THEN h[k] ELSE ParseLine(h[m], lines[m + 1])]
  <2>2. ASSUME NEW k \in 0..(m + 1)
        PROVE  g[k] = IF k = 0 THEN a ELSE ParseLine(g[k - 1], lines[k])
    <3>1. CASE k = 0
      BY <2>1, <3>1 DEF IsRead
    <3>2. CASE k # 0 /\ k <= m
      <4>1. g[k] = h[k] /\ g[k - 1] = h[k - 1] /\ k \in 0..m
        BY <3>2
      <4> QED
        BY <2>1, <3>2, <4>1 DEF IsRead
    <3>3. CASE k = m + 1
      <4>1. g[k - 1] = h[m] /\ g[k] = ParseLine(h[m], lines[m + 1])
        BY <3>3
      <4> QED
        BY <3>3, <4>1
    <3> QED
      BY <3>1, <3>2, <3>3
  <2>3. IsRead(g, lines, a, m + 1)
    BY <2>2 DEF IsRead
  <2> QED
    BY <2>3
<1> HIDE DEF S
<1>3. n \in S
  BY <1>1, <1>2, SetInduction
<1> QED
  BY <1>3 DEF S

(* parseCodeLines: one step for each turn of its loops.                    *)
LEMMA AfterExists ==
  ASSUME NEW f, NEW a, NEW n \in Nat
  PROVE  \E h : IsAfter(h, f, a, n)
<1> DEFINE S == {m \in Nat : \E h : IsAfter(h, f, a, m)}
<1>1. 0 \in S
  <2> DEFINE h == [k \in 0..0 |-> Enter(fs, f, a)]
  <2>1. h = [k \in 0..0 |-> IF k = 0 THEN Enter(fs, f, a) ELSE IncludeNext(fs, h[k - 1])]
    OBVIOUS
  <2> QED
    BY <2>1 DEF IsAfter
<1>2. ASSUME NEW m \in Nat, m \in S PROVE m + 1 \in S
  <2>1. PICK h : IsAfter(h, f, a, m)
    BY <1>2
  <2> DEFINE g == [k \in 0..(m + 1) |-> IF k <= m THEN h[k] ELSE IncludeNext(fs, h[m])]
  <2>2. ASSUME NEW k \in 0..(m + 1)
        PROVE  g[k] = IF k = 0 THEN Enter(fs, f, a) ELSE IncludeNext(fs, g[k - 1])
    <3>1. CASE k = 0
      BY <2>1, <3>1 DEF IsAfter
    <3>2. CASE k # 0 /\ k <= m
      <4>1. g[k] = h[k] /\ g[k - 1] = h[k - 1] /\ k \in 0..m
        BY <3>2
      <4> QED
        BY <2>1, <3>2, <4>1 DEF IsAfter
    <3>3. CASE k = m + 1
      <4>1. g[k - 1] = h[m] /\ g[k] = IncludeNext(fs, h[m])
        BY <3>3
      <4> QED
        BY <3>3, <4>1
    <3> QED
      BY <3>1, <3>2, <3>3
  <2>3. IsAfter(g, f, a, m + 1)
    BY <2>2 DEF IsAfter
  <2> QED
    BY <2>3
<1> HIDE DEF S
<1>3. n \in S
  BY <1>1, <1>2, SetInduction
<1> QED
  BY <1>3 DEF S

(* purgeParsed: one step for each parsed line.                             *)
LEMMA KeptExists ==
  ASSUME NEW s, NEW n \in Nat
  PROVE  \E h : IsKept(h, s, n)
<1> DEFINE More(x, k) == IF s[k].kind = "ins" THEN Append(x, s[k]) ELSE x
           S == {m \in Nat : \E h : IsKept(h, s, m)}
<1>1. 0 \in S
  <2> DEFINE h == [k \in 0..0 |-> <<>>]
  <2>1. h = [k \in 0..0 |-> IF k = 0 THEN <<>> ELSE More(h[k - 1], k)]
    OBVIOUS
  <2> QED
    BY <2>1 DEF IsKept
<1>2. ASSUME NEW m \in Nat, m \in S PROVE m + 1 \in S
  <2>1. PICK h : IsKept(h, s, m)
    BY <1>2
  <2>0. \A k \in 0..m : h[k] = IF k = 0 THEN <<>> ELSE More(h[k - 1], k)
    BY <2>1 DEF IsKept
  <2> DEFINE g == [k \in 0..(m + 1) |-> IF k <= m THEN h[k] ELSE More(h[m], m + 1)]
  <2>2. ASSUME NEW k \in 0..(m + 1)
        PROVE  g[k] = IF k = 0 THEN <<>> ELSE More(g[k - 1], k)
    <3> HIDE DEF More
    <3>1. CASE k = 0
      BY <2>0, <3>1
    <3>2. CASE k # 0 /\ k <= m
      <4>1. g[k] = h[k] /\ g[k - 1] = h[k - 1] /\ k \in 0..m
        BY <3>2
      <4> QED
        BY <2>0, <3>2, <4>1
    <3>3. CASE k = m + 1
      <4>1. g[k - 1] = h[m] /\ g[k] = More(h[m], m + 1)
        BY <3>3
      <4> QED
        BY <3>3, <4>1
    <3> QED
      BY <3>1, <3>2, <3>3
  <2>3. g = [k \in 0..(m + 1) |-> IF k = 0 THEN <<>> ELSE More(g[k - 1], k)]
    <3> HIDE DEF More
    <3> QED
      BY <2>2
  <2>4. IsKept(g, s, m + 1)
    BY <2>3, Zenon DEF IsKept
  <2> HIDE DEF g
  <2> QED
    BY <2>4
<1> HIDE DEF S
<1>3. n \in S
  BY <1>1, <1>2, SetInduction
<1> QED
  BY <1>3 DEF S

(* purgeParsed on one line more. *)
LEMMA PurgeMore ==
  ASSUME NEW T, NEW s \in Seq(T), NEW x \in T
  PROVE  /\ purgeParsed(<<>>) = <<>>
         /\ purgeParsed(s) \in Seq(T)
         /\ purgeParsed(Append(s, x)) = IF x.kind = "ins" THEN Append(purgeParsed(s), x) ELSE purgeParsed(s)
<1>0. PICK n \in Nat : n = Len(s)
  BY LenProperties
<1>1. PICK t : /\ t = Append(s, x) /\ t \in Seq(T) /\ Len(t) = n + 1
               /\ \A k \in 1..n : t[k] = s[k]
               /\ t[n + 1] = x
  BY <1>0, AppendProperties
<1>2. PICK h : IsKept(h, s, n) /\ purgeParsed(s) = h[n]
  <2>1. IsKept(CHOOSE h : IsKept(h, s, Len(s)), s, Len(s))
    BY <1>0, KeptExists
  <2>2. purgeParsed(s) = (CHOOSE h : IsKept(h, s, Len(s)))[Len(s)]
    BY Zenon DEF purgeParsed, IsKept
  <2> QED
    BY <1>0, <2>1, <2>2, Zenon
<1>3. PICK g : IsKept(g, t, n + 1) /\ purgeParsed(t) = g[n + 1]
  <2>1. IsKept(CHOOSE g : IsKept(g, t, Len(t)), t, Len(t))
    BY <1>1, KeptExists
  <2>2. purgeParsed(t) = (CHOOSE g : IsKept(g, t, Len(t)))[Len(t)]
    BY Zenon DEF purgeParsed, IsKept
  <2> QED
    BY <1>1, <2>1, <2>2, Zenon
<1>4. ASSUME NEW s0, Len(s0) = 0 PROVE purgeParsed(s0) = <<>>
  <2>1. PICK e : IsKept(e, s0, 0) /\ purgeParsed(s0) = e[0]
    <3>1. IsKept(CHOOSE e : IsKept(e, s0, Len(s0)), s0, Len(s0))
      <4>1. Len(s0) \in Nat
        BY <1>4
      <4> HIDE <1>4
      <4> QED
        BY <4>1, KeptExists
    <3>2. purgeParsed(s0) = (CHOOSE e : IsKept(e, s0, Len(s0)))[Len(s0)]
      BY Zenon DEF purgeParsed, IsKept
    <3> QED
      BY <1>4, <3>1, <3>2, Zenon
  <2> QED
    BY <2>1 DEF IsKept
<1>5. /\ h[0] = <<>> /\ g[0] = <<>>
      /\ \A k \in 1..n : h[k] = IF s[k].kind = "ins" THEN Append(h[k - 1], s[k]) ELSE h[k - 1]
      /\ \A k \in 1..(n + 1) : g[k] = IF t[k].kind = "ins" THEN Append(g[k - 1], t[k]) ELSE g[k - 1]
  <2>1. ASSUME NEW e, NEW r, NEW m \in Nat, IsKept(e, r, m)
        PROVE  /\ e[0] = <<>>
               /\ \A k \in 1..m : e[k] = IF r[k].kind = "ins" THEN Append(e[k - 1], r[k]) ELSE e[k - 1]
    <3> DEFINE Kept(k) == IF r[k].kind = "ins" THEN Append(e[k - 1], r[k]) ELSE e[k - 1]
    <3>1. \A k \in 0..m : e[k] = IF k = 0 THEN <<>> ELSE Kept(k)
      BY <2>1, Zenon DEF IsKept
    <3> HIDE DEF Kept
    <3>2. e[0] = <<>> /\ \A k \in 1..m : e[k] = Kept(k)
      BY <3>1
    <3> QED
      BY <3>2 DEF Kept
  <2> QED
    BY <1>2, <1>3, <2>1
<1> DEFINE S == {k \in Nat : k <= n => g[k] = h[k] /\ h[k] \in Seq(T)}
<1>6. 0 \in S
  BY <1>5, EmptySeq
<1>7. ASSUME NEW k \in Nat, k \in S PROVE k + 1 \in S
  <2> SUFFICES ASSUME k + 1 <= n PROVE g[k + 1] = h[k + 1] /\ h[k + 1] \in Seq(T)
    OBVIOUS
  <2>1. k + 1 \in 1..n /\ k + 1 \in 1..(n + 1) /\ (k + 1) - 1 = k /\ t[k + 1] = s[k + 1] /\ s[k + 1] \in T
    BY <1>0, <1>1, ElementOfSeq
  <2>2. g[k] = h[k] /\ h[k] \in Seq(T)
    BY <1>7
  <2>3. Append(h[k], s[k + 1]) \in Seq(T)
    BY <2>1, <2>2, AppendProperties
  <2>4. h[k + 1] = IF s[k + 1].kind = "ins" THEN Append(h[k], s[k + 1]) ELSE h[k]
    BY <1>5, <2>1
  <2>5. g[k + 1] = IF s[k + 1].kind = "ins" THEN Append(h[k], s[k + 1]) ELSE h[k]
    BY <1>5, <2>1, <2>2
  <2> QED
    BY <2>2, <2>3, <2>4, <2>5
<1>8. g[n] = h[n] /\ h[n] \in Seq(T)
  <2> HIDE DEF S
  <2>1. n \in S
    BY <1>6, <1>7, SetInduction
  <2> QED
    BY <2>1 DEF S
<1>9. g[n + 1] = IF x.kind = "ins" THEN Append(g[n], x) ELSE g[n]
  BY <1>1, <1>5
<1> QED
  BY <1>1, <1>2, <1>3, <1>4, <1>8, <1>9, EmptySeq

-----------------------------------------------------------------------------
(* The files and what parseCodeLines keeps of them.                        *)
Line  == UNION {Range(fs[f]) : f \in DOMAIN fs}
FilesOK == IsFiniteSet(DOMAIN fs) /\ \A f \in DOMAIN fs : fs[f] \in Seq(Line)
Words == {l.name : l \in Line} \cup DOMAIN fs \cup Scripts \cup {0}
Value == {l.arg.of : l \in Line}
ParsedLine == [kind : {l.kind : l \in Line} \cup {"tag"}, name : Words, dest : {l.dest : l \in Line},
               arg  : {l.arg : l \in Line} \cup [kind : {"sys"}, of : Nat], opt : Words]
Statics  == [headers : SUBSET Words, included : SUBSET Words, list : Seq(Words), resized : BOOLEAN]
Pending  == [file : Words, open : BOOLEAN]
Acc == [st : Statics, literals : Seq(Value), parsed : Seq(ParsedLine), toInclude : Seq(Words), opt : Words,
        requests : Seq(Words), pending : Seq(Pending)]

(* FileSystemsAssumption, for the files of this run.                       *)
LEMMA FilesAreOK == fs \in FileSystems => FilesOK
<1> SUFFICES ASSUME fs \in FileSystems PROVE FilesOK
  OBVIOUS
<1>1. IsFiniteSet(DOMAIN fs) /\ \A f \in DOMAIN fs : fs[f] \in Seq(Range(fs[f]))
  BY FileSystemsAssumption
<1>2. \A f \in DOMAIN fs : Range(fs[f]) \subseteq Line
  BY DEF Line
<1>3. \A f \in DOMAIN fs : fs[f] \in Seq(Line)
  BY <1>1, <1>2, SeqMonotonic
<1> QED
  BY <1>1, <1>3 DEF FilesOK

(* Any name has a sequence of lines, an empty one if there is no such      *)
(* file.                                                                   *)
LEMMA LinesType ==
  ASSUME FilesOK, NEW f
  PROVE  /\ Lines(f) \in Seq(Line) /\ Len(Lines(f)) \in Nat /\ DOMAIN Lines(f) = 1..Len(Lines(f))
         /\ \A k \in 1..Len(Lines(f)) : Lines(f)[k] \in Line
<1>1. Lines(f) \in Seq(Line)
  BY EmptySeq DEF Lines, LinesOf, FilesOK
<1> QED
  BY <1>1, LenProperties, ElementOfSeq

(* A parsed line stands for the line it was made of. *)
Stands(p, l, literals) ==
  /\ p.name = l.name /\ p.dest = l.dest
  /\ l.arg.kind = "lit" =>
       p.arg.kind = "sys" /\ p.arg.of \in 1..Len(literals) /\ literals[p.arg.of] = l.arg.of

(* What reading a line makes of an accumulator. *)
ReadOne(a, b, l) ==
  /\ b.st.headers = a.st.headers /\ b.st.included = a.st.included /\ b.pending = a.pending
  /\ b.st.resized = (a.st.resized \/ l.kind = "mres")
  /\ b.requests = IF l.kind = "mres" /\ ~a.st.resized THEN Append(a.requests, l.name) ELSE a.requests
  /\ b.toInclude = IF l.kind = "include" /\ l.name \notin a.st.headers THEN Append(a.toInclude, l.name) ELSE a.toInclude
  /\ b.literals = a.literals \/ b.literals = Append(a.literals, l.arg.of)
  /\ IF l.kind = "ins"
     THEN \E p \in ParsedLine : /\ purgeParsed(b.parsed) = Append(purgeParsed(a.parsed), p)
                                /\ Stands(p, l, b.literals)
     ELSE purgeParsed(b.parsed) = purgeParsed(a.parsed)

(* An instruction is kept with its literal; a declaration, which is parsed *)
(* like one, is purged again.                                              *)
LEMMA InstructionStep ==
  ASSUME NEW a \in Acc, NEW l \in Line
  PROVE  LET b == ParseInstruction(a, l) IN
         /\ b \in Acc
         /\ b.st = a.st /\ b.pending = a.pending /\ b.requests = a.requests /\ b.toInclude = a.toInclude
         /\ b.literals = a.literals \/ b.literals = Append(a.literals, l.arg.of)
         /\ IF l.kind = "ins"
            THEN \E p \in ParsedLine : /\ purgeParsed(b.parsed) = Append(purgeParsed(a.parsed), p)
                                       /\ Stands(p, l, b.literals)
            ELSE purgeParsed(b.parsed) = purgeParsed(a.parsed)
<1> DEFINE b == ParseInstruction(a, l)
<1>1. PICK n \in Nat : n = Len(a.literals) /\ a.literals \in Seq(Value) /\ a.parsed \in Seq(ParsedLine)
  BY LenProperties DEF Acc
<1>2. l.arg.of \in Value /\ l.arg \in {k.arg : k \in Line} /\ l.name \in Words /\ 0 \in Words
      /\ l.kind \in {k.kind : k \in Line} /\ l.dest \in {k.dest : k \in Line}
  BY DEF Value, Words
<1>3. PICK lits : /\ lits = Append(a.literals, l.arg.of) /\ lits \in Seq(Value) /\ Len(lits) = n + 1
                  /\ lits[n + 1] = l.arg.of
  <2>1. PICK v : v = l.arg.of /\ v \in Value
    BY <1>2
  <2>2. PICK old \in Seq(Value) : old = a.literals /\ n = Len(old)
    BY <1>1
  <2>3. /\ Append(old, v) \in Seq(Value) /\ Len(Append(old, v)) = n + 1
        /\ Append(old, v)[n + 1] = v
    BY <2>1, <2>2, AppendProperties
  <2> QED
    BY <2>1, <2>2, <2>3
<1>4. PICK arg : arg = IF ~CompiletimeArg(l) THEN l.arg ELSE [kind |-> "sys", of |-> n + 1]
  OBVIOUS
<1>5. arg \in {k.arg : k \in Line} \cup [kind : {"sys"}, of : Nat]
  BY <1>1, <1>2, <1>4
<1>6. PICK p : p = [kind |-> l.kind, name |-> l.name, dest |-> l.dest, arg |-> arg, opt |-> a.opt]
  OBVIOUS
<1>7. p \in ParsedLine /\ p.kind = l.kind /\ p.name = l.name /\ p.dest = l.dest /\ p.arg = arg
  <2>1. a.opt \in Words
    BY DEF Acc
  <2> QED
    BY <1>2, <1>5, <1>6, <2>1 DEF ParsedLine
<1>8. Append(a.parsed, p) \in Seq(ParsedLine)
  BY <1>1, <1>7, AppendProperties
<1>9. purgeParsed(Append(a.parsed, p)) = IF l.kind = "ins" THEN Append(purgeParsed(a.parsed), p)
                                         ELSE purgeParsed(a.parsed)
  BY <1>1, <1>7, PurgeMore
<1>10. b = [(IF ~CompiletimeArg(l) THEN a ELSE [a EXCEPT !.literals = lits])
              EXCEPT !.parsed = Append(a.parsed, p), !.opt = 0]
  <2>1. CASE ~CompiletimeArg(l)
    <3>1. processCompiletimeArg(a, l) = [acc |-> a, arg |-> arg]
      BY <2>1, <1>4 DEF processCompiletimeArg
    <3> QED
      BY <2>1, <3>1, <1>6 DEF ParseInstruction, Parsed, Acc
  <2>2. CASE CompiletimeArg(l)
    <3>1. processCompiletimeArg(a, l) = [acc |-> [a EXCEPT !.literals = lits], arg |-> arg]
      BY <2>2, <1>1, <1>3, <1>4 DEF processCompiletimeArg, Acc
    <3>2. PICK c : c = [a EXCEPT !.literals = lits]
      OBVIOUS
    <3>3. c.parsed = a.parsed /\ c.opt = a.opt
      BY <3>2 DEF Acc
    <3>4. PICK r : r = processCompiletimeArg(a, l)
      OBVIOUS
    <3>5. r.acc = c /\ r.arg = arg
      BY <3>1, <3>2, <3>4
    <3>6. b = [r.acc EXCEPT !.parsed = Append(r.acc.parsed, Parsed(l.kind, l, r.arg, a.opt)), !.opt = 0]
      BY <3>4, Zenon DEF ParseInstruction
    <3>7. Parsed(l.kind, l, arg, a.opt) = p
      BY <1>6 DEF Parsed
    <3> HIDE DEF b
    <3> QED
      BY <2>2, <3>2, <3>3, <3>5, <3>6, <3>7
  <2> QED
    BY <2>1, <2>2
<1>11. PICK lit : /\ lit = IF ~CompiletimeArg(l) THEN a.literals ELSE lits
  OBVIOUS
<1>12. /\ b \in Acc /\ b.literals = lit /\ b.parsed = Append(a.parsed, p)
       /\ b.st = a.st /\ b.pending = a.pending /\ b.requests = a.requests /\ b.toInclude = a.toInclude
  <2> HIDE DEF b
  <2> QED
    BY <1>1, <1>2, <1>3, <1>8, <1>10, <1>11 DEF Acc
<1>13. ASSUME l.kind = "ins"
       PROVE  Stands(p, l, b.literals)
  <2>1. l.arg.kind = "lit" => arg.kind = "sys" /\ arg.of = n + 1 /\ lit = lits
    BY <1>4, <1>11, <1>13 DEF CompiletimeArg
  <2>2. n + 1 \in 1..(n + 1)
    BY <1>1
  <2> HIDE DEF b
  <2> QED
    BY <1>3, <1>7, <1>12, <2>1, <2>2 DEF Stands
<1>14. b.literals = a.literals \/ b.literals = Append(a.literals, l.arg.of)
  BY <1>3, <1>11, <1>12
<1> QED
  BY <1>7, <1>9, <1>12, <1>13, <1>14

(* Every kind of line does to an accumulator what ReadOne says.            *)
LEMMA LineStep ==
  ASSUME NEW a \in Acc, NEW l \in Line
  PROVE  ParseLine(a, l) \in Acc /\ ReadOne(a, ParseLine(a, l), l)
<1>0. l.name \in Words /\ 0 \in Words /\ l.dest \in {k.dest : k \in Line} /\ l.arg \in {k.arg : k \in Line}
  BY DEF Words
<1>1. CASE l.kind = "tag"
  <2>1. PICK p : p = [kind |-> "tag", name |-> l.name, dest |-> l.dest, arg |-> l.arg, opt |-> 0]
    OBVIOUS
  <2>2. p \in ParsedLine /\ p.kind = "tag"
    BY <1>0, <2>1 DEF ParsedLine
  <2>3. a.parsed \in Seq(ParsedLine)
    BY DEF Acc
  <2>4. Append(a.parsed, p) \in Seq(ParsedLine) /\ purgeParsed(Append(a.parsed, p)) = purgeParsed(a.parsed)
    BY <2>2, <2>3, AppendProperties, PurgeMore
  <2>5. ParseLine(a, l) = [a EXCEPT !.parsed = Append(a.parsed, p)]
    BY <1>1, <2>1 DEF ParseLine, Parsed
  <2> QED
    BY <1>1, <2>4, <2>5 DEF ReadOne, Acc, Statics
<1>2. CASE l.kind = "include"
  <2>1. CASE l.name \in a.st.headers
    <3>1. ParseLine(a, l) = a
      BY <1>2, <2>1 DEF ParseLine, ParseInclude
    <3> QED
      BY <1>2, <2>1, <3>1 DEF ReadOne, Acc, Statics
  <2>2. CASE l.name \notin a.st.headers
    <3>1. ParseLine(a, l) = [a EXCEPT !.toInclude = Append(a.toInclude, l.name), !.st.list = Append(a.st.list, l.name)]
      BY <1>2, <2>2 DEF ParseLine, ParseInclude, Acc
    <3>2. PICK list : list = Append(a.st.list, l.name) /\ list \in Seq(Words)
      BY <1>0, AppendProperties DEF Acc, Statics
    <3>3. PICK todo : todo = Append(a.toInclude, l.name) /\ todo \in Seq(Words)
      BY <1>0, AppendProperties DEF Acc
    <3>4. PICK st : st = [a.st EXCEPT !.list = list]
      OBVIOUS
    <3>5. /\ st \in Statics /\ st.headers = a.st.headers /\ st.included = a.st.included
          /\ st.resized = a.st.resized /\ a.st.resized \in BOOLEAN
      BY <3>2, <3>4 DEF Acc, Statics
    <3>6. PICK c : c = [a EXCEPT !.toInclude = todo, !.st = st]
      OBVIOUS
    <3>7. ParseLine(a, l) = c
      BY <3>1, <3>2, <3>3, <3>4, <3>6 DEF Acc
    <3>8. /\ c \in Acc /\ c.st = st /\ c.toInclude = todo /\ c.pending = a.pending /\ c.requests = a.requests
          /\ c.literals = a.literals /\ c.parsed = a.parsed
      BY <3>3, <3>5, <3>6 DEF Acc
    <3> QED
      BY <1>2, <2>2, <3>3, <3>5, <3>7, <3>8 DEF ReadOne
  <2> QED
    BY <2>1, <2>2
<1>3. CASE l.kind = "mres"
  <2>1. PICK c : c = IF a.st.resized THEN a ELSE [a EXCEPT !.st.resized = TRUE, !.requests = Append(a.requests, l.name)]
    OBVIOUS
  <2>2. ParseLine(a, l) = ParseInstruction(c, l)
    BY <1>3, <2>1 DEF ParseLine, ParseResize, Acc
  <2>3. Append(a.requests, l.name) \in Seq(Words)
    BY <1>0, AppendProperties DEF Acc
  <2>4. /\ c \in Acc /\ c.st.resized = TRUE /\ c.st.headers = a.st.headers /\ c.st.included = a.st.included
        /\ c.pending = a.pending /\ c.toInclude = a.toInclude /\ c.literals = a.literals /\ c.parsed = a.parsed
        /\ c.requests = IF ~a.st.resized THEN Append(a.requests, l.name) ELSE a.requests
    BY <2>1, <2>3 DEF Acc, Statics
  <2> HIDE <2>1
  <2> QED
    <3>1. PICK b : b = ParseInstruction(c, l)
      OBVIOUS
    <3>2. /\ b \in Acc
          /\ b.st = c.st /\ b.pending = c.pending /\ b.requests = c.requests /\ b.toInclude = c.toInclude
          /\ b.literals = c.literals \/ b.literals = Append(c.literals, l.arg.of)
          /\ purgeParsed(b.parsed) = purgeParsed(c.parsed)
      BY <1>3, <2>4, <3>1, InstructionStep
    <3>3. b.st.resized = (a.st.resized \/ l.kind = "mres")
      BY <1>3, <2>4, <3>2
    <3> QED
      BY <1>3, <2>2, <2>4, <3>1, <3>2, <3>3 DEF ReadOne
<1>4. CASE l.kind = "size"
  <2>1. ParseLine(a, l) = [a EXCEPT !.opt = l.name]
    BY <1>4 DEF ParseLine
  <2> QED
    BY <1>0, <1>4, <2>1 DEF ReadOne, Acc, Statics
<1>5. CASE l.kind \notin {"tag", "include", "mres", "size"}
  <2>1. ParseLine(a, l) = ParseInstruction(a, l)
    BY <1>5 DEF ParseLine
  <2>2. a.st.resized \in BOOLEAN
    BY DEF Acc, Statics
  <2> QED
    BY <1>5, <2>1, <2>2, InstructionStep DEF ReadOne
<1> QED
  BY <1>1, <1>2, <1>3, <1>4, <1>5

-----------------------------------------------------------------------------
(* What reading the first k lines of a file makes of an accumulator.       *)
IncludesOf(g) == {k \in DOMAIN Lines(g) : Lines(g)[k].kind = "include"}
AskedBy(g, k) == \E j \in 1..k : Lines(g)[j].kind = "mres"
Extends(s, t) == Len(s) <= Len(t) /\ \A i \in 1..Len(s) : t[i] = s[i]

ReadStatics(a, b, g, k) ==
  /\ b.st.headers = a.st.headers /\ b.st.included = a.st.included /\ b.pending = a.pending
  /\ b.st.resized = (a.st.resized \/ AskedBy(g, k))
  /\ ~a.st.resized /\ AskedBy(g, k) => Len(b.requests) = Len(a.requests) + 1
  /\ a.st.resized \/ ~AskedBy(g, k) => Len(b.requests) = Len(a.requests)

ReadIncludes(a, b, g, k) ==
  /\ Len(b.toInclude) <= Upto(IncludesOf(g), k)
  /\ \A i \in 1..Len(b.toInclude) : /\ b.toInclude[i] \notin a.st.headers
                                    /\ \E j \in IncludesOf(g) : b.toInclude[i] = Lines(g)[j].name
  /\ \A j \in 1..k : Lines(g)[j].kind = "include" /\ Lines(g)[j].name \notin a.st.headers =>
                       \E i \in 1..Len(b.toInclude) : b.toInclude[i] = Lines(g)[j].name

ReadCode(a, b, g, k) ==
  /\ Extends(a.literals, b.literals)
  /\ Extends(purgeParsed(a.parsed), purgeParsed(b.parsed))
  /\ Len(purgeParsed(b.parsed)) = Len(purgeParsed(a.parsed)) + Upto(InstructionsOf(g), k)
  /\ \A n \in InstructionsOf(g) : n <= k =>
        Stands(purgeParsed(b.parsed)[Len(purgeParsed(a.parsed)) + Upto(InstructionsOf(g), n)], Lines(g)[n], b.literals)

(* How Upto counts, from no line to all of them.                           *)
LEMMA UptoSteps ==
  ASSUME NEW len \in Nat, NEW ins, \A j \in ins : j \in Nat /\ 1 <= j /\ j <= len
  PROVE  /\ IsFiniteSet(ins) /\ Cardinality(ins) \in Nat
         /\ \A k \in Nat : Upto(ins, k) \in Nat
         /\ Upto(ins, 0) = 0 /\ Upto(ins, len) = Cardinality(ins)
         /\ \A k \in Nat : Upto(ins, k + 1) = Upto(ins, k) + IF k + 1 \in ins THEN 1 ELSE 0
         /\ \A k \in ins : Upto(ins, k) \in 1..Cardinality(ins)
         /\ \A k \in Nat, n \in ins : n <= k => Upto(ins, n) \in 1..Upto(ins, k)
<1> DEFINE Below(k) == {j \in ins : j <= k}
<1>0. \A j \in ins : j \in Nat /\ 1 <= j /\ j <= len
  OBVIOUS
<1>1. IsFiniteSet(ins) /\ Cardinality(ins) \in Nat
  <2>1. IsFiniteSet(1..len) /\ ins \in SUBSET (1..len)
    BY FS_Interval
  <2> QED
    BY <2>1, FS_Subset, FS_CardinalityType
<1>2. \A k \in Nat : IsFiniteSet(Below(k)) /\ Cardinality(Below(k)) \in Nat
  <2> TAKE k \in Nat
  <2>1. Below(k) \in SUBSET ins
    OBVIOUS
  <2> QED
    BY <1>1, <2>1, FS_Subset, FS_CardinalityType
<1>3. Below(0) = {} /\ Below(len) = ins
  <2>1. \A j : j \notin Below(0)
    BY <1>0
  <2>2. \A j : j \in Below(len) <=> j \in ins
    BY <1>0
  <2> HIDE DEF Below
  <2> QED
    BY <2>1, <2>2
<1>4. \A k \in Nat : Cardinality(Below(k + 1)) = Cardinality(Below(k)) + IF k + 1 \in ins THEN 1 ELSE 0
  <2> TAKE k \in Nat
  <2>1. CASE k + 1 \in ins
    <3>1. Below(k + 1) = Below(k) \cup {k + 1} /\ k + 1 \notin Below(k)
      <4>1. \A j : j \in Below(k + 1) <=> j \in Below(k) \/ j = k + 1
        BY <1>0, <2>1
      <4>2. k + 1 \notin Below(k)
        OBVIOUS
      <4> HIDE DEF Below
      <4> QED
        BY <4>1, <4>2
    <3> HIDE DEF Below
    <3> QED
      BY <1>2, <2>1, <3>1, FS_AddElement
  <2>2. CASE k + 1 \notin ins
    <3>1. Below(k + 1) = Below(k)
      <4>1. \A j : j \in Below(k + 1) <=> j \in Below(k)
        BY <1>0, <2>2
      <4> HIDE DEF Below
      <4> QED
        BY <4>1
    <3> HIDE DEF Below
    <3> QED
      BY <1>2, <2>2, <3>1
  <2> QED
    BY <2>1, <2>2
<1>5. \A k \in Nat, n \in ins : n <= k => Cardinality(Below(n)) \in 1..Cardinality(Below(k))
  <2> TAKE k \in Nat, n \in ins
  <2> HAVE n <= k
  <2>0. n \in Nat /\ \A j \in ins : j <= n => j <= k
    <3>1. \A i, j \in Nat : i <= j /\ j <= k => i <= k
      OBVIOUS
    <3> QED
      BY <1>0, <3>1
  <2>1. n \in Nat /\ n \in Below(n) /\ Below(n) \in SUBSET Below(k)
    <3>1. n \in Below(n)
      BY <2>0
    <3>2. \A j \in Below(n) : j \in Below(k)
      BY <2>0
    <3> QED
      BY <2>0, <3>1, <3>2
  <2>2. Cardinality(Below(n)) # 0 /\ Cardinality(Below(n)) \in Nat
    <3>1. Below(n) # {}
      BY <2>1
    <3> QED
      BY <1>2, <2>1, <3>1, FS_EmptySet
  <2>3. Cardinality(Below(n)) <= Cardinality(Below(k))
    BY <1>2, <2>1, FS_Subset
  <2> HIDE DEF Below
  <2> QED
    BY <1>2, <2>2, <2>3
<1>6. \A k : Upto(ins, k) = Cardinality(Below(k))
  BY DEF Upto
<1> HIDE DEF Below
<1>7. Upto(ins, 0) = 0 /\ Upto(ins, len) = Cardinality(ins)
  BY <1>3, <1>6, FS_EmptySet
<1>8. \A k \in ins : Upto(ins, k) \in 1..Cardinality(ins)
  BY <1>0, <1>5, <1>6, <1>7
<1> QED
  BY <1>1, <1>2, <1>4, <1>5, <1>6, <1>7, <1>8

(* One line more, for the statics.                                         *)
LEMMA ReadStaticsStep ==
  ASSUME NEW a \in Acc, NEW b \in Acc, NEW c, NEW g, NEW k \in Nat,
         ReadStatics(a, b, g, k), ReadOne(b, c, Lines(g)[k + 1])
  PROVE  ReadStatics(a, c, g, k + 1)
<1>1. AskedBy(g, k + 1) <=> (AskedBy(g, k) \/ Lines(g)[k + 1].kind = "mres")
  <2>1. \A j : j \in 1..(k + 1) <=> j \in 1..k \/ j = k + 1
    OBVIOUS
  <2> QED
    BY <2>1 DEF AskedBy
<1>3. a.st.resized \in BOOLEAN /\ Len(a.requests) \in Nat /\ Len(b.requests) \in Nat
  BY LenProperties DEF Acc, Statics
<1>4. b.st.resized = (a.st.resized \/ AskedBy(g, k))
  BY DEF ReadStatics
<1>5. c.st.resized = (b.st.resized \/ Lines(g)[k + 1].kind = "mres")
  BY DEF ReadOne
<1>6. c.st.resized = (a.st.resized \/ AskedBy(g, k + 1))
  BY <1>1, <1>4, <1>5
<1>7. /\ Lines(g)[k + 1].kind = "mres" /\ ~b.st.resized => Len(c.requests) = Len(b.requests) + 1
      /\ ~(Lines(g)[k + 1].kind = "mres" /\ ~b.st.resized) => Len(c.requests) = Len(b.requests)
  <2>1. \A x : Len(Append(b.requests, x)) = Len(b.requests) + 1
    BY DEF Acc
  <2>2. c.requests = IF Lines(g)[k + 1].kind = "mres" /\ ~b.st.resized
                     THEN Append(b.requests, Lines(g)[k + 1].name) ELSE b.requests
    BY DEF ReadOne
  <2> QED
    BY <2>1, <2>2, Zenon
<1>8. /\ ~a.st.resized /\ AskedBy(g, k) => Len(b.requests) = Len(a.requests) + 1
      /\ a.st.resized \/ ~AskedBy(g, k) => Len(b.requests) = Len(a.requests)
  BY DEF ReadStatics
<1>9. /\ ~a.st.resized /\ AskedBy(g, k + 1) => Len(c.requests) = Len(a.requests) + 1
      /\ a.st.resized \/ ~AskedBy(g, k + 1) => Len(c.requests) = Len(a.requests)
  BY <1>1, <1>4, <1>7, <1>8, Zenon
<1> QED
  BY <1>6, <1>9 DEF ReadStatics, ReadOne

(* One line more, for the files to include.                                *)
LEMMA ReadIncludesStep ==
  ASSUME NEW a \in Acc, NEW b \in Acc, NEW c, NEW g, NEW k \in Nat, FilesOK, k + 1 \in 1..Len(Lines(g)),
         ReadStatics(a, b, g, k), ReadIncludes(a, b, g, k), ReadOne(b, c, Lines(g)[k + 1])
  PROVE  ReadIncludes(a, c, g, k + 1)
<1> DEFINE l == Lines(g)[k + 1]
<1>1. /\ Upto(IncludesOf(g), k) \in Nat
      /\ Upto(IncludesOf(g), k + 1) = Upto(IncludesOf(g), k) + IF k + 1 \in IncludesOf(g) THEN 1 ELSE 0
  <2>1. Len(Lines(g)) \in Nat /\ \A j \in IncludesOf(g) : j \in Nat /\ 1 <= j /\ j <= Len(Lines(g))
    BY LinesType DEF IncludesOf
  <2> QED
    BY <2>1, UptoSteps
<1>2. k + 1 \in IncludesOf(g) <=> l.kind = "include"
  BY LinesType DEF IncludesOf
<1>3. c.toInclude = IF l.kind = "include" /\ l.name \notin a.st.headers THEN Append(b.toInclude, l.name) ELSE b.toInclude
  BY DEF ReadOne, ReadStatics
<1>4. PICK n \in Nat : n = Len(b.toInclude)
  BY LenProperties DEF Acc
<1>5. b.toInclude \in Seq(Words) /\ l.name \in Words
  BY LinesType DEF Acc, Words
<1>6. CASE l.kind = "include" /\ l.name \notin a.st.headers
  <2>1. PICK t : t = Append(b.toInclude, l.name) /\ Len(t) = n + 1 /\ t[n + 1] = l.name /\ \A i \in 1..n : t[i] = b.toInclude[i]
    <3>1. PICK x \in Words, s \in Seq(Words) : x = l.name /\ s = b.toInclude
      BY <1>5
    <3>2. Len(Append(s, x)) = Len(s) + 1 /\ Append(s, x)[Len(s) + 1] = x /\ \A i \in 1..Len(s) : Append(s, x)[i] = s[i]
      BY AppendProperties
    <3> HIDE DEF l
    <3> QED
      BY <1>4, <3>1, <3>2
  <2>2. c.toInclude = t
    BY <1>3, <1>6, <2>1
  <2>3. k + 1 \in IncludesOf(g)
    BY <1>2, <1>6
  <2> HIDE <2>1
  <2>4. \A i \in 1..Len(t) : t[i] \notin a.st.headers /\ \E j \in IncludesOf(g) : t[i] = Lines(g)[j].name
    <3> TAKE i \in 1..Len(t)
    <3>1. CASE i = n + 1
      BY <1>6, <2>1, <2>3, <3>1
    <3>2. CASE i \in 1..n
      BY <1>4, <2>1, <3>2 DEF ReadIncludes
    <3> QED
      BY <2>1, <3>1, <3>2
  <2>5. \A j \in 1..(k + 1) : Lines(g)[j].kind = "include" /\ Lines(g)[j].name \notin a.st.headers =>
                              \E i \in 1..Len(t) : t[i] = Lines(g)[j].name
    <3> TAKE j \in 1..(k + 1)
    <3> HAVE Lines(g)[j].kind = "include" /\ Lines(g)[j].name \notin a.st.headers
    <3>1. CASE j = k + 1
      BY <2>1, <3>1
    <3>2. CASE j \in 1..k
      <4>1. PICK i \in 1..n : b.toInclude[i] = Lines(g)[j].name
        BY <1>4, <3>2 DEF ReadIncludes
      <4>2. i \in 1..Len(t) /\ t[i] = Lines(g)[j].name
        BY <2>1, <4>1
      <4> QED
        BY <4>2
    <3> QED
      BY <3>1, <3>2
  <2>6. Len(t) <= Upto(IncludesOf(g), k + 1)
    BY <1>1, <1>4, <2>1, <2>3 DEF ReadIncludes
  <2> QED
    BY <2>2, <2>4, <2>5, <2>6 DEF ReadIncludes
<1>7. CASE ~(l.kind = "include" /\ l.name \notin a.st.headers)
  <2>1. c.toInclude = b.toInclude
    BY <1>3, <1>7
  <2>2. Len(c.toInclude) <= Upto(IncludesOf(g), k + 1)
    BY <1>1, <1>4, <2>1 DEF ReadIncludes
  <2>3. \A j \in 1..(k + 1) : Lines(g)[j].kind = "include" /\ Lines(g)[j].name \notin a.st.headers => j \in 1..k
    BY <1>7
  <2> QED
    BY <2>1, <2>2, <2>3 DEF ReadIncludes
<1> QED
  BY <1>6, <1>7

(* One sequence is the beginning of another: this is a preorder.           *)
LEMMA ExtendsFacts ==
  ASSUME NEW r, NEW s, NEW t, Len(r) \in Nat, Len(s) \in Nat, Len(t) \in Nat
  PROVE  /\ Extends(r, r)
         /\ Extends(r, s) /\ Extends(s, t) => Extends(r, t)
BY DEF Extends

(* Literals that come later do not change what a parsed line stands for.   *)
LEMMA StandsLonger ==
  ASSUME NEW p, NEW l, NEW s, NEW t, Len(s) \in Nat, Len(t) \in Nat, Extends(s, t), Stands(p, l, s)
  PROVE  Stands(p, l, t)
BY DEF Stands, Extends

(* One line more, for the instructions.                                    *)
LEMMA ReadCodeStep ==
  ASSUME NEW a \in Acc, NEW b \in Acc, NEW c \in Acc, NEW g, NEW k \in Nat, FilesOK, k + 1 \in 1..Len(Lines(g)),
         purgeParsed(a.parsed) \in Seq(ParsedLine), purgeParsed(b.parsed) \in Seq(ParsedLine),
         ReadCode(a, b, g, k), ReadOne(b, c, Lines(g)[k + 1])
  PROVE  ReadCode(a, c, g, k + 1)
<1> DEFINE l == Lines(g)[k + 1]
           ins == InstructionsOf(g)
           p == purgeParsed(a.parsed)
           q == purgeParsed(b.parsed)
           r == purgeParsed(c.parsed)
<1>1. /\ Upto(ins, k) \in Nat
      /\ Upto(ins, k + 1) = Upto(ins, k) + IF k + 1 \in ins THEN 1 ELSE 0
      /\ \A n \in ins : n <= k => Upto(ins, n) \in 1..Upto(ins, k)
      /\ \A n \in ins : n \in Nat
  <2>1. Len(Lines(g)) \in Nat /\ \A j \in ins : j \in Nat /\ 1 <= j /\ j <= Len(Lines(g))
    BY LinesType DEF InstructionsOf
  <2> QED
    BY <2>1, UptoSteps
<1>2. k + 1 \in ins <=> l.kind = "ins"
  BY LinesType DEF InstructionsOf
<1>3. PICK m \in Nat : m = Len(p)
  BY LenProperties
<1>4. PICK y \in Nat : y = Upto(ins, k) /\ Len(q) = m + y
  BY <1>1, <1>3 DEF ReadCode
<1>5. Len(a.literals) \in Nat /\ Len(b.literals) \in Nat /\ Len(c.literals) \in Nat
  BY LenProperties DEF Acc
<1>6. Extends(b.literals, c.literals)
  <2>1. CASE c.literals = b.literals
    BY <1>5, <2>1, ExtendsFacts
  <2>2. CASE c.literals = Append(b.literals, l.arg.of)
    <3>1. PICK s \in Seq(Value), v \in Value : s = b.literals /\ v = l.arg.of
      BY LinesType DEF Acc, Value
    <3>2. Len(Append(s, v)) = Len(s) + 1 /\ Len(s) \in Nat /\ \A i \in 1..Len(s) : Append(s, v)[i] = s[i]
      BY AppendProperties, LenProperties
    <3>3. Extends(s, Append(s, v))
      BY <3>2 DEF Extends
    <3> QED
      BY <2>2, <3>1, <3>3
  <2> QED
    BY <2>1, <2>2 DEF ReadOne
<1>7. Extends(a.literals, c.literals)
  BY <1>5, <1>6, ExtendsFacts DEF ReadCode
<1>8. \A n \in ins : n <= k => Upto(ins, n) \in 1..y /\ Stands(q[m + Upto(ins, n)], Lines(g)[n], c.literals)
  <2> TAKE n \in ins
  <2> HAVE n <= k
  <2>1. Stands(q[m + Upto(ins, n)], Lines(g)[n], b.literals)
    BY <1>3 DEF ReadCode
  <2> QED
    BY <1>1, <1>4, <1>5, <1>6, <2>1, StandsLonger
<1>9. Extends(p, q)
  BY DEF ReadCode
<1>10. CASE l.kind = "ins"
  <2>1. PICK e \in ParsedLine : r = Append(q, e) /\ Stands(e, l, c.literals)
    BY <1>10 DEF ReadOne
  <2>2. Len(r) = m + y + 1 /\ r[m + y + 1] = e /\ \A i \in 1..(m + y) : r[i] = q[i]
    <3>1. Len(Append(q, e)) = Len(q) + 1 /\ Append(q, e)[Len(q) + 1] = e /\ \A i \in 1..Len(q) : Append(q, e)[i] = q[i]
      BY AppendProperties
    <3> HIDE DEF q, r, p
    <3> QED
      BY <1>4, <2>1, <3>1
  <2> HIDE DEF p, q, r, l, ins
  <2>3. Extends(p, r)
    BY <1>3, <1>4, <1>9, <2>2 DEF Extends
  <2>4. Upto(ins, k + 1) = y + 1 /\ k + 1 \in ins
    BY <1>1, <1>2, <1>4, <1>10
  <2>5. Len(r) = Len(p) + Upto(ins, k + 1)
    BY <1>3, <1>4, <2>2, <2>4
  <2>6. \A n \in ins : n <= k + 1 => Stands(r[Len(p) + Upto(ins, n)], Lines(g)[n], c.literals)
    <3> TAKE n \in ins
    <3> HAVE n <= k + 1
    <3>1. CASE n = k + 1
      <4>1. Len(p) + Upto(ins, n) = m + y + 1
        BY <1>3, <1>4, <2>4, <3>1
      <4>2. Lines(g)[n] = l
        BY <3>1 DEF l
      <4> QED
        BY <2>1, <2>2, <4>1, <4>2
    <3>2. CASE n <= k
      <4>1. Upto(ins, n) \in 1..y
        BY <1>8, <3>2
      <4>2. m + Upto(ins, n) \in 1..(m + y)
        BY <1>3, <1>4, <4>1
      <4> QED
        BY <1>3, <1>8, <2>2, <3>2, <4>2
    <3>3. n \in Nat
      BY <1>1
    <3> QED
      BY <3>1, <3>2, <3>3
  <2> QED
    BY <1>7, <2>3, <2>5, <2>6 DEF ReadCode, p, q, r, ins
<1>11. CASE l.kind # "ins"
  <2>1. r = q
    BY <1>11 DEF ReadOne
  <2> HIDE DEF p, q, r, l, ins
  <2>2. Upto(ins, k + 1) = y
    BY <1>1, <1>2, <1>4, <1>11
  <2>3. Extends(p, r) /\ Len(r) = Len(p) + Upto(ins, k + 1)
    BY <1>3, <1>4, <1>9, <2>1, <2>2
  <2>4. \A n \in ins : n <= k + 1 => Stands(r[Len(p) + Upto(ins, n)], Lines(g)[n], c.literals)
    <3> TAKE n \in ins
    <3> HAVE n <= k + 1
    <3>1. n <= k
      BY <1>1, <1>2, <1>11
    <3> QED
      BY <1>3, <1>8, <2>1, <3>1
  <2> QED
    BY <1>7, <2>3, <2>4 DEF ReadCode, p, q, r, ins
<1> QED
  BY <1>10, <1>11

(* What reading all lines of a file makes of an accumulator. *)
LEMMA FileRead ==
  ASSUME FilesOK, NEW g, NEW a \in Acc, a.toInclude = <<>>
  PROVE  LET b == parseLines(Lines(g), a)
             n == Len(Lines(g))
         IN  b \in Acc /\ ReadStatics(a, b, g, n) /\ ReadIncludes(a, b, g, n) /\ ReadCode(a, b, g, n)
<1>0. PICK len \in Nat : len = Len(Lines(g))
  BY LinesType
<1>1. PICK h : IsRead(h, Lines(g), a, len) /\ parseLines(Lines(g), a) = h[len]
  <2>1. IsRead(CHOOSE h : IsRead(h, Lines(g), a, Len(Lines(g))), Lines(g), a, Len(Lines(g)))
    BY <1>0, ReadExists
  <2>2. parseLines(Lines(g), a) = (CHOOSE h : IsRead(h, Lines(g), a, Len(Lines(g))))[Len(Lines(g))]
    BY Zenon DEF parseLines, IsRead
  <2> QED
    BY <1>0, <2>1, <2>2, Zenon
<1>2. h[0] = a /\ \A k \in Nat : k + 1 <= len => h[k + 1] = ParseLine(h[k], Lines(g)[k + 1])
  <2> DEFINE Step(k) == ParseLine(h[k - 1], Lines(g)[k])
  <2>1. \A k \in 0..len : h[k] = IF k = 0 THEN a ELSE Step(k)
    BY <1>1, Zenon DEF IsRead
  <2> HIDE DEF Step
  <2>2. h[0] = a /\ \A k \in 1..len : h[k] = Step(k)
    BY <2>1
  <2>3. \A k \in Nat : k + 1 <= len => h[k + 1] = Step(k + 1) /\ (k + 1) - 1 = k
    BY <2>2
  <2> QED
    BY <2>2, <2>3 DEF Step
<1> DEFINE Good(k, b) == /\ b \in Acc /\ purgeParsed(b.parsed) \in Seq(ParsedLine)
                         /\ ReadStatics(a, b, g, k) /\ ReadIncludes(a, b, g, k) /\ ReadCode(a, b, g, k)
           S == {k \in Nat : k <= len => Good(k, h[k])}
<1>3. \A b \in Acc : b.parsed \in Seq(ParsedLine)
  BY DEF Acc
<1>4. \A s \in Seq(ParsedLine) : purgeParsed(s) \in Seq(ParsedLine)
  <2> TAKE s \in Seq(ParsedLine)
  <2>1. CASE s = <<>>
    <3>1. <<>> \in Seq({0}) /\ 0 \in {0} /\ <<>> \in Seq(ParsedLine)
      BY EmptySeq
    <3>2. purgeParsed(<<>>) = <<>>
      BY <3>1, PurgeMore
    <3> QED
      BY <2>1, <3>1, <3>2
  <2>2. CASE s # <<>>
    <3>1. s[1] \in ParsedLine
      BY <2>2, ElementOfSeq, EmptySeq
    <3> QED
      BY <3>1, PurgeMore
  <2> QED
    BY <2>1, <2>2
<1>5. Good(0, a)
  <2>1. ~AskedBy(g, 0)
    BY DEF AskedBy
  <2>2. /\ Upto(IncludesOf(g), 0) = 0 /\ Upto(InstructionsOf(g), 0) = 0
        /\ \A n \in InstructionsOf(g) : ~(n <= 0)
    <3>1. \A j \in IncludesOf(g) \cup InstructionsOf(g) : j \in Nat /\ 1 <= j /\ j <= len
      BY <1>0, LinesType DEF IncludesOf, InstructionsOf
    <3> QED
      BY <3>1, UptoSteps
  <2>3. ReadStatics(a, a, g, 0)
    BY <2>1 DEF ReadStatics, Acc, Statics
  <2>4. ReadIncludes(a, a, g, 0)
    BY <2>2 DEF ReadIncludes
  <2>5. purgeParsed(a.parsed) \in Seq(ParsedLine)
    BY <1>3, <1>4
  <2>6. Len(a.literals) \in Nat /\ Len(purgeParsed(a.parsed)) \in Nat
    BY <2>5, LenProperties DEF Acc
  <2>7. ReadCode(a, a, g, 0)
    BY <2>2, <2>6, ExtendsFacts DEF ReadCode
  <2> QED
    BY <2>3, <2>4, <2>5, <2>7
<1> HIDE DEF Good
<1>6. 0 \in S
  BY <1>2, <1>5
<1>7. ASSUME NEW k \in Nat, k \in S PROVE k + 1 \in S
  <2> SUFFICES ASSUME k + 1 <= len PROVE Good(k + 1, h[k + 1])
    OBVIOUS
  <2>1. k + 1 \in 1..Len(Lines(g)) /\ Lines(g)[k + 1] \in Line /\ Good(k, h[k])
    BY <1>0, <1>7, LinesType
  <2>2. PICK b \in Acc : b = h[k] /\ Good(k, b)
    BY <2>1 DEF Good
  <2>3. PICK c \in Acc : c = h[k + 1] /\ ReadOne(b, c, Lines(g)[k + 1])
    BY <1>2, <2>1, <2>2, LineStep
  <2>4. purgeParsed(c.parsed) \in Seq(ParsedLine) /\ purgeParsed(a.parsed) \in Seq(ParsedLine)
    BY <1>3, <1>4
  <2>5. ReadStatics(a, c, g, k + 1)
    BY <2>2, <2>3, ReadStaticsStep DEF Good
  <2>6. ReadIncludes(a, c, g, k + 1)
    BY <2>1, <2>2, <2>3, ReadIncludesStep DEF Good
  <2>7. ReadCode(a, c, g, k + 1)
    BY <2>1, <2>2, <2>3, <2>4, ReadCodeStep DEF Good
  <2> QED
    BY <2>3, <2>4, <2>5, <2>6, <2>7 DEF Good
<1> HIDE DEF S
<1>8. len \in S
  BY <1>6, <1>7, SetInduction
<1> QED
  BY <1>0, <1>1, <1>8 DEF S, Good

(* What a call of parseCodeLines on g makes of an accumulator.             *)
Asking(g) == Named(g, "mres") # {}
Waits(t) == ~t.open
Entered(a, b, g) ==
  /\ b.st.headers = a.st.headers \cup {g} /\ b.st.included = a.st.included
  /\ b.st.resized = (a.st.resized \/ Asking(g))
  /\ ~a.st.resized /\ Asking(g) => Len(b.requests) = Len(a.requests) + 1
  /\ a.st.resized \/ ~Asking(g) => Len(b.requests) = Len(a.requests)
  /\ \E n \in Nat :
       /\ n <= Cardinality(IncludesOf(g)) /\ Len(b.pending) = n + Len(a.pending)
       /\ \A i \in 1..n : /\ b.pending[i].open = FALSE
                         /\ b.pending[i].file \in Named(g, "include") \ b.st.headers
       /\ \A x \in Named(g, "include") \ b.st.headers : \E i \in 1..n : b.pending[i].file = x
       /\ \A i \in 1..Len(a.pending) : b.pending[n + i] = a.pending[i]
  /\ ReadCode(a, b, g, Len(Lines(g)))

(* Named holds the names of the lines of a kind and no others.             *)
LEMMA NamedLines ==
  ASSUME FilesOK, NEW g, NEW kind
  PROVE  /\ \A j \in 1..Len(Lines(g)) : Lines(g)[j].kind = kind => Lines(g)[j].name \in Named(g, kind)
         /\ \A x \in Named(g, kind) : \E j \in 1..Len(Lines(g)) : Lines(g)[j].kind = kind /\ Lines(g)[j].name = x
BY LinesType DEF Named, Range

(* A call of parseCodeLines up to its loop reads all lines of its file.    *)
LEMMA EnterStep ==
  ASSUME FilesOK, NEW g \in Words, NEW a \in Acc
  PROVE  Enter(fs, g, a) \in Acc /\ Entered(a, Enter(fs, g, a), g)
<1>0. Lines(g) = LinesOf(fs, g)
  BY DEF Lines
<1>1. PICK st : st = [a.st EXCEPT !.headers = a.st.headers \cup {g}]
  OBVIOUS
<1>2. PICK c : c = [a EXCEPT !.st = st, !.toInclude = <<>>, !.opt = 0]
  OBVIOUS
<1>3. /\ st \in Statics /\ st.headers = a.st.headers \cup {g} /\ st.included = a.st.included
      /\ st.resized = a.st.resized
  BY <1>1 DEF Acc, Statics
<1>4. /\ c \in Acc /\ c.st = st /\ c.toInclude = <<>> /\ c.pending = a.pending /\ c.requests = a.requests
      /\ c.literals = a.literals /\ c.parsed = a.parsed
  <2>1. 0 \in Words /\ <<>> \in Seq(Words)
    BY EmptySeq DEF Words
  <2> QED
    BY <1>2, <1>3, <2>1 DEF Acc
<1>5. PICK b : b = parseLines(Lines(g), c)
  OBVIOUS
<1>6. PICK n \in Nat : n = Len(Lines(g))
  BY LinesType
<1>7. b \in Acc /\ ReadStatics(c, b, g, n) /\ ReadIncludes(c, b, g, n) /\ ReadCode(c, b, g, n)
  BY <1>4, <1>5, <1>6, FileRead
<1>8. PICK tasks : tasks = [k \in DOMAIN b.toInclude |-> [file |-> b.toInclude[k], open |-> FALSE]]
  OBVIOUS
<1>9. PICK m \in Nat : /\ m = Len(b.toInclude) /\ b.toInclude \in Seq(Words) /\ b.pending \in Seq(Pending)
                       /\ DOMAIN b.toInclude = 1..m /\ \A i \in 1..m : b.toInclude[i] \in Words
  BY <1>7, LenProperties, ElementOfSeq DEF Acc
<1>10. \A i \in 1..m : tasks[i] = [file |-> b.toInclude[i], open |-> FALSE] /\ tasks[i] \in Pending
  BY <1>8, <1>9 DEF Pending
<1>11. tasks \in Seq(Pending) /\ Len(tasks) = m
  <2>1. tasks \in [1..m -> Pending]
    BY <1>8, <1>9, <1>10
  <2> QED
    BY <2>1, IsASeq, LenProperties
<1>12. PICK todo : todo = tasks \o b.pending
  OBVIOUS
<1>13. /\ todo \in Seq(Pending) /\ Len(todo) = m + Len(b.pending)
       /\ \A i \in 1..m : todo[i] = tasks[i]
       /\ \A i \in 1..Len(b.pending) : todo[m + i] = b.pending[i]
  <2>0. PICK u \in Seq(Pending), v \in Seq(Pending) : u = tasks /\ v = b.pending
    BY <1>9, <1>11
  <2>1. /\ u \o v \in Seq(Pending) /\ Len(u \o v) = Len(u) + Len(v)
        /\ \A i \in 1..Len(u) + Len(v) : (u \o v)[i] = IF i <= Len(u) THEN u[i] ELSE v[i - Len(u)]
        /\ Len(u) = m /\ Len(v) \in Nat
    BY <1>11, <2>0, ConcatProperties, LenProperties
  <2> QED
    BY <1>9, <1>12, <2>0, <2>1
<1>14. PICK e : e = [b EXCEPT !.pending = todo]
  OBVIOUS
<1>15. e \in Acc /\ e.st = b.st /\ e.pending = todo /\ e.requests = b.requests /\ e.literals = b.literals /\ e.parsed = b.parsed
  BY <1>7, <1>13, <1>14 DEF Acc
<1>16. Enter(fs, g, a) = e
  <2>1. c = [a EXCEPT !.st.headers = a.st.headers \cup {g}, !.toInclude = <<>>, !.opt = 0]
    BY <1>1, <1>2 DEF Acc
  <2>2. Enter(fs, g, a) = [b EXCEPT !.pending = tasks \o b.pending]
    BY <1>0, <1>5, <1>8, <2>1 DEF Enter
  <2> QED
    BY <1>12, <1>14, <2>2
<1>17. /\ e.st.headers = a.st.headers \cup {g} /\ e.st.included = a.st.included /\ b.pending = a.pending
       /\ e.st.resized = (a.st.resized \/ AskedBy(g, n))
       /\ ~a.st.resized /\ AskedBy(g, n) => Len(e.requests) = Len(a.requests) + 1
       /\ a.st.resized \/ ~AskedBy(g, n) => Len(e.requests) = Len(a.requests)
  BY <1>3, <1>4, <1>7, <1>15 DEF ReadStatics
<1>18. AskedBy(g, n) <=> Asking(g)
  BY <1>6, NamedLines DEF AskedBy, Asking
<1>19. ReadCode(a, e, g, Len(Lines(g)))
  BY <1>4, <1>6, <1>7, <1>15 DEF ReadCode
<1>20. m <= Cardinality(IncludesOf(g)) /\ Len(e.pending) = m + Len(a.pending)
  <2>1. \A j \in IncludesOf(g) : j \in Nat /\ 1 <= j /\ j <= n
    BY <1>6, LinesType DEF IncludesOf
  <2>2. Upto(IncludesOf(g), n) = Cardinality(IncludesOf(g))
    BY <2>1, UptoSteps
  <2> QED
    BY <1>7, <1>9, <1>13, <1>15, <1>17, <2>2 DEF ReadIncludes
<1>21. \A i \in 1..m : e.pending[i].open = FALSE /\ e.pending[i].file \in Named(g, "include") \ e.st.headers
  <2> TAKE i \in 1..m
  <2>1. e.pending[i] = [file |-> b.toInclude[i], open |-> FALSE]
    BY <1>10, <1>13, <1>15
  <2>2. b.toInclude[i] \notin c.st.headers /\ \E j \in IncludesOf(g) : b.toInclude[i] = Lines(g)[j].name
    BY <1>7, <1>9 DEF ReadIncludes
  <2>3. b.toInclude[i] \in Named(g, "include")
    BY <2>2, NamedLines, LinesType DEF IncludesOf
  <2> QED
    BY <1>3, <1>4, <1>17, <2>1, <2>2, <2>3
<1>22. \A x \in Named(g, "include") \ e.st.headers : \E i \in 1..m : e.pending[i].file = x
  <2> TAKE x \in Named(g, "include") \ e.st.headers
  <2>1. PICK j \in 1..n : Lines(g)[j].kind = "include" /\ Lines(g)[j].name = x
    BY <1>6, NamedLines
  <2>2. x \notin c.st.headers
    BY <1>3, <1>4, <1>17
  <2>3. PICK i \in 1..m : b.toInclude[i] = x
    BY <1>7, <1>9, <2>1, <2>2 DEF ReadIncludes
  <2>4. e.pending[i] = [file |-> x, open |-> FALSE]
    BY <1>10, <1>13, <1>15, <2>3
  <2> QED
    BY <2>4
<1>23. \A i \in 1..Len(a.pending) : e.pending[m + i] = a.pending[i]
  BY <1>13, <1>15, <1>17
<1>24. Entered(a, e, g)
  BY <1>17, <1>18, <1>19, <1>20, <1>21, <1>22, <1>23 DEF Entered
<1> QED
  BY <1>15, <1>16, <1>24

-----------------------------------------------------------------------------
(* The files a script reaches: the least set that is closed under include. *)
LEMMA ReachedLeast ==
  ASSUME NEW f
  PROVE  /\ f \in Reached(f)
         /\ \A g \in Reached(f) : Named(g, "include") \subseteq Reached(f)
         /\ \A P \in SUBSET Reached(f) :
               f \in P /\ (\A g \in P : Named(g, "include") \subseteq P) => P = Reached(f)
<1> DEFINE edges    == UNION {{g} \X Named(g, "include"): g \in Files}
           complete == {S \in SUBSET (Files \cup {f}):
                          f \in S /\ \A e \in edges: e[1] \in S => e[2] \in S}
<1>1. Reached(f) = {g \in Files \cup {f}: \A S \in complete: g \in S}
  BY DEF Reached
<1>2. \A g : g \notin DOMAIN fs => \A kind : Named(g, kind) = {}
  BY DEF Named, Lines, LinesOf, Range
<1>3. \A g : Named(g, "include") \subseteq Files
  BY <1>2 DEF Files
<1>4. \A g, x : x \in Named(g, "include") => <<g, x>> \in edges
  <2> TAKE g, x
  <2> HAVE x \in Named(g, "include")
  <2>1. g \in Files
    BY <1>2 DEF Files
  <2> QED
    BY <2>1
<1>5. \A e \in edges : e[2] \in Named(e[1], "include")
  OBVIOUS
<1> HIDE DEF edges
<1>6. f \in Reached(f)
  BY <1>1
<1>7. ASSUME NEW g \in Reached(f), NEW x \in Named(g, "include") PROVE x \in Reached(f)
  <2>1. \A S \in complete : x \in S
    <3> TAKE S \in complete
    <3>1. g \in S
      BY <1>1
    <3>2. <<g, x>> \in edges
      BY <1>4
    <3>3. <<g, x>>[1] \in S => <<g, x>>[2] \in S
      BY <3>2
    <3> QED
      BY <3>1, <3>3
  <2> QED
    BY <1>1, <1>3, <2>1
<1>8. ASSUME NEW P \in SUBSET Reached(f), f \in P, \A g \in P : Named(g, "include") \subseteq P PROVE P = Reached(f)
  <2>1. P \in SUBSET (Files \cup {f})
    BY <1>1
  <2>2. \A e \in edges : e[1] \in P => e[2] \in P
    BY <1>5, <1>8
  <2>3. P \in complete
    BY <1>8, <2>1, <2>2
  <2> HIDE DEF complete
  <2> QED
    BY <1>1, <2>3
<1> QED
  BY <1>6, <1>7, <1>8

-----------------------------------------------------------------------------
(* The files read so far are P: what the accumulator knows of them.        *)
CodeRead(a, P) ==
  /\ IsFiniteSet(Code(P))
  /\ Len(purgeParsed(a.parsed)) = Cardinality(Code(P))
  /\ \A g \in P : \E k \in 0..(Len(purgeParsed(a.parsed)) - Cardinality(InstructionsOf(g))) :
        \A n \in InstructionsOf(g) :
            Stands(purgeParsed(a.parsed)[k + Upto(InstructionsOf(g), n)], Lines(g)[n], a.literals)

Resizes(s, a, P) ==
  /\ a.st.resized = (s.resized \/ \E g \in P : Asking(g))
  /\ ~s.resized /\ (\E g \in P : Asking(g)) => Len(a.requests) = 1
  /\ s.resized \/ ~(\E g \in P : Asking(g)) => Len(a.requests) = 0

(* purgeParsed returns parsed lines.                                       *)
LEMMA PurgeType == \A a \in Acc : purgeParsed(a.parsed) \in Seq(ParsedLine) /\ Len(purgeParsed(a.parsed)) \in Nat
<1> SUFFICES ASSUME NEW a \in Acc PROVE purgeParsed(a.parsed) \in Seq(ParsedLine)
  BY LenProperties
<1>1. PICK s \in Seq(ParsedLine) : s = a.parsed
  BY DEF Acc
<1>2. CASE s = <<>>
  <2>1. <<>> \in Seq({0}) /\ 0 \in {0} /\ <<>> \in Seq(ParsedLine)
    BY EmptySeq
  <2>2. purgeParsed(<<>>) = <<>>
    BY <2>1, PurgeMore
  <2> QED
    BY <1>1, <1>2, <2>1, <2>2
<1>3. CASE s # <<>>
  <2>1. s[1] \in ParsedLine
    BY <1>3, ElementOfSeq, EmptySeq
  <2> QED
    BY <1>1, <2>1, PurgeMore
<1> QED
  BY <1>2, <1>3

(* A file that was not read yet adds its instructions.                     *)
LEMMA CodeOfOneMore ==
  ASSUME FilesOK, NEW P, NEW g, g \notin P, IsFiniteSet(Code(P))
  PROVE  /\ IsFiniteSet(Code(P \cup {g})) /\ Cardinality(Code(P)) \in Nat /\ Cardinality(InstructionsOf(g)) \in Nat
         /\ Cardinality(Code(P \cup {g})) = Cardinality(Code(P)) + Cardinality(InstructionsOf(g))
<1>1. Code(P \cup {g}) = Code(P) \cup ({g} \X InstructionsOf(g)) /\ Code(P) \cap ({g} \X InstructionsOf(g)) = {}
  BY DEF Code
<1>2. IsFiniteSet(InstructionsOf(g)) /\ Cardinality(InstructionsOf(g)) \in Nat
  <2>1. Len(Lines(g)) \in Nat /\ \A j \in InstructionsOf(g) : j \in Nat /\ 1 <= j /\ j <= Len(Lines(g))
    BY LinesType DEF InstructionsOf
  <2> QED
    BY <2>1, UptoSteps
<1>3. /\ IsFiniteSet({g} \X InstructionsOf(g))
      /\ Cardinality({g} \X InstructionsOf(g)) = Cardinality(InstructionsOf(g))
  <2>1. IsFiniteSet({g}) /\ Cardinality({g}) = 1
    BY FS_Singleton
  <2>2. Cardinality({g} \X InstructionsOf(g)) = 1 * Cardinality(InstructionsOf(g)) /\ IsFiniteSet({g} \X InstructionsOf(g))
    BY <1>2, <2>1, FS_Product
  <2> QED
    BY <1>2, <2>2
<1>4. Cardinality(Code(P)) \in Nat
  BY FS_CardinalityType
<1>5. /\ IsFiniteSet(Code(P) \cup ({g} \X InstructionsOf(g)))
      /\ Cardinality(Code(P) \cup ({g} \X InstructionsOf(g)))
            = Cardinality(Code(P)) + Cardinality({g} \X InstructionsOf(g)) - 0
  BY <1>1, <1>3, FS_Union, FS_EmptySet
<1>6. PICK c \in Nat, d \in Nat : c = Cardinality(Code(P)) /\ d = Cardinality(InstructionsOf(g))
  BY <1>2, <1>4
<1>7. Cardinality(Code(P \cup {g})) = c + d - 0
  BY <1>1, <1>3, <1>5, <1>6
<1>8. c + d - 0 = c + d
  OBVIOUS
<1>9. IsFiniteSet(Code(P \cup {g}))
  BY <1>1, <1>5
<1> QED
  BY <1>6, <1>7, <1>8, <1>9

(* The instructions of a file that is read follow those of the files       *)
(* before it, in one piece.                                                *)
LEMMA CodeReadStep ==
  ASSUME FilesOK, NEW a \in Acc, NEW b \in Acc, NEW P, NEW g, g \notin P,
         CodeRead(a, P), ReadCode(a, b, g, Len(Lines(g)))
  PROVE  CodeRead(b, P \cup {g})
<1> DEFINE p == purgeParsed(a.parsed)
           q == purgeParsed(b.parsed)
           ins == InstructionsOf(g)
<1>1. PICK m \in Nat, c \in Nat : m = Len(p) /\ c = Cardinality(ins) /\ m = Cardinality(Code(P))
  BY CodeOfOneMore DEF CodeRead
<1>2. IsFiniteSet(Code(P \cup {g})) /\ Cardinality(Code(P \cup {g})) = m + c
  BY <1>1, CodeOfOneMore DEF CodeRead
<1>3. Upto(ins, Len(Lines(g))) = c /\ \A n \in ins : Upto(ins, n) \in 1..c /\ n <= Len(Lines(g))
  <2>1. Len(Lines(g)) \in Nat /\ \A j \in InstructionsOf(g) : j \in Nat /\ 1 <= j /\ j <= Len(Lines(g))
    BY LinesType DEF InstructionsOf
  <2> QED
    BY <1>1, <2>1, UptoSteps
<1>4. /\ Len(q) = m + c /\ \A i \in 1..m : q[i] = p[i]
      /\ \A n \in ins : Stands(q[m + Upto(ins, n)], Lines(g)[n], b.literals)
  BY <1>1, <1>3 DEF ReadCode, Extends
<1>5. Len(a.literals) \in Nat /\ Len(b.literals) \in Nat /\ Extends(a.literals, b.literals)
  BY LenProperties DEF Acc, ReadCode
<1>6. ASSUME NEW h \in P \cup {g}
      PROVE  \E k \in 0..(Len(q) - Cardinality(InstructionsOf(h))) :
                \A n \in InstructionsOf(h) : Stands(q[k + Upto(InstructionsOf(h), n)], Lines(h)[n], b.literals)
  <2>1. CASE h = g
    <3>1. m \in 0..(Len(q) - c)
      BY <1>1, <1>4
    <3> QED
      BY <1>1, <1>4, <2>1, <3>1
  <2>2. CASE h \in P
    <3> DEFINE inh == InstructionsOf(h)
    <3>1. PICK k \in 0..(m - Cardinality(inh)) : \A n \in inh : Stands(p[k + Upto(inh, n)], Lines(h)[n], a.literals)
      BY <1>1, <2>2 DEF CodeRead
    <3>2. PICK d \in Nat : d = Cardinality(inh) /\ \A n \in inh : Upto(inh, n) \in 1..d
      <4>1. Len(Lines(h)) \in Nat /\ \A j \in inh : j \in Nat /\ 1 <= j /\ j <= Len(Lines(h))
        BY LinesType DEF InstructionsOf
      <4> QED
        BY <4>1, UptoSteps
    <3> HIDE DEF inh, p, q
    <3>3. k \in 0..(Len(q) - d)
      BY <1>1, <1>4, <3>1, <3>2
    <3>4. \A n \in inh : Stands(q[k + Upto(inh, n)], Lines(h)[n], b.literals)
      <4> TAKE n \in inh
      <4>1. k + Upto(inh, n) \in 1..m
        BY <1>1, <3>1, <3>2
      <4> QED
        BY <1>4, <1>5, <3>1, <4>1, StandsLonger
    <3> QED
      BY <3>2, <3>3, <3>4 DEF inh
  <2> QED
    BY <2>1, <2>2
<1> QED
  BY <1>2, <1>4, <1>6 DEF CodeRead

(* A file that is read asks for a resize only if none was made.            *)
LEMMA ResizesStep ==
  ASSUME NEW s \in Statics, NEW a \in Acc, NEW b \in Acc, NEW P, NEW g,
         Resizes(s, a, P), Entered(a, b, g)
  PROVE  Resizes(s, b, P \cup {g})
<1>1. (\E h \in P \cup {g} : Asking(h)) <=> (\E h \in P : Asking(h)) \/ Asking(g)
  OBVIOUS
<1>2. a.st.resized \in BOOLEAN /\ b.st.resized \in BOOLEAN /\ s.resized \in BOOLEAN
  BY DEF Acc, Statics
<1>3. b.st.resized = (s.resized \/ \E h \in P \cup {g} : Asking(h))
  BY <1>1, <1>2 DEF Resizes, Entered
<1>4. 0 + 1 = 1
  OBVIOUS
<1>5. ~s.resized /\ (\E h \in P \cup {g} : Asking(h)) => Len(b.requests) = 1
  BY <1>1, <1>4, Zenon DEF Resizes, Entered
<1>6. s.resized \/ ~(\E h \in P \cup {g} : Asking(h)) => Len(b.requests) = 0
  BY <1>1, Zenon DEF Resizes, Entered
<1> QED
  BY <1>3, <1>5, <1>6 DEF Resizes

-----------------------------------------------------------------------------
(* The files that are still to be included.  One that is waiting was no    *)
(* header when its line was read, and if it was read meanwhile it has been *)
(* marked as included or its call has not returned.                        *)
IncludeNames == {Lines(e[1])[e[2]].name : e \in IncludeLines(fs)}

PendingRight(f, s, a, P) ==
  /\ P \subseteq Reached(f) /\ f \in P
  /\ a.st.headers = s.headers \cup P /\ a.st.included \subseteq a.st.headers
  /\ \A i \in 1..Len(a.pending) :
        /\ a.pending[i].file \in Reached(f) \cap IncludeNames
        /\ a.pending[i].open => a.pending[i].file \in P
        /\ ~a.pending[i].open /\ a.pending[i].file \in a.st.headers =>
              \/ a.pending[i].file \in a.st.included
              \/ \E j \in 1..(i - 1) : a.pending[j].open /\ a.pending[j].file = a.pending[i].file
  /\ \A g \in P : \A x \in Named(g, "include") :
        x \in a.st.headers \/ \E i \in 1..Len(a.pending) : ~a.pending[i].open /\ a.pending[i].file = x

(* What a file includes, some line includes.                               *)
LEMMA NamedIsName ==
  ASSUME FilesOK, NEW g
  PROVE  Named(g, "include") \subseteq IncludeNames
<1> SUFFICES ASSUME NEW x \in Named(g, "include") PROVE x \in IncludeNames
  OBVIOUS
<1>1. PICK j \in 1..Len(Lines(g)) : Lines(g)[j].kind = "include" /\ Lines(g)[j].name = x
  BY NamedLines
<1>2. g \in DOMAIN fs /\ Lines(g) = fs[g] /\ j \in DOMAIN Lines(g)
  BY <1>1, LinesType DEF Lines, LinesOf
<1>3. <<g, j>> \in IncludeLines(fs)
  BY <1>1, <1>2 DEF IncludeLines
<1>4. Lines(<<g, j>>[1])[<<g, j>>[2]].name = x
  BY <1>1
<1> QED
  BY <1>3, <1>4 DEF IncludeNames

(* When the script itself has been read nothing but its own includes are   *)
(* pending.                                                                *)
LEMMA PendingFirst ==
  ASSUME FilesOK, NEW f, NEW s \in Statics, NEW a \in Acc, NEW b \in Acc,
         a.pending = <<>>, a.st = s, s.included \subseteq s.headers, Entered(a, b, f)
  PROVE  PendingRight(f, s, b, {f})
<1>1. PICK n \in Nat :
       /\ Len(b.pending) = n + Len(a.pending)
       /\ \A i \in 1..n : /\ b.pending[i].open = FALSE
                         /\ b.pending[i].file \in Named(f, "include") \ b.st.headers
       /\ \A x \in Named(f, "include") \ b.st.headers : \E i \in 1..n : b.pending[i].file = x
  BY DEF Entered
<1>2. Len(b.pending) = n
  BY <1>1
<1>3. b.st.headers = s.headers \cup {f} /\ b.st.included \subseteq b.st.headers
  BY DEF Entered
<1>4. f \in Reached(f) /\ Named(f, "include") \subseteq Reached(f) \cap IncludeNames
  BY ReachedLeast, NamedIsName
<1> QED
  BY <1>1, <1>2, <1>3, <1>4 DEF PendingRight

(* All but what is pending. *)
SameBut(a, b) == b.st = a.st /\ b.parsed = a.parsed /\ b.literals = a.literals /\ b.requests = a.requests

(* The first task is taken off, or opened. *)
LEMMA FirstTask ==
  ASSUME NEW a \in Acc, a.pending # <<>>
  PROVE  /\ Len(a.pending) \in Nat /\ Len(a.pending) > 0
         /\ Head(a.pending) = a.pending[1] /\ a.pending[1].file \in Words /\ a.pending[1].open \in BOOLEAN
         /\ Closed(a) \in Acc /\ SameBut(a, Closed(a)) /\ Len(Closed(a).pending) = Len(a.pending) - 1
         /\ \A i \in 1..(Len(a.pending) - 1) : Closed(a).pending[i] = a.pending[i + 1]
         /\ Opened(a) \in Acc /\ SameBut(a, Opened(a)) /\ Len(Opened(a).pending) = Len(a.pending)
         /\ Opened(a).pending[1].open = TRUE /\ Opened(a).pending[1].file = a.pending[1].file
         /\ \A i \in 2..Len(a.pending) : Opened(a).pending[i] = a.pending[i]
<1>1. PICK p \in Seq(Pending) : p = a.pending /\ p # <<>>
  BY DEF Acc
<1>2. PICK n \in Nat : n = Len(p) /\ n > 0
  BY <1>1, LenProperties, EmptySeq
<1>3. /\ Head(p) = p[1] /\ p[1] \in Pending
      /\ Tail(p) \in Seq(Pending) /\ Len(Tail(p)) = n - 1
      /\ \A i \in 1..(n - 1) : Tail(p)[i] = p[i + 1]
  BY <1>1, <1>2, HeadTailProperties, ElementOfSeq
<1>4. PICK t : t = [Head(p) EXCEPT !.open = TRUE]
  OBVIOUS
<1>5. t \in Pending /\ t.open = TRUE /\ t.file = p[1].file
  BY <1>3, <1>4 DEF Pending
<1>6. PICK q : q = <<t>> \o Tail(p)
  OBVIOUS
<1>7. /\ q \in Seq(Pending) /\ Len(q) = n /\ q[1] = t
      /\ \A i \in 2..n : q[i] = p[i]
  <2>. DEFINE u == <<t>>
              v == Tail(p)
  <2>0. u \in Seq(Pending) /\ v \in Seq(Pending) /\ u = <<t>> /\ v = Tail(p) /\ Len(u) = 1 /\ u[1] = t
    BY <1>3, <1>5
  <2> HIDE DEF u, v
  <2>1. /\ u \o v \in Seq(Pending) /\ Len(u \o v) = Len(u) + Len(v)
        /\ \A i \in 1..Len(u) + Len(v) : (u \o v)[i] = IF i <= Len(u) THEN u[i] ELSE v[i - Len(u)]
    BY <2>0, ConcatProperties
  <2>2. \A i \in 2..n : q[i] = v[i - 1] /\ i - 1 \in 1..(n - 1)
    BY <1>2, <1>3, <1>6, <2>0, <2>1
  <2>3. \A i \in 2..n : (i - 1) + 1 = i
    OBVIOUS
  <2>4. \A i \in 2..n : q[i] = p[i]
    BY <1>3, <2>0, <2>2, <2>3
  <2> QED
    BY <1>2, <1>3, <1>6, <2>0, <2>1, <2>4
<1>8. PICK b, c : b = Closed(a) /\ c = Opened(a)
  OBVIOUS
<1>9. b \in Acc /\ SameBut(a, b) /\ b.pending = Tail(p)
  <2>1. b = [a EXCEPT !.pending = Tail(p)]
    BY <1>1, <1>8 DEF Closed, Acc
  <2> QED
    BY <1>3, <2>1 DEF Acc, SameBut
<1>11. c \in Acc /\ SameBut(a, c) /\ c.pending = q
  <2>1. c = [a EXCEPT !.pending = q]
    BY <1>1, <1>4, <1>6, <1>8 DEF Opened, Acc
  <2> QED
    BY <1>7, <2>1 DEF Acc, SameBut
<1>12. p[1].file \in Words /\ p[1].open \in BOOLEAN
  BY <1>3 DEF Pending
<1>13. Len(b.pending) = n - 1 /\ \A i \in 1..(n - 1) : b.pending[i] = p[i + 1]
  BY <1>3, <1>9
<1>14. /\ Len(c.pending) = n /\ c.pending[1].open = TRUE /\ c.pending[1].file = p[1].file
       /\ \A i \in 2..n : c.pending[i] = p[i]
  BY <1>5, <1>7, <1>11
<1> QED
  BY <1>1, <1>2, <1>3, <1>8, <1>9, <1>11, <1>12, <1>13, <1>14

(* A file is taken off the list when its call has returned or it was       *)
(* included before.                                                        *)
LEMMA PendingDropped ==
  ASSUME NEW f, NEW s, NEW a \in Acc, NEW b, NEW P, PendingRight(f, s, a, P),
         a.pending # <<>>, b.pending = Closed(a).pending,
         b.st.headers = a.st.headers, b.st.included = a.st.included \cup {a.pending[1].file},
         a.pending[1].file \in a.st.headers
  PROVE  PendingRight(f, s, b, P)
<1>1. PICK n \in Nat : n = Len(a.pending) /\ n > 0 /\ Len(b.pending) = n - 1
  <2>1. Len(a.pending) \in Nat /\ Len(a.pending) > 0
    BY FirstTask
  <2>2. Len(Closed(a).pending) = Len(a.pending) - 1
    BY FirstTask
  <2> QED
    BY <2>1, <2>2
<1>2. \A i \in 1..(n - 1) : b.pending[i] = a.pending[i + 1] /\ i + 1 \in 1..n
  <2>1. \A i \in 1..(Len(a.pending) - 1) : Closed(a).pending[i] = a.pending[i + 1]
    BY FirstTask
  <2> QED
    BY <1>1, <2>1
<1>3. ASSUME NEW i \in 1..(n - 1)
      PROVE  /\ b.pending[i].file \in Reached(f) \cap IncludeNames
             /\ b.pending[i].open => b.pending[i].file \in P
             /\ ~b.pending[i].open /\ b.pending[i].file \in b.st.headers =>
                   \/ b.pending[i].file \in b.st.included
                   \/ \E j \in 1..(i - 1) : b.pending[j].open /\ b.pending[j].file = b.pending[i].file
  <2>1. PICK k \in 1..n : k = i + 1 /\ b.pending[i] = a.pending[k]
    BY <1>2
  <2>2. /\ a.pending[k].file \in Reached(f) \cap IncludeNames
        /\ a.pending[k].open => a.pending[k].file \in P
        /\ ~a.pending[k].open /\ a.pending[k].file \in a.st.headers =>
              \/ a.pending[k].file \in a.st.included
              \/ \E j \in 1..(k - 1) : a.pending[j].open /\ a.pending[j].file = a.pending[k].file
    BY <1>1 DEF PendingRight
  <2>3. ASSUME NEW j \in 1..(k - 1), a.pending[j].open, a.pending[j].file = a.pending[k].file
        PROVE  \/ b.pending[i].file \in b.st.included
               \/ \E m \in 1..(i - 1) : b.pending[m].open /\ b.pending[m].file = b.pending[i].file
    <3>1. CASE j = 1
      BY <2>1, <2>3, <3>1
    <3>2. CASE j # 1
      <4>1. j - 1 \in 1..(i - 1) /\ j - 1 \in 1..(n - 1) /\ (j - 1) + 1 = j
        BY <2>1, <3>2
      <4>2. b.pending[j - 1] = a.pending[j]
        BY <1>2, <4>1
      <4> QED
        BY <2>1, <2>3, <4>1, <4>2
    <3> QED
      BY <3>1, <3>2
  <2> QED
    BY <2>1, <2>2, <2>3
<1>4. ASSUME NEW g \in P, NEW x \in Named(g, "include"), x \notin b.st.headers
      PROVE  \E i \in 1..(n - 1) : ~b.pending[i].open /\ b.pending[i].file = x
  <2>1. PICK i \in 1..n : ~a.pending[i].open /\ a.pending[i].file = x
    BY <1>1, <1>4 DEF PendingRight
  <2>2. i # 1
    BY <1>4, <2>1
  <2>3. i - 1 \in 1..(n - 1) /\ (i - 1) + 1 = i
    BY <2>2
  <2>4. b.pending[i - 1] = a.pending[i]
    BY <1>2, <2>3
  <2> QED
    BY <2>1, <2>3, <2>4
<1>5. /\ P \subseteq Reached(f) /\ f \in P /\ b.st.headers = s.headers \cup P
      /\ b.st.included \subseteq b.st.headers
  BY DEF PendingRight
<1> QED
  BY <1>1, <1>3, <1>4, <1>5 DEF PendingRight

(* A file that is opened has not been read before: this is where           *)
(* global_toInclude matters.                                               *)
LEMMA PendingEntered ==
  ASSUME FilesOK, NEW f, NEW s, NEW a \in Acc, NEW c \in Acc, NEW b \in Acc, NEW P, NEW g,
         PendingRight(f, s, a, P), Entered(c, b, g),
         Len(a.pending) \in Nat, Len(a.pending) > 0, Len(c.pending) = Len(a.pending),
         a.pending[1].open = FALSE, g = a.pending[1].file, g \notin a.st.included,
         c.pending[1].open = TRUE, c.pending[1].file = g, \A i \in 2..Len(c.pending) : c.pending[i] = a.pending[i],
         c.st = a.st
  PROVE  g \notin P /\ g \in IncludeNames /\ PendingRight(f, s, b, P \cup {g})
<1>1. PICK m \in Nat : m = Len(a.pending) /\ m > 0 /\ Len(c.pending) = m /\ 1 \in 1..m
  OBVIOUS
<1>2. g \notin a.st.headers /\ g \in Reached(f) \cap IncludeNames
  <2>1. \A j \in 1..(1 - 1) : FALSE
    OBVIOUS
  <2> QED
    BY <1>1, <2>1 DEF PendingRight
<1>3. b.st.headers = a.st.headers \cup {g} /\ b.st.included = a.st.included
  BY DEF Entered
<1>4. PICK n \in Nat :
       /\ Len(b.pending) = n + m
       /\ \A i \in 1..n : /\ b.pending[i].open = FALSE
                         /\ b.pending[i].file \in Named(g, "include") \ b.st.headers
       /\ \A x \in Named(g, "include") \ b.st.headers : \E i \in 1..n : b.pending[i].file = x
       /\ \A i \in 1..m : b.pending[n + i] = c.pending[i]
  BY <1>1 DEF Entered
<1>5. Named(g, "include") \subseteq Reached(f) \cap IncludeNames
  BY <1>2, ReachedLeast, NamedIsName
<1>6. b.pending[n + 1].open = TRUE /\ b.pending[n + 1].file = g
  BY <1>1, <1>4
<1>7. \A i \in 2..m : b.pending[n + i] = a.pending[i] /\ i \in 1..m
  <2>1. \A i \in 2..m : i \in 1..m /\ c.pending[i] = a.pending[i]
    BY <1>1
  <2> QED
    BY <1>4, <2>1
<1>8. ASSUME NEW i \in 1..(n + m)
      PROVE  /\ b.pending[i].file \in Reached(f) \cap IncludeNames
             /\ b.pending[i].open => b.pending[i].file \in P \cup {g}
             /\ ~b.pending[i].open /\ b.pending[i].file \in b.st.headers =>
                   \/ b.pending[i].file \in b.st.included
                   \/ \E j \in 1..(i - 1) : b.pending[j].open /\ b.pending[j].file = b.pending[i].file
  <2>1. CASE i \in 1..n
    BY <1>4, <1>5, <2>1
  <2>2. CASE i = n + 1
    BY <1>2, <1>6, <2>2
  <2>3. CASE i > n + 1
    <3>1. PICK k \in 2..m : k = i - n /\ i = n + k
      BY <2>3
    <3>2. b.pending[i] = a.pending[k] /\ k \in 1..m
      BY <1>7, <3>1
    <3>3. /\ a.pending[k].file \in Reached(f) \cap IncludeNames
          /\ a.pending[k].open => a.pending[k].file \in P
          /\ ~a.pending[k].open /\ a.pending[k].file \in a.st.headers =>
                \/ a.pending[k].file \in a.st.included
                \/ \E j \in 1..(k - 1) : a.pending[j].open /\ a.pending[j].file = a.pending[k].file
      BY <1>1, <3>2 DEF PendingRight
    <3>4. ASSUME ~b.pending[i].open, b.pending[i].file \in b.st.headers
          PROVE  \/ b.pending[i].file \in b.st.included
                 \/ \E j \in 1..(i - 1) : b.pending[j].open /\ b.pending[j].file = b.pending[i].file
      <4>1. CASE b.pending[i].file = g
        <5>1. n + 1 \in 1..(i - 1)
          BY <2>3
        <5> QED
          BY <1>6, <4>1, <5>1
      <4>2. CASE a.pending[k].file \in a.st.included
        BY <1>3, <3>2, <4>2
      <4>3. ASSUME NEW j \in 1..(k - 1), a.pending[j].open, a.pending[j].file = a.pending[k].file
            PROVE  \E l \in 1..(i - 1) : b.pending[l].open /\ b.pending[l].file = b.pending[i].file
        <5>1. j # 1
          BY <4>3
        <5>2. j \in 2..m /\ n + j \in 1..(i - 1)
          BY <3>1, <5>1
        <5>3. b.pending[n + j] = a.pending[j]
          BY <1>7, <5>2
        <5> QED
          BY <3>2, <4>3, <5>2, <5>3
      <4>4. b.pending[i].file = g \/ a.pending[k].file \in a.st.headers
        BY <1>3, <3>2, <3>4
      <4> QED
        BY <3>2, <3>3, <3>4, <4>1, <4>2, <4>3, <4>4
    <3> QED
      BY <3>2, <3>3, <3>4
  <2> QED
    BY <2>1, <2>2, <2>3
<1>9. ASSUME NEW h \in P \cup {g}, NEW x \in Named(h, "include"), x \notin b.st.headers
      PROVE  \E i \in 1..(n + m) : ~b.pending[i].open /\ b.pending[i].file = x
  <2>1. CASE h = g
    <3>1. PICK i \in 1..n : b.pending[i].file = x
      BY <1>4, <1>9, <2>1
    <3>2. i \in 1..(n + m) /\ b.pending[i].open = FALSE
      BY <1>4, <3>1
    <3> QED
      BY <3>1, <3>2
  <2>2. CASE h \in P
    <3>1. x \notin a.st.headers
      BY <1>3, <1>9
    <3>2. PICK i \in 1..m : ~a.pending[i].open /\ a.pending[i].file = x
      BY <1>1, <2>2, <3>1 DEF PendingRight
    <3>3. i # 1
      BY <1>3, <1>9, <3>2
    <3>4. i \in 2..m /\ n + i \in 1..(n + m)
      BY <3>3
    <3>5. b.pending[n + i] = a.pending[i]
      BY <1>7, <3>4
    <3> QED
      BY <3>2, <3>4, <3>5
  <2> QED
    BY <2>1, <2>2
<1>10. /\ g \notin P /\ P \cup {g} \subseteq Reached(f) /\ f \in P \cup {g}
       /\ b.st.headers = s.headers \cup (P \cup {g}) /\ b.st.included \subseteq b.st.headers
  BY <1>2, <1>3 DEF PendingRight
<1> QED
  BY <1>2, <1>4, <1>8, <1>9, <1>10 DEF PendingRight

-----------------------------------------------------------------------------
(* Each turn of the loops shortens what is left to do: the tasks, the      *)
(* lines that include in files not yet read and the names not yet read.    *)
Unread(P) == UNION {{g} \X IncludesOf(g): g \in DOMAIN fs \ P}
Left(a, P) == Len(a.pending) + Cardinality(Unread(P)) + Cardinality(IncludeNames \ P)

(* Only finitely many lines include a file.                                *)
LEMMA IncludesFinite ==
  ASSUME FilesOK
  PROVE  /\ \A g : IsFiniteSet(IncludesOf(g)) /\ Cardinality(IncludesOf(g)) \in Nat
         /\ \A g : /\ IsFiniteSet({g} \X IncludesOf(g))
                   /\ Cardinality({g} \X IncludesOf(g)) = Cardinality(IncludesOf(g))
         /\ Unread({}) = IncludeLines(fs) /\ IsFiniteSet(IncludeLines(fs)) /\ Cardinality(IncludeLines(fs)) \in Nat
         /\ IsFiniteSet(IncludeNames) /\ Cardinality(IncludeNames) <= Cardinality(IncludeLines(fs))
<1>1. ASSUME NEW g PROVE IsFiniteSet(IncludesOf(g)) /\ Cardinality(IncludesOf(g)) \in Nat
  <2>1. Len(Lines(g)) \in Nat /\ \A j \in IncludesOf(g) : j \in Nat /\ 1 <= j /\ j <= Len(Lines(g))
    BY LinesType DEF IncludesOf
  <2> QED
    BY <2>1, UptoSteps
<1>2. ASSUME NEW g
      PROVE  IsFiniteSet({g} \X IncludesOf(g)) /\ Cardinality({g} \X IncludesOf(g)) = Cardinality(IncludesOf(g))
  <2>1. IsFiniteSet({g}) /\ Cardinality({g}) = 1
    BY FS_Singleton
  <2>2. Cardinality({g} \X IncludesOf(g)) = 1 * Cardinality(IncludesOf(g)) /\ IsFiniteSet({g} \X IncludesOf(g))
    BY <1>1, <2>1, FS_Product
  <2> QED
    BY <1>1, <2>2
<1>3. Unread({}) = IncludeLines(fs)
  <2>1. \A g \in DOMAIN fs : IncludesOf(g) = {k \in DOMAIN fs[g] : fs[g][k].kind = "include"}
    BY DEF IncludesOf, Lines, LinesOf
  <2> QED
    BY <2>1 DEF Unread, IncludeLines
<1>4. IsFiniteSet(Unread({}))
  <2> DEFINE parts == {{g} \X IncludesOf(g): g \in DOMAIN fs}
             part == [g \in DOMAIN fs |-> {g} \X IncludesOf(g)]
  <2>1. part \in Surjection(DOMAIN fs, parts)
    BY DEF Surjection
  <2>2. IsFiniteSet(DOMAIN fs)
    BY DEF FilesOK
  <2>3. IsFiniteSet(parts)
    <3> HIDE DEF part, parts
    <3> QED
      BY <2>1, <2>2, FS_Surjection
  <2>4. \A T \in parts : IsFiniteSet(T)
    BY <1>2
  <2>5. IsFiniteSet(UNION parts)
    <3> HIDE DEF part, parts
    <3> QED
      BY <2>3, <2>4, FS_UNION
  <2>6. Unread({}) = UNION parts
    BY DEF Unread
  <2> QED
    BY <2>5, <2>6
<1>5. IsFiniteSet(IncludeNames) /\ Cardinality(IncludeNames) <= Cardinality(IncludeLines(fs))
  <2> DEFINE name == [e \in IncludeLines(fs) |-> Lines(e[1])[e[2]].name]
  <2>1. name \in Surjection(IncludeLines(fs), IncludeNames)
    BY DEF Surjection, IncludeNames
  <2> HIDE DEF name
  <2> QED
    BY <1>3, <1>4, <2>1, FS_Surjection
<1>6. IsFiniteSet(IncludeLines(fs)) /\ Cardinality(IncludeLines(fs)) \in Nat
  BY <1>3, <1>4, FS_CardinalityType
<1> QED
  BY <1>1, <1>2, <1>3, <1>5, <1>6

(* What is left to read is finite.                                         *)
LEMMA UnreadFinite ==
  ASSUME FilesOK, NEW P
  PROVE  /\ IsFiniteSet(Unread(P)) /\ Cardinality(Unread(P)) \in Nat
         /\ IsFiniteSet(IncludeNames \ P) /\ Cardinality(IncludeNames \ P) \in Nat
<1>1. Unread(P) \in SUBSET Unread({})
  BY DEF Unread
<1>2. IsFiniteSet(Unread(P))
  BY <1>1, IncludesFinite, FS_Subset
<1>3. IsFiniteSet(IncludeNames \ P)
  BY IncludesFinite, FS_Difference
<1> QED
  BY <1>2, <1>3, FS_CardinalityType

(* Reading a file leaves less to read.                                     *)
LEMMA UnreadLess ==
  ASSUME FilesOK, NEW P, NEW g, g \notin P
  PROVE  /\ Cardinality(Unread(P \cup {g})) + Cardinality(IncludesOf(g)) = Cardinality(Unread(P))
         /\ g \in IncludeNames => Cardinality(IncludeNames \ (P \cup {g})) + 1 = Cardinality(IncludeNames \ P)
<1>1. PICK x \in Nat, y \in Nat : x = Cardinality(Unread(P \cup {g})) /\ y = Cardinality(IncludesOf(g))
  BY UnreadFinite, IncludesFinite
<1>2. g \notin DOMAIN fs => IncludesOf(g) = {}
  BY DEF IncludesOf, Lines, LinesOf
<1>3. Unread(P) = Unread(P \cup {g}) \cup ({g} \X IncludesOf(g))
  <2>1. CASE g \in DOMAIN fs
    BY <2>1 DEF Unread
  <2>2. CASE g \notin DOMAIN fs
    <3>1. {g} \X IncludesOf(g) = {}
      BY <1>2, <2>2
    <3>2. DOMAIN fs \ P = DOMAIN fs \ (P \cup {g})
      BY <2>2
    <3> QED
      BY <3>1, <3>2 DEF Unread
  <2> QED
    BY <2>1, <2>2
<1>4. Unread(P \cup {g}) \cap ({g} \X IncludesOf(g)) = {}
  BY DEF Unread
<1>5. Cardinality(Unread(P)) = x + y - 0
  <2>1. IsFiniteSet(Unread(P \cup {g})) /\ IsFiniteSet({g} \X IncludesOf(g)) /\ Cardinality({g} \X IncludesOf(g)) = y
    BY <1>1, UnreadFinite, IncludesFinite
  <2>2. Cardinality(Unread(P \cup {g}) \cap ({g} \X IncludesOf(g))) = 0
    BY <1>4, FS_EmptySet
  <2>3. Cardinality(Unread(P)) = Cardinality(Unread(P \cup {g})) + Cardinality({g} \X IncludesOf(g))
                                   - Cardinality(Unread(P \cup {g}) \cap ({g} \X IncludesOf(g)))
    BY <1>3, <2>1, FS_Union
  <2> QED
    BY <1>1, <2>1, <2>2, <2>3
<1>6. g \in IncludeNames => Cardinality(IncludeNames \ (P \cup {g})) + 1 = Cardinality(IncludeNames \ P)
  <2> SUFFICES ASSUME g \in IncludeNames PROVE Cardinality(IncludeNames \ (P \cup {g})) + 1 = Cardinality(IncludeNames \ P)
    OBVIOUS
  <2>1. IncludeNames \ (P \cup {g}) = (IncludeNames \ P) \ {g} /\ g \in IncludeNames \ P
    OBVIOUS
  <2>2. Cardinality((IncludeNames \ P) \ {g}) = Cardinality(IncludeNames \ P) - 1 /\ Cardinality(IncludeNames \ P) \in Nat
    BY <2>1, UnreadFinite, FS_RemoveElement
  <2> QED
    BY <2>1, <2>2
<1>7. x + y - 0 = x + y
  OBVIOUS
<1> QED
  BY <1>1, <1>5, <1>6, <1>7

-----------------------------------------------------------------------------
(* The loops over toInclude, one turn after the other.                     *)
Linked(f, s, a, P) == a \in Acc /\ PendingRight(f, s, a, P) /\ Resizes(s, a, P) /\ CodeRead(a, P)

(* A turn that opens a file.                                               *)
LEMMA EnterMore ==
  ASSUME FilesOK, NEW s \in Statics, NEW f, NEW a, NEW P, Linked(f, s, a, P), a.pending # <<>>,
         a.pending[1].open = FALSE, a.pending[1].file \notin a.st.included
  PROVE  LET b == Enter(fs, a.pending[1].file, Opened(a))
             Q == P \cup {a.pending[1].file}
         IN  Linked(f, s, b, Q) /\ Left(b, Q) < Left(a, P)
<1> DEFINE g == a.pending[1].file
<1>1. PICK c : c = Opened(a)
  OBVIOUS
<1>2. a \in Acc
  BY DEF Linked
<1>3. /\ Len(a.pending) \in Nat /\ Len(a.pending) > 0 /\ g \in Words
      /\ c \in Acc /\ SameBut(a, c)
      /\ Len(c.pending) = Len(a.pending)
      /\ c.pending[1].open = TRUE /\ c.pending[1].file = g
      /\ \A i \in 2..Len(c.pending) : c.pending[i] = a.pending[i]
  <2>1. Len(a.pending) \in Nat /\ Len(a.pending) > 0 /\ a.pending[1].file \in Words
    BY <1>1, <1>2, FirstTask
  <2>2. c \in Acc /\ SameBut(a, c)
    BY <1>1, <1>2, FirstTask
  <2>3. Len(c.pending) = Len(a.pending) /\ c.pending[1].open = TRUE /\ c.pending[1].file = g
    BY <1>1, <1>2, FirstTask
  <2>4. \A i \in 2..Len(a.pending) : Opened(a).pending[i] = a.pending[i]
    BY <1>2, FirstTask
  <2> QED
    BY <1>1, <2>1, <2>2, <2>3, <2>4
<1>4. c.st = a.st /\ c.parsed = a.parsed /\ c.literals = a.literals /\ c.requests = a.requests
  BY <1>3 DEF SameBut
<1>5. PICK b : b = Enter(fs, g, c) /\ b \in Acc /\ Entered(c, b, g)
  BY <1>3, EnterStep
<1> HIDE DEF g
<1>6. g \notin P /\ g \in IncludeNames /\ PendingRight(f, s, b, P \cup {g})
  <2>1. PendingRight(f, s, a, P)
    BY DEF Linked
  <2>2. g = a.pending[1].file /\ g \notin a.st.included /\ a.pending[1].open = FALSE
    BY DEF g
  <2> QED
    BY <1>2, <1>3, <1>4, <1>5, <2>1, <2>2, PendingEntered
<1>7. Resizes(s, c, P) /\ CodeRead(c, P)
  BY <1>4 DEF Linked, Resizes, CodeRead
<1>8. Resizes(s, b, P \cup {g})
  BY <1>3, <1>5, <1>7, ResizesStep
<1>9. CodeRead(b, P \cup {g})
  BY <1>3, <1>5, <1>6, <1>7, CodeReadStep DEF Entered
<1>10. Left(b, P \cup {g}) < Left(a, P)
  <2>1. PICK n \in Nat : n <= Cardinality(IncludesOf(g)) /\ Len(b.pending) = n + Len(a.pending)
    BY <1>3, <1>5 DEF Entered
  <2>2. /\ Cardinality(Unread(P \cup {g})) + Cardinality(IncludesOf(g)) = Cardinality(Unread(P))
        /\ Cardinality(IncludeNames \ (P \cup {g})) + 1 = Cardinality(IncludeNames \ P)
    BY <1>6, UnreadLess
  <2>3. /\ Cardinality(Unread(P \cup {g})) \in Nat /\ Cardinality(IncludesOf(g)) \in Nat
        /\ Cardinality(IncludeNames \ (P \cup {g})) \in Nat
    BY UnreadFinite, IncludesFinite
  <2> QED
    BY <1>3, <2>1, <2>2, <2>3 DEF Left
<1> QED
  BY <1>1, <1>5, <1>6, <1>8, <1>9, <1>10 DEF Linked, g

(* A turn that takes a file off the list.                                  *)
LEMMA DropTask ==
  ASSUME FilesOK, NEW s \in Statics, NEW f, NEW a, NEW P, Linked(f, s, a, P), a.pending # <<>>,
         a.pending[1].open = TRUE \/ a.pending[1].file \in a.st.included,
         NEW b, b = [Closed(a) EXCEPT !.st.included = @ \cup {a.pending[1].file}]
  PROVE  Linked(f, s, b, P) /\ Left(b, P) < Left(a, P)
<1>1. PICK c : c = Closed(a)
  OBVIOUS
<1>2. a \in Acc
  BY DEF Linked
<1>3. /\ Len(a.pending) \in Nat /\ Len(a.pending) > 0 /\ a.pending[1].file \in Words
      /\ c \in Acc /\ SameBut(a, c)
      /\ Len(c.pending) = Len(a.pending) - 1
      /\ \A i \in 1..Len(c.pending) : c.pending[i] = a.pending[i + 1]
  <2>1. Len(a.pending) \in Nat /\ Len(a.pending) > 0 /\ a.pending[1].file \in Words
    BY <1>1, <1>2, FirstTask
  <2>2. c \in Acc /\ SameBut(a, c) /\ Len(c.pending) = Len(a.pending) - 1
    BY <1>1, <1>2, FirstTask
  <2>3. \A i \in 1..(Len(a.pending) - 1) : Closed(a).pending[i] = a.pending[i + 1]
    BY <1>2, FirstTask
  <2> QED
    BY <1>1, <2>1, <2>2, <2>3
<1>4. c.st = a.st /\ c.parsed = a.parsed /\ c.literals = a.literals /\ c.requests = a.requests
  BY <1>3 DEF SameBut
<1>5. PICK st : st = [a.st EXCEPT !.included = a.st.included \cup {a.pending[1].file}]
  OBVIOUS
<1>6. /\ st \in Statics /\ st.headers = a.st.headers /\ st.included = a.st.included \cup {a.pending[1].file}
      /\ st.resized = a.st.resized
  BY <1>2, <1>3, <1>5 DEF Acc, Statics
<1>7. /\ b \in Acc /\ b.st = st /\ b.parsed = a.parsed /\ b.literals = a.literals /\ b.requests = a.requests
      /\ b.pending = c.pending
  <2>1. b = [c EXCEPT !.st = st]
    BY <1>1, <1>3, <1>4, <1>5 DEF Acc
  <2> QED
    BY <1>3, <1>4, <1>6, <2>1 DEF Acc
<1>8. a.pending[1].file \in a.st.headers
  <2>1. 1 \in 1..Len(a.pending)
    BY <1>3
  <2> QED
    BY <2>1 DEF Linked, PendingRight
<1>9. PendingRight(f, s, b, P)
  <2>1. PendingRight(f, s, a, P)
    BY DEF Linked
  <2>2. b.pending = Closed(a).pending
    BY <1>1, <1>7
  <2>3. b.st.headers = a.st.headers /\ b.st.included = a.st.included \cup {a.pending[1].file}
    BY <1>6, <1>7
  <2> QED
    BY <1>2, <1>8, <2>1, <2>2, <2>3, PendingDropped
<1>10. Resizes(s, b, P) /\ CodeRead(b, P)
  BY <1>6, <1>7 DEF Linked, Resizes, CodeRead
<1>11. Left(b, P) < Left(a, P)
  <2>1. Cardinality(Unread(P)) \in Nat /\ Cardinality(IncludeNames \ P) \in Nat
    BY UnreadFinite
  <2>2. Len(b.pending) = Len(a.pending) - 1 /\ Len(a.pending) \in Nat
    BY <1>3, <1>7
  <2> QED
    BY <2>1, <2>2 DEF Left
<1> QED
  BY <1>7, <1>9, <1>10, <1>11 DEF Linked

(* A turn of the loops keeps what Linked says and leaves less to do, or    *)
(* there was nothing to do.                                                *)
LEMMA IncludeStep ==
  ASSUME FilesOK, NEW s \in Statics, NEW f, NEW a, NEW P, Linked(f, s, a, P)
  PROVE  \E Q : /\ Linked(f, s, IncludeNext(fs, a), Q)
                /\ IF a.pending = <<>> THEN IncludeNext(fs, a) = a
                   ELSE Left(IncludeNext(fs, a), Q) < Left(a, P)
<1>1. CASE a.pending = <<>>
  BY <1>1 DEF IncludeNext
<1>2. CASE a.pending # <<>>
  <2>1. /\ Head(a.pending) = a.pending[1] /\ a.pending[1].open \in BOOLEAN /\ Closed(a) \in Acc
        /\ Closed(a).st.included = a.st.included
    <3>1. a \in Acc
      BY DEF Linked
    <3>2. Closed(a).st = a.st
      BY <3>1 DEF Closed, Acc
    <3> QED
      BY <1>2, <3>1, <3>2, FirstTask
  <2>2. CASE a.pending[1].open
    <3>1. IncludeNext(fs, a) = [Closed(a) EXCEPT !.st.included = @ \cup {a.pending[1].file}]
      BY <1>2, <2>1, <2>2 DEF IncludeNext
    <3> QED
      BY <1>2, <2>2, <3>1, DropTask
  <2>3. CASE ~a.pending[1].open /\ a.pending[1].file \in a.st.included
    <3>1. IncludeNext(fs, a) = Closed(a)
      BY <1>2, <2>1, <2>3 DEF IncludeNext
    <3>2. a.st.included \cup {a.pending[1].file} = a.st.included
      BY <2>3
    <3>3. Closed(a) = [Closed(a) EXCEPT !.st.included = @ \cup {a.pending[1].file}]
      BY <2>1, <3>2 DEF Acc, Statics
    <3> QED
      BY <1>2, <2>3, <3>1, <3>3, DropTask
  <2>4. CASE ~a.pending[1].open /\ a.pending[1].file \notin a.st.included
    <3>1. IncludeNext(fs, a) = Enter(fs, a.pending[1].file, Opened(a))
      BY <1>2, <2>1, <2>4 DEF IncludeNext
    <3> QED
      <4>1. a.pending[1].open = FALSE
        BY <2>1, <2>4
      <4> QED
        BY <1>2, <2>4, <3>1, <4>1, EnterMore
  <2> QED
    BY <2>1, <2>2, <2>3, <2>4
<1> QED
  BY <1>1, <1>2

First(s) == [st |-> s, literals |-> <<>>, parsed |-> <<>>, toInclude |-> <<>>, opt |-> 0, requests |-> <<>>,
             pending |-> <<>>]

(* Before the first turn the script itself has been read.                  *)
LEMMA LinkedFirst ==
  ASSUME FilesOK, NEW f \in Words, NEW s \in Statics, s.included \subseteq s.headers
  PROVE  LET b == Enter(fs, f, First(s)) IN
         Linked(f, s, b, {f}) /\ Left(b, {f}) <= 2 * Cardinality(IncludeLines(fs))
<1>1. PICK a : a = First(s)
  OBVIOUS
<1>2. /\ a \in Acc /\ a.st = s /\ a.pending = <<>> /\ a.parsed = <<>> /\ a.requests = <<>>
  <2>1. <<>> \in Seq(Value) /\ <<>> \in Seq(ParsedLine) /\ <<>> \in Seq(Words) /\ <<>> \in Seq(Pending) /\ 0 \in Words
    BY EmptySeq DEF Words
  <2> QED
    BY <1>1, <2>1 DEF First, Acc
<1>3. PICK b : b = Enter(fs, f, a) /\ b \in Acc /\ Entered(a, b, f)
  BY <1>2, EnterStep
<1>4. PendingRight(f, s, b, {f})
  BY <1>2, <1>3, PendingFirst
<1>5. Resizes(s, a, {}) /\ CodeRead(a, {})
  <2>1. Code({}) = {} /\ IsFiniteSet({}) /\ Cardinality({}) = 0
    BY FS_EmptySet DEF Code
  <2>2. purgeParsed(<<>>) = <<>>
    <3>1. <<>> \in Seq({0}) /\ 0 \in {0}
      BY EmptySeq
    <3> QED
      BY <3>1, PurgeMore
  <2>3. Len(<<>>) = 0 /\ s.resized \in BOOLEAN
    BY EmptySeq DEF Statics
  <2>4. Resizes(s, a, {})
    BY <1>2, <2>3 DEF Resizes
  <2> QED
    BY <1>2, <2>1, <2>2, <2>3, <2>4 DEF CodeRead
<1>6. {} \cup {f} = {f}
  OBVIOUS
<1>7. Resizes(s, b, {} \cup {f})
  BY <1>2, <1>3, <1>5, ResizesStep
<1>8. CodeRead(b, {} \cup {f})
  <2>1. ReadCode(a, b, f, Len(Lines(f)))
    BY <1>3 DEF Entered
  <2>2. f \notin {}
    OBVIOUS
  <2> QED
    BY <1>2, <1>3, <1>5, <2>1, <2>2, CodeReadStep
<1>9. Left(b, {f}) <= 2 * Cardinality(IncludeLines(fs))
  <2>1. PICK n \in Nat : n <= Cardinality(IncludesOf(f)) /\ Len(b.pending) = n
    <3>1. Len(<<>>) = 0
      BY EmptySeq
    <3> QED
      BY <1>2, <1>3, <3>1 DEF Entered
  <2>2. Cardinality(Unread({} \cup {f})) + Cardinality(IncludesOf(f)) = Cardinality(Unread({}))
    BY UnreadLess
  <2>3. IncludeNames \ {f} \in SUBSET IncludeNames
    OBVIOUS
  <2>4. Cardinality(IncludeNames \ {f}) <= Cardinality(IncludeNames)
    BY <2>3, IncludesFinite, FS_Subset
  <2>5. /\ Cardinality(IncludeNames) \in Nat /\ Cardinality(IncludeLines(fs)) \in Nat
        /\ Cardinality(IncludesOf(f)) \in Nat
        /\ Cardinality(IncludeNames \ {f}) \in Nat /\ Cardinality(Unread({f})) \in Nat
    BY IncludesFinite, UnreadFinite, FS_CardinalityType
  <2>6. Unread({}) = IncludeLines(fs) /\ Cardinality(IncludeNames) <= Cardinality(IncludeLines(fs))
    BY IncludesFinite
  <2> QED
    BY <1>6, <2>1, <2>2, <2>4, <2>5, <2>6 DEF Left
<1> QED
  BY <1>1, <1>3, <1>4, <1>6, <1>7, <1>8, <1>9 DEF Linked

(* parseCodeLines returns, with nothing pending: the loops come to an end  *)
(* however the includes cross or come back.                                *)
LEMMA Linking ==
  ASSUME FilesOK, NEW f \in Words, NEW s \in Statics, s.included \subseteq s.headers
  PROVE  LET b == parseCodeLines(fs, f, First(s)) IN b.pending = <<>> /\ \E P : Linked(f, s, b, P)
<1>0. PICK turns \in Nat : turns = 2 * Cardinality(IncludeLines(fs))
  BY IncludesFinite
<1>1. PICK h : IsAfter(h, f, First(s), turns) /\ parseCodeLines(fs, f, First(s)) = h[turns]
  <2> DEFINE n == 2 * Cardinality(IncludeLines(fs))
  <2>1. IsAfter(CHOOSE h : IsAfter(h, f, First(s), n), f, First(s), n)
    BY <1>0, AfterExists
  <2>2. parseCodeLines(fs, f, First(s)) = (CHOOSE h : IsAfter(h, f, First(s), n))[n]
    BY Zenon DEF parseCodeLines, IsAfter
  <2> HIDE DEF n
  <2>3. n = turns
    BY <1>0 DEF n
  <2> QED
    BY <2>1, <2>2, <2>3, Zenon
<1>2. h[0] = Enter(fs, f, First(s)) /\ \A k \in Nat : k + 1 <= turns => h[k + 1] = IncludeNext(fs, h[k])
  <2> DEFINE Step(k) == IncludeNext(fs, h[k - 1])
  <2>1. \A k \in 0..turns : h[k] = IF k = 0 THEN Enter(fs, f, First(s)) ELSE Step(k)
    BY <1>1, Zenon DEF IsAfter
  <2> HIDE DEF Step
  <2>2. h[0] = Enter(fs, f, First(s)) /\ \A k \in 1..turns : h[k] = Step(k)
    BY <2>1
  <2>3. \A k \in Nat : k + 1 <= turns => h[k + 1] = Step(k + 1) /\ (k + 1) - 1 = k
    BY <2>2
  <2> QED
    BY <2>2, <2>3 DEF Step
<1> DEFINE Good(k, a) == \E P : Linked(f, s, a, P) /\ (a.pending = <<>> \/ Left(a, P) + k <= turns)
           S == {k \in Nat : k <= turns => Good(k, h[k])}
<1>3. \A a, P : Linked(f, s, a, P) => Left(a, P) \in Nat /\ Left(a, P) >= Len(a.pending) /\ a.pending \in Seq(Pending)
  <2> TAKE a, P
  <2> HAVE Linked(f, s, a, P)
  <2>1. a.pending \in Seq(Pending) /\ Len(a.pending) \in Nat
    BY LenProperties DEF Linked, Acc
  <2>2. Cardinality(Unread(P)) \in Nat /\ Cardinality(IncludeNames \ P) \in Nat
    BY UnreadFinite
  <2> QED
    BY <2>1, <2>2 DEF Left
<1>4. 0 \in S
  <2>1. Linked(f, s, h[0], {f}) /\ Left(h[0], {f}) <= turns
    BY <1>0, <1>2, LinkedFirst
  <2>2. Left(h[0], {f}) + 0 <= turns
    BY <1>3, <2>1
  <2> QED
    BY <2>1, <2>2
<1>5. ASSUME NEW k \in Nat, k \in S PROVE k + 1 \in S
  <2> SUFFICES ASSUME k + 1 <= turns PROVE Good(k + 1, h[k + 1])
    OBVIOUS
  <2>1. PICK P : Linked(f, s, h[k], P) /\ (h[k].pending = <<>> \/ Left(h[k], P) + k <= turns)
    BY <1>5
  <2>2. PICK Q : /\ Linked(f, s, h[k + 1], Q)
                 /\ IF h[k].pending = <<>> THEN h[k + 1] = h[k] ELSE Left(h[k + 1], Q) < Left(h[k], P)
    BY <1>2, <2>1, IncludeStep
  <2>3. CASE h[k].pending = <<>>
    BY <2>2, <2>3
  <2>4. CASE h[k].pending # <<>>
    <3>1. Left(h[k + 1], Q) \in Nat /\ Left(h[k], P) \in Nat
      BY <1>3, <2>1, <2>2
    <3>2. Left(h[k + 1], Q) + (k + 1) <= turns
      BY <2>1, <2>2, <2>4, <3>1
    <3> QED
      BY <2>2, <3>2
  <2> QED
    BY <2>3, <2>4
<1> HIDE DEF S
<1>6. turns \in S
  BY <1>4, <1>5, SetInduction
<1>7. PICK P : Linked(f, s, h[turns], P) /\ (h[turns].pending = <<>> \/ Left(h[turns], P) + turns <= turns)
  BY <1>6 DEF S
<1>8. h[turns].pending = <<>>
  <2> SUFFICES ASSUME Left(h[turns], P) + turns <= turns PROVE h[turns].pending = <<>>
    BY <1>7
  <2>1. Len(h[turns].pending) = 0
    <3>1. h[turns].pending \in Seq(Pending) /\ Len(h[turns].pending) \in Nat
      BY <1>3, <1>7, LenProperties
    <3> QED
      BY <1>3, <1>7, <3>1
  <2> QED
    BY <1>3, <1>7, <2>1, EmptySeq
<1> QED
  BY <1>1, <1>7, <1>8

(* What build_process makes of a script and of the statics before it. *)
LEMMA BuildRight ==
  ASSUME FilesOK, NEW f \in Words, NEW s \in Statics, s.included \subseteq s.headers,
         NEW image, image.actions = build_process(fs, f, s).actions,
         image.requests = build_process(fs, f, s).requests
  PROVE  LET b == build_process(fs, f, s) IN
         /\ b.st \in Statics /\ b.st.included \subseteq b.st.headers
         /\ b.st.headers \subseteq s.headers \cup Reached(f)
         /\ b.st.resized => s.resized \/ Asks(f)
         /\ s.headers \cap HeadersOf(f) = {} =>
              /\ Len(image.actions) = Cardinality(Code(Reached(f)))
              /\ \A g \in Reached(f) : PlacesOf(image, g) # {}
              /\ ~s.resized => Len(image.requests) = IF Asks(f) THEN 1 ELSE 0
<1> DEFINE vars0 == build_variables_decl_tree(fs, f)
           acc0 == parseCodeLines(fs, f, First(s))
           tags0 == finalizeTags(makeCleanedParsed(fs, f, acc0.st.list))
           ins0 == purgeParsed(acc0.parsed)
<1>1. PICK acc : acc = acc0 /\ acc.pending = <<>> /\ \E P : Linked(f, s, acc, P)
  BY Linking
<1>2. PICK P : Linked(f, s, acc, P)
  BY <1>1
<1>3. PICK ins : ins = ins0 /\ ins \in Seq(ParsedLine) /\ Len(ins) \in Nat /\ DOMAIN ins = 1..Len(ins)
  BY <1>1, <1>2, PurgeType, LenProperties DEF Linked
<1>4. PICK decls, tags : decls = vars0 /\ tags = tags0
  OBVIOUS
<1>5. /\ build_process(fs, f, s).st = acc.st /\ build_process(fs, f, s).requests = acc.requests
      /\ build_process(fs, f, s).actions =
           [k \in DOMAIN ins |-> [op |-> ins[k].name, dest |-> ins[k].dest, opt |-> ins[k].opt,
                                  operand |-> convertVariables(decls, acc.literals, tags, ins[k].arg)]]
  BY <1>1, <1>3, <1>4 DEF build_process, First
<1> HIDE DEF vars0, acc0, tags0, ins0
<1>6. /\ P \subseteq Reached(f) /\ f \in P /\ acc.st \in Statics
      /\ acc.st.headers = s.headers \cup P /\ acc.st.included \subseteq acc.st.headers
  BY <1>2 DEF Linked, PendingRight, Acc
<1>7. acc.st.resized => s.resized \/ Asks(f)
  BY <1>2, <1>6 DEF Linked, Resizes, Asks, Asking
<1>8. ASSUME s.headers \cap HeadersOf(f) = {}
      PROVE  /\ Len(image.actions) = Cardinality(Code(Reached(f)))
             /\ \A g \in Reached(f) : PlacesOf(image, g) # {}
             /\ ~s.resized => Len(image.requests) = IF Asks(f) THEN 1 ELSE 0
  <2>1. P = Reached(f)
    <3>1. ASSUME NEW g \in P, NEW x \in Named(g, "include") PROVE x \in P
      <4>1. x \in Reached(f)
        BY <1>6, ReachedLeast
      <4>2. x \in acc.st.headers
        <5>1. \A i \in 1..0 : FALSE
          OBVIOUS
        <5>2. Len(acc.pending) = 0
          BY <1>1, EmptySeq
        <5> QED
          BY <1>2, <5>1, <5>2 DEF Linked, PendingRight
      <4>3. x \in s.headers => x = f
        BY <1>8, <4>1 DEF HeadersOf
      <4> QED
        BY <1>6, <4>2, <4>3
    <3> QED
      BY <1>6, <3>1, ReachedLeast
  <2>2. Len(image.actions) = Len(ins) /\ DOMAIN image.actions = 1..Len(ins)
    BY <1>3, <1>5
  <2>3. Len(ins) = Cardinality(Code(P))
    BY <1>1, <1>2, <1>3 DEF Linked, CodeRead, ins0
  <2>4. ASSUME NEW k \in 1..Len(ins), NEW l, Stands(ins[k], l, acc.literals) PROVE Same(image.actions[k], l)
    <3>1. image.actions[k] = [op |-> ins[k].name, dest |-> ins[k].dest, opt |-> ins[k].opt,
                              operand |-> convertVariables(decls, acc.literals, tags, ins[k].arg)]
      BY <1>3, <1>5
    <3>2. ins[k].arg.kind = "sys" =>
            convertVariables(decls, acc.literals, tags, ins[k].arg) = [kind |-> "value", of |-> acc.literals[ins[k].arg.of]]
      BY DEF convertVariables
    <3> QED
      BY <2>4, <3>1, <3>2 DEF Stands, Same, Holds
  <2>5. ASSUME NEW g \in Reached(f) PROVE PlacesOf(image, g) # {}
    <3>1. PICK k \in 0..(Len(ins) - Cardinality(InstructionsOf(g))) :
             \A n \in InstructionsOf(g) : Stands(ins[k + Upto(InstructionsOf(g), n)], Lines(g)[n], acc.literals)
      BY <1>1, <1>2, <1>3, <2>1 DEF Linked, CodeRead, ins0
    <3>2. Cardinality(InstructionsOf(g)) \in Nat /\ \A n \in InstructionsOf(g) : Upto(InstructionsOf(g), n) \in 1..Cardinality(InstructionsOf(g))
      <4>1. Len(Lines(g)) \in Nat /\ \A j \in InstructionsOf(g) : j \in Nat /\ 1 <= j /\ j <= Len(Lines(g))
        BY LinesType DEF InstructionsOf
      <4> QED
        BY <4>1, UptoSteps
    <3>3. \A n \in InstructionsOf(g) : k + Upto(InstructionsOf(g), n) \in 1..Len(ins)
      BY <1>3, <3>1, <3>2
    <3>4. PlacedAt(image, g, InstructionsOf(g), k)
      BY <2>4, <3>1, <3>3 DEF PlacedAt
    <3> QED
      BY <2>2, <3>1, <3>4 DEF PlacesOf
  <2>6. ~s.resized => Len(image.requests) = IF Asks(f) THEN 1 ELSE 0
    <3>1. (\E g \in P : Asking(g)) <=> Asks(f)
      BY <2>1 DEF Asks, Asking
    <3>2. image.requests = acc.requests
      BY <1>5
    <3> QED
      BY <1>2, <3>1, <3>2, Zenon DEF Linked, Resizes
  <2> QED
    BY <2>1, <2>2, <2>3, <2>5, <2>6
<1> QED
  BY <1>5, <1>6, <1>7, <1>8

-----------------------------------------------------------------------------
(* The files are fixed, and with them what they reach.                     *)
LEMMA SameFiles ==
  ASSUME fs' = fs
  PROVE  /\ \A f : Lines(f)' = Lines(f)
         /\ \A f, k : Named(f, k)' = Named(f, k)
         /\ \A f : InstructionsOf(f)' = InstructionsOf(f)
         /\ \A f : Reached(f)' = Reached(f)
         /\ \A f : Asks(f)' <=> Asks(f)
         /\ \A f : HeadersOf(f)' = HeadersOf(f)
         /\ \A image, f : PlacesOf(image, f)' = PlacesOf(image, f)
         /\ \A P : Code(P)' = Code(P)
         /\ Statics' = Statics /\ FilesOK' = FilesOK
<1>1. \A f : Lines(f)' = Lines(f)
  BY DEF Lines
<1>2. \A f, k : Named(f, k)' = Named(f, k)
  BY <1>1 DEF Named
<1>3. Files' = Files
  BY <1>2 DEF Files
<1>4. \A f : Reached(f)' = Reached(f)
  BY <1>2, <1>3 DEF Reached
<1>5. \A f : InstructionsOf(f)' = InstructionsOf(f)
  BY <1>1 DEF InstructionsOf
<1>6. \A f : Asks(f)' <=> Asks(f)
  BY <1>2, <1>4 DEF Asks
<1>7. \A f : HeadersOf(f)' = HeadersOf(f)
  BY <1>4 DEF HeadersOf
<1>8. \A image, f, ins, k : PlacedAt(image, f, ins, k)' <=> PlacedAt(image, f, ins, k)
  BY <1>1 DEF PlacedAt
<1>9. \A image, f : PlacesOf(image, f)' = PlacesOf(image, f)
  BY <1>5, <1>8 DEF PlacesOf
<1>10. Statics' = Statics
  <2>1. Line' = Line
    BY DEF Line
  <2>2. Words' = Words
    BY <2>1 DEF Words
  <2> QED
    BY <2>2 DEF Statics
<1>11. FilesOK' = FilesOK
  <2>1. Line' = Line
    BY DEF Line
  <2> QED
    BY <2>1 DEF FilesOK
<1>12. \A P : Code(P)' = Code(P)
  BY <1>5 DEF Code
<1> QED
  BY <1>1, <1>2, <1>4, <1>5, <1>6, <1>7, <1>9, <1>10, <1>11, <1>12

(* What the statics carry from one build to the next: headers of files     *)
(* that a script built before reaches, and a resize that one of them asks. *)
StaticsRight ==
  /\ statics \in Statics /\ statics.included \subseteq statics.headers
  /\ phase # "refused" =>
        /\ \A x \in statics.headers : \E j \in 1..Len(processes) : x \in Reached(scripts[j])
        /\ statics.resized => \E j \in 1..Len(processes) : Asks(scripts[j])

ImagesRight ==
  /\ phase # "refused" => Len(images) = Len(processes)
  /\ \E S : images \in Seq(S)

BuildIInv == IInv /\ FilesOK /\ StaticsRight /\ ImagesRight /\ ResizedOnce /\ CompleteWhenFresh

(* A step that links nothing leaves what is said of the images.            *)
LEMMA SameImages ==
  ASSUME fs' = fs, images' = images, scripts' = scripts \/ images = <<>>, ResizedOnce, CompleteWhenFresh
  PROVE  ResizedOnce' /\ CompleteWhenFresh'
<1>1. CASE images = <<>>
  <2>1. DOMAIN images' = {}
    BY <1>1
  <2> QED
    BY <2>1 DEF ResizedOnce, CompleteWhenFresh
<1>2. CASE scripts' = scripts
  <2>1. \A i : Fresh(i)' <=> Fresh(i)
    BY <1>2, SameFiles DEF Fresh
  <2>2. ResizedOnce'
    BY <1>2, <2>1, SameFiles DEF ResizedOnce
  <2>3. CompleteWhenFresh'
    BY <1>2, <2>1, SameFiles DEF CompleteWhenFresh
  <2> QED
    BY <2>2, <2>3
<1> QED
  BY <1>1, <1>2

(* Every step of the build is one of the shell's. *)
LEMMA LinkBuilds == LinkScript => /\ BuildScript \/ BuildRefused
                                 /\ UNCHANGED <<scripts, fs>>
BY DEF LinkScript, BuildScript, BuildRefused

(* Linking does not change what the shell does: every step of the          *)
(* composition is a step of VpuShell, so all that is proved of the shell   *)
(* holds of it.                                                            *)
THEOREM BuildRunsShell == BuildSpec => Spec
<1>1. BuildInit => Init
  BY DEF BuildInit
<1>2. [BuildNext]_buildVars => [Next]_vars
  <2>1. LinkScript => Next
    BY LinkBuilds DEF Next
  <2>2. Command => Next
    BY DEF Command, Next
  <2>3. UNCHANGED buildVars => UNCHANGED vars
    BY DEF buildVars
  <2> QED
    BY <2>1, <2>2, <2>3 DEF BuildNext
<1> QED
  BY <1>1, <1>2, PTL DEF BuildSpec, Spec

(* Nothing has been built at first.                                        *)
LEMMA BuildInitIInv == BuildInit => BuildIInv
<1> SUFFICES ASSUME BuildInit PROVE BuildIInv
  OBVIOUS
<1>1. IInv
  BY InitIInv DEF BuildInit
<1>2. FilesOK
  BY FilesAreOK DEF BuildInit
<1>3. Len(processes) = 0 /\ images = <<>> /\ statics = NoStatics
  BY DEF BuildInit, Init
<1>4. StaticsRight
  <2>1. NoStatics \in Statics
    BY EmptySeq DEF NoStatics, Statics
  <2> QED
    BY <1>3, <2>1 DEF StaticsRight, NoStatics
<1>5. ImagesRight
  <2>1. <<>> \in Seq({}) /\ Len(<<>>) = 0
    BY EmptySeq
  <2> QED
    BY <1>3, <2>1 DEF ImagesRight
<1>6. ResizedOnce /\ CompleteWhenFresh
  <2>1. DOMAIN images = {}
    BY <1>3
  <2> QED
    BY <2>1 DEF ResizedOnce, CompleteWhenFresh
<1> QED
  BY <1>1, <1>2, <1>4, <1>5, <1>6 DEF BuildIInv

(* A command builds nothing: with something built none is loaded any more. *)
LEMMA CommandFacts ==
  ASSUME IInv, Command
  PROVE  /\ phase # "refused" /\ phase' # "refused" /\ Len(processes') = Len(processes)
         /\ scripts' = scripts \/ Len(processes) = 0
<1>0. Len(processes) \in Nat /\ Len(<<>>) = 0
  BY Typed, EmptySeq DEF IInv
<1>1. ASSUME NEW f \in Scripts, Load(f) PROVE phase # "refused" /\ phase' # "refused" /\ processes' = processes /\ processes = <<>>
  BY <1>1 DEF Load, IInv, Progress
<1>2. ASSUME NEW f \in Scripts \cup {NoScript}, FileArgument(f)
      PROVE  phase # "refused" /\ phase' # "refused" /\ processes' = processes /\ processes = <<>>
  BY <1>2 DEF FileArgument, IInv, Progress
<1>3. Build => phase # "refused" /\ phase' # "refused" /\ processes' = processes /\ scripts' = scripts
  BY DEF Build, heap
<1>4. BuildDone => phase # "refused" /\ phase' # "refused" /\ processes' = processes /\ scripts' = scripts
  BY DEF BuildDone, heap
<1>5. Start => phase # "refused" /\ phase' # "refused" /\ processes' = processes /\ scripts' = scripts
  BY DEF Start, heap
<1>6. UnknownCommand => phase # "refused" /\ phase' # "refused" /\ processes' = processes /\ scripts' = scripts
  BY DEF UnknownCommand, heap
<1>7. clearMemory => Len(processes') = Len(processes) /\ phase' # "refused"
  <2> SUFFICES ASSUME clearMemory PROVE Len(processes') = Len(processes) /\ phase' # "refused"
    OBVIOUS
  <2>1. CASE ~CanClear
    BY <2>1 DEF clearMemory
  <2>2. CASE CanClear
    <3>1. processes' = [i \in 1..Len(processes) |-> DeletedProcess(processes[i])] /\ phase' = "exit"
      <4>1. DOMAIN processes = 1..Len(processes)
        BY LenProperties DEF IInv, TypeOK
      <4> QED
        BY <2>2, <4>1 DEF clearMemory
    <3> QED
      BY <1>0, <3>1
  <2> QED
    BY <2>1, <2>2
<1>8. StartReturns => phase # "refused" /\ phase' # "refused" /\ Len(processes') = Len(processes) /\ scripts' = scripts
  BY <1>7 DEF StartReturns, heap
<1>9. Exit => phase # "refused" /\ phase' # "refused" /\ Len(processes') = Len(processes) /\ scripts' = scripts
  BY <1>7 DEF Exit
<1> QED
  BY <1>0, <1>1, <1>2, <1>3, <1>4, <1>5, <1>6, <1>8, <1>9 DEF Command

(* The commands of the prompt leave statics and images alone.              *)
LEMMA CommandStep ==
  ASSUME BuildIInv, Command, UNCHANGED <<fs, statics, images>>
  PROVE  FilesOK' /\ StaticsRight' /\ ImagesRight' /\ ResizedOnce' /\ CompleteWhenFresh'
<1>1. /\ phase # "refused" /\ phase' # "refused" /\ Len(processes') = Len(processes)
      /\ scripts' = scripts \/ Len(processes) = 0
  BY CommandFacts DEF BuildIInv
<1>2. FilesOK' /\ statics' \in Statics'
  BY SameFiles DEF BuildIInv, StaticsRight
<1>3. /\ \A x \in statics'.headers : \E j \in 1..Len(processes') : x \in Reached(scripts[j])'
      /\ statics'.resized => \E j \in 1..Len(processes') : Asks(scripts[j])'
  <2>1. /\ \A x \in statics.headers : \E j \in 1..Len(processes) : x \in Reached(scripts[j])
        /\ statics.resized => \E j \in 1..Len(processes) : Asks(scripts[j])
    BY <1>1 DEF BuildIInv, StaticsRight
  <2>2. \A f : Reached(f)' = Reached(f) /\ (Asks(f)' <=> Asks(f))
    BY SameFiles
  <2>3. CASE scripts' = scripts
    BY <1>1, <2>1, <2>2, <2>3
  <2>4. CASE Len(processes) = 0
    BY <1>1, <2>1, <2>4
  <2> QED
    BY <1>1, <2>3, <2>4
<1>4. StaticsRight'
  BY <1>2, <1>3 DEF BuildIInv, StaticsRight
<1>5. ImagesRight'
  BY <1>1 DEF BuildIInv, ImagesRight
<1>6. scripts' = scripts \/ images = <<>>
  BY <1>1, EmptySeq DEF BuildIInv, ImagesRight
<1>7. ResizedOnce' /\ CompleteWhenFresh'
  BY <1>6, SameImages DEF BuildIInv
<1> QED
  BY <1>2, <1>4, <1>5, <1>7

(* A script that shares no header with those before it finds none of its   *)
(* headers included, and no resize made unless one of those asked for it.  *)
LEMMA FreshStatics ==
  ASSUME BuildIInv, phase # "refused", NEW i, i = Len(processes) + 1, Fresh(i)
  PROVE  /\ statics.headers \cap HeadersOf(scripts[i]) = {}
         /\ (\A j \in 1..(i - 1) : ~Asks(scripts[j])) => ~statics.resized
<1>1. /\ \A x \in statics.headers : \E j \in 1..Len(processes) : x \in Reached(scripts[j])
      /\ statics.resized => \E j \in 1..Len(processes) : Asks(scripts[j])
  BY DEF BuildIInv, StaticsRight
<1>2. Len(processes) \in Nat /\ Len(processes) = i - 1
  BY Typed DEF BuildIInv, IInv
<1>3. \A j \in 1..Len(processes) : Reached(scripts[j]) \cap HeadersOf(scripts[i]) = {}
  BY <1>2 DEF Fresh
<1> QED
  BY <1>1, <1>2, <1>3

(* One script more is linked: BuildRight from the statics of those before  *)
(* it.                                                                     *)
LEMMA LinkStep ==
  ASSUME BuildIInv, LinkScript
  PROVE  FilesOK' /\ StaticsRight' /\ ImagesRight' /\ ResizedOnce' /\ CompleteWhenFresh'
<1>1. PICK f, b : f = scripts[turn] /\ b = build_process(fs, f, statics)
  OBVIOUS
<1>2. PICK image : image = [actions |-> b.actions, requests |-> b.requests]
  OBVIOUS
<1>3. /\ MoreToBuild /\ fs' = fs /\ statics' = b.st /\ scripts' = scripts
      /\ IF b.refused THEN BuildRefused /\ images' = images ELSE BuildScript /\ images' = Append(images, image)
  BY <1>1, <1>2 DEF LinkScript, BuildScript, BuildRefused
<1>4. /\ phase = "building" /\ turn \in Nat /\ turn \in 1..Len(scripts) /\ turn = Len(processes) + 1
      /\ Len(processes) \in Nat /\ f \in Words /\ FilesOK
  <2>1. /\ phase = "building" /\ turn <= Len(scripts) /\ turn = Len(processes) + 1 /\ Len(processes) \in Nat
        /\ Len(scripts) \in Nat /\ \A k \in 1..Len(scripts) : scripts[k] \in Scripts
    BY <1>3, Typed DEF BuildIInv, IInv, Progress, MoreToBuild
  <2> QED
    BY <1>1, <2>1 DEF BuildIInv, Words
<1>5. /\ statics \in Statics /\ statics.included \subseteq statics.headers
      /\ \A x \in statics.headers : \E j \in 1..Len(processes) : x \in Reached(scripts[j])
      /\ statics.resized => \E j \in 1..Len(processes) : Asks(scripts[j])
  BY <1>4 DEF BuildIInv, StaticsRight
<1>6. /\ b.st \in Statics /\ b.st.included \subseteq b.st.headers
      /\ b.st.headers \subseteq statics.headers \cup Reached(f)
      /\ b.st.resized => statics.resized \/ Asks(f)
      /\ statics.headers \cap HeadersOf(f) = {} =>
           /\ Len(image.actions) = Cardinality(Code(Reached(f)))
           /\ \A g \in Reached(f) : PlacesOf(image, g) # {}
           /\ ~statics.resized => Len(image.requests) = IF Asks(f) THEN 1 ELSE 0
  BY <1>1, <1>2, <1>4, <1>5, BuildRight
<1>7. FilesOK' /\ statics' \in Statics' /\ statics'.included \subseteq statics'.headers
  BY <1>3, <1>4, <1>6, SameFiles
<1>8. CASE b.refused
  <2>1. phase' = "refused" /\ images' = images
    BY <1>3, <1>8 DEF BuildRefused
  <2>2. StaticsRight' /\ ImagesRight'
    BY <1>7, <2>1 DEF StaticsRight, BuildIInv, ImagesRight
  <2>3. ResizedOnce' /\ CompleteWhenFresh'
    BY <1>3, <2>1, SameImages DEF BuildIInv
  <2> QED
    BY <1>7, <2>2, <2>3
<1>9. CASE ~b.refused
  <2>1. images' = Append(images, image) /\ BuildScript /\ phase' = phase
    BY <1>3, <1>9 DEF BuildScript
  <2>2. Len(processes') = turn
    <3>1. Allocated(<<f>>) /\ <<f>> \in Seq(Scripts)
      BY <1>1, <1>4, <2>1, Typed DEF BuildScript, BuildIInv, IInv
    <3> QED
      BY <1>3, <3>1, AllocatedStep DEF BuildIInv
  <2>3. \A g : Reached(g)' = Reached(g) /\ (Asks(g)' <=> Asks(g))
    BY <1>3, SameFiles
  <2>4. StaticsRight'
    <3>1. turn \in 1..turn /\ \A j \in 1..Len(processes) : j \in 1..turn
      BY <1>4
    <3>2. /\ \A x \in b.st.headers : \E j \in 1..turn : x \in Reached(scripts[j])
          /\ b.st.resized => \E j \in 1..turn : Asks(scripts[j])
      BY <1>1, <1>5, <1>6, <3>1
    <3>3. /\ \A x \in statics'.headers : \E j \in 1..Len(processes') : x \in Reached(scripts[j])'
          /\ statics'.resized => \E j \in 1..Len(processes') : Asks(scripts[j])'
      BY <1>3, <2>2, <2>3, <3>2
    <3> QED
      BY <1>7, <3>3 DEF StaticsRight
  <2>5. PICK S : images \in Seq(S)
    BY DEF BuildIInv, ImagesRight
  <2>6. Len(images) = turn - 1
    BY <1>4 DEF BuildIInv, ImagesRight
  <2>7. /\ images' \in Seq(S \cup {image}) /\ Len(images') = turn /\ images'[turn] = image
        /\ \A i \in 1..(turn - 1) : images'[i] = images[i]
        /\ DOMAIN images' = 1..turn /\ DOMAIN images = 1..(turn - 1)
    <3>1. images \in Seq(S \cup {image}) /\ image \in S \cup {image}
      BY <2>5, SeqMonotonic
    <3>2. /\ Append(images, image) \in Seq(S \cup {image}) /\ Len(Append(images, image)) = Len(images) + 1
          /\ \A i \in 1..Len(images) : Append(images, image)[i] = images[i]
          /\ Append(images, image)[Len(images) + 1] = image
      BY <3>1, AppendProperties
    <3>3. (turn - 1) + 1 = turn
      BY <1>4
    <3>4. /\ images' \in Seq(S \cup {image}) /\ Len(images') = turn /\ images'[turn] = image
          /\ \A i \in 1..(turn - 1) : images'[i] = images[i]
      BY <2>1, <2>6, <3>2, <3>3
    <3> QED
      BY <2>5, <2>6, <3>4, LenProperties
  <2>8. ImagesRight'
    BY <2>2, <2>7 DEF ImagesRight
  <2>9. \A i \in 1..turn : i \in 1..(turn - 1) \/ i = turn
    BY <1>4
  <2>10. \A i : Fresh(i)' <=> Fresh(i)
    BY <1>3, SameFiles DEF Fresh
  <2>11. Fresh(turn) => /\ Len(image.actions) = Cardinality(Code(Reached(scripts[turn])))
                        /\ \A g \in Reached(scripts[turn]) : PlacesOf(image, g) # {}
                        /\ (\A j \in 1..(turn - 1) : ~Asks(scripts[j])) =>
                              Len(image.requests) = IF Asks(scripts[turn]) THEN 1 ELSE 0
    BY <1>1, <1>4, <1>6, FreshStatics
  <2>12. \A i \in 1..turn : Fresh(i) =>
            /\ Len(images'[i].actions) = Cardinality(Code(Reached(scripts[i])))
            /\ \A g \in Reached(scripts[i]) : PlacesOf(images'[i], g) # {}
    <3> TAKE i \in 1..turn
    <3>1. CASE i \in 1..(turn - 1)
      BY <2>7, <3>1 DEF BuildIInv, CompleteWhenFresh
    <3>2. CASE i = turn
      BY <2>7, <2>11, <3>2
    <3> QED
      BY <2>9, <3>1, <3>2
  <2>13. \A i \in 1..turn : Fresh(i) /\ (\A j \in 1..(i - 1) : ~Asks(scripts[j])) =>
            Len(images'[i].requests) = IF Asks(scripts[i]) THEN 1 ELSE 0
    <3> TAKE i \in 1..turn
    <3>1. CASE i \in 1..(turn - 1)
      BY <2>7, <3>1 DEF BuildIInv, ResizedOnce
    <3>2. CASE i = turn
      BY <2>7, <2>11, <3>2
    <3> QED
      BY <2>9, <3>1, <3>2
  <2>14. CompleteWhenFresh'
    BY <1>3, <2>7, <2>10, <2>12, SameFiles DEF CompleteWhenFresh
  <2>15. ResizedOnce'
    BY <1>3, <2>7, <2>10, <2>13, SameFiles DEF ResizedOnce
  <2> QED
    BY <1>7, <2>4, <2>8, <2>14, <2>15
<1> QED
  BY <1>8, <1>9

(* Every step of the program keeps the invariant. *)
THEOREM BuildNextIInv == BuildIInv /\ [BuildNext]_buildVars => BuildIInv'
<1> SUFFICES ASSUME BuildIInv, [BuildNext]_buildVars PROVE BuildIInv'
  OBVIOUS
<1>1. IInv'
  <2>1. [Next]_vars
    BY LinkBuilds DEF BuildNext, Command, Next, buildVars
  <2> QED
    BY <2>1, NextIInv DEF BuildIInv
<1>2. CASE LinkScript
  BY <1>1, <1>2, LinkStep DEF BuildIInv
<1>3. CASE Command /\ UNCHANGED <<fs, statics, images>>
  BY <1>1, <1>3, CommandStep DEF BuildIInv
<1>4. CASE UNCHANGED buildVars
  <2>1. fs' = fs /\ images' = images /\ scripts' = scripts /\ statics' = statics /\ phase' = phase /\ processes' = processes
    BY <1>4 DEF buildVars, vars
  <2>2. ResizedOnce' /\ CompleteWhenFresh'
    BY <2>1, SameImages DEF BuildIInv
  <2>3. \A g : Reached(g)' = Reached(g) /\ (Asks(g)' <=> Asks(g))
    BY <2>1, SameFiles
  <2>4. StaticsRight' /\ FilesOK'
    BY <2>1, <2>3, SameFiles DEF BuildIInv, StaticsRight
  <2>5. ImagesRight'
    BY <2>1 DEF BuildIInv, ImagesRight
  <2> QED
    BY <1>1, <2>2, <2>4, <2>5 DEF BuildIInv
<1> QED
  BY <1>2, <1>3, <1>4 DEF BuildNext

(* The invariant holds for any file systems and scripts.                   *)
THEOREM BuildInvariance == BuildSpec => []BuildIInv
BY BuildInitIInv, BuildNextIInv, PTL DEF BuildSpec

(* A script that asks for a resize, in as many [MRES] lines of as many     *)
(* headers as it likes, resizes its memory once, unless a script before it *)
(* did (is_mem_resized is shared).                                         *)
THEOREM ResizesOnce == BuildSpec => []ResizedOnce
<1>1. BuildIInv => ResizedOnce
  BY DEF BuildIInv
<1> QED
  BY <1>1, BuildInvariance, PTL

(* build_process keeps every instruction of every file a script reaches,   *)
(* each file once and in one piece, if the script shares no header with    *)
(* those built before it: for any finite files, whatever includes what.    *)
THEOREM LinksComplete == BuildSpec => []CompleteWhenFresh
<1>1. BuildIInv => CompleteWhenFresh
  BY DEF BuildIInv
<1> QED
  BY <1>1, BuildInvariance, PTL
=============================================================================
