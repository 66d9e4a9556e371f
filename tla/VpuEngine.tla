------------------------------ MODULE VpuEngine ------------------------------
(***************************************************************************)
(* Running the built processes: engine::start (Actions/threading.cpp), one *)
(* step of a process (Actions/v_engine.cpp) and the instructions that move *)
(* its step counter (Actions/process_symbols.cpp).                         *)
(*                                                                         *)
(* One thread runs everything.  With threading on, every process of the    *)
(* engine gets one step a round and is erased from the vector when it has  *)
(* ended; with threading off each runs to its end in turn.  Instructions   *)
(* that touch only the registers and memory of their process are the one   *)
(* operation "other"; what a compare finds on the stack is any outcome.    *)
(***************************************************************************)
EXTENDS Naturals, Sequences, FiniteSets, SequencesExt

CONSTANTS
  NProc,      \* how many scripts were built
  Programs,   \* the sequences of [op, arg] a script may be built into
  Threadings, \* the values setThreading is given
  Modulus     \* 2^64: the step counter is a size_t

Proc == 1..NProc
Ops == {"other", "jmp", "cmp", "cmpdbl", "je", "jne", "jl", "jg", "jle", "jge",
        "hlt", "call", "lcall", "ret", "svcall", "rscall"}
Address == 0..(Modulus - 1)

ASSUME EngineAssumption ==
  /\ NProc \in Nat \ {0} /\ Modulus \in Nat \ {0}
  /\ Threadings \subseteq BOOLEAN
  /\ Programs \subseteq Seq([op : Ops, arg : Address])
  /\ \A prog \in Programs : Len(prog) < Modulus

VARIABLES
  actions,          \* the program of each process
  threading,
  processes,        \* the engine's vector
  i,                \* the index of the loops of engine::start
  returned,         \* engine::start has returned
  terminated,
  step,             \* process_step
  process_call_address,
  cmp_out,
  stopRequested,
  calling_tree,     \* the vector svcall and rscall share, with the owners
  ran,              \* history: who got a step in this round
  missed,           \* history: the rounds a live process got no step
  undecided,        \* history: a compare no taken jump has consumed
  callers           \* history: the calls of each process not returned from

vmVars == <<step, process_call_address, cmp_out, stopRequested, calling_tree>>
loopVars == <<processes, i, returned, terminated>>
history == <<ran, missed, undecided, callers>>
vars == <<actions, threading, loopVars, vmVars, history>>

live == ToSet(processes)

-----------------------------------------------------------------------------
(* The instructions of process_symbols.cpp.  execute1 adds one to the step *)
(* counter after each, so jumps and calls aim one before their target.     *)

\* Mutant: the step counter has no width.
NextStepUnwrapped(p, s) == step' = [step EXCEPT ![p] = s + 1]

\* The step counter after an instruction left it at s.
NextStep(p, s) == step' = [step EXCEPT ![p] = (s + 1) % Modulus]

\* The compare results each conditional jump is taken on; 0xFF, "none", is
\* what a taken jump leaves behind.
Outcomes == {0, 1, 2, 254}
NoOutcome == 255
TakenOn == [je |-> {0}, jne |-> {1, 2, 254, NoOutcome}, jl |-> {1}, jg |-> {2},
            jle |-> {0, 1}, jge |-> {0, 2}]

other(p) ==
  /\ NextStep(p, step[p])
  /\ UNCHANGED <<process_call_address, cmp_out, stopRequested, calling_tree,
                 undecided, callers>>

p_jmp(p, move) ==
  /\ NextStep(p, step[p] + move)
  /\ UNCHANGED <<process_call_address, cmp_out, stopRequested, calling_tree,
                 undecided, callers>>

\* p_cmp and p_cmpdbl; only doubles may be unordered.
Compare(p, outcomes) ==
  /\ \E r \in outcomes : cmp_out' = [cmp_out EXCEPT ![p] = r]
  /\ undecided' = [undecided EXCEPT ![p] = TRUE]
  /\ NextStep(p, step[p])
  /\ UNCHANGED <<process_call_address, stopRequested, calling_tree, callers>>

\* Mutant: a taken jump keeps the result of the compare.
JumpIfKeepsResult(p, in) ==
  /\ IF cmp_out[p] \in TakenOn[in.op]
       THEN /\ NextStep(p, step[p] + in.arg)
            /\ undecided' = [undecided EXCEPT ![p] = FALSE]
       ELSE /\ NextStep(p, step[p])
            /\ UNCHANGED undecided
  /\ UNCHANGED <<process_call_address, cmp_out, stopRequested, calling_tree, callers>>

\* p_je ... p_jge: taken or not, the program goes on; taken, the result of the
\* compare is spent.
JumpIf(p, in) ==
  /\ IF cmp_out[p] \in TakenOn[in.op]
       THEN /\ NextStep(p, step[p] + in.arg)
            /\ cmp_out' = [cmp_out EXCEPT ![p] = NoOutcome]
            /\ undecided' = [undecided EXCEPT ![p] = FALSE]
       ELSE /\ NextStep(p, step[p])
            /\ UNCHANGED <<cmp_out, undecided>>
  /\ UNCHANGED <<process_call_address, stopRequested, calling_tree, callers>>

p_hlt(p) ==
  /\ stopRequested' = [stopRequested EXCEPT ![p] = TRUE]
  /\ NextStep(p, step[p])
  /\ UNCHANGED <<process_call_address, cmp_out, calling_tree, undecided, callers>>

p_call(p, addr) ==
  /\ process_call_address' = [process_call_address EXCEPT ![p] = step[p]]
  /\ NextStep(p, addr)
  /\ callers' = [callers EXCEPT ![p] = Append(@, step[p])]
  /\ UNCHANGED <<cmp_out, stopRequested, calling_tree, undecided>>

p_lcall(p, addr) ==
  /\ NextStep(p, addr)
  /\ UNCHANGED <<process_call_address, cmp_out, stopRequested, calling_tree,
                 undecided, callers>>

p_ret(p) ==
  /\ NextStep(p, process_call_address[p])
  /\ callers' = [callers EXCEPT ![p] = IF @ = <<>> THEN @ ELSE Front(@)]
  /\ UNCHANGED <<process_call_address, cmp_out, stopRequested, calling_tree, undecided>>

p_svcall(p) ==
  /\ calling_tree' =
       Append(calling_tree, [owner |-> p, addr |-> process_call_address[p]])
  /\ NextStep(p, step[p])
  /\ UNCHANGED <<process_call_address, cmp_out, stopRequested, undecided, callers>>

\* Mutants: the restored address stays in the vector; the oldest address is
\* restored instead of the newest.
p_rscallKeeps(p) ==
  /\ IF calling_tree # <<>>
       THEN process_call_address' =
              [process_call_address EXCEPT ![p] = Last(calling_tree).addr]
       ELSE UNCHANGED process_call_address
  /\ NextStep(p, step[p])
  /\ UNCHANGED <<calling_tree, cmp_out, stopRequested, undecided, callers>>

p_rscallOldest(p) ==
  /\ IF calling_tree # <<>>
       THEN /\ process_call_address' =
                 [process_call_address EXCEPT ![p] = Head(calling_tree).addr]
            /\ calling_tree' = Tail(calling_tree)
       ELSE UNCHANGED <<process_call_address, calling_tree>>
  /\ NextStep(p, step[p])
  /\ UNCHANGED <<cmp_out, stopRequested, undecided, callers>>

p_rscall(p) ==
  /\ IF calling_tree # <<>>
       THEN /\ process_call_address' =
                 [process_call_address EXCEPT ![p] = Last(calling_tree).addr]
            /\ calling_tree' = Front(calling_tree)
       ELSE UNCHANGED <<process_call_address, calling_tree>>
  /\ NextStep(p, step[p])
  /\ UNCHANGED <<cmp_out, stopRequested, undecided, callers>>

\* actions_engine::execute.
execute(p, in) ==
  \/ in.op = "other" /\ other(p)
  \/ in.op = "jmp" /\ p_jmp(p, in.arg)
  \/ in.op = "cmp" /\ Compare(p, {0, 1, 2})
  \/ in.op = "cmpdbl" /\ Compare(p, Outcomes)
  \/ in.op \in DOMAIN TakenOn /\ JumpIf(p, in)
  \/ in.op = "hlt" /\ p_hlt(p)
  \/ in.op = "call" /\ p_call(p, in.arg)
  \/ in.op = "lcall" /\ p_lcall(p, in.arg)
  \/ in.op = "ret" /\ p_ret(p)
  \/ in.op = "svcall" /\ p_svcall(p)
  \/ in.op = "rscall" /\ p_rscall(p)

-----------------------------------------------------------------------------
(* engine::start.                                                          *)

\* Mutant: a process that asked to stop goes on to its next instruction.
EndedIgnoresStop(p) == step[p] >= Len(actions[p])

Ended(p) == stopRequested[p] \/ step[p] >= Len(actions[p])

ExecuteStep(p) == execute(p, actions[p][step[p] + 1])

\* Mutants: rounds start at the second process; the last process is erased
\* instead of the ended one; after an erasure the index goes back too far; a
\* process keeps its turn until it has ended.
FirstOfRoundOne == 1

FirstOfRound == 0

EraseLast(k) == Front(processes)

Erase(k) == RemoveAt(processes, k)

NextIndexBack(erased) == IF erased /\ i > 0 THEN i - 1 ELSE i + 1

NextIndexStays(erased) == IF erased THEN i + 1 ELSE i

NextIndex(erased) == i + 1

\* The turn of the process at index i; when it has ended it is erased, and the
\* index moves past the process that took its place.
ThreadedTurn ==
  /\ threading /\ ~returned /\ i < Len(processes)
  /\ LET p == processes[i + 1] IN
     /\ ran' = ran \cup {p}
     /\ i' = NextIndex(Ended(p))
     /\ \/ /\ Ended(p)
           /\ terminated' = terminated \cup {p}
           /\ processes' = Erase(i + 1)
           /\ UNCHANGED <<vmVars, undecided, callers>>
        \/ /\ ~Ended(p)
           /\ ExecuteStep(p)
           /\ UNCHANGED <<processes, terminated>>
  /\ UNCHANGED <<actions, threading, returned, missed>>

\* The end of a round; engine::start returns when nothing is left to run.
\* allTerminated is never true there: an erased process ends its turn early.
RoundEnd ==
  /\ threading /\ ~returned /\ i >= Len(processes)
  /\ returned' = (processes = <<>>)
  /\ i' = FirstOfRound
  /\ ran' = {}
  /\ missed' = [p \in Proc |-> IF p \in live \ ran THEN missed[p] + 1 ELSE missed[p]]
  /\ UNCHANGED <<actions, threading, processes, terminated, vmVars, undecided, callers>>

\* process::start: threading off, one process runs to its end before the next.
SequentialStep ==
  /\ ~threading /\ ~returned /\ i < Len(processes)
  /\ LET p == processes[i + 1] IN
     \/ /\ Ended(p)
        /\ terminated' = terminated \cup {p}
        /\ i' = i + 1
        /\ UNCHANGED <<vmVars, undecided, callers>>
     \/ /\ ~Ended(p)
        /\ ExecuteStep(p)
        /\ UNCHANGED <<i, terminated>>
  /\ UNCHANGED <<actions, threading, processes, returned, ran, missed>>

SequentialEnd ==
  /\ ~threading /\ ~returned /\ i >= Len(processes)
  /\ returned' = TRUE
  /\ UNCHANGED <<actions, threading, processes, i, terminated, vmVars, history>>

Init ==
  /\ actions \in [Proc -> Programs]
  /\ threading \in Threadings
  /\ processes = [p \in Proc |-> p]
  /\ i = 0
  /\ returned = FALSE
  /\ terminated = {}
  /\ step = [p \in Proc |-> 0]
  /\ process_call_address = [p \in Proc |-> 0]
  /\ cmp_out = [p \in Proc |-> NoOutcome]
  /\ stopRequested = [p \in Proc |-> FALSE]
  /\ calling_tree = <<>>
  /\ ran = {}
  /\ missed = [p \in Proc |-> 0]
  /\ undecided = [p \in Proc |-> FALSE]
  /\ callers = [p \in Proc |-> <<>>]

Next == ThreadedTurn \/ RoundEnd \/ SequentialStep \/ SequentialEnd

Spec == Init /\ [][Next]_vars

\* The thread that runs engine::start keeps running.
FairSpec == Spec /\ WF_vars(Next)

\* Programs whose calls share the calling tree with no other process that runs
\* in the same rounds: a VEXE file, a single script, or one caller among many.
SavesCalls(p) == \E k \in 1..Len(actions[p]) : actions[p][k].op \in {"svcall", "rscall"}
SoleCaller == \A p, q \in Proc : SavesCalls(p) /\ SavesCalls(q) => p = q

SoleCallerInit == Init /\ (threading => SoleCaller)

SoleCallerSpec == SoleCallerInit /\ [][Next]_vars

-----------------------------------------------------------------------------
(* Properties.                                                             *)

\* The process asked to stop, or its step counter is past its last action.
Done(p) == stopRequested[p] \/ step[p] >= Len(actions[p])

TypeOK ==
  /\ actions \in [Proc -> Programs]
  /\ threading \in Threadings
  /\ processes \in Seq(Proc) /\ Len(processes) <= NProc
  /\ i \in 0..NProc
  /\ returned \in BOOLEAN
  /\ terminated \subseteq Proc
  /\ step \in [Proc -> Address]
  /\ process_call_address \in [Proc -> Address]
  /\ cmp_out \in [Proc -> Outcomes \cup {NoOutcome}]
  /\ stopRequested \in [Proc -> BOOLEAN]
  /\ calling_tree \in Seq([owner : Proc, addr : Address])
  /\ ran \subseteq Proc
  /\ missed \in [Proc -> Nat]
  /\ undecided \in [Proc -> BOOLEAN]
  /\ callers \in [Proc -> Seq(Address)]

\* With threading on, the engine holds exactly the processes that have not
\* ended, and start returns only when all have: no erasure loses a live process
\* or keeps a dead one, whatever the loop index does meanwhile.
NoneLost ==
  /\ threading => live = Proc \ terminated
  /\ threading => Len(processes) + Cardinality(terminated) = NProc
  /\ returned => terminated = Proc
  /\ \A p \in terminated : Done(p)

\* A process misses a turn only when another one is erased before it: the rounds
\* it got no step never outnumber the processes that have ended.
FewMissedTurns ==
  \A p \in live : missed[p] <= Cardinality(terminated)

\* In a round no process runs twice.
OneTurnARound ==
  [][ \A p \in Proc : step'[p] # step[p] /\ threading => p \notin ran ]_vars

\* A jump on equal, less or greater is taken only on a compare that no other
\* jump has been taken on.
SpentOnce ==
  [][ \A p \in Proc :
        /\ step'[p] # step[p]
        /\ actions[p][step[p] + 1].op \in DOMAIN TakenOn \ {"jne"}
        /\ step'[p] # (step[p] + 1) % Modulus
        => undecided[p] ]_vars

\* A call compiled by SVASM (svcall, call, rscall) comes back to the instruction
\* after it, however deep the calls it makes.
ReturnsToCaller ==
  [][ \A p \in Proc :
        /\ step'[p] # step[p]
        /\ actions[p][step[p] + 1].op = "ret"
        /\ callers[p] # <<>>
        => step'[p] = (Last(callers[p]) + 1) % Modulus ]_vars

\* The addresses process p has in the shared vector, oldest first.
EntriesOf(p) == {k \in 1..Len(calling_tree) : calling_tree[k].owner = p}
EntryOf(p, n) ==
  CHOOSE k \in EntriesOf(p) : Cardinality({j \in EntriesOf(p) : j <= k}) = n
SavedBy(p) ==
  [n \in 1..Cardinality(EntriesOf(p)) |-> calling_tree[EntryOf(p, n)].addr]

Stacks == INSTANCE CallStacks
            WITH saved <- [p \in Proc |-> SavedBy(p)],
                 callAddr <- process_call_address

\* "Saves actual saved caller address into private stack"
\* (process_symbols.cpp:181): every process has a stack of its own.
PrivateStacks == Stacks!Spec

\* With threading on, whoever asked to stop or ran off its program leaves the
\* engine, even beside programs that never end.
EndedLeaves == \A p \in Proc : (threading /\ Done(p)) ~> p \in terminated

\* A process that has not ended keeps getting turns, whatever the others do and
\* however often one of them is erased.
KeepsRunning == \A p \in Proc : (threading /\ p \in live) ~> (p \in ran \/ p \notin live)

\* When every program ends, start returns.
Completion == <>[](\A p \in Proc : Done(p)) => <>returned

=============================================================================
