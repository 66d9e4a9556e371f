--------------------------- MODULE VpuEngineProofs ---------------------------
(***************************************************************************)
(* Theorems about VpuEngine, for any number of processes and any programs. *)
(***************************************************************************)
EXTENDS VpuEngine, FiniteSetTheorems, SequenceTheorems, TLAPS

(* TypeOK in two parts: what an instruction may write, and the rest.       *)
MachineOK ==
  /\ step \in [Proc -> Address]
  /\ process_call_address \in [Proc -> Address]
  /\ cmp_out \in [Proc -> Outcomes \cup {NoOutcome}]
  /\ stopRequested \in [Proc -> BOOLEAN]
  /\ calling_tree \in Seq([owner : Proc, addr : Address])
  /\ undecided \in [Proc -> BOOLEAN]
  /\ callers \in [Proc -> Seq(Address)]

LoopOK ==
  /\ actions \in [Proc -> Programs]
  /\ threading \in Threadings
  /\ processes \in Seq(Proc) /\ Len(processes) <= NProc
  /\ i \in 0..NProc
  /\ returned \in BOOLEAN
  /\ terminated \subseteq Proc
  /\ ran \subseteq Proc
  /\ missed \in [Proc -> Nat]

Instruction == [op : Ops, arg : Address]

LEMMA TypeOKParts == TypeOK <=> MachineOK /\ LoopOK
BY DEF TypeOK, MachineOK, LoopOK

-----------------------------------------------------------------------------
(* The instructions.                                                       *)

LEMMA LastAndFront ==
  ASSUME NEW S, NEW s \in Seq(S), s # <<>>
  PROVE  Last(s) \in S /\ Front(s) \in Seq(S)
<1>1. Len(s) \in Nat /\ Len(s) > 0 /\ \A k \in 1..Len(s) : s[k] \in S
  BY EmptySeq
<1>2. Last(s) \in S
  BY <1>1 DEF Last
<1>3. SubSeq(s, 1, Len(s) - 1) \in Seq(S)
  <2>1. Len(s) - 1 \in Int /\ \A k \in 1..(Len(s) - 1) : s[k] \in S
    BY <1>1
  <2>2. QED
    BY <2>1, SubSeqProperties
<1>4. QED
  BY <1>2, <1>3 DEF Front

\* What is left of a sequence without its k-th element.
LEMMA RemoveAtFacts ==
  ASSUME NEW S, NEW s \in Seq(S), NEW k \in 1..Len(s)
  PROVE  /\ RemoveAt(s, k) \in Seq(S)
         /\ Len(RemoveAt(s, k)) = Len(s) - 1
         /\ \A j \in 1..(Len(s) - 1) :
              RemoveAt(s, k)[j] = IF j < k THEN s[j] ELSE s[j + 1]
<1> DEFINE before == SubSeq(s, 1, k - 1)
           after == SubSeq(s, k + 1, Len(s))
<1>1. Len(s) \in Nat /\ k \in Int /\ \A j \in 1..Len(s) : s[j] \in S
  OBVIOUS
<1>2. /\ before \in Seq(S) /\ Len(before) = k - 1
      /\ \A j \in 1..(k - 1) : before[j] = s[j]
  <2>1. k - 1 \in Int /\ \A j \in 1..(k - 1) : s[j] \in S
    BY <1>1
  <2>2. /\ before \in Seq(S)
        /\ Len(before) = IF 1 <= k - 1 THEN (k - 1) - 1 + 1 ELSE 0
        /\ \A j \in 1..((k - 1) - 1 + 1) : before[j] = s[1 + j - 1]
    BY <2>1, SubSeqProperties
  <2>3. QED
    BY <1>1, <2>2
<1>3. /\ after \in Seq(S) /\ Len(after) = Len(s) - k
      /\ \A j \in 1..(Len(s) - k) : after[j] = s[j + k]
  <2>1. k + 1 \in Int /\ Len(s) \in Int /\ \A j \in (k + 1)..Len(s) : s[j] \in S
    BY <1>1
  <2>2. /\ after \in Seq(S)
        /\ Len(after) = IF k + 1 <= Len(s) THEN Len(s) - (k + 1) + 1 ELSE 0
        /\ \A j \in 1..(Len(s) - (k + 1) + 1) : after[j] = s[(k + 1) + j - 1]
    BY <2>1, SubSeqProperties
  <2>3. QED
    BY <1>1, <2>2
<1> HIDE DEF before, after
<1>4. /\ before \o after \in Seq(S)
      /\ Len(before \o after) = Len(before) + Len(after)
      /\ \A j \in 1..(Len(before) + Len(after)) :
           (before \o after)[j] = IF j <= Len(before) THEN before[j]
                                  ELSE after[j - Len(before)]
  BY <1>2, <1>3, ConcatProperties
<1>5. RemoveAt(s, k) = before \o after
  BY DEF RemoveAt, before, after
<1>6. Len(before) + Len(after) = Len(s) - 1
  BY <1>1, <1>2, <1>3
<1>7. ASSUME NEW j \in 1..(Len(s) - 1)
      PROVE  (before \o after)[j] = IF j < k THEN s[j] ELSE s[j + 1]
  <2>1. CASE j < k
    <3>1. j \in 1..(k - 1) /\ j <= Len(before)
      BY <1>1, <1>2, <2>1
    <3>2. QED
      BY <1>2, <1>4, <1>6, <2>1, <3>1
  <2>2. CASE j >= k
    <3>1. j - (k - 1) \in 1..(Len(s) - k) /\ ~(j <= k - 1) /\ j - (k - 1) + k = j + 1
      BY <1>1, <2>2
    <3>2. QED
      BY <1>1, <1>2, <1>3, <1>4, <1>6, <2>2, <3>1
  <2>3. j < k \/ j >= k
    BY <1>1
  <2>4. QED
    BY <2>1, <2>2, <2>3
<1>8. QED
  BY <1>1, <1>4, <1>5, <1>6, <1>7

LEMMA NextStepType ==
  ASSUME MachineOK, NEW p \in Proc, NEW s \in Nat, NextStep(p, s)
  PROVE  step' \in [Proc -> Address]
<1>1. (s + 1) % Modulus \in Address
  BY EngineAssumption DEF Address
<1>2. QED
  BY <1>1 DEF NextStep, MachineOK

LEMMA InstructionType ==
  ASSUME TypeOK, NEW p \in Proc, ~Ended(p)
  PROVE  actions[p][step[p] + 1] \in Instruction
<1>1. actions[p] \in Seq(Instruction)
  BY EngineAssumption DEF TypeOK, Instruction
<1>2. step[p] \in Nat /\ step[p] < Len(actions[p])
  BY <1>1, EngineAssumption DEF TypeOK, Ended, Address
<1>3. step[p] + 1 \in 1..Len(actions[p])
  BY <1>1, <1>2
<1>4. QED
  BY <1>1, <1>3

\* The type of what an instruction writes.
LEMMA ExecuteType ==
  ASSUME MachineOK, NEW p \in Proc, NEW in \in Instruction, execute(p, in)
  PROVE  MachineOK'
<1>0. /\ step[p] \in Nat /\ in.arg \in Nat /\ process_call_address[p] \in Nat
      /\ step[p] \in Address /\ in.arg \in Address
      /\ step[p] + in.arg \in Nat
  BY EngineAssumption DEF MachineOK, Instruction, Address
<1>1. CASE other(p)
  BY <1>0, <1>1, NextStepType DEF other, MachineOK
<1>2. CASE p_jmp(p, in.arg)
  BY <1>0, <1>2, NextStepType DEF p_jmp, MachineOK
<1>3. ASSUME NEW S \in SUBSET Outcomes, Compare(p, S)
      PROVE  MachineOK'
  BY <1>0, <1>3, NextStepType DEF Compare, MachineOK
<1>4. CASE JumpIf(p, in)
  BY <1>0, <1>4, NextStepType DEF JumpIf, MachineOK
<1>5. CASE p_hlt(p)
  BY <1>0, <1>5, NextStepType DEF p_hlt, MachineOK
<1>6. CASE p_call(p, in.arg)
  <2>1. step' \in [Proc -> Address]
    BY <1>0, <1>6, NextStepType DEF p_call
  <2>2. callers' \in [Proc -> Seq(Address)]
    BY <1>0, <1>6 DEF p_call, MachineOK
  <2>3. QED
    BY <1>0, <1>6, <2>1, <2>2 DEF p_call, MachineOK
<1>7. CASE p_lcall(p, in.arg)
  BY <1>0, <1>7, NextStepType DEF p_lcall, MachineOK
<1>8. CASE p_ret(p)
  <2>1. step' \in [Proc -> Address]
    BY <1>0, <1>8, NextStepType DEF p_ret
  <2>2. callers[p] \in Seq(Address)
    BY DEF MachineOK
  <2>3. callers[p] # <<>> => Front(callers[p]) \in Seq(Address)
    BY <2>2, LastAndFront
  <2>4. callers' \in [Proc -> Seq(Address)]
    BY <1>8, <2>2, <2>3 DEF p_ret, MachineOK
  <2>5. QED
    BY <1>8, <2>1, <2>4 DEF p_ret, MachineOK
<1>9. CASE p_svcall(p)
  <2>1. step' \in [Proc -> Address]
    BY <1>0, <1>9, NextStepType DEF p_svcall
  <2>2. [owner |-> p, addr |-> process_call_address[p]] \in [owner : Proc, addr : Address]
    BY DEF MachineOK
  <2>3. calling_tree' \in Seq([owner : Proc, addr : Address])
    BY <1>9, <2>2 DEF p_svcall, MachineOK
  <2>4. QED
    BY <1>9, <2>1, <2>3 DEF p_svcall, MachineOK
<1>10. CASE p_rscall(p)
  <2>1. step' \in [Proc -> Address]
    BY <1>0, <1>10, NextStepType DEF p_rscall
  <2>2. calling_tree \in Seq([owner : Proc, addr : Address])
    BY DEF MachineOK
  <2>3. CASE calling_tree = <<>>
    BY <1>10, <2>1, <2>3 DEF p_rscall, MachineOK
  <2>4. CASE calling_tree # <<>>
    <3>1. Last(calling_tree) \in [owner : Proc, addr : Address]
      BY <2>2, <2>4, LastAndFront
    <3>2. Front(calling_tree) \in Seq([owner : Proc, addr : Address])
      BY <2>2, <2>4, LastAndFront
    <3>3. Last(calling_tree).addr \in Address
      BY <3>1
    <3>4. QED
      BY <1>10, <2>1, <2>4, <3>2, <3>3 DEF p_rscall, MachineOK
  <2>5. QED
    BY <2>3, <2>4
<1>11. {0, 1, 2} \in SUBSET Outcomes /\ Outcomes \in SUBSET Outcomes
  BY DEF Outcomes
<1>12. QED
  BY <1>1, <1>2, <1>3, <1>4, <1>5, <1>6, <1>7, <1>8, <1>9, <1>10, <1>11 DEF execute

\* An instruction touches the registers of no other process, and asks its own
\* process to stop only by hlt.
LEMMA ExecuteFrame ==
  ASSUME MachineOK, NEW p \in Proc, NEW in \in Instruction, execute(p, in),
         NEW q \in Proc, q # p
  PROVE  /\ step'[q] = step[q]
         /\ stopRequested'[q] = stopRequested[q]
         /\ cmp_out'[q] = cmp_out[q]
         /\ undecided'[q] = undecided[q]
BY DEF execute, MachineOK, NextStep, other, p_jmp, Compare, JumpIf, p_hlt, p_call,
       p_lcall, p_ret, p_svcall, p_rscall

LEMMA InitTypes == Init => TypeOK
<1> SUFFICES ASSUME Init PROVE TypeOK
  OBVIOUS
<1>1. 0 \in Address /\ 0 \in 0..NProc /\ NProc \in Nat
  BY EngineAssumption DEF Address
<1>2. processes \in Seq(Proc) /\ Len(processes) = NProc
  <2>1. processes \in [1..NProc -> Proc]
    BY DEF Init, Proc
  <2>2. QED
    BY <1>1, <2>1, SeqDef
<1>3. LoopOK
  <2>1. /\ actions \in [Proc -> Programs] /\ threading \in Threadings
        /\ i = 0 /\ returned \in BOOLEAN
        /\ terminated \subseteq Proc /\ ran \subseteq Proc
    BY DEF Init
  <2>2. missed \in [Proc -> Nat]
    BY DEF Init
  <2>3. Len(processes) <= NProc
    BY <1>1, <1>2
  <2>4. QED
    BY <1>1, <1>2, <2>1, <2>2, <2>3 DEF LoopOK
<1>4. step \in [Proc -> Address] /\ process_call_address \in [Proc -> Address]
  BY <1>1 DEF Init
<1>5. cmp_out \in [Proc -> Outcomes \cup {NoOutcome}]
  BY DEF Init
<1>6. stopRequested \in [Proc -> BOOLEAN] /\ undecided \in [Proc -> BOOLEAN]
  BY DEF Init
<1>7. /\ calling_tree \in Seq([owner : Proc, addr : Address])
      /\ callers \in [Proc -> Seq(Address)]
  BY EmptySeq DEF Init
<1>8. QED
  BY <1>3, <1>4, <1>5, <1>6, <1>7, TypeOKParts DEF MachineOK

LEMMA EraseType ==
  ASSUME LoopOK, NEW k \in 1..Len(processes)
  PROVE  Erase(k) \in Seq(Proc) /\ Len(Erase(k)) = Len(processes) - 1
BY RemoveAtFacts DEF Erase, LoopOK

LEMMA NextTypes ==
  ASSUME TypeOK, [Next]_vars
  PROVE  TypeOK'
<1>0. MachineOK /\ LoopOK
  BY TypeOKParts
<1>1. CASE ThreadedTurn
  <2>1. PICK p \in Proc : p = processes[i + 1]
    BY <1>0, <1>1 DEF ThreadedTurn, LoopOK
  <2>2. i + 1 \in 1..Len(processes) /\ i + 1 \in 0..NProc
    BY <1>0, <1>1, EngineAssumption DEF ThreadedTurn, LoopOK
  <2>3. CASE Ended(p)
    <3>1. MachineOK'
      BY <1>0, <1>1, <2>1, <2>3 DEF ThreadedTurn, MachineOK, vmVars
    <3>2. processes' = Erase(i + 1)
      BY <1>1, <2>1, <2>3 DEF ThreadedTurn
    <3>3. processes' \in Seq(Proc) /\ Len(processes') <= NProc
      BY <1>0, <2>2, <3>2, EraseType, EngineAssumption DEF LoopOK
    <3>4. LoopOK'
      BY <1>0, <1>1, <2>1, <2>2, <2>3, <3>3 DEF ThreadedTurn, LoopOK, NextIndex
    <3>5. QED
      BY <3>1, <3>4 DEF TypeOK, MachineOK, LoopOK
  <2>4. CASE ~Ended(p)
    <3>1. execute(p, actions[p][step[p] + 1])
      BY <1>1, <2>1, <2>4 DEF ThreadedTurn, ExecuteStep
    <3>2. MachineOK'
      BY <1>0, <2>4, <3>1, InstructionType, ExecuteType
    <3>3. LoopOK'
      BY <1>0, <1>1, <2>1, <2>2, <2>4 DEF ThreadedTurn, LoopOK, NextIndex
    <3>4. QED
      BY <3>2, <3>3 DEF TypeOK, MachineOK, LoopOK
  <2>5. QED
    BY <2>3, <2>4
<1>2. CASE RoundEnd
  <2>1. MachineOK'
    BY <1>0, <1>2 DEF RoundEnd, MachineOK, vmVars
  <2>2. missed' \in [Proc -> Nat]
    BY <1>0, <1>2 DEF RoundEnd, LoopOK
  <2>3. returned' \in BOOLEAN
    BY <1>2, Zenon DEF RoundEnd
  <2>4. i' = 0 /\ 0 \in 0..NProc
    BY <1>2, EngineAssumption DEF RoundEnd, FirstOfRound
  <2>5. LoopOK'
    BY <1>0, <1>2, <2>2, <2>3, <2>4 DEF RoundEnd, LoopOK
  <2>6. QED
    BY <2>1, <2>5 DEF TypeOK, MachineOK, LoopOK
<1>3. CASE SequentialStep
  <2>1. PICK p \in Proc : p = processes[i + 1]
    BY <1>0, <1>3 DEF SequentialStep, LoopOK
  <2>2. i + 1 \in 0..NProc
    BY <1>0, <1>3, EngineAssumption DEF SequentialStep, LoopOK
  <2>3. CASE Ended(p)
    <3>1. MachineOK'
      BY <1>0, <1>3, <2>1, <2>3 DEF SequentialStep, MachineOK, vmVars
    <3>2. LoopOK'
      BY <1>0, <1>3, <2>1, <2>2, <2>3 DEF SequentialStep, LoopOK
    <3>3. QED
      BY <3>1, <3>2 DEF TypeOK, MachineOK, LoopOK
  <2>4. CASE ~Ended(p)
    <3>1. execute(p, actions[p][step[p] + 1])
      BY <1>3, <2>1, <2>4 DEF SequentialStep, ExecuteStep
    <3>2. MachineOK'
      BY <1>0, <2>4, <3>1, InstructionType, ExecuteType
    <3>3. LoopOK'
      BY <1>0, <1>3, <2>1, <2>4 DEF SequentialStep, LoopOK
    <3>4. QED
      BY <3>2, <3>3 DEF TypeOK, MachineOK, LoopOK
  <2>5. QED
    BY <2>3, <2>4
<1>4. CASE SequentialEnd
  BY <1>4 DEF SequentialEnd, TypeOK, vmVars, history
<1>5. CASE UNCHANGED vars
  BY <1>5 DEF vars, TypeOK, vmVars, loopVars, history
<1>6. QED
  BY <1>1, <1>2, <1>3, <1>4, <1>5 DEF Next

\* Type correctness; in particular the step counter stays a size_t whatever the
\* jumps add to it, and execute is reached only at an action of the program.
THEOREM EngineTypeCorrect == Spec => []TypeOK
<1>1. QED
  BY InitTypes, NextTypes, PTL DEF Spec

-----------------------------------------------------------------------------
(* The scheduler: nobody is lost, nobody runs twice, few turns are missed. *)

Distinct ==
  \A j, k \in 1..Len(processes) : processes[j] = processes[k] => j = k

\* What the loop of a round keeps: those behind the index have not run, and when
\* one before it has not, another was erased in this round.
Round ==
  /\ threading =>
       /\ live = Proc \ terminated
       /\ Len(processes) + Cardinality(terminated) = NProc
       /\ returned => processes = <<>>
       /\ \A k \in 1..Len(processes) : k > i => processes[k] \notin ran
       /\ \A k \in 1..Len(processes) :
            k <= i /\ processes[k] \notin ran => terminated \cap ran # {}
       /\ \A p \in live : missed[p] <= Cardinality(terminated \ ran)
  /\ ~threading =>
       /\ processes = [p \in Proc |-> p]
       /\ terminated = 1..i
       /\ returned => i = NProc
       /\ missed = [p \in Proc |-> 0]

Ending ==
  /\ threading \in BOOLEAN
  /\ \A p \in terminated : Done(p)

EngineInv == TypeOK /\ Distinct /\ Round /\ Ending

LEMMA TerminatedFinite ==
  ASSUME TypeOK
  PROVE  /\ IsFiniteSet(Proc) /\ Cardinality(Proc) = NProc
         /\ \A T \in SUBSET Proc : IsFiniteSet(T) /\ Cardinality(T) \in Nat
         /\ \A T \in SUBSET Proc, p \in Proc :
              p \notin T => Cardinality(T \cup {p}) = Cardinality(T) + 1
<1>1. IsFiniteSet(Proc) /\ Cardinality(Proc) = NProc
  BY FS_Interval, EngineAssumption DEF Proc
<1>2. \A T \in SUBSET Proc : IsFiniteSet(T) /\ Cardinality(T) \in Nat
  BY <1>1, FS_Subset, FS_CardinalityType
<1>3. \A T \in SUBSET Proc, p \in Proc :
        p \notin T => Cardinality(T \cup {p}) = Cardinality(T) + 1
  BY <1>2, FS_AddElement
<1>4. QED
  BY <1>1, <1>2, <1>3

\* Erasing an element of a vector of distinct processes removes that process only.
LEMMA EraseFacts ==
  ASSUME TypeOK, Distinct, NEW k \in 1..Len(processes), processes' = Erase(k)
  PROVE  /\ Len(processes') = Len(processes) - 1
         /\ \A j \in 1..Len(processes') :
              processes'[j] = IF j < k THEN processes[j] ELSE processes[j + 1]
         /\ Distinct'
         /\ live' = live \ {processes[k]}
<1>0. processes \in Seq(Proc) /\ Len(processes) \in Nat
  BY DEF TypeOK
<1>1. /\ processes' \in Seq(Proc)
      /\ Len(processes') = Len(processes) - 1
      /\ \A j \in 1..Len(processes') :
           processes'[j] = IF j < k THEN processes[j] ELSE processes[j + 1]
  BY <1>0, RemoveAtFacts DEF Erase
<1>2. Distinct'
  <2> SUFFICES ASSUME NEW j \in 1..Len(processes'), NEW l \in 1..Len(processes'),
                      processes'[j] = processes'[l]
               PROVE  j = l
    BY DEF Distinct
  <2>1. /\ j \in 1..Len(processes) /\ j + 1 \in 1..Len(processes)
        /\ l \in 1..Len(processes) /\ l + 1 \in 1..Len(processes)
    BY <1>0, <1>1
  <2>2. QED
    BY <1>0, <1>1, <2>1 DEF Distinct
<1>3. DOMAIN processes = 1..Len(processes) /\ DOMAIN processes' = 1..Len(processes')
  BY <1>0, <1>1
<1>4. ASSUME NEW p \in live'  PROVE p \in live \ {processes[k]}
  <2>1. PICK j \in 1..Len(processes') : p = processes'[j]
    BY <1>3, <1>4 DEF live, ToSet
  <2>2. j \in 1..Len(processes) /\ j + 1 \in 1..Len(processes)
    BY <1>0, <1>1
  <2>3. \E m \in 1..Len(processes) : p = processes[m] /\ m # k
    BY <1>0, <1>1, <2>1, <2>2
  <2>4. QED
    BY <1>3, <2>3 DEF live, ToSet, Distinct
<1>5. ASSUME NEW p \in live, p # processes[k]  PROVE p \in live'
  <2>1. PICK m \in 1..Len(processes) : p = processes[m]
    BY <1>3 DEF live, ToSet
  <2>2. m # k
    BY <1>5, <2>1
  <2>3. CASE m < k
    <3>1. m \in 1..Len(processes') /\ processes'[m] = p
      BY <1>0, <1>1, <2>1, <2>3
    <3>2. QED
      BY <1>3, <3>1 DEF live, ToSet
  <2>4. CASE m > k
    <3>1. m - 1 \in 1..Len(processes') /\ ~(m - 1 < k) /\ (m - 1) + 1 = m
      BY <1>0, <1>1, <2>4
    <3>2. processes'[m - 1] = p
      BY <1>1, <2>1, <3>1
    <3>3. QED
      BY <1>3, <3>1, <3>2 DEF live, ToSet
  <2>5. QED
    BY <1>0, <2>2, <2>3, <2>4
<1>6. QED
  BY <1>1, <1>2, <1>4, <1>5

LEMMA InitEngine == Init => EngineInv
<1> SUFFICES ASSUME Init PROVE EngineInv
  OBVIOUS
<1>1. TypeOK
  BY InitTypes
<1>2. processes = [p \in Proc |-> p] /\ Len(processes) = NProc /\ NProc \in Nat
  BY EngineAssumption DEF Init, Proc
<1>3. live = Proc
  BY <1>2 DEF live, ToSet
<1>4. Distinct
  BY <1>2 DEF Distinct, Proc
<1>5. /\ terminated = {} /\ ran = {} /\ i = 0 /\ returned = FALSE
      /\ missed = [p \in Proc |-> 0] /\ threading \in BOOLEAN
  BY EngineAssumption DEF Init
<1>6. Cardinality({}) = 0 /\ {} \ {} = {}
  BY FS_EmptySet
<1>7. Round
  <2>1. /\ live = Proc \ terminated
        /\ Len(processes) + Cardinality(terminated) = NProc
        /\ returned => processes = <<>>
    BY <1>2, <1>3, <1>5, <1>6
  <2>2. /\ \A k \in 1..Len(processes) : k > i => processes[k] \notin ran
        /\ \A k \in 1..Len(processes) :
             k <= i /\ processes[k] \notin ran => terminated \cap ran # {}
    BY <1>2, <1>5
  <2>3. \A p \in live : missed[p] <= Cardinality(terminated \ ran)
    BY <1>3, <1>5, <1>6
  <2>4. terminated = 1..i
    BY <1>5
  <2>5. QED
    BY <1>2, <1>5, <2>1, <2>2, <2>3, <2>4 DEF Round
<1>8. QED
  BY <1>1, <1>4, <1>5, <1>7 DEF EngineInv, Ending

LEMMA ThreadedTurnInv ==
  ASSUME EngineInv, ThreadedTurn
  PROVE  Distinct' /\ Round' /\ Ending'
<1>0. TypeOK /\ MachineOK /\ LoopOK
  BY TypeOKParts DEF EngineInv
<1>1. /\ threading /\ ~returned /\ i \in Nat /\ i < Len(processes)
      /\ Len(processes) \in Nat
      /\ i' = i + 1 /\ threading' = threading /\ returned' = returned
      /\ missed' = missed /\ actions' = actions
  BY <1>0 DEF ThreadedTurn, NextIndex, LoopOK
<1>2. i + 1 \in 1..Len(processes)
  BY <1>1
<1>3. PICK p \in Proc : p = processes[i + 1] /\ p \in live
  BY <1>0, <1>2 DEF LoopOK, live, ToSet
<1>4. p \notin terminated /\ p \notin ran /\ ran' = ran \cup {p}
  BY <1>1, <1>2, <1>3 DEF EngineInv, Round, ThreadedTurn
<1>5. /\ live = Proc \ terminated
      /\ Len(processes) + Cardinality(terminated) = NProc
      /\ \A k \in 1..Len(processes) : k > i => processes[k] \notin ran
      /\ \A k \in 1..Len(processes) :
           k <= i /\ processes[k] \notin ran => terminated \cap ran # {}
      /\ \A q \in live : missed[q] <= Cardinality(terminated \ ran)
  BY <1>1 DEF EngineInv, Round
<1>6. Distinct /\ \A q \in terminated : Done(q)
  BY DEF EngineInv, Ending
<1>7. CASE Ended(p)
  <2>1. /\ terminated' = terminated \cup {p} /\ processes' = Erase(i + 1)
        /\ step' = step /\ stopRequested' = stopRequested
    BY <1>1, <1>3, <1>7 DEF ThreadedTurn, vmVars
  <2>2. /\ Len(processes') = Len(processes) - 1
        /\ \A j \in 1..Len(processes') :
             processes'[j] = IF j < i + 1 THEN processes[j] ELSE processes[j + 1]
        /\ Distinct'
        /\ live' = live \ {p}
    BY <1>0, <1>2, <1>3, <1>6, <2>1, EraseFacts
  <2>3. live' = Proc \ terminated'
    BY <1>5, <2>1, <2>2
  <2>4. Len(processes') + Cardinality(terminated') = NProc
    <3>1. Cardinality(terminated') = Cardinality(terminated) + 1
          /\ Cardinality(terminated) \in Nat
      BY <1>0, <1>4, <2>1, TerminatedFinite DEF LoopOK
    <3>2. QED
      BY <1>1, <1>5, <2>2, <3>1
  <2>5. ASSUME NEW k \in 1..Len(processes'), k > i'
        PROVE  processes'[k] \notin ran'
    <3>1. /\ k + 1 \in 1..Len(processes) /\ k + 1 > i /\ k + 1 # i + 1
          /\ processes'[k] = processes[k + 1]
      BY <1>1, <2>2, <2>5
    <3>2. processes[k + 1] \notin ran
      BY <1>5, <3>1
    <3>3. processes[k + 1] # p
      BY <1>2, <1>3, <1>6, <3>1 DEF Distinct
    <3>4. QED
      BY <1>4, <3>1, <3>2, <3>3
  <2>6. terminated' \cap ran' # {} /\ terminated' \ ran' = terminated \ ran
    BY <1>4, <2>1
  <2>7. \A q \in live' : missed'[q] <= Cardinality(terminated' \ ran')
    BY <1>1, <1>5, <2>2, <2>6
  <2>8. Round'
    BY <1>1, <2>3, <2>4, <2>5, <2>6, <2>7 DEF Round
  <2>9. Ending'
    <3>1. Done(p)
      BY <1>7 DEF Ended, Done
    <3>2. QED
      BY <1>1, <1>6, <2>1, <3>1 DEF EngineInv, Ending, Done
  <2>10. QED
    BY <2>2, <2>8, <2>9
<1>8. CASE ~Ended(p)
  <2>1. processes' = processes /\ terminated' = terminated
    BY <1>3, <1>8 DEF ThreadedTurn
  <2>2. execute(p, actions[p][step[p] + 1])
    BY <1>3, <1>8 DEF ThreadedTurn, ExecuteStep
  <2>3. \A q \in Proc : q # p => step'[q] = step[q] /\ stopRequested'[q] = stopRequested[q]
    BY <1>0, <1>8, <2>2, InstructionType, ExecuteFrame
  <2>4. Distinct' /\ live' = live
    BY <1>6, <2>1 DEF Distinct, live
  <2>5. ASSUME NEW k \in 1..Len(processes'), k > i'
        PROVE  processes'[k] \notin ran'
    <3>1. k \in 1..Len(processes) /\ k > i /\ k # i + 1 /\ processes'[k] = processes[k]
      BY <1>1, <2>1, <2>5
    <3>2. processes[k] # p
      BY <1>2, <1>3, <1>6, <3>1 DEF Distinct
    <3>3. QED
      BY <1>4, <1>5, <3>1, <3>2
  <2>6. ASSUME NEW k \in 1..Len(processes'), k <= i', processes'[k] \notin ran'
        PROVE  terminated' \cap ran' # {}
    <3>1. k # i + 1
      BY <1>3, <1>4, <2>1, <2>6
    <3>2. k \in 1..Len(processes) /\ k <= i /\ processes[k] \notin ran
      BY <1>1, <1>4, <2>1, <2>6, <3>1
    <3>3. QED
      BY <1>4, <1>5, <2>1, <3>2
  <2>7. terminated' \ ran' = terminated \ ran
    BY <1>4, <2>1
  <2>8. \A q \in live' : missed'[q] <= Cardinality(terminated' \ ran')
    BY <1>1, <1>5, <2>4, <2>7
  <2>9. Round'
    BY <1>1, <1>5, <2>1, <2>4, <2>5, <2>6, <2>8 DEF Round
  <2>10. Ending'
    <3>1. \A q \in terminated : q \in Proc /\ q # p
      BY <1>0, <1>4 DEF LoopOK
    <3>2. QED
      BY <1>1, <1>6, <2>1, <2>3, <3>1 DEF EngineInv, Ending, Done
  <2>11. QED
    BY <2>4, <2>9, <2>10
<1>9. QED
  BY <1>7, <1>8

LEMMA RoundEndInv ==
  ASSUME EngineInv, RoundEnd
  PROVE  Distinct' /\ Round' /\ Ending'
<1>0. TypeOK /\ LoopOK
  BY TypeOKParts DEF EngineInv
<1>1. /\ threading /\ i \in Nat /\ Len(processes) \in Nat /\ i >= Len(processes)
      /\ i' = 0 /\ ran' = {} /\ returned' = (processes = <<>>)
      /\ UNCHANGED <<actions, threading, processes, terminated, step, stopRequested>>
      /\ missed' = [p \in Proc |-> IF p \in live \ ran THEN missed[p] + 1 ELSE missed[p]]
  BY <1>0 DEF RoundEnd, FirstOfRound, LoopOK, vmVars
<1>2. Distinct' /\ live' = live
  BY <1>1 DEF EngineInv, Distinct, live
<1>3. /\ live = Proc \ terminated
      /\ Len(processes) + Cardinality(terminated) = NProc
      /\ \A k \in 1..Len(processes) :
           k <= i /\ processes[k] \notin ran => terminated \cap ran # {}
      /\ \A q \in live : missed[q] <= Cardinality(terminated \ ran)
  BY <1>1 DEF EngineInv, Round
<1>4. /\ Cardinality(terminated) \in Nat /\ Cardinality(terminated \ ran) \in Nat
      /\ IsFiniteSet(terminated)
  BY <1>0, TerminatedFinite DEF LoopOK
<1>5. ASSUME NEW q \in live'
      PROVE  missed'[q] <= Cardinality(terminated' \ ran')
  <2>1. q \in live /\ q \in Proc /\ missed[q] \in Nat
        /\ missed[q] <= Cardinality(terminated \ ran)
    BY <1>0, <1>2, <1>3, <1>5 DEF LoopOK
  <2>2. terminated' \ ran' = terminated
    BY <1>1
  <2>3. CASE q \in ran
    <3>1. missed'[q] = missed[q]
      BY <1>1, <2>1, <2>3
    <3>2. Cardinality(terminated \ ran) <= Cardinality(terminated)
      BY <1>4, FS_Subset
    <3>3. QED
      BY <1>4, <2>1, <2>2, <3>1, <3>2
  <2>4. CASE q \notin ran
    <3>1. missed'[q] = missed[q] + 1
      BY <1>1, <2>1, <2>4
    <3>2. PICK k \in 1..Len(processes) : q = processes[k]
      BY <1>0, <2>1 DEF live, ToSet, LoopOK
    <3>3. terminated \cap ran # {}
      BY <1>1, <1>3, <2>4, <3>2
    <3>4. Cardinality(terminated \ ran) + 1 <= Cardinality(terminated)
      <4>1. PICK t \in terminated : t \in ran
        BY <3>3
      <4>2. (terminated \ ran) \cup {t} \subseteq terminated /\ t \notin terminated \ ran
        BY <4>1
      <4>3. Cardinality((terminated \ ran) \cup {t}) = Cardinality(terminated \ ran) + 1
        BY <1>0, <4>1, <4>2, TerminatedFinite DEF LoopOK
      <4>4. Cardinality((terminated \ ran) \cup {t}) <= Cardinality(terminated)
        BY <1>4, <4>2, FS_Subset
      <4>5. QED
        BY <4>3, <4>4
    <3>5. missed[q] + 1 <= Cardinality(terminated)
      BY <1>4, <2>1, <3>4
    <3>6. QED
      BY <2>2, <3>1, <3>5, Zenon
  <2>5. QED
    BY <2>3, <2>4
<1>6. /\ \A k \in 1..Len(processes') : k > i' => processes'[k] \notin ran'
      /\ \A k \in 1..Len(processes') :
           k <= i' /\ processes'[k] \notin ran' => terminated' \cap ran' # {}
  BY <1>1
<1>7. Round'
  BY <1>1, <1>2, <1>3, <1>5, <1>6 DEF Round
<1>8. Ending'
  BY <1>1 DEF EngineInv, Ending, Done
<1>9. QED
  BY <1>2, <1>7, <1>8

LEMMA SequentialInv ==
  ASSUME EngineInv, SequentialStep \/ SequentialEnd
  PROVE  Distinct' /\ Round' /\ Ending'
<1>0. TypeOK /\ MachineOK /\ LoopOK
  BY TypeOKParts DEF EngineInv
<1>1. /\ ~threading /\ UNCHANGED <<actions, threading, processes, missed>>
      /\ ~returned
  BY DEF SequentialStep, SequentialEnd, history
<1>2. /\ processes = [p \in Proc |-> p] /\ terminated = 1..i
      /\ missed = [p \in Proc |-> 0] /\ Len(processes) = NProc
      /\ i \in Nat /\ NProc \in Nat /\ i <= NProc
  BY <1>0, <1>1, EngineAssumption DEF EngineInv, Round, LoopOK, Proc
<1>3. Distinct'
  BY <1>1 DEF EngineInv, Distinct
<1>4. \A q \in terminated : Done(q)
  BY DEF EngineInv, Ending
<1>5. threading' \in BOOLEAN
  BY <1>1 DEF EngineInv, Ending
<1>6. CASE SequentialStep
  <2>1. PICK p \in Proc : p = processes[i + 1] /\ p = i + 1 /\ i < NProc
    BY <1>2, <1>6 DEF SequentialStep, Proc
  <2>2. CASE Ended(p)
    <3>1. /\ terminated' = terminated \cup {p} /\ i' = i + 1
          /\ step' = step /\ stopRequested' = stopRequested /\ returned' = returned
      BY <1>6, <2>1, <2>2 DEF SequentialStep, vmVars
    <3>2. terminated' = 1..i'
      BY <1>2, <2>1, <3>1
    <3>3. Done(p)
      BY <2>2 DEF Ended, Done
    <3>4. Round'
      BY <1>1, <1>2, <3>1, <3>2 DEF Round
    <3>5. Ending'
      BY <1>1, <1>4, <1>5, <3>1, <3>3 DEF Ending, Done
    <3>6. QED
      BY <1>3, <3>4, <3>5
  <2>3. CASE ~Ended(p)
    <3>1. /\ terminated' = terminated /\ i' = i /\ returned' = returned
          /\ execute(p, actions[p][step[p] + 1])
      BY <1>6, <2>1, <2>3 DEF SequentialStep, ExecuteStep
    <3>2. \A q \in Proc : q # p => step'[q] = step[q] /\ stopRequested'[q] = stopRequested[q]
      BY <1>0, <2>3, <3>1, InstructionType, ExecuteFrame
    <3>3. \A q \in terminated : q \in Proc /\ q # p
      BY <1>0, <1>2, <2>1 DEF LoopOK
    <3>4. Round'
      BY <1>1, <1>2, <3>1 DEF Round
    <3>5. Ending'
      BY <1>1, <1>4, <1>5, <3>1, <3>2, <3>3 DEF Ending, Done
    <3>6. QED
      BY <1>3, <3>4, <3>5
  <2>4. QED
    BY <2>2, <2>3
<1>7. CASE SequentialEnd
  <2>1. /\ i' = i /\ i = NProc /\ terminated' = terminated
        /\ step' = step /\ stopRequested' = stopRequested
    BY <1>2, <1>7 DEF SequentialEnd, vmVars
  <2>2. Round'
    BY <1>1, <1>2, <2>1 DEF Round
  <2>3. Ending'
    BY <1>1, <1>4, <1>5, <2>1 DEF Ending, Done
  <2>4. QED
    BY <1>3, <2>2, <2>3
<1>8. QED
  BY <1>6, <1>7

LEMMA EngineInvAlways == Spec => []EngineInv
<1>1. EngineInv /\ [Next]_vars => EngineInv'
  <2> SUFFICES ASSUME EngineInv, [Next]_vars PROVE EngineInv'
    OBVIOUS
  <2>1. TypeOK'
    BY NextTypes DEF EngineInv
  <2>2. CASE UNCHANGED vars
    <3>1. /\ actions' = actions /\ threading' = threading /\ processes' = processes
          /\ i' = i /\ returned' = returned /\ terminated' = terminated
          /\ step' = step /\ stopRequested' = stopRequested
          /\ ran' = ran /\ missed' = missed
      BY <2>2 DEF vars, vmVars, loopVars, history
    <3>2. live' = live
      BY <3>1 DEF live
    <3>3. Distinct'
      BY <3>1 DEF EngineInv, Distinct
    <3>4. Round'
      BY <3>1, <3>2 DEF EngineInv, Round
    <3>5. Ending'
      BY <3>1 DEF EngineInv, Ending, Done
    <3>6. QED
      BY <2>1, <3>3, <3>4, <3>5 DEF EngineInv
  <2>3. QED
    BY <2>1, <2>2, ThreadedTurnInv, RoundEndInv, SequentialInv DEF Next, EngineInv
<1>2. QED
  BY <1>1, InitEngine, PTL DEF Spec

\* No erasure loses a live process or keeps one that ended: with threading on
\* the vector always holds exactly the others, and start returns when none is
\* left, having run each to its end.
THEOREM NobodyLost == Spec => []NoneLost
<1>1. EngineInv => NoneLost
  <2> SUFFICES ASSUME EngineInv PROVE NoneLost
    OBVIOUS
  <2>1. CASE threading
    <3>1. live = Proc \ terminated /\ terminated \subseteq Proc
          /\ (returned => processes = <<>>)
      BY <2>1 DEF EngineInv, Round, TypeOK
    <3>2. processes = <<>> => live = {}
      BY DEF live, ToSet
    <3>3. returned => terminated = Proc
      BY <3>1, <3>2
    <3>4. QED
      BY <2>1, <3>3 DEF EngineInv, Round, Ending, NoneLost
  <2>2. CASE ~threading
    BY <2>2 DEF EngineInv, Round, Ending, NoneLost, Proc
  <2>3. QED
    BY <2>1, <2>2
<1>2. QED
  BY <1>1, EngineInvAlways, PTL

\* A process misses a turn only when another one is erased: for any number of
\* processes the rounds it got no step never outnumber the erased processes.
THEOREM FairTurns == Spec => []FewMissedTurns
<1>1. EngineInv => FewMissedTurns
  <2> SUFFICES ASSUME EngineInv, NEW p \in live
               PROVE  missed[p] <= Cardinality(terminated)
    BY DEF FewMissedTurns
  <2>1. TypeOK /\ p \in Proc /\ missed[p] \in Nat /\ terminated \subseteq Proc
    BY DEF EngineInv, TypeOK, live, ToSet
  <2>2. /\ Cardinality(terminated) \in Nat /\ Cardinality(terminated \ ran) \in Nat
        /\ Cardinality(terminated \ ran) <= Cardinality(terminated)
    BY <2>1, TerminatedFinite, FS_Subset
  <2>3. CASE threading
    BY <2>1, <2>2, <2>3 DEF EngineInv, Round
  <2>4. CASE ~threading
    BY <2>1, <2>2, <2>4 DEF EngineInv, Round
  <2>5. QED
    BY <2>3, <2>4
<1>2. QED
  BY <1>1, EngineInvAlways, PTL

\* In a round no process runs twice, however the erasures shift the vector under
\* the loop index.
THEOREM OneTurn == Spec => OneTurnARound
<1>1. EngineInv /\ [Next]_vars
        => [ \A p \in Proc : step'[p] # step[p] /\ threading => p \notin ran ]_vars
  <2> SUFFICES ASSUME EngineInv, [Next]_vars, NEW p \in Proc,
                      step'[p] # step[p], threading
               PROVE  p \notin ran
    OBVIOUS
  <2>0. TypeOK /\ MachineOK /\ LoopOK
    BY TypeOKParts DEF EngineInv
  <2>1. ThreadedTurn
    BY DEF Next, RoundEnd, SequentialStep, SequentialEnd, vars, vmVars
  <2>2. i + 1 \in 1..Len(processes) /\ i + 1 > i
    BY <2>0, <2>1 DEF ThreadedTurn, LoopOK
  <2>3. PICK q \in Proc : q = processes[i + 1]
    BY <2>0, <2>2 DEF LoopOK
  <2>4. ~Ended(q) /\ execute(q, actions[q][step[q] + 1])
    BY <2>1, <2>3 DEF ThreadedTurn, ExecuteStep, vmVars
  <2>5. p = q
    BY <2>0, <2>4, InstructionType, ExecuteFrame
  <2>6. QED
    BY <2>2, <2>3, <2>5 DEF EngineInv, Round
<1>2. QED
  BY <1>1, EngineInvAlways, PTL DEF Spec, OneTurnARound

-----------------------------------------------------------------------------
(* The result of a compare decides one jump.                               *)

Spent == \A p \in Proc : ~undecided[p] => cmp_out[p] = NoOutcome

LEMMA ExecuteSpent ==
  ASSUME MachineOK, Spent, NEW p \in Proc, NEW in \in Instruction, execute(p, in)
  PROVE  Spent'
<1>1. ASSUME NEW q \in Proc, q # p, ~undecided'[q]
      PROVE  cmp_out'[q] = NoOutcome
  BY <1>1, ExecuteFrame DEF Spent
<1>2. ASSUME ~undecided'[p]
      PROVE  cmp_out'[p] = NoOutcome
  <2>1. CASE undecided' = undecided /\ cmp_out' = cmp_out
    BY <1>2, <2>1 DEF Spent
  <2>2. ASSUME NEW S, Compare(p, S)
        PROVE  FALSE
    BY <1>2, <2>2 DEF Compare, MachineOK
  <2>3. CASE JumpIf(p, in)
    BY <1>2, <2>3 DEF JumpIf, MachineOK, Spent
  <2>4. QED
    BY <2>1, <2>2, <2>3 DEF execute, other, p_jmp, p_hlt, p_call, p_lcall, p_ret,
       p_svcall, p_rscall
<1>3. QED
  BY <1>1, <1>2 DEF Spent

\* Which step of the loop an instruction is executed in.
LEMMA StepExecutes ==
  ASSUME TypeOK, Next
  PROVE  \/ UNCHANGED <<step, cmp_out, undecided>>
         \/ \E p \in Proc : ~Ended(p) /\ execute(p, actions[p][step[p] + 1])
<1>0. MachineOK /\ LoopOK
  BY TypeOKParts
<1>1. ASSUME ThreadedTurn \/ SequentialStep
      PROVE  \/ UNCHANGED <<step, cmp_out, undecided>>
             \/ \E p \in Proc : ~Ended(p) /\ execute(p, actions[p][step[p] + 1])
  <2>1. i + 1 \in 1..Len(processes)
    BY <1>0, <1>1 DEF ThreadedTurn, SequentialStep, LoopOK
  <2>2. PICK p \in Proc : p = processes[i + 1]
    BY <1>0, <2>1 DEF LoopOK
  <2>3. CASE Ended(p)
    BY <1>1, <2>2, <2>3 DEF ThreadedTurn, SequentialStep, vmVars
  <2>4. CASE ~Ended(p)
    BY <1>1, <2>2, <2>4 DEF ThreadedTurn, SequentialStep, ExecuteStep
  <2>5. QED
    BY <2>3, <2>4
<1>2. CASE RoundEnd \/ SequentialEnd
  BY <1>2 DEF RoundEnd, SequentialEnd, vmVars, history
<1>3. QED
  BY <1>1, <1>2 DEF Next

\* A jump on equal, less or greater is taken only on a compare no other taken
\* jump has consumed, in every program.
THEOREM ComparesSpentOnce == Spec => SpentOnce
<1>1. Init => Spent
  BY DEF Init, Spent
<1>2. TypeOK /\ Spent /\ [Next]_vars => Spent'
  <2> SUFFICES ASSUME TypeOK, Spent, [Next]_vars PROVE Spent'
    OBVIOUS
  <2>1. CASE UNCHANGED <<step, cmp_out, undecided>>
    BY <2>1 DEF Spent
  <2>2. ASSUME NEW p \in Proc, ~Ended(p), execute(p, actions[p][step[p] + 1])
        PROVE  Spent'
    BY <2>2, TypeOKParts, InstructionType, ExecuteSpent
  <2>3. QED
    BY <2>1, <2>2, StepExecutes DEF vars, vmVars, history
<1>3. TypeOK /\ Spent /\ [Next]_vars
        => [ \A p \in Proc :
               /\ step'[p] # step[p]
               /\ actions[p][step[p] + 1].op \in DOMAIN TakenOn \ {"jne"}
               /\ step'[p] # (step[p] + 1) % Modulus
               => undecided[p] ]_vars
  <2> SUFFICES ASSUME TypeOK, Spent, [Next]_vars, NEW p \in Proc,
                      step'[p] # step[p],
                      actions[p][step[p] + 1].op \in DOMAIN TakenOn \ {"jne"},
                      step'[p] # (step[p] + 1) % Modulus
               PROVE  undecided[p]
    OBVIOUS
  <2>0. MachineOK /\ LoopOK
    BY TypeOKParts
  <2>1. PICK q \in Proc : ~Ended(q) /\ execute(q, actions[q][step[q] + 1])
    BY StepExecutes DEF vars, vmVars
  <2>2. PICK in \in Instruction : in = actions[q][step[q] + 1]
    BY <2>1, InstructionType
  <2>3. p = q
    BY <2>0, <2>1, <2>2, ExecuteFrame
  <2>4. DOMAIN TakenOn = {"je", "jne", "jl", "jg", "jle", "jge"}
    BY DEF TakenOn
  <2>5. in.op \in {"je", "jl", "jg", "jle", "jge"}
    BY <2>2, <2>3, <2>4
  <2>6. JumpIf(p, in)
    BY <2>1, <2>2, <2>3, <2>5 DEF execute
  <2>7. cmp_out[p] \in TakenOn[in.op]
    BY <2>0, <2>6 DEF JumpIf, NextStep, MachineOK
  <2>8. cmp_out[p] # NoOutcome
    BY <2>5, <2>7 DEF TakenOn, NoOutcome
  <2>9. QED
    BY <2>8 DEF Spent
<1>4. QED
  BY <1>1, <1>2, <1>3, EngineTypeCorrect, PTL DEF Spec, SpentOnce

=============================================================================
