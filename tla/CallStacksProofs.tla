-------------------------- MODULE CallStacksProofs --------------------------
(***************************************************************************)
(* When a single process saves calls, the vector of VpuEngine implements   *)
(* the private stacks of CallStacks, for any number of processes and any   *)
(* programs: every entry is of that process, so its part of the vector is  *)
(* the vector itself, and the part of anybody else is empty.               *)
(***************************************************************************)
EXTENDS VpuEngineProofs

(* Whoever has an entry in the vector runs a program that saves calls. *)
OwnersSave == \A k \in 1..Len(calling_tree) : SavesCalls(calling_tree[k].owner)

AloneInv == TypeOK /\ SoleCaller /\ OwnersSave

Entry == [owner : Proc, addr : Address]

(* The addresses of the entries of a vector. *)
Addresses(tree) == [k \in 1..Len(tree) |-> tree[k].addr]

-----------------------------------------------------------------------------
(* The address part of a vector, and what saving and restoring do to it. *)
LEMMA AddressesType ==
  ASSUME NEW tree \in Seq(Entry)
  PROVE  Addresses(tree) \in Seq(Address) /\ Len(Addresses(tree)) = Len(tree)
<1>1. Len(tree) \in Nat /\ \A k \in 1..Len(tree) : tree[k].addr \in Address
  <2>1. Len(tree) \in Nat /\ \A k \in 1..Len(tree) : tree[k] \in Entry
    BY ElementOfSeq, LenProperties
  <2>2. \A e \in Entry : e.addr \in Address
    BY DEF Entry
  <2> QED
    BY <2>1, <2>2
<1>2. Addresses(tree) \in Seq(Address)
  BY <1>1, IsASeq DEF Addresses
<1>3. Addresses(tree) \in [1..Len(tree) -> Address]
  BY <1>1 DEF Addresses
<1> QED
  BY <1>1, <1>2, <1>3, LenProperties

(* An entry appended to the vector appends its address. *)
LEMMA AddressesAppend ==
  ASSUME NEW tree \in Seq(Entry), NEW e \in Entry
  PROVE  Addresses(Append(tree, e)) = Append(Addresses(tree), e.addr)
<1> DEFINE longer == Append(tree, e)
<1>1. /\ longer \in Seq(Entry) /\ Len(longer) = Len(tree) + 1 /\ Len(tree) \in Nat
      /\ \A k \in 1..Len(tree) : longer[k] = tree[k]
      /\ longer[Len(tree) + 1] = e
  BY AppendProperties
<1>2. /\ Addresses(longer) \in Seq(Address) /\ Len(Addresses(longer)) = Len(tree) + 1
      /\ Addresses(tree) \in Seq(Address) /\ Len(Addresses(tree)) = Len(tree) /\ e.addr \in Address
  BY <1>1, AddressesType DEF Entry
<1>3. /\ Append(Addresses(tree), e.addr) \in Seq(Address)
      /\ Len(Append(Addresses(tree), e.addr)) = Len(tree) + 1
      /\ \A k \in 1..Len(tree) : Append(Addresses(tree), e.addr)[k] = Addresses(tree)[k]
      /\ Append(Addresses(tree), e.addr)[Len(tree) + 1] = e.addr
  BY <1>2, AppendProperties
<1>4. ASSUME NEW k \in 1..(Len(tree) + 1)
      PROVE  Addresses(longer)[k] = Append(Addresses(tree), e.addr)[k]
  <2>1. Addresses(longer)[k] = longer[k].addr
    BY <1>1 DEF Addresses
  <2>2. CASE k = Len(tree) + 1
    BY <1>1, <1>3, <2>1, <2>2
  <2>3. CASE k \in 1..Len(tree)
    BY <1>1, <1>3, <2>1, <2>3 DEF Addresses
  <2>4. k = Len(tree) + 1 \/ k \in 1..Len(tree)
    BY <1>1
  <2> QED
    BY <2>2, <2>3, <2>4
<1> HIDE DEF longer
<1>5. Addresses(longer) = Append(Addresses(tree), e.addr)
  BY <1>2, <1>3, <1>4, SeqEqual
<1> QED
  BY <1>5 DEF longer

(* A sequence without its last element. *)
LEMMA FrontFacts ==
  ASSUME NEW S, NEW s \in Seq(S), s # <<>>
  PROVE  /\ Front(s) \in Seq(S) /\ Len(Front(s)) = Len(s) - 1 /\ Len(Front(s)) \in Nat
         /\ \A k \in 1..(Len(s) - 1) : Front(s)[k] = s[k]
<1>0. Len(s) \in Nat \ {0}
  BY EmptySeq
<1>1. Len(s) - 1 \in Int /\ 1 \in Int /\ \A k \in 1..(Len(s) - 1) : s[k] \in S
  BY <1>0, ElementOfSeq
<1>2. /\ SubSeq(s, 1, Len(s) - 1) \in Seq(S)
      /\ Len(SubSeq(s, 1, Len(s) - 1)) = IF 1 <= Len(s) - 1 THEN Len(s) - 1 - 1 + 1 ELSE 0
      /\ \A k \in 1..(Len(s) - 1 - 1 + 1) : SubSeq(s, 1, Len(s) - 1)[k] = s[1 + k - 1]
  BY <1>1, SubSeqProperties
<1>3. PICK t : t = SubSeq(s, 1, Len(s) - 1)
  OBVIOUS
<1>4. Len(t) = Len(s) - 1
  <2>1. Len(t) = IF 1 <= Len(s) - 1 THEN Len(s) - 1 - 1 + 1 ELSE 0
    BY <1>2, <1>3
  <2>2. PICK n \in Nat \ {0} : n = Len(s)
    BY <1>0
  <2>3. (IF 1 <= n - 1 THEN n - 1 - 1 + 1 ELSE 0) = n - 1
    OBVIOUS
  <2> QED
    BY <2>1, <2>2, <2>3
<1>5. Len(s) - 1 - 1 + 1 = Len(s) - 1 /\ \A k \in 1..(Len(s) - 1) : 1 + k - 1 = k
  BY <1>0
<1>6. \A k \in 1..(Len(s) - 1) : t[k] = s[k]
  BY <1>2, <1>3, <1>5
<1> QED
  BY <1>2, <1>3, <1>4, <1>6 DEF Front

(* The last entry taken from the vector takes the last address. *)
LEMMA AddressesFront ==
  ASSUME NEW tree \in Seq(Entry), tree # <<>>
  PROVE  /\ Addresses(tree) # <<>>
         /\ Last(Addresses(tree)) = Last(tree).addr
         /\ Addresses(Front(tree)) = Front(Addresses(tree))
<1>1. /\ Len(tree) \in Nat \ {0} /\ Addresses(tree) \in Seq(Address)
      /\ Len(Addresses(tree)) = Len(tree)
  BY EmptySeq, AddressesType
<1>2. Addresses(tree) # <<>>
  BY <1>1, EmptySeq
<1>3. Last(Addresses(tree)) = Last(tree).addr
  BY <1>1 DEF Last, Addresses
<1>4. /\ Front(tree) \in Seq(Entry) /\ Len(Front(tree)) = Len(tree) - 1
      /\ \A k \in 1..(Len(tree) - 1) : Front(tree)[k] = tree[k]
  BY <1>1, FrontFacts
<1>5. /\ Front(Addresses(tree)) \in Seq(Address) /\ Len(Front(Addresses(tree))) = Len(tree) - 1
      /\ \A k \in 1..(Len(tree) - 1) : Front(Addresses(tree))[k] = Addresses(tree)[k]
  BY <1>1, <1>2, FrontFacts
<1>6. Addresses(Front(tree)) \in Seq(Address) /\ Len(Addresses(Front(tree))) = Len(tree) - 1
  BY <1>4, AddressesType
<1>7. ASSUME NEW k \in 1..(Len(tree) - 1)
      PROVE  Addresses(Front(tree))[k] = Front(Addresses(tree))[k]
  <2>1. k \in 1..Len(tree) /\ k \in 1..Len(Front(tree))
    BY <1>1, <1>4
  <2>2. Addresses(Front(tree))[k] = Front(tree)[k].addr /\ Addresses(tree)[k] = tree[k].addr
    BY <2>1 DEF Addresses
  <2>3. Front(tree)[k] = tree[k] /\ Front(Addresses(tree))[k] = Addresses(tree)[k]
    BY <1>4, <1>5
  <2> QED
    BY <2>2, <2>3
<1>8. Addresses(Front(tree)) = Front(Addresses(tree))
  BY <1>5, <1>6, <1>7, SeqEqual
<1> QED
  BY <1>2, <1>3, <1>8

-----------------------------------------------------------------------------
(* The part of the vector that belongs to a process. *)

(* Whoever has all the entries has the vector, anybody else nothing. *)
LEMMA SavedByOwner ==
  ASSUME TypeOK, NEW p \in Proc
  PROVE  /\ (\A k \in 1..Len(calling_tree) : calling_tree[k].owner = p)
              => SavedBy(p) = Addresses(calling_tree)
         /\ (\A k \in 1..Len(calling_tree) : calling_tree[k].owner # p)
              => SavedBy(p) = <<>>
<1>1. Len(calling_tree) \in Nat
  BY LenProperties DEF TypeOK
<1>2. ASSUME \A k \in 1..Len(calling_tree) : calling_tree[k].owner = p
      PROVE  SavedBy(p) = Addresses(calling_tree)
  <2>1. EntriesOf(p) = 1..Len(calling_tree) /\ Cardinality(EntriesOf(p)) = Len(calling_tree)
    <3>1. EntriesOf(p) = 1..Len(calling_tree)
      BY <1>2 DEF EntriesOf
    <3> QED
      BY <1>1, <3>1, FS_Interval
  <2>2. ASSUME NEW n \in 1..Len(calling_tree)
        PROVE  EntryOf(p, n) = n
    <3>1. ASSUME NEW k \in 1..Len(calling_tree)
          PROVE  Cardinality({j \in EntriesOf(p) : j <= k}) = k
      <4>1. {j \in EntriesOf(p) : j <= k} = 1..k
        BY <1>1, <2>1
      <4>2. k \in Int /\ 1 \in Int /\ ~(1 > k) /\ k - 1 + 1 = k
        BY <1>1
      <4>3. Cardinality(1..k) = k
        BY <4>2, FS_Interval
      <4> QED
        BY <4>1, <4>3
    <3>2. n \in EntriesOf(p) /\ \A k \in EntriesOf(p) :
             Cardinality({j \in EntriesOf(p) : j <= k}) = n <=> k = n
      BY <2>1, <3>1
    <3> QED
      BY <3>2 DEF EntryOf
  <2> QED
    BY <2>1, <2>2 DEF SavedBy, Addresses
<1>3. ASSUME \A k \in 1..Len(calling_tree) : calling_tree[k].owner # p
      PROVE  SavedBy(p) = <<>>
  <2>1. EntriesOf(p) = {}
    BY <1>3 DEF EntriesOf
  <2>2. Cardinality(EntriesOf(p)) = 0
    BY <2>1, FS_EmptySet
  <2>3. SavedBy(p) = [n \in 1..0 |-> calling_tree[EntryOf(p, n)].addr]
    BY <2>2 DEF SavedBy
  <2>4. SavedBy(p) \in [1..0 -> {}]
    BY <2>3
  <2>5. SavedBy(p) \in Seq({}) /\ Len(SavedBy(p)) = 0
    BY <2>3, <2>4
  <2> QED
    BY <2>5, EmptySeq
<1> QED
  BY <1>2, <1>3

(* With a single process that saves calls, the vector is its own. *)
OwnParts ==
  \A p \in Proc : SavedBy(p) = IF SavesCalls(p) THEN Addresses(calling_tree) ELSE <<>>

LEMMA OnlyOwner == AloneInv => OwnParts
<1> SUFFICES ASSUME AloneInv, NEW p \in Proc
             PROVE  SavedBy(p) = IF SavesCalls(p) THEN Addresses(calling_tree) ELSE <<>>
  BY DEF OwnParts
<1>1. \A k \in 1..Len(calling_tree) : calling_tree[k].owner \in Proc
  <2>1. \A k \in 1..Len(calling_tree) : calling_tree[k] \in Entry
    BY ElementOfSeq DEF AloneInv, TypeOK, Entry
  <2> QED
    BY <2>1 DEF Entry
<1>2. CASE SavesCalls(p)
  <2>1. \A k \in 1..Len(calling_tree) : calling_tree[k].owner = p
    BY <1>1, <1>2 DEF AloneInv, OwnersSave, SoleCaller
  <2> QED
    BY <1>2, <2>1, SavedByOwner DEF AloneInv
<1>3. CASE ~SavesCalls(p)
  <2>1. \A k \in 1..Len(calling_tree) : calling_tree[k].owner # p
    BY <1>3 DEF AloneInv, OwnersSave
  <2> QED
    BY <1>3, <2>1, SavedByOwner DEF AloneInv
<1> QED
  BY <1>2, <1>3

-----------------------------------------------------------------------------
(* What a step does to the vector and to the caller addresses. *)
Moves(p) ==
  \/ UNCHANGED <<calling_tree, process_call_address>>
  \/ /\ UNCHANGED calling_tree
     /\ process_call_address' = [process_call_address EXCEPT ![p] = step[p]]
  \/ /\ SavesCalls(p)
     /\ calling_tree' = Append(calling_tree, [owner |-> p, addr |-> process_call_address[p]])
     /\ UNCHANGED process_call_address
  \/ /\ SavesCalls(p) /\ calling_tree # <<>>
     /\ calling_tree' = Front(calling_tree)
     /\ process_call_address' = [process_call_address EXCEPT ![p] = Last(calling_tree).addr]

(* Only svcall and rscall touch the vector, and only in programs that hold *)
(* them.                                                                   *)
LEMMA StepMoves ==
  ASSUME TypeOK, [Next]_vars
  PROVE  UNCHANGED actions /\ \E p \in Proc : Moves(p)
<1>0. MachineOK /\ LoopOK /\ 1 \in Proc
  BY TypeOKParts, EngineAssumption DEF Proc
<1>1. UNCHANGED actions
  BY DEF Next, ThreadedTurn, RoundEnd, SequentialStep, SequentialEnd, vars
<1>2. ASSUME NEW p \in Proc, ~Ended(p), ExecuteStep(p)
      PROVE  Moves(p)
  <2>1. step[p] + 1 \in 1..Len(actions[p])
    <3>1. actions[p] \in Seq(Instruction)
      BY EngineAssumption DEF TypeOK, Instruction
    <3>2. step[p] \in Nat /\ step[p] < Len(actions[p])
      BY <1>2, <3>1, EngineAssumption DEF TypeOK, Ended, Address
    <3> QED
      BY <3>1, <3>2
  <2>2. PICK in : in = actions[p][step[p] + 1] /\ execute(p, in)
    BY <1>2 DEF ExecuteStep
  <2>3. in.op \in {"svcall", "rscall"} => SavesCalls(p)
    BY <2>1, <2>2 DEF SavesCalls
  <2> QED
    BY <2>2, <2>3 DEF execute, Moves, other, p_jmp, Compare, JumpIf, p_hlt, p_call, p_lcall, p_ret,
       p_svcall, p_rscall
<1>3. CASE ThreadedTurn \/ SequentialStep
  <2>1. i + 1 \in 1..Len(processes)
    BY <1>0, <1>3 DEF ThreadedTurn, SequentialStep, LoopOK
  <2>2. PICK p \in Proc : p = processes[i + 1]
    BY <1>0, <2>1 DEF LoopOK
  <2>3. CASE Ended(p)
    BY <1>1, <1>3, <2>2, <2>3 DEF ThreadedTurn, SequentialStep, vmVars, Moves
  <2>4. CASE ~Ended(p)
    BY <1>1, <1>2, <1>3, <2>2, <2>4 DEF ThreadedTurn, SequentialStep
  <2> QED
    BY <2>3, <2>4
<1>4. CASE RoundEnd \/ SequentialEnd \/ UNCHANGED vars
  BY <1>0, <1>1, <1>4 DEF RoundEnd, SequentialEnd, vars, vmVars, Moves
<1> QED
  BY <1>3, <1>4 DEF Next

(* A program that saves calls still does after a step. *)
LEMMA SavesCallsStays ==
  ASSUME UNCHANGED actions
  PROVE  (\A p \in Proc : SavesCalls(p)' <=> SavesCalls(p)) /\ (SoleCaller => SoleCaller')
BY DEF SavesCalls, SoleCaller

LEMMA AloneInvStays ==
  ASSUME AloneInv, [Next]_vars
  PROVE  AloneInv'
<1>1. TypeOK /\ TypeOK' /\ SoleCaller /\ OwnersSave
  BY NextTypes DEF AloneInv
<1>2. PICK p \in Proc : Moves(p) /\ UNCHANGED actions
  BY <1>1, StepMoves
<1>3. SoleCaller' /\ \A q \in Proc : SavesCalls(q)' <=> SavesCalls(q)
  BY <1>1, <1>2, SavesCallsStays
<1>4. calling_tree \in Seq(Entry) /\ Len(calling_tree) \in Nat
  BY <1>1, LenProperties DEF TypeOK, Entry
<1>5. \A k \in 1..Len(calling_tree) : calling_tree[k].owner \in Proc
  <2>1. \A k \in 1..Len(calling_tree) : calling_tree[k] \in Entry
    BY <1>4, ElementOfSeq
  <2> QED
    BY <2>1 DEF Entry
<1>6. \A k \in 1..Len(calling_tree), q \in Proc : q = calling_tree[k].owner => SavesCalls(q)'
  BY <1>1, <1>3 DEF OwnersSave
<1>7. OwnersSave'
  <2>1. CASE UNCHANGED calling_tree
    BY <1>5, <1>6, <2>1 DEF OwnersSave
  <2>2. CASE SavesCalls(p) /\ calling_tree' = Append(calling_tree, [owner |-> p, addr |-> process_call_address[p]])
    <3>1. [owner |-> p, addr |-> process_call_address[p]] \in Entry
      BY <1>1 DEF TypeOK, Entry
    <3>2. PICK e \in Entry : e.owner = p /\ calling_tree' = Append(calling_tree, e)
      BY <2>2, <3>1
    <3>3. /\ Len(calling_tree') = Len(calling_tree) + 1
          /\ \A k \in 1..Len(calling_tree) : calling_tree'[k] = calling_tree[k]
          /\ calling_tree'[Len(calling_tree) + 1] = e
      BY <1>4, <3>2, AppendProperties
    <3>4. \A k \in 1..Len(calling_tree') : k \in 1..Len(calling_tree) \/ k = Len(calling_tree) + 1
      BY <1>4, <3>3
    <3> QED
      BY <1>3, <1>5, <1>6, <2>2, <3>2, <3>3, <3>4 DEF OwnersSave
  <2>3. CASE calling_tree # <<>> /\ calling_tree' = Front(calling_tree)
    <3>1. /\ Len(calling_tree') \in Nat /\ Len(calling_tree') = Len(calling_tree) - 1
          /\ \A k \in 1..(Len(calling_tree) - 1) : calling_tree'[k] = calling_tree[k]
      BY <1>4, <2>3, FrontFacts
    <3> QED
      BY <1>4, <1>5, <1>6, <3>1 DEF OwnersSave
  <2> QED
    BY <1>2, <2>1, <2>2, <2>3 DEF Moves
<1> QED
  BY <1>1, <1>3, <1>7 DEF AloneInv

(* Every step is a call, a save or a restore of one process, or a stutter. *)
LEMMA StepImplements ==
  ASSUME AloneInv, OwnParts, OwnParts', [Next]_vars
  PROVE  [Stacks!Next]_(Stacks!stackVars)
<1> DEFINE saved == [p \in Proc |-> SavedBy(p)]
<1>1. TypeOK /\ SoleCaller /\ calling_tree \in Seq(Entry) /\ process_call_address \in [Proc -> Address]
      /\ step \in [Proc -> Address]
  BY DEF AloneInv, TypeOK, Entry
<1>2. PICK p \in Proc : Moves(p) /\ UNCHANGED actions
  BY <1>1, StepMoves
<1>3. \A q \in Proc : SavesCalls(q)' <=> SavesCalls(q)
  BY <1>2, SavesCallsStays
<1>4. /\ saved = [q \in Proc |-> IF SavesCalls(q) THEN Addresses(calling_tree) ELSE <<>>]
      /\ saved' = [q \in Proc |-> IF SavesCalls(q) THEN Addresses(calling_tree') ELSE <<>>]
  <2>1. \A q \in Proc : SavedBy(q) = IF SavesCalls(q) THEN Addresses(calling_tree) ELSE <<>>
    BY DEF OwnParts
  <2>2. \A q \in Proc : SavedBy(q)' = IF SavesCalls(q)' THEN Addresses(calling_tree') ELSE <<>>
    BY DEF OwnParts, Addresses
  <2>3. \A q \in Proc : SavedBy(q)' = IF SavesCalls(q) THEN Addresses(calling_tree') ELSE <<>>
    BY <1>3, <2>2
  <2> QED
    BY <2>1, <2>3
<1> HIDE DEF saved
<1>5. SavesCalls(p) => saved[p] = Addresses(calling_tree)
                       /\ \A q \in Proc \ {p} : saved[q] = <<>> /\ saved'[q] = <<>>
  BY <1>1, <1>4 DEF SoleCaller
<1>6. CASE UNCHANGED calling_tree /\ UNCHANGED process_call_address
  <2>1. UNCHANGED saved
    BY <1>4, <1>6
  <2> QED
    BY <1>6, <2>1 DEF Stacks!stackVars, saved
<1>7. CASE UNCHANGED calling_tree /\ process_call_address' = [process_call_address EXCEPT ![p] = step[p]]
  <2>1. UNCHANGED saved /\ step[p] \in Address
    BY <1>1, <1>4, <1>7
  <2>2. Stacks!Call(p)
    BY <1>7, <2>1 DEF Stacks!Call, saved
  <2> QED
    BY <2>2 DEF Stacks!Next
<1>8. CASE /\ SavesCalls(p)
           /\ calling_tree' = Append(calling_tree, [owner |-> p, addr |-> process_call_address[p]])
           /\ UNCHANGED process_call_address
  <2>1. [owner |-> p, addr |-> process_call_address[p]] \in Entry
    BY <1>1 DEF Entry
  <2>2. Addresses(calling_tree') = Append(Addresses(calling_tree), process_call_address[p])
    BY <1>1, <1>8, <2>1, AddressesAppend
  <2>3. saved' = [saved EXCEPT ![p] = Append(saved[p], process_call_address[p])]
    BY <1>4, <1>5, <1>8, <2>2
  <2>4. Stacks!Save(p)
    BY <1>8, <2>3 DEF Stacks!Save, saved
  <2> QED
    BY <2>4 DEF Stacks!Next
<1>9. CASE /\ SavesCalls(p) /\ calling_tree # <<>>
           /\ calling_tree' = Front(calling_tree)
           /\ process_call_address' = [process_call_address EXCEPT ![p] = Last(calling_tree).addr]
  <2>1. /\ Addresses(calling_tree) # <<>>
        /\ Last(Addresses(calling_tree)) = Last(calling_tree).addr
        /\ Addresses(calling_tree') = Front(Addresses(calling_tree))
    BY <1>1, <1>9, AddressesFront
  <2>2. saved' = [saved EXCEPT ![p] = Front(saved[p])]
    BY <1>4, <1>5, <1>9, <2>1
  <2>3. saved[p] # <<>> /\ process_call_address' = [process_call_address EXCEPT ![p] = Last(saved[p])]
    BY <1>5, <1>9, <2>1
  <2>4. Stacks!Restore(p)
    BY <2>2, <2>3 DEF Stacks!Restore, Stacks!Last, Stacks!Front, Last, Front, saved
  <2> QED
    BY <2>4 DEF Stacks!Next
<1> QED
  BY <1>2, <1>6, <1>7, <1>8, <1>9 DEF Moves

(* "Saves actual saved caller address into private stack"                  *)
(* (process_symbols.cpp:181) holds of any programs of which one saves      *)
(* calls, however the steps of the others fall between.                    *)
THEOREM CallsStayPrivate == SoleCaller /\ Spec => PrivateStacks
<1>1. SoleCaller /\ Init => AloneInv
  BY InitTypes DEF Init, AloneInv, OwnersSave
<1>2. AloneInv /\ [Next]_vars => AloneInv'
  BY AloneInvStays
<1>3. Init => Stacks!Init
  <2> SUFFICES ASSUME Init PROVE Stacks!Init
    OBVIOUS
  <2>1. \A p \in Proc : SavedBy(p) = <<>>
    BY InitTypes, SavedByOwner DEF Init
  <2> QED
    BY <2>1 DEF Init, Stacks!Init
<1>4. AloneInv /\ OwnParts /\ OwnParts' /\ [Next]_vars => [Stacks!Next]_(Stacks!stackVars)
  BY StepImplements
<1> QED
  BY <1>1, <1>2, <1>3, <1>4, OnlyOwner, PTL DEF Spec, PrivateStacks, Stacks!Spec

-----------------------------------------------------------------------------
(***************************************************************************)
(* Calls return to where they were made and the addresses they save stay   *)
(* private, for any programs of the shape the compilers give them, any     *)
(* number of processes and either scheduling.  Nothing in the machine ties *)
(* a ret to its call: it goes to one address per process, which svcall and *)
(* rscall keep in a vector that all processes share.                       *)
(***************************************************************************)
(* The action a step counter s stands at. *)
OpAt(p, s) == IF s < Len(actions[p]) THEN actions[p][s + 1].op ELSE "none"

(* An action that is reached from elsewhere than from the one before it. *)
Enterable(p, s) == OpAt(p, s) \notin {"call", "rscall"}

Jumps == {"jmp", "je", "jne", "jl", "jg", "jle", "jge"}

(* A call as SVASM compiles it (SVASM/Assembler/compiler.cpp:1339-1349) is *)
(* the three actions svcall, call and rscall, and a label is the beginning *)
(* of a line, never a place inside of these.                               *)
Nested(p) ==
  /\ Enterable(p, 0)
  /\ \A s \in 0..(Len(actions[p]) - 1) :
       /\ OpAt(p, s + 1) = "call" <=> OpAt(p, s) = "svcall"
       /\ OpAt(p, s + 1) = "rscall" <=> OpAt(p, s) = "call"
       /\ OpAt(p, s) \in {"call", "lcall"}
            => Enterable(p, (actions[p][s + 1].arg + 1) % Modulus)
       /\ OpAt(p, s) \in Jumps
            => Enterable(p, (s + actions[p][s + 1].arg + 1) % Modulus)

WellFormed == \A p \in Proc : Nested(p) \/ ~SavesCalls(p)

(* A program returns from calls only ("should only be used with p_call",   *)
(* process_symbols.cpp:176), and one that does not save its calls makes    *)
(* none inside another.                                                    *)
Balanced ==
  \A p \in Proc : ~Ended(p) =>
    /\ OpAt(p, step[p]) = "ret" => callers[p] # <<>>
    /\ OpAt(p, step[p]) = "call" /\ ~SavesCalls(p) => callers[p] = <<>>

-----------------------------------------------------------------------------
(* The invariant.                                                          *)

(* The j-th address of a sequence of calls; before the first there is 0.   *)
Caller(cs, j) == IF j = 0 THEN 0 ELSE cs[j]

(* The newest d entries of a vector are what process p saved at its calls  *)
(* cs, each call saving the one before it.                                 *)
Frame(p, cs, j) == [owner |-> p, addr |-> Caller(cs, j - 1)]

Saved(p, tree, cs, d) ==
  /\ d <= Len(tree)
  /\ \A j \in 1..d : tree[Len(tree) - d + j] = Frame(p, cs, j)

(* Between svcall and call, and between ret and rscall, one more is saved  *)
(* than there are calls.                                                   *)
Depth(p) == Len(callers[p]) + (IF Enterable(p, step[p]) THEN 0 ELSE 1)

FromCalls(p) == \A j \in 1..Len(callers[p]) : OpAt(p, callers[p][j]) = "call"

NestedFrames(p) ==
  /\ Saved(p, calling_tree, callers[p], Depth(p))
  /\ OpAt(p, step[p]) # "rscall"
       => process_call_address[p] = Caller(callers[p], Len(callers[p]))
  /\ FromCalls(p)

PlainFrame(p) ==
  callers[p] = <<>> \/ (Len(callers[p]) = 1 /\ process_call_address[p] = callers[p][1])

(* One after the other: those behind the index have not begun, and those   *)
(* before it may have left entries in the vector.                          *)
Unstarted(p) == step[p] = 0 /\ callers[p] = <<>> /\ process_call_address[p] = 0

InTurn ==
  ~threading => /\ processes = [p \in Proc |-> p]
                /\ \A p \in Proc : p > i + 1 => Unstarted(p)

Current(p) == threading \/ p > i

CallInv ==
  /\ TypeOK /\ WellFormed /\ InTurn
  /\ threading => SoleCaller
  /\ \A p \in Proc : Nested(p) /\ Current(p) => NestedFrames(p)
  /\ \A p \in Proc : ~SavesCalls(p) => PlainFrame(p)

-----------------------------------------------------------------------------
(* What an entry or a call added or taken makes of the saved calls.        *)
LEMMA SavedAppend ==
  ASSUME NEW p, NEW tree \in Seq(Entry), NEW cs \in Seq(Address), NEW e \in Entry,
         Saved(p, tree, cs, Len(cs)), e = Frame(p, cs, Len(cs) + 1)
  PROVE  Saved(p, Append(tree, e), cs, Len(cs) + 1)
<1> DEFINE L == Len(tree)  n == Len(cs)
<1>1. /\ L \in Nat /\ n \in Nat /\ n <= L
      /\ \A j \in 1..n : tree[L - n + j] = Frame(p, cs, j)
  BY LenProperties DEF Saved
<1>2. PICK longer \in Seq(Entry) : longer = Append(tree, e)
  BY AppendProperties
<1>3. /\ Len(longer) = L + 1 /\ longer[L + 1] = e
      /\ \A k \in 1..L : longer[k] = tree[k]
  BY <1>2, AppendProperties
<1>4. ASSUME NEW j \in 1..(n + 1)
      PROVE  longer[(L + 1) - (n + 1) + j] = Frame(p, cs, j)
  <2>1. (L + 1) - (n + 1) + j = L - n + j
    BY <1>1
  <2>2. CASE j = n + 1
    <3>1. L - n + j = L + 1
      BY <1>1, <2>2
    <3> QED
      BY <1>3, <2>1, <3>1
  <2>3. CASE j \in 1..n
    <3>1. L - n + j \in 1..L
      BY <1>1, <2>3
    <3> QED
      BY <1>1, <1>3, <2>1, <2>3, <3>1
  <2> QED
    BY <1>1, <2>2, <2>3
<1>5. n + 1 <= L + 1
  BY <1>1
<1>6. Saved(p, longer, cs, n + 1)
  BY <1>3, <1>4, <1>5 DEF Saved
<1> QED
  BY <1>2, <1>6

LEMMA SavedCall ==
  ASSUME NEW p, NEW tree \in Seq(Entry), NEW cs \in Seq(Address), NEW a \in Address,
         Saved(p, tree, cs, Len(cs) + 1)
  PROVE  Saved(p, tree, Append(cs, a), Len(cs) + 1)
<1>1. Len(cs) \in Nat /\ \A j \in 1..Len(cs) : Append(cs, a)[j] = cs[j]
  BY LenProperties, AppendProperties
<1>2. \A j \in 1..(Len(cs) + 1) : Frame(p, Append(cs, a), j) = Frame(p, cs, j)
  BY <1>1 DEF Caller, Frame
<1> QED
  BY <1>2 DEF Saved

LEMMA SavedReturn ==
  ASSUME NEW p, NEW tree \in Seq(Entry), NEW cs \in Seq(Address), cs # <<>>,
         Saved(p, tree, cs, Len(cs))
  PROVE  Saved(p, tree, Front(cs), Len(cs))
<1>1. Len(cs) \in Nat /\ \A j \in 1..(Len(cs) - 1) : Front(cs)[j] = cs[j]
  BY LenProperties, FrontFacts
<1>2. \A j \in 1..Len(cs) : Frame(p, Front(cs), j) = Frame(p, cs, j)
  BY <1>1 DEF Caller, Frame
<1> QED
  BY <1>2 DEF Saved

LEMMA SavedRestore ==
  ASSUME NEW p, NEW tree \in Seq(Entry), NEW cs \in Seq(Address),
         Saved(p, tree, cs, Len(cs) + 1)
  PROVE  /\ tree # <<>> /\ Last(tree) = Frame(p, cs, Len(cs) + 1)
         /\ Saved(p, Front(tree), cs, Len(cs))
<1> DEFINE L == Len(tree)  n == Len(cs)
<1>1. /\ L \in Nat /\ n \in Nat /\ n + 1 <= L
      /\ \A j \in 1..(n + 1) : tree[L - (n + 1) + j] = Frame(p, cs, j)
  BY LenProperties DEF Saved
<1>2. tree # <<>>
  BY <1>1, EmptySeq
<1>3. Last(tree) = Frame(p, cs, n + 1)
  <2>1. n + 1 \in 1..(n + 1) /\ L - (n + 1) + (n + 1) = L
    BY <1>1
  <2> QED
    BY <1>1, <2>1 DEF Last
<1>4. Len(Front(tree)) = L - 1 /\ \A k \in 1..(L - 1) : Front(tree)[k] = tree[k]
  BY <1>2, FrontFacts
<1>5. ASSUME NEW j \in 1..n
      PROVE  Front(tree)[(L - 1) - n + j] = Frame(p, cs, j)
  <2>1. (L - 1) - n + j = L - (n + 1) + j /\ L - (n + 1) + j \in 1..(L - 1) /\ j \in 1..(n + 1)
    BY <1>1
  <2> QED
    BY <1>1, <1>4, <2>1
<1>6. n <= L - 1
  BY <1>1
<1> QED
  BY <1>2, <1>3, <1>4, <1>5, <1>6 DEF Saved

-----------------------------------------------------------------------------
(* One instruction.                                                        *)

LEMMA SmallMod == ASSUME NEW m \in Nat, NEW x \in Nat, x < m PROVE x % m = x
OBVIOUS

(* Where an instruction of a process that has not ended stands, and where  *)
(* the next one is when it falls through.                                  *)
LEMMA Standing ==
  ASSUME TypeOK, NEW p \in Proc, ~Ended(p)
  PROVE  /\ step[p] \in Nat /\ step[p] \in Address /\ step[p] \in 0..(Len(actions[p]) - 1)
         /\ Len(actions[p]) \in Nat
         /\ actions[p][step[p] + 1] \in Instruction
         /\ OpAt(p, step[p]) = actions[p][step[p] + 1].op
         /\ (step[p] + 1) % Modulus = step[p] + 1
<1>1. actions[p] \in Seq(Instruction) /\ Len(actions[p]) < Modulus /\ Modulus \in Nat \ {0}
  BY EngineAssumption DEF TypeOK, Instruction
<1>2. step[p] \in Nat /\ step[p] \in Address /\ step[p] < Len(actions[p]) /\ Len(actions[p]) \in Nat
  BY <1>1, LenProperties DEF TypeOK, Ended, Address
<1>3. step[p] \in 0..(Len(actions[p]) - 1) /\ (step[p] + 1) % Modulus = step[p] + 1
  <2>1. step[p] + 1 \in Nat /\ step[p] + 1 < Modulus
    BY <1>1, <1>2
  <2> QED
    BY <1>1, <1>2, <2>1, SmallMod
<1>4. actions[p][step[p] + 1] \in Instruction
  BY InstructionType
<1>5. OpAt(p, step[p]) = actions[p][step[p] + 1].op
  BY <1>2 DEF OpAt
<1> QED
  BY <1>2, <1>3, <1>4, <1>5

(* An instruction between calls goes on to a place that can be entered.    *)
LEMMA OthersEnter ==
  ASSUME TypeOK, NEW p \in Proc, ~Ended(p), Nested(p),
         NEW in \in Instruction, in = actions[p][step[p] + 1], execute(p, in),
         in.op \notin {"svcall", "call", "ret", "rscall"}
  PROVE  /\ UNCHANGED <<calling_tree, process_call_address, callers>>
         /\ Enterable(p, step'[p])
<1>1. UNCHANGED <<calling_tree, process_call_address, callers>>
  BY DEF execute, other, p_jmp, Compare, JumpIf, p_hlt, p_lcall
<1>2. \/ step'[p] = (step[p] + 1) % Modulus
      \/ in.op \in Jumps /\ step'[p] = (step[p] + in.arg + 1) % Modulus
      \/ in.op = "lcall" /\ step'[p] = (in.arg + 1) % Modulus
  BY DEF execute, other, p_jmp, Compare, JumpIf, p_hlt, p_lcall, NextStep, TakenOn, Jumps, TypeOK
<1> QED
  BY <1>1, <1>2, Standing DEF Nested, Enterable

(* The invariant of a process at its next step, in the state before it.    *)
LEMMA FramesNext ==
  ASSUME UNCHANGED actions, NEW p \in Proc, NEW d,
         d = Len(callers'[p]) + (IF Enterable(p, step'[p]) THEN 0 ELSE 1),
         Saved(p, calling_tree', callers'[p], d),
         OpAt(p, step'[p]) # "rscall"
           => process_call_address'[p] = Caller(callers'[p], Len(callers'[p])),
         \A j \in 1..Len(callers'[p]) : OpAt(p, callers'[p][j]) = "call"
  PROVE  NestedFrames(p)'
<1>1. Depth(p)' = d
  BY DEF Depth, Enterable, OpAt
<1> QED
  BY <1>1 DEF NestedFrames, Saved, Frame, Caller, FromCalls, OpAt

LEMMA NestedStep ==
  ASSUME TypeOK, NEW p \in Proc, ~Ended(p), Nested(p), NestedFrames(p), Balanced,
         UNCHANGED actions, execute(p, actions[p][step[p] + 1])
  PROVE  NestedFrames(p)'
<1> DEFINE s == step[p]  cs == callers[p]  tree == calling_tree
<1>1. /\ s \in Nat /\ s \in Address /\ s \in 0..(Len(actions[p]) - 1)
      /\ (s + 1) % Modulus = s + 1
  BY Standing
<1>2. PICK in \in Instruction : in = actions[p][s + 1] /\ OpAt(p, s) = in.op /\ execute(p, in)
  BY Standing
<1>3. /\ tree \in Seq(Entry) /\ cs \in Seq(Address) /\ Len(cs) \in Nat
      /\ process_call_address \in [Proc -> Address] /\ callers \in [Proc -> Seq(Address)]
      /\ step \in [Proc -> Address]
  BY LenProperties DEF TypeOK, Entry
<1>4. /\ Saved(p, tree, cs, Depth(p))
      /\ in.op # "rscall" => process_call_address[p] = Caller(cs, Len(cs))
      /\ \A j \in 1..Len(cs) : OpAt(p, cs[j]) = "call"
  BY <1>2 DEF NestedFrames, FromCalls
<1>5. /\ in.op \in {"call", "rscall"} => Depth(p) = Len(cs) + 1
      /\ in.op \notin {"call", "rscall"} => Depth(p) = Len(cs)
  BY <1>2, <1>3 DEF Depth, Enterable
<1>6. /\ in.op = "svcall" <=> OpAt(p, s + 1) = "call"
      /\ in.op = "call" <=> OpAt(p, s + 1) = "rscall"
      /\ in.op = "call" => Enterable(p, (in.arg + 1) % Modulus)
  BY <1>1, <1>2 DEF Nested
<1>7. CASE in.op \notin {"svcall", "call", "ret", "rscall"}
  <2>1. /\ UNCHANGED <<calling_tree, process_call_address, callers>>
        /\ Enterable(p, step'[p])
    BY <1>2, <1>7, OthersEnter
  <2>2. OpAt(p, step'[p]) # "rscall"
    BY <2>1 DEF Enterable
  <2>3. Saved(p, calling_tree', callers'[p], Len(cs)) /\ Len(cs) = Len(callers'[p]) + 0
    BY <1>3, <1>4, <1>5, <1>7, <2>1
  <2> QED
    BY <1>4, <1>7, <2>1, <2>2, <2>3, FramesNext
<1>8. CASE in.op = "svcall"
  <2>1. /\ calling_tree' = Append(tree, [owner |-> p, addr |-> process_call_address[p]])
        /\ step'[p] = s + 1 /\ UNCHANGED <<process_call_address, callers>>
    BY <1>1, <1>2, <1>3, <1>8 DEF execute, p_svcall, NextStep, TakenOn
  <2>2. OpAt(p, step'[p]) = "call" /\ ~Enterable(p, step'[p])
    BY <1>6, <1>8, <2>1 DEF Enterable
  <2>3. Saved(p, calling_tree', callers'[p], Len(cs) + 1)
    <3>1. Saved(p, tree, cs, Len(cs)) /\ process_call_address[p] = Caller(cs, Len(cs))
      BY <1>4, <1>5, <1>8
    <3>2. Frame(p, cs, Len(cs) + 1) = [owner |-> p, addr |-> process_call_address[p]]
      BY <1>3, <3>1 DEF Frame
    <3>3. Frame(p, cs, Len(cs) + 1) \in Entry
      BY <1>3, <3>2 DEF Entry
    <3> QED
      BY <1>3, <2>1, <3>1, <3>2, <3>3, SavedAppend
  <2> QED
    BY <1>4, <1>8, <2>1, <2>2, <2>3, FramesNext
<1>9. CASE in.op = "call"
  <2>1. /\ UNCHANGED calling_tree /\ step'[p] = (in.arg + 1) % Modulus
        /\ process_call_address'[p] = s /\ callers'[p] = Append(cs, s)
    BY <1>2, <1>3, <1>9 DEF execute, p_call, NextStep, TakenOn
  <2>2. Enterable(p, step'[p])
    BY <1>6, <1>9, <2>1
  <2>3. /\ Len(callers'[p]) = Len(cs) + 1 /\ callers'[p][Len(cs) + 1] = s
        /\ \A j \in 1..Len(cs) : callers'[p][j] = cs[j]
    BY <1>1, <1>3, <2>1, AppendProperties
  <2>4. Saved(p, calling_tree', callers'[p], Len(cs) + 1)
    BY <1>1, <1>3, <1>4, <1>5, <1>9, <2>1, SavedCall
  <2>5. \A j \in 1..Len(callers'[p]) : OpAt(p, callers'[p][j]) = "call"
    <3>1. \A j \in 1..(Len(cs) + 1) : j \in 1..Len(cs) \/ j = Len(cs) + 1
      BY <1>3
    <3> QED
      BY <1>2, <1>4, <1>9, <2>3, <3>1
  <2>6. process_call_address'[p] = Caller(callers'[p], Len(callers'[p]))
    BY <1>3, <2>1, <2>3 DEF Caller
  <2>7. Len(cs) + 1 = Len(callers'[p]) + 0
    BY <1>3, <2>3
  <2> QED
    BY <2>2, <2>4, <2>5, <2>6, <2>7, FramesNext
<1>10. CASE in.op = "ret"
  <2>1. cs # <<>>
    BY <1>2, <1>10 DEF Balanced
  <2>2. /\ UNCHANGED calling_tree /\ step'[p] = (process_call_address[p] + 1) % Modulus
        /\ UNCHANGED process_call_address /\ callers'[p] = Front(cs)
    BY <1>2, <1>3, <1>10, <2>1 DEF execute, p_ret, NextStep, TakenOn
  <2>3. /\ Len(callers'[p]) = Len(cs) - 1
        /\ \A j \in 1..(Len(cs) - 1) : callers'[p][j] = cs[j]
    BY <1>3, <2>1, <2>2, FrontFacts
  <2>4. process_call_address[p] = cs[Len(cs)] /\ Len(cs) \in 1..Len(cs)
    BY <1>3, <1>4, <1>10, <2>1, EmptySeq DEF Caller
  <2>5. OpAt(p, step'[p]) = "rscall"
    <3>1. PICK c \in Address : c = cs[Len(cs)] /\ OpAt(p, c) = "call"
      BY <1>3, <1>4, <2>4, ElementOfSeq
    <3>2. c \in 0..(Len(actions[p]) - 1) /\ c \in Nat /\ c + 1 < Modulus /\ Modulus \in Nat
      <4>1. c \in Nat /\ Modulus \in Nat \ {0} /\ Len(actions[p]) \in Nat /\ Len(actions[p]) < Modulus
        BY EngineAssumption, Standing DEF Address, TypeOK
      <4>2. c < Len(actions[p])
        BY <3>1 DEF OpAt
      <4> QED
        BY <4>1, <4>2
    <3>3. OpAt(p, c + 1) = "rscall"
      BY <3>1, <3>2 DEF Nested
    <3>4. (c + 1) % Modulus = c + 1
      BY <3>2, SmallMod
    <3> QED
      BY <2>2, <2>4, <3>1, <3>3, <3>4
  <2>6. Saved(p, calling_tree', callers'[p], Len(cs))
    BY <1>3, <1>4, <1>5, <1>10, <2>1, <2>2, SavedReturn
  <2>7. Len(cs) = Len(callers'[p]) + 1 /\ ~Enterable(p, step'[p])
    BY <1>3, <2>3, <2>5 DEF Enterable
  <2>8. \A j \in 1..Len(callers'[p]) : OpAt(p, callers'[p][j]) = "call"
    BY <1>3, <1>4, <2>3
  <2> QED
    BY <2>5, <2>6, <2>7, <2>8, FramesNext
<1>11. CASE in.op = "rscall"
  <2>1. Saved(p, tree, cs, Len(cs) + 1)
    BY <1>4, <1>5, <1>11
  <2>2. /\ tree # <<>> /\ Last(tree) = Frame(p, cs, Len(cs) + 1)
        /\ Saved(p, Front(tree), cs, Len(cs))
    BY <1>3, <2>1, SavedRestore
  <2>3. /\ calling_tree' = Front(tree) /\ process_call_address'[p] = Last(tree).addr
        /\ step'[p] = s + 1 /\ UNCHANGED callers
    BY <1>1, <1>2, <1>3, <1>11, <2>2 DEF execute, p_rscall, NextStep, TakenOn
  <2>4. Enterable(p, step'[p])
    BY <1>6, <1>11, <2>3 DEF Enterable
  <2>5. Len(cs) = Len(callers'[p]) + 0
    BY <1>3, <2>3
  <2> QED
    BY <1>3, <1>4, <2>2, <2>3, <2>4, <2>5, FramesNext DEF Frame
<1> QED
  BY <1>7, <1>8, <1>9, <1>10, <1>11

LEMMA PlainStep ==
  ASSUME TypeOK, NEW p \in Proc, ~Ended(p), ~SavesCalls(p), PlainFrame(p), Balanced,
         execute(p, actions[p][step[p] + 1])
  PROVE  PlainFrame(p)'
<1> DEFINE s == step[p]  cs == callers[p]
<1>1. s \in 0..(Len(actions[p]) - 1) /\ s \in Address
  BY Standing
<1>2. PICK in \in Instruction : in = actions[p][s + 1] /\ OpAt(p, s) = in.op /\ execute(p, in)
  BY Standing
<1>3. in.op \notin {"svcall", "rscall"}
  <2>1. s + 1 \in 1..Len(actions[p])
    BY <1>1, Standing
  <2> QED
    BY <1>2, <2>1 DEF SavesCalls
<1>4. /\ cs \in Seq(Address) /\ Len(cs) \in Nat /\ callers \in [Proc -> Seq(Address)]
      /\ process_call_address \in [Proc -> Address]
  BY LenProperties DEF TypeOK
<1>5. CASE in.op = "call"
  <2>1. cs = <<>>
    BY <1>2, <1>5 DEF Balanced
  <2>2. process_call_address'[p] = s /\ callers'[p] = Append(cs, s)
    BY <1>2, <1>4, <1>5 DEF execute, p_call, TakenOn
  <2> QED
    BY <1>1, <1>4, <2>1, <2>2, AppendProperties DEF PlainFrame
<1>6. CASE in.op = "ret"
  <2>1. cs # <<>> /\ Len(cs) = 1
    BY <1>2, <1>6 DEF Balanced, PlainFrame
  <2>2. callers'[p] = Front(cs)
    BY <1>2, <1>4, <1>6, <2>1 DEF execute, p_ret, TakenOn
  <2>3. callers'[p] \in Seq(Address) /\ Len(callers'[p]) = 0
    BY <1>4, <2>1, <2>2, FrontFacts
  <2> QED
    BY <2>3, EmptySeq DEF PlainFrame
<1>7. CASE in.op \notin {"svcall", "call", "ret", "rscall"}
  BY <1>2, <1>7 DEF execute, other, p_jmp, Compare, JumpIf, p_hlt, p_lcall, PlainFrame
<1> QED
  BY <1>3, <1>5, <1>6, <1>7

(* An instruction touches no other process, and the vector only when its   *)
(* own saves calls.                                                        *)
LEMMA ExecuteAside ==
  ASSUME TypeOK, NEW p \in Proc, ~Ended(p), execute(p, actions[p][step[p] + 1])
  PROVE  /\ \A q \in Proc \ {p} : /\ step'[q] = step[q] /\ callers'[q] = callers[q]
                                 /\ process_call_address'[q] = process_call_address[q]
         /\ SavesCalls(p) \/ UNCHANGED calling_tree
<1>1. PICK in \in Instruction : in = actions[p][step[p] + 1] /\ execute(p, in)
  BY Standing
<1>2. \A q \in Proc \ {p} : /\ step'[q] = step[q] /\ callers'[q] = callers[q]
                           /\ process_call_address'[q] = process_call_address[q]
  BY <1>1 DEF execute, TypeOK, NextStep, other, p_jmp, Compare, JumpIf, p_hlt, p_call,
     p_lcall, p_ret, p_svcall, p_rscall
<1>3. in.op \in {"svcall", "rscall"} => SavesCalls(p)
  <2>1. step[p] + 1 \in 1..Len(actions[p])
    BY Standing
  <2> QED
    BY <1>1, <2>1 DEF SavesCalls
<1>4. in.op \notin {"svcall", "rscall"} => UNCHANGED calling_tree
  BY <1>1 DEF execute, other, p_jmp, Compare, JumpIf, p_hlt, p_call, p_lcall, p_ret
<1> QED
  BY <1>2, <1>3, <1>4

(* A nested program without svcall and rscall makes no call: its frames    *)
(* ask nothing of the vector.                                              *)
LEMMA NoCallsNoFrames ==
  ASSUME TypeOK, NEW p \in Proc, Nested(p), ~SavesCalls(p), FromCalls(p)
  PROVE  callers[p] = <<>> /\ \A s \in Nat : Enterable(p, s)
<1>1. actions[p] \in Seq(Instruction) /\ Len(actions[p]) \in Nat
  BY EngineAssumption, LenProperties DEF TypeOK, Instruction
<1>2. \A s \in Nat : OpAt(p, s) \notin {"svcall", "rscall"}
  <2> SUFFICES ASSUME NEW s \in Nat, s < Len(actions[p])
               PROVE  actions[p][s + 1].op \notin {"svcall", "rscall"}
    BY DEF OpAt
  <2>1. s + 1 \in 1..Len(actions[p])
    BY <1>1
  <2> QED
    BY <2>1 DEF SavesCalls
<1>3. \A s \in Nat : OpAt(p, s) # "call"
  <2> SUFFICES ASSUME NEW s \in Nat, OpAt(p, s) = "call" PROVE FALSE
    OBVIOUS
  <2>1. s \in 0..(Len(actions[p]) - 1)
    BY <1>1 DEF OpAt
  <2>2. OpAt(p, s + 1) = "rscall" /\ s + 1 \in Nat
    BY <2>1 DEF Nested
  <2> QED
    BY <1>2, <2>2
<1>4. callers[p] = <<>>
  <2> SUFFICES ASSUME callers[p] # <<>> PROVE FALSE
    OBVIOUS
  <2>1. callers[p] \in Seq(Address) /\ Len(callers[p]) \in Nat \ {0}
    BY EmptySeq, LenProperties DEF TypeOK
  <2>2. callers[p][1] \in Nat /\ OpAt(p, callers[p][1]) = "call"
    BY <2>1, ElementOfSeq, EngineAssumption DEF FromCalls, Address
  <2> QED
    BY <1>3, <2>2
<1> QED
  BY <1>2, <1>3, <1>4 DEF Enterable

(* A step of another process leaves the frames of this one, if it leaves   *)
(* the vector or this one does not use it.                                 *)
LEMMA FramesAside ==
  ASSUME TypeOK, TypeOK', UNCHANGED actions, NEW p \in Proc, Nested(p), NestedFrames(p),
         step'[p] = step[p], callers'[p] = callers[p],
         process_call_address'[p] = process_call_address[p],
         Depth(p) = 0 \/ UNCHANGED calling_tree
  PROVE  NestedFrames(p)'
<1>1. /\ Saved(p, calling_tree, callers[p], Depth(p))
      /\ OpAt(p, step[p]) # "rscall"
           => process_call_address[p] = Caller(callers[p], Len(callers[p]))
      /\ \A j \in 1..Len(callers[p]) : OpAt(p, callers[p][j]) = "call"
  BY DEF NestedFrames, FromCalls
<1>2. Len(calling_tree') \in Nat
  BY LenProperties DEF TypeOK
<1>3. Saved(p, calling_tree', callers'[p], Depth(p))
  BY <1>1, <1>2 DEF Saved
<1>4. Depth(p) = Len(callers'[p]) + (IF Enterable(p, step'[p]) THEN 0 ELSE 1)
  BY DEF Depth
<1> QED
  BY <1>1, <1>3, <1>4, FramesNext

-----------------------------------------------------------------------------
(* The invariant holds.                                                    *)

LEMMA ShapeStays ==
  ASSUME UNCHANGED actions
  PROVE  /\ \A p \in Proc : (Nested(p)' <=> Nested(p)) /\ (SavesCalls(p)' <=> SavesCalls(p))
         /\ WellFormed => WellFormed'
         /\ SoleCaller => SoleCaller'
BY DEF Nested, Enterable, OpAt, SavesCalls, WellFormed, SoleCaller

LEMMA NextKeepsPrograms ==
  ASSUME [Next]_vars
  PROVE  UNCHANGED <<actions, threading>>
BY DEF Next, ThreadedTurn, RoundEnd, SequentialStep, SequentialEnd, vars

(* A process that has not begun uses nothing of the vector. *)
LEMMA UnstartedFrames ==
  ASSUME NEW p \in Proc, Nested(p), Unstarted(p)
  PROVE  Depth(p) = 0
BY EmptySeq DEF Nested, Unstarted, Depth

(* Between instructions nothing changes for the calls. *)
LEMMA RestStays ==
  ASSUME CallInv, TypeOK', UNCHANGED <<actions, threading, vmVars, callers>>,
         threading \/ (UNCHANGED processes /\ i' \in {i, i + 1})
  PROVE  CallInv'
<1>1. /\ TypeOK /\ WellFormed /\ InTurn
      /\ threading => SoleCaller
      /\ \A p \in Proc : Nested(p) /\ Current(p) => NestedFrames(p)
      /\ \A p \in Proc : ~SavesCalls(p) => PlainFrame(p)
  BY DEF CallInv
<1>2. i \in Nat /\ Proc \subseteq Nat
  BY <1>1, EngineAssumption DEF TypeOK, Proc
<1>3. InTurn'
  BY <1>1, <1>2 DEF InTurn, Unstarted, vmVars
<1>4. \A p \in Proc : Current(p)' => Current(p)
  BY <1>2 DEF Current
<1>5. \A p \in Proc : NestedFrames(p)' <=> NestedFrames(p)
  BY DEF NestedFrames, Saved, Frame, Caller, Depth, Enterable, OpAt, FromCalls, vmVars
<1>6. \A p \in Proc : PlainFrame(p)' <=> PlainFrame(p)
  BY DEF PlainFrame, vmVars
<1> QED
  BY <1>1, <1>3, <1>4, <1>5, <1>6, ShapeStays DEF CallInv

(* An instruction of the process whose turn it is keeps the invariant. *)
LEMMA TurnStays ==
  ASSUME CallInv, TypeOK', Balanced, NEW p \in Proc, ~Ended(p),
         execute(p, actions[p][step[p] + 1]), UNCHANGED <<actions, threading>>,
         threading \/ (p = i + 1 /\ UNCHANGED <<processes, i>>)
  PROVE  CallInv'
<1>1. /\ TypeOK /\ WellFormed /\ InTurn
      /\ threading => SoleCaller
      /\ \A q \in Proc : Nested(q) /\ Current(q) => NestedFrames(q)
      /\ \A q \in Proc : ~SavesCalls(q) => PlainFrame(q)
  BY DEF CallInv
<1>2. i \in Nat /\ Proc \subseteq Nat
  BY <1>1, EngineAssumption DEF TypeOK, Proc
<1>3. /\ \A q \in Proc \ {p} : /\ step'[q] = step[q] /\ callers'[q] = callers[q]
                             /\ process_call_address'[q] = process_call_address[q]
      /\ SavesCalls(p) \/ UNCHANGED calling_tree
  BY <1>1, ExecuteAside
<1>4. Current(p) /\ \A q \in Proc : Current(q)' <=> Current(q) \/ threading
  BY <1>2 DEF Current
<1>5. InTurn'
  BY <1>1, <1>2, <1>3 DEF InTurn, Unstarted
<1>6. ASSUME NEW q \in Proc, Nested(q), Current(q)
      PROVE  NestedFrames(q)'
  <2>1. CASE q = p
    BY <1>1, <1>6, <2>1, NestedStep
  <2>2. CASE q # p
    <3>1. NestedFrames(q) /\ FromCalls(q)
      BY <1>1, <1>6 DEF NestedFrames
    <3>2. CASE UNCHANGED calling_tree
      BY <1>1, <1>3, <1>6, <2>2, <3>1, <3>2, FramesAside
    <3>3. CASE threading /\ SavesCalls(p)
      <4>1. ~SavesCalls(q)
        BY <1>1, <2>2, <3>3 DEF SoleCaller
      <4>2. callers[q] = <<>> /\ Enterable(q, step[q])
        <5>1. step[q] \in Nat
          BY <1>1, EngineAssumption DEF TypeOK, Address
        <5> QED
          BY <1>1, <1>6, <3>1, <4>1, <5>1, NoCallsNoFrames
      <4>3. Depth(q) = 0
        BY <4>2, EmptySeq DEF Depth
      <4> QED
        BY <1>1, <1>3, <1>6, <2>2, <3>1, <4>3, FramesAside
    <3>4. CASE ~threading
      <4>1. q > i + 1
        BY <1>2, <1>6, <2>2, <3>4 DEF Current
      <4>2. Depth(q) = 0
        BY <1>1, <1>6, <3>4, <4>1, UnstartedFrames DEF InTurn
      <4> QED
        BY <1>1, <1>3, <1>6, <2>2, <3>1, <4>2, FramesAside
    <3> QED
      BY <1>3, <3>2, <3>3, <3>4
  <2> QED
    BY <2>1, <2>2
<1>7. ASSUME NEW q \in Proc, ~SavesCalls(q)
      PROVE  PlainFrame(q)'
  <2>1. CASE q = p
    BY <1>1, <1>7, <2>1, PlainStep
  <2>2. CASE q # p
    BY <1>1, <1>3, <1>7, <2>2 DEF PlainFrame
  <2> QED
    BY <2>1, <2>2
<1>8. \A q \in Proc : Current(q)' => Current(q)
  BY <1>2 DEF Current
<1> QED
  BY <1>1, <1>5, <1>6, <1>7, <1>8, ShapeStays DEF CallInv

LEMMA CallInvStays ==
  ASSUME CallInv, Balanced, [Next]_vars
  PROVE  CallInv'
<1>1. TypeOK /\ TypeOK' /\ MachineOK /\ LoopOK /\ InTurn
  BY NextTypes, TypeOKParts DEF CallInv
<1>2. UNCHANGED <<actions, threading>>
  BY NextKeepsPrograms
<1>3. CASE ThreadedTurn \/ SequentialStep
  <2>1. i + 1 \in 1..Len(processes)
    BY <1>1, <1>3 DEF ThreadedTurn, SequentialStep, LoopOK
  <2>2. PICK p \in Proc : p = processes[i + 1]
    BY <1>1, <2>1 DEF LoopOK
  <2>3. CASE Ended(p)
    <3>1. UNCHANGED <<vmVars, callers>> /\ (threading \/ (UNCHANGED processes /\ i' = i + 1))
      BY <1>3, <2>2, <2>3 DEF ThreadedTurn, SequentialStep
    <3> QED
      BY <1>1, <1>2, <3>1, RestStays
  <2>4. CASE ~Ended(p)
    <3>1. execute(p, actions[p][step[p] + 1]) /\ (threading \/ UNCHANGED <<processes, i>>)
      BY <1>3, <2>2, <2>4 DEF ThreadedTurn, SequentialStep, ExecuteStep
    <3>2. ~threading => p = i + 1
      <4>1. ~threading => i + 1 \in Proc
        BY <1>1, <2>1, EngineAssumption DEF LoopOK, Proc
      <4> QED
        BY <1>1, <2>2, <4>1 DEF InTurn
    <3> QED
      BY <1>1, <1>2, <2>4, <3>1, <3>2, TurnStays
  <2> QED
    BY <2>3, <2>4
<1>4. CASE RoundEnd \/ SequentialEnd \/ UNCHANGED vars
  <2>1. UNCHANGED <<vmVars, callers>> /\ (threading \/ (UNCHANGED processes /\ i' = i))
    BY <1>4 DEF RoundEnd, SequentialEnd, vars, loopVars, history
  <2> QED
    BY <1>1, <1>2, <2>1, RestStays
<1> QED
  BY <1>3, <1>4 DEF Next

LEMMA CallInvInit == SoleCallerInit /\ WellFormed => CallInv
<1> SUFFICES ASSUME SoleCallerInit, WellFormed PROVE CallInv
  OBVIOUS
<1>1. Init /\ TypeOK /\ (threading => SoleCaller)
  BY InitTypes DEF SoleCallerInit
<1>2. \A p \in Proc : Unstarted(p)
  BY <1>1 DEF Init, Unstarted
<1>3. InTurn
  BY <1>1, <1>2 DEF Init, InTurn
<1>4. ASSUME NEW p \in Proc, Nested(p)
      PROVE  NestedFrames(p)
  <2>1. Depth(p) = 0 /\ callers[p] = <<>> /\ process_call_address[p] = 0 /\ Len(callers[p]) = 0
    BY <1>2, <1>4, UnstartedFrames, EmptySeq DEF Unstarted
  <2>2. Saved(p, calling_tree, callers[p], 0)
    BY <1>1, LenProperties DEF Saved, TypeOK
  <2> QED
    BY <2>1, <2>2 DEF NestedFrames, Caller, FromCalls
<1>5. \A p \in Proc : PlainFrame(p)
  BY <1>2 DEF Unstarted, PlainFrame
<1> QED
  BY <1>1, <1>3, <1>4, <1>5 DEF CallInv

(* The address a ret goes to is the one of the newest call. *)
LEMMA RetGoesBack ==
  ASSUME CallInv, Balanced, [Next]_vars, NEW p \in Proc, step'[p] # step[p],
         actions[p][step[p] + 1].op = "ret", callers[p] # <<>>
  PROVE  step'[p] = (Last(callers[p]) + 1) % Modulus
<1>1. TypeOK /\ MachineOK /\ LoopOK
  BY TypeOKParts DEF CallInv
<1>2. ThreadedTurn \/ SequentialStep
  BY DEF Next, RoundEnd, SequentialEnd, vars, vmVars
<1>3. i + 1 \in 1..Len(processes)
  BY <1>1, <1>2 DEF ThreadedTurn, SequentialStep, LoopOK
<1>4. PICK q \in Proc : q = processes[i + 1]
  BY <1>1, <1>3 DEF LoopOK
<1>5. ~Ended(q) /\ execute(q, actions[q][step[q] + 1])
  BY <1>2, <1>4 DEF ThreadedTurn, SequentialStep, ExecuteStep, vmVars
<1>6. p = q
  BY <1>1, <1>5, ExecuteAside
<1>7. OpAt(p, step[p]) = "ret"
  BY <1>1, <1>5, <1>6, Standing
<1>8. step'[p] = (process_call_address[p] + 1) % Modulus
  <2>1. PICK in \in Instruction : in = actions[p][step[p] + 1] /\ execute(p, in) /\ in.op = "ret"
    BY <1>1, <1>5, <1>6, Standing
  <2> QED
    BY <1>1, <2>1 DEF execute, p_ret, NextStep, TakenOn, MachineOK
<1>9. callers[p] \in Seq(Address) /\ Len(callers[p]) \in Nat \ {0}
  BY <1>1, EmptySeq, LenProperties DEF TypeOK
<1>10. process_call_address[p] = callers[p][Len(callers[p])]
  <2>1. CASE SavesCalls(p)
    <3>1. Nested(p) /\ Current(p)
      <4>1. ~threading => q = i + 1
        BY <1>1, <1>3, <1>4, EngineAssumption DEF CallInv, InTurn, LoopOK, Proc
      <4>2. i \in Nat
        BY <1>1, EngineAssumption DEF TypeOK
      <4> QED
        BY <1>6, <2>1, <4>1, <4>2 DEF CallInv, WellFormed, Current
    <3> QED
      BY <1>7, <1>9, <3>1 DEF CallInv, NestedFrames, Caller
  <2>2. CASE ~SavesCalls(p)
    BY <2>2, <1>9 DEF CallInv, PlainFrame
  <2> QED
    BY <2>1, <2>2
<1> QED
  BY <1>8, <1>10 DEF Last

(* A call comes back to the action after it (p_call, p_ret, p_svcall and   *)
(* p_rscall, process_symbols.cpp:156-193), however deep the calls the      *)
(* procedure makes, however the steps of other processes fall between and  *)
(* whatever processes that ran before left in the vector.                  *)
THEOREM CallsReturn == SoleCallerSpec /\ WellFormed /\ []Balanced => ReturnsToCaller
<1>1. CallInv /\ Balanced /\ [Next]_vars => CallInv'
  BY CallInvStays
<1>2. CallInv /\ Balanced /\ [Next]_vars
        => [ \A p \in Proc :
               /\ step'[p] # step[p]
               /\ actions[p][step[p] + 1].op = "ret"
               /\ callers[p] # <<>>
               => step'[p] = (Last(callers[p]) + 1) % Modulus ]_vars
  BY RetGoesBack
<1> QED
  BY <1>1, <1>2, CallInvInit, PTL DEF SoleCallerSpec, ReturnsToCaller

-----------------------------------------------------------------------------
(* The part of the vector that belongs to a process, when several have     *)
(* entries in it: it grows and shrinks with the vector's end.              *)
Of(tree, p) == {k \in 1..Len(tree) : tree[k].owner = p}

Rank(tree, p, k) == Cardinality({j \in Of(tree, p) : j <= k})

Part(tree, p) ==
  [n \in 1..Cardinality(Of(tree, p)) |->
     tree[CHOOSE k \in Of(tree, p) : Rank(tree, p, k) = n].addr]

(* The entries of p are numbered without a gap. *)
Ranked(tree, p) ==
  \A n \in 1..Cardinality(Of(tree, p)) : \E k \in Of(tree, p) : Rank(tree, p, k) = n

LEMMA OfFinite ==
  ASSUME NEW p, NEW tree \in Seq(Entry)
  PROVE  /\ Of(tree, p) \subseteq 1..Len(tree) /\ IsFiniteSet(Of(tree, p))
         /\ Cardinality(Of(tree, p)) \in Nat
<1>1. Len(tree) \in Nat
  BY LenProperties
<1>2. IsFiniteSet(1..Len(tree))
  BY <1>1, FS_Interval
<1>3. Of(tree, p) \in SUBSET (1..Len(tree))
  BY DEF Of
<1>4. IsFiniteSet(Of(tree, p))
  BY <1>2, <1>3, FS_Subset
<1> QED
  BY <1>3, <1>4, FS_CardinalityType

(* What one more entry e makes of the entries of p and of their numbers.   *)
Grown(p, tree, e, longer) ==
  /\ Cardinality(Of(tree, p)) \in Nat
  /\ Of(longer, p) = Of(tree, p) \cup (IF e.owner = p THEN {Len(tree) + 1} ELSE {})
  /\ Cardinality(Of(longer, p))
       = Cardinality(Of(tree, p)) + (IF e.owner = p THEN 1 ELSE 0)
  /\ \A k \in Of(tree, p) : Rank(longer, p, k) = Rank(tree, p, k)
  /\ e.owner = p => Rank(longer, p, Len(tree) + 1) = Cardinality(Of(tree, p)) + 1

LEMMA RankAppend ==
  ASSUME NEW p, NEW tree \in Seq(Entry), NEW e \in Entry,
         NEW longer \in Seq(Entry), longer = Append(tree, e)
  PROVE  Grown(p, tree, e, longer)
<1> DEFINE L == Len(tree)
<1>1. /\ L \in Nat /\ Len(longer) = L + 1 /\ longer[L + 1] = e
      /\ \A k \in 1..L : longer[k] = tree[k]
  BY LenProperties, AppendProperties
<1>2. IsFiniteSet(Of(tree, p)) /\ Of(tree, p) \subseteq 1..L
  BY OfFinite
<1>3. Cardinality(Of(tree, p)) \in Nat
  BY OfFinite
<1>4. Of(longer, p) = Of(tree, p) \cup (IF e.owner = p THEN {L + 1} ELSE {})
  BY <1>1 DEF Of
<1>5. L + 1 \notin Of(tree, p)
  BY <1>1, <1>2
<1>6. Cardinality(Of(longer, p)) = Cardinality(Of(tree, p)) + (IF e.owner = p THEN 1 ELSE 0)
  <2>1. CASE e.owner = p
    BY <1>2, <1>3, <1>4, <1>5, <2>1, FS_AddElement
  <2>2. CASE e.owner # p
    <3>1. Of(longer, p) = Of(tree, p)
      BY <1>4, <2>2
    <3> QED
      BY <1>3, <2>2, <3>1
  <2> QED
    BY <2>1, <2>2
<1>7. ASSUME NEW k \in Of(tree, p)
      PROVE  Rank(longer, p, k) = Rank(tree, p, k)
  <2>1. k \in 1..L
    BY <1>2
  <2>2. {j \in Of(longer, p) : j <= k} = {j \in Of(tree, p) : j <= k}
    BY <1>1, <1>2, <1>4, <2>1
  <2> QED
    BY <2>2 DEF Rank
<1>8. ASSUME e.owner = p
      PROVE  Rank(longer, p, L + 1) = Cardinality(Of(tree, p)) + 1
  <2>1. \A j \in Of(longer, p) : j <= L + 1
    BY <1>1 DEF Of
  <2>2. {j \in Of(longer, p) : j <= L + 1} = Of(longer, p)
    BY <2>1
  <2> QED
    BY <1>6, <1>8, <2>2 DEF Rank
<1> QED
  BY <1>3, <1>4, <1>6, <1>7, <1>8 DEF Grown

LEMMA RankedAppend ==
  ASSUME NEW p, NEW tree \in Seq(Entry), NEW e \in Entry
  PROVE  Ranked(Append(tree, e), p) <=> Ranked(tree, p)
<1> DEFINE C == Cardinality(Of(tree, p))
<1>1. PICK longer \in Seq(Entry) : longer = Append(tree, e)
  BY AppendProperties
<1>2. /\ C \in Nat
      /\ Of(longer, p) = Of(tree, p) \cup (IF e.owner = p THEN {Len(tree) + 1} ELSE {})
      /\ Cardinality(Of(longer, p)) = C + (IF e.owner = p THEN 1 ELSE 0)
      /\ \A k \in Of(tree, p) : Rank(longer, p, k) = Rank(tree, p, k)
      /\ e.owner = p => Rank(longer, p, Len(tree) + 1) = C + 1
  <2>1. Grown(p, tree, e, longer)
    BY <1>1, RankAppend
  <2> QED
    BY <2>1 DEF Grown
<1>3. ASSUME Ranked(tree, p), NEW n \in 1..Cardinality(Of(longer, p))
      PROVE  \E k \in Of(longer, p) : Rank(longer, p, k) = n
  <2>1. CASE n \in 1..C
    BY <1>2, <1>3, <2>1 DEF Ranked
  <2>2. CASE n \notin 1..C
    <3>1. e.owner = p /\ n = C + 1
      BY <1>2, <2>2
    <3> QED
      BY <1>2, <3>1
  <2> QED
    BY <2>1, <2>2
<1>4. ASSUME Ranked(longer, p), NEW n \in 1..C
      PROVE  \E k \in Of(tree, p) : Rank(tree, p, k) = n
  <2>1. n \in 1..Cardinality(Of(longer, p)) /\ n # C + 1
    BY <1>2
  <2>2. PICK k \in Of(longer, p) : Rank(longer, p, k) = n
    BY <1>4, <2>1 DEF Ranked
  <2>3. k \in Of(tree, p)
    BY <1>2, <2>1, <2>2
  <2> QED
    BY <1>2, <2>2, <2>3
<1> QED
  BY <1>1, <1>3, <1>4 DEF Ranked

LEMMA PartType ==
  ASSUME NEW p, NEW tree \in Seq(Entry), Ranked(tree, p)
  PROVE  /\ Part(tree, p) \in Seq(Address) /\ Len(Part(tree, p)) = Cardinality(Of(tree, p))
         /\ \A n \in 1..Cardinality(Of(tree, p)) :
              (CHOOSE k \in Of(tree, p) : Rank(tree, p, k) = n) \in Of(tree, p)
<1> DEFINE At(n) == CHOOSE k \in Of(tree, p) : Rank(tree, p, k) = n
           C == Cardinality(Of(tree, p))
<1>1. \A n \in 1..C : At(n) \in Of(tree, p)
  BY DEF Ranked
<1>2. \A n \in 1..C : tree[At(n)].addr \in Address
  <2>1. \A k \in Of(tree, p) : tree[k] \in Entry
    BY ElementOfSeq DEF Of
  <2>2. \A en \in Entry : en.addr \in Address
    BY DEF Entry
  <2> QED
    BY <1>1, <2>1, <2>2
<1>3. C \in Nat
  BY OfFinite
<1>4. Part(tree, p) = [n \in 1..C |-> tree[At(n)].addr]
  BY DEF Part
<1> HIDE DEF At, C
<1>5. Part(tree, p) \in Seq(Address) /\ Part(tree, p) \in [1..C -> Address]
  BY <1>2, <1>3, <1>4, IsASeq
<1>6. Len(Part(tree, p)) = C
  BY <1>3, <1>5, LenProperties
<1> QED
  BY <1>1, <1>5, <1>6 DEF At, C

(* An entry appended to the vector is appended to its owner's part alone.  *)
LEMMA PartAppend ==
  ASSUME NEW p, NEW tree \in Seq(Entry), NEW e \in Entry, Ranked(tree, p)
  PROVE  Part(Append(tree, e), p)
           = IF e.owner = p THEN Append(Part(tree, p), e.addr) ELSE Part(tree, p)
<1> DEFINE C == Cardinality(Of(tree, p))
           At(n) == CHOOSE k \in Of(tree, p) : Rank(tree, p, k) = n
<1>1. PICK longer \in Seq(Entry) : longer = Append(tree, e)
  BY AppendProperties
<1>2. /\ C \in Nat
      /\ Of(longer, p) = Of(tree, p) \cup (IF e.owner = p THEN {Len(tree) + 1} ELSE {})
      /\ Cardinality(Of(longer, p)) = C + (IF e.owner = p THEN 1 ELSE 0)
      /\ \A k \in Of(tree, p) : Rank(longer, p, k) = Rank(tree, p, k)
      /\ e.owner = p => Rank(longer, p, Len(tree) + 1) = C + 1
  <2>1. Grown(p, tree, e, longer)
    BY <1>1, RankAppend
  <2> QED
    BY <2>1 DEF Grown
<1>3. /\ longer \in Seq(Entry) /\ Len(tree) \in Nat /\ longer[Len(tree) + 1] = e
      /\ \A k \in 1..Len(tree) : longer[k] = tree[k]
  BY <1>1, LenProperties, AppendProperties
<1>4. Ranked(longer, p)
  BY <1>1, RankedAppend
<1> DEFINE AtL(n) == CHOOSE k \in Of(longer, p) : Rank(longer, p, k) = n
<1>5. ASSUME NEW n \in 1..C
      PROVE  Part(longer, p)[n] = Part(tree, p)[n]
  <2>1. n # C + 1 /\ n \in 1..Cardinality(Of(longer, p))
    BY <1>2
  <2>2. \A k : (k \in Of(longer, p) /\ Rank(longer, p, k) = n)
                 <=> (k \in Of(tree, p) /\ Rank(tree, p, k) = n)
    BY <1>2, <2>1
  <2>3. AtL(n) = At(n)
    BY <2>2
  <2>4. At(n) \in 1..Len(tree)
    <3>1. At(n) \in Of(tree, p)
      BY PartType
    <3> QED
      BY <3>1 DEF Of
  <2>5. Part(longer, p)[n] = longer[AtL(n)].addr /\ Part(tree, p)[n] = tree[At(n)].addr
    BY <2>1 DEF Part
  <2> HIDE DEF At, AtL
  <2> QED
    BY <1>3, <2>3, <2>4, <2>5
<1>6. ASSUME e.owner = p
      PROVE  Part(longer, p)[C + 1] = e.addr
  <2>1. C + 1 \in 1..Cardinality(Of(longer, p))
    BY <1>2, <1>6
  <2>2. \A k \in Of(longer, p) : Rank(longer, p, k) = C + 1 <=> k = Len(tree) + 1
    <3>1. \A k \in Of(tree, p) : Rank(tree, p, k) # C + 1
      <4>1. IsFiniteSet(Of(tree, p))
        BY OfFinite
      <4> SUFFICES ASSUME NEW k \in Of(tree, p) PROVE Rank(tree, p, k) # C + 1
        OBVIOUS
      <4>2. Rank(tree, p, k) <= C /\ Rank(tree, p, k) \in Nat
        <5>1. {j \in Of(tree, p) : j <= k} \in SUBSET Of(tree, p)
          OBVIOUS
        <5> QED
          BY <4>1, <5>1, FS_Subset, FS_CardinalityType DEF Rank
      <4> QED
        BY <1>2, <4>2
    <3> QED
      BY <1>2, <1>6, <3>1
  <2>3. Len(tree) + 1 \in Of(longer, p)
    BY <1>2, <1>6
  <2>4. AtL(C + 1) = Len(tree) + 1
    BY <2>2, <2>3
  <2>5. Part(longer, p)[C + 1] = longer[AtL(C + 1)].addr
    BY <2>1 DEF Part
  <2> HIDE DEF AtL
  <2> QED
    BY <1>3, <2>4, <2>5
<1>7. /\ Part(longer, p) \in Seq(Address) /\ Len(Part(longer, p)) = Cardinality(Of(longer, p))
      /\ Part(tree, p) \in Seq(Address) /\ Len(Part(tree, p)) = C
  BY <1>3, <1>4, PartType
<1> HIDE DEF C
<1>8. CASE e.owner = p
  <2>1. e.addr \in Address
    BY DEF Entry
  <2>2. PICK grown \in Seq(Address) : grown = Append(Part(tree, p), e.addr)
    BY <1>7, <2>1, AppendProperties
  <2>3. /\ Len(grown) = C + 1 /\ grown[C + 1] = e.addr
        /\ \A n \in 1..C : grown[n] = Part(tree, p)[n]
    BY <1>7, <2>1, <2>2, AppendProperties
  <2>4. Len(Part(longer, p)) = C + 1 /\ \A n \in 1..(C + 1) : Part(longer, p)[n] = grown[n]
    <3>1. Len(Part(longer, p)) = C + 1
      BY <1>2, <1>7, <1>8
    <3>2. \A n \in 1..(C + 1) : n \in 1..C \/ n = C + 1
      BY <1>2
    <3> QED
      BY <1>5, <1>6, <1>8, <2>3, <3>1, <3>2
  <2>5. Part(longer, p) = grown
    BY <1>7, <2>3, <2>4, SeqEqual
  <2> QED
    BY <1>1, <1>8, <2>2, <2>5
<1>9. CASE e.owner # p
  <2>1. Len(Part(longer, p)) = C
    BY <1>2, <1>7, <1>9
  <2>2. Part(longer, p) = Part(tree, p)
    BY <1>5, <1>7, <2>1, SeqEqual
  <2> QED
    BY <1>1, <1>9, <2>2
<1> QED
  BY <1>8, <1>9

(* An entry taken from the vector is taken from its owner's part alone.    *)
LEMMA PartFront ==
  ASSUME NEW p, NEW tree \in Seq(Entry), tree # <<>>, Ranked(tree, p)
  PROVE  /\ Ranked(Front(tree), p)
         /\ IF Last(tree).owner = p
              THEN /\ Part(tree, p) # <<>> /\ Last(Part(tree, p)) = Last(tree).addr
                   /\ Part(Front(tree), p) = Front(Part(tree, p))
              ELSE Part(Front(tree), p) = Part(tree, p)
<1>1. Len(tree) \in Nat \ {0}
  BY EmptySeq
<1>2. PICK f \in Seq(Entry) :
        /\ f = Front(tree) /\ Len(f) = Len(tree) - 1 /\ Len(f) \in Nat
        /\ \A k \in 1..(Len(tree) - 1) : f[k] = tree[k]
  BY FrontFacts
<1>3. PICK e \in Entry : e = Last(tree) /\ e = tree[Len(tree)]
  BY <1>1, ElementOfSeq DEF Last
<1>4. tree = Append(f, e)
  <2>1. PICK g \in Seq(Entry) : g = Append(f, e)
    BY AppendProperties
  <2>2. /\ Len(g) = Len(f) + 1 /\ g[Len(f) + 1] = e
        /\ \A k \in 1..Len(f) : g[k] = f[k]
    BY <2>1, AppendProperties
  <2>3. Len(g) = Len(tree) /\ \A k \in 1..Len(tree) : g[k] = tree[k]
    BY <1>1, <1>2, <1>3, <2>2
  <2> QED
    BY <2>1, <2>3, SeqEqual
<1>5. Ranked(f, p)
  BY <1>4, RankedAppend
<1>6. Part(tree, p) = IF e.owner = p THEN Append(Part(f, p), e.addr) ELSE Part(f, p)
  BY <1>4, <1>5, PartAppend
<1>7. CASE e.owner = p
  <2>1. Part(f, p) \in Seq(Address) /\ e.addr \in Address
    BY <1>5, PartType DEF Entry
  <2>2. PICK s \in Seq(Address) : s = Append(Part(f, p), e.addr)
    BY <2>1, AppendProperties
  <2>3. /\ Len(s) = Len(Part(f, p)) + 1 /\ s[Len(Part(f, p)) + 1] = e.addr
        /\ Len(Part(f, p)) \in Nat
        /\ \A n \in 1..Len(Part(f, p)) : s[n] = Part(f, p)[n]
    BY <2>1, <2>2, AppendProperties, LenProperties
  <2>4. s # <<>> /\ Last(s) = e.addr
    BY <2>3, EmptySeq DEF Last
  <2>5. /\ Front(s) \in Seq(Address) /\ Len(Front(s)) = Len(s) - 1
        /\ \A n \in 1..(Len(s) - 1) : Front(s)[n] = s[n]
    BY <2>4, FrontFacts
  <2>6. Len(s) - 1 = Len(Part(f, p))
    BY <2>3
  <2>7. Front(s) = Part(f, p)
    BY <2>1, <2>3, <2>5, <2>6, SeqEqual
  <2> QED
    BY <1>2, <1>3, <1>5, <1>6, <1>7, <2>2, <2>4, <2>7
<1>8. CASE e.owner # p
  BY <1>2, <1>3, <1>5, <1>6, <1>8
<1> QED
  BY <1>7, <1>8

-----------------------------------------------------------------------------
(* The vector as the private stacks of several callers.                    *)

LEMMA SavedByIsPart ==
  \A p \in Proc : SavedBy(p) = Part(calling_tree, p) /\ SavedBy(p)' = Part(calling_tree', p)
BY DEF SavedBy, EntriesOf, EntryOf, Part, Of, Rank

NumberedParts == \A p \in Proc : Ranked(calling_tree, p)

(* A step moves the vector for one process, and takes from it only what    *)
(* that process saved last.                                                *)
OwnMoves(p) ==
  \/ UNCHANGED <<calling_tree, process_call_address>>
  \/ /\ UNCHANGED calling_tree
     /\ process_call_address' = [process_call_address EXCEPT ![p] = step[p]]
  \/ /\ calling_tree' = Append(calling_tree, [owner |-> p, addr |-> process_call_address[p]])
     /\ UNCHANGED process_call_address
  \/ /\ calling_tree # <<>> /\ Last(calling_tree).owner = p
     /\ calling_tree' = Front(calling_tree)
     /\ process_call_address' = [process_call_address EXCEPT ![p] = Last(calling_tree).addr]

LEMMA StepMovesOwn ==
  ASSUME CallInv, [Next]_vars
  PROVE  \E p \in Proc : OwnMoves(p)
<1>1. TypeOK /\ MachineOK /\ LoopOK /\ InTurn /\ 1 \in Proc
  BY TypeOKParts, EngineAssumption DEF CallInv, Proc
<1>2. ASSUME NEW p \in Proc, Current(p), ~Ended(p), execute(p, actions[p][step[p] + 1])
      PROVE  OwnMoves(p)
  <2>1. PICK in \in Instruction :
          /\ in = actions[p][step[p] + 1] /\ OpAt(p, step[p]) = in.op /\ execute(p, in)
    BY <1>1, <1>2, Standing
  <2>2. CASE in.op # "rscall"
    BY <2>1, <2>2 DEF execute, OwnMoves, other, p_jmp, Compare, JumpIf, p_hlt, p_call, p_lcall,
       p_ret, p_svcall
  <2>3. CASE in.op = "rscall"
    <3>1. SavesCalls(p)
      <4>1. step[p] + 1 \in 1..Len(actions[p])
        BY <1>1, <1>2, Standing
      <4> QED
        BY <2>1, <2>3, <4>1 DEF SavesCalls
    <3>2. NestedFrames(p)
      BY <1>2, <3>1 DEF CallInv, WellFormed
    <3>3. Depth(p) = Len(callers[p]) + 1
      BY <2>1, <2>3 DEF Depth, Enterable
    <3>4. Saved(p, calling_tree, callers[p], Len(callers[p]) + 1)
      BY <3>2, <3>3 DEF NestedFrames
    <3>5. calling_tree # <<>> /\ Last(calling_tree) = Frame(p, callers[p], Len(callers[p]) + 1)
      <4>1. calling_tree \in Seq(Entry) /\ callers[p] \in Seq(Address)
        BY <1>1 DEF TypeOK, Entry
      <4> QED
        BY <3>4, <4>1, SavedRestore
    <3>6. /\ calling_tree' = Front(calling_tree)
          /\ process_call_address' = [process_call_address EXCEPT ![p] = Last(calling_tree).addr]
      BY <2>1, <2>3, <3>5 DEF execute, p_rscall, TakenOn
    <3>7. Last(calling_tree).owner = p
      BY <3>5 DEF Frame
    <3> QED
      BY <3>5, <3>6, <3>7 DEF OwnMoves
  <2> QED
    BY <2>2, <2>3
<1>3. CASE ThreadedTurn \/ SequentialStep
  <2>1. i + 1 \in 1..Len(processes) /\ i \in Nat
    BY <1>1, <1>3, EngineAssumption DEF ThreadedTurn, SequentialStep, LoopOK, TypeOK
  <2>2. PICK p \in Proc : p = processes[i + 1]
    BY <1>1, <2>1 DEF LoopOK
  <2>3. CASE Ended(p)
    BY <1>3, <2>2, <2>3 DEF ThreadedTurn, SequentialStep, vmVars, OwnMoves
  <2>4. CASE ~Ended(p)
    <3>1. execute(p, actions[p][step[p] + 1])
      BY <1>3, <2>2, <2>4 DEF ThreadedTurn, SequentialStep, ExecuteStep
    <3>2. Current(p)
      <4>1. ~threading => i + 1 \in Proc
        BY <1>1, <2>1, EngineAssumption DEF LoopOK, Proc
      <4>2. ~threading => p = i + 1
        BY <1>1, <2>2, <4>1 DEF InTurn
      <4> QED
        BY <2>1, <4>2 DEF Current
    <3> QED
      BY <1>2, <2>4, <3>1, <3>2
  <2> QED
    BY <2>3, <2>4
<1>4. CASE RoundEnd \/ SequentialEnd \/ UNCHANGED vars
  BY <1>1, <1>4 DEF RoundEnd, SequentialEnd, vars, vmVars, OwnMoves
<1> QED
  BY <1>3, <1>4 DEF Next

(* Every step is a call, a save or a restore of one process, or a stutter. *)
LEMMA CallersImplement ==
  ASSUME CallInv, NumberedParts, [Next]_vars
  PROVE  NumberedParts' /\ [Stacks!Next]_(Stacks!stackVars)
<1> DEFINE saved == [q \in Proc |-> SavedBy(q)]
<1>1. PICK p \in Proc : OwnMoves(p)
  BY StepMovesOwn
<1>2. /\ calling_tree \in Seq(Entry) /\ process_call_address \in [Proc -> Address]
      /\ step \in [Proc -> Address]
  BY DEF CallInv, TypeOK, Entry
<1>3. \A q \in Proc : Ranked(calling_tree, q)
  BY DEF NumberedParts
<1>4. /\ saved = [q \in Proc |-> Part(calling_tree, q)]
      /\ saved' = [q \in Proc |-> Part(calling_tree', q)]
  BY SavedByIsPart
<1> HIDE DEF saved
<1>5. CASE UNCHANGED <<calling_tree, process_call_address>>
  <2>1. NumberedParts'
    BY <1>3, <1>5 DEF NumberedParts
  <2>2. UNCHANGED saved
    BY <1>4, <1>5
  <2> QED
    BY <1>5, <2>1, <2>2 DEF Stacks!stackVars, saved
<1>6. CASE /\ UNCHANGED calling_tree
           /\ process_call_address' = [process_call_address EXCEPT ![p] = step[p]]
  <2>1. NumberedParts'
    BY <1>3, <1>6 DEF NumberedParts
  <2>2. UNCHANGED saved /\ step[p] \in Address
    BY <1>2, <1>4, <1>6
  <2>3. Stacks!Call(p)
    BY <1>6, <2>2 DEF Stacks!Call, saved
  <2> QED
    BY <2>1, <2>3 DEF Stacks!Next
<1>7. CASE /\ calling_tree' = Append(calling_tree, [owner |-> p, addr |-> process_call_address[p]])
           /\ UNCHANGED process_call_address
  <2>1. PICK e \in Entry :
          /\ e.owner = p /\ e.addr = process_call_address[p]
          /\ calling_tree' = Append(calling_tree, e)
    <3>1. [owner |-> p, addr |-> process_call_address[p]] \in Entry
      BY <1>2 DEF Entry
    <3> QED
      BY <1>7, <3>1
  <2>2. NumberedParts'
    <3>1. \A q \in Proc : Ranked(Append(calling_tree, e), q)
      BY <1>2, <1>3, RankedAppend
    <3> QED
      BY <2>1, <3>1 DEF NumberedParts
  <2>3. \A q \in Proc : Part(calling_tree', q)
           = IF q = p THEN Append(Part(calling_tree, p), e.addr) ELSE Part(calling_tree, q)
    <3>1. \A q \in Proc : Part(Append(calling_tree, e), q)
            = IF e.owner = q THEN Append(Part(calling_tree, q), e.addr) ELSE Part(calling_tree, q)
      BY <1>2, <1>3, PartAppend
    <3> QED
      BY <2>1, <3>1
  <2>4. saved' = [saved EXCEPT ![p] = Append(saved[p], process_call_address[p])]
    BY <1>4, <2>1, <2>3
  <2>5. Stacks!Save(p)
    BY <1>7, <2>4 DEF Stacks!Save, saved
  <2> QED
    BY <2>2, <2>5 DEF Stacks!Next
<1>8. CASE /\ calling_tree # <<>> /\ Last(calling_tree).owner = p
           /\ calling_tree' = Front(calling_tree)
           /\ process_call_address' = [process_call_address EXCEPT ![p] = Last(calling_tree).addr]
  <2>1. \A q \in Proc :
          /\ Ranked(Front(calling_tree), q)
          /\ IF Last(calling_tree).owner = q
               THEN /\ Part(calling_tree, q) # <<>>
                    /\ Last(Part(calling_tree, q)) = Last(calling_tree).addr
                    /\ Part(Front(calling_tree), q) = Front(Part(calling_tree, q))
               ELSE Part(Front(calling_tree), q) = Part(calling_tree, q)
    BY <1>2, <1>3, <1>8, PartFront
  <2>2. NumberedParts'
    BY <1>8, <2>1 DEF NumberedParts
  <2>3. saved' = [saved EXCEPT ![p] = Front(saved[p])]
    BY <1>4, <1>8, <2>1
  <2>4. saved[p] # <<>> /\ process_call_address' = [process_call_address EXCEPT ![p] = Last(saved[p])]
    BY <1>4, <1>8, <2>1
  <2>5. Stacks!Restore(p)
    BY <2>3, <2>4 DEF Stacks!Restore, Stacks!Last, Stacks!Front, Last, Front, saved
  <2> QED
    BY <2>2, <2>5 DEF Stacks!Next
<1> QED
  BY <1>1, <1>5, <1>6, <1>7, <1>8 DEF OwnMoves

(* "Saves actual saved caller address into private stack"                  *)
(* (process_symbols.cpp:181) holds under either scheduling: of one caller  *)
(* among the processes of a round, and of any number of callers that run   *)
(* one after the other, even those that halt inside of a call and leave    *)
(* their entries to the next (p_svcall, p_rscall).                         *)
THEOREM CallersStayPrivate == SoleCallerSpec /\ WellFormed /\ []Balanced => PrivateStacks
<1>1. SoleCallerInit => NumberedParts /\ Stacks!Init
  <2> SUFFICES ASSUME SoleCallerInit PROVE NumberedParts /\ Stacks!Init
    OBVIOUS
  <2>1. Init /\ TypeOK /\ calling_tree = <<>>
    BY InitTypes DEF SoleCallerInit, Init
  <2>2. \A p \in Proc : Of(calling_tree, p) = {}
    BY <2>1, EmptySeq DEF Of
  <2>3. NumberedParts
    BY <2>2, FS_EmptySet DEF NumberedParts, Ranked
  <2>4. \A p \in Proc : SavedBy(p) = <<>>
    BY <2>1, SavedByOwner
  <2> QED
    BY <2>1, <2>3, <2>4 DEF Init, Stacks!Init
<1>2. CallInv /\ Balanced /\ [Next]_vars => CallInv'
  BY CallInvStays
<1>3. CallInv /\ NumberedParts /\ [Next]_vars
        => NumberedParts' /\ [Stacks!Next]_(Stacks!stackVars)
  BY CallersImplement
<1> QED
  BY <1>1, <1>2, <1>3, CallInvInit, PTL DEF SoleCallerSpec, PrivateStacks, Stacks!Spec
=============================================================================
