----------------------------- MODULE CallStacks -----------------------------
(***************************************************************************)
(* What svcall and rscall promise (Actions/process_symbols.cpp:181-187):   *)
(* every process has a stack of its own of saved caller addresses, and a   *)
(* restore gives back the address that process saved last.                 *)
(***************************************************************************)
EXTENDS Naturals, Sequences, SequencesExt

CONSTANTS Proc, Address

VARIABLES
  saved,     \* the caller addresses each process has saved, oldest first
  callAddr   \* the caller address each process would return to

stackVars == <<saved, callAddr>>

Init ==
  /\ saved = [p \in Proc |-> <<>>]
  /\ callAddr = [p \in Proc |-> 0]

\* A call records where it was made.
Call(p) ==
  /\ \E a \in Address : callAddr' = [callAddr EXCEPT ![p] = a]
  /\ UNCHANGED saved

Save(p) ==
  /\ saved' = [saved EXCEPT ![p] = Append(@, callAddr[p])]
  /\ UNCHANGED callAddr

Restore(p) ==
  /\ saved[p] # <<>>
  /\ callAddr' = [callAddr EXCEPT ![p] = Last(saved[p])]
  /\ saved' = [saved EXCEPT ![p] = Front(@)]

Next == \E p \in Proc : Call(p) \/ Save(p) \/ Restore(p)

Spec == Init /\ [][Next]_stackVars

=============================================================================
