---------------------------- MODULE MCVpuEngine -----------------------------
(* Programs for the engine: [op, arg], where arg aims one step before the   *)
(* target of an absolute jump and counts the steps of a relative one.       *)
EXTENDS VpuEngine

Plain(op) == [op |-> op, arg |-> 0]
To(op, target) == [op |-> op, arg |-> (target + Modulus - 1) % Modulus]
By(op, move) == [op |-> op, arg |-> (move + Modulus) % Modulus]

\* Empty, short and long programs; one that halts before a loop; one that never
\* ends; loops and branches that compares decide.
ScheduledPrograms ==
  { <<>>,
    <<Plain("other")>>,
    <<Plain("other"), Plain("other"), Plain("other")>>,
    <<Plain("hlt"), By("jmp", 0 - 1)>>,
    <<By("jmp", 0 - 1)>>,
    <<Plain("cmp"), By("je", 2), By("jl", 1), To("lcall", 0), By("jg", 0 - 2)>>,
    <<Plain("cmpdbl"), By("jle", 1), Plain("other"), By("jge", 1), By("jne", 1),
      Plain("hlt")>> }

\* Calls as SVASM compiles them, three deep and again and again.
NestedCalls ==
  << Plain("svcall"), To("call", 4), Plain("rscall"), To("lcall", 0),
     Plain("cmp"), By("je", 3), Plain("svcall"), To("call", 10), Plain("rscall"),
     Plain("ret"),
     Plain("svcall"), To("call", 14), Plain("rscall"), Plain("ret"),
     Plain("ret") >>

\* The same, but once, and halting in the called procedure or after it.
HaltsInCall ==
  << Plain("svcall"), To("call", 4), Plain("rscall"), Plain("hlt"),
     Plain("cmp"), By("je", 4), Plain("svcall"), To("call", 9), Plain("rscall"),
     Plain("ret"), Plain("hlt") >>

\* A call no procedure calls from.
PlainCall == << To("call", 2), Plain("hlt"), Plain("ret") >>

CallingPrograms == {NestedCalls, HaltsInCall, PlainCall, <<>>}

SharingPrograms == {NestedCalls, HaltsInCall}
=============================================================================
