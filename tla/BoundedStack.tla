---------------------------- MODULE BoundedStack ----------------------------
(***************************************************************************)
(* What the stack of a virtual process promises to a program that leaves   *)
(* RBP and RSP to the push and pop instructions and stores only outside    *)
(* the stack: a last-in first-out store of at most Capacity bytes, from    *)
(* which an operand comes back byte for byte as it was given.  An operand  *)
(* that does not fit is dropped, a pop of more than is there takes nothing *)
(* and hands back whatever the instruction's buffer held.                  *)
(***************************************************************************)
EXTENDS Naturals, Sequences

CONSTANTS
  Byte,      \* the byte values
  Capacity,  \* how many bytes the stack holds
  Widths     \* the operand sizes of the instructions, in bytes

VARIABLES
  content,   \* the bytes on the stack, the newest operand first
  buf        \* the buffer the last pop instruction filled

vars == <<content, buf>>

Buffers(n) == [1..n -> Byte]

Init ==
  /\ content = <<>>
  /\ buf = <<>>

Push(bs) ==
  /\ Len(content) + Len(bs) <= Capacity
  /\ content' = bs \o content
  /\ UNCHANGED buf

\* The first n bytes leave the stack: the newest operand, when it has n bytes.
Pop(n) ==
  /\ n <= Len(content)
  /\ buf' = SubSeq(content, 1, n)
  /\ content' = SubSeq(content, n + 1, Len(content))

\* A pop that finds fewer than n bytes.
PopShort(n) ==
  /\ n > Len(content)
  /\ buf' \in Buffers(n)
  /\ UNCHANGED content

Next == \E n \in Widths :
  \/ \E bs \in Buffers(n) : Push(bs)
  \/ Pop(n)
  \/ PopShort(n)

Spec == Init /\ [][Next]_vars

=============================================================================
