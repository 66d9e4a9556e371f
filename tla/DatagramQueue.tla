---------------------------- MODULE DatagramQueue ----------------------------
(***************************************************************************)
(* What a network stream promises a program that fetches data with net_get *)
(* (Networking/net_symbols.cpp:64): every datagram received is handed over *)
(* at most once and in the order of arrival, and a fetch hands over zeros  *)
(* only when nothing is waiting.                                           *)
(***************************************************************************)
EXTENDS Naturals, Sequences

CONSTANTS
  Datagram,
  Zeros,    \* what a fetch from an empty queue hands over
  Nothing   \* what it leaves when the stream does not run

VARIABLES
  queue,   \* the datagrams received and not handed over, oldest first
  given    \* what the last fetch handed over

queueVars == <<queue, given>>

Init ==
  /\ queue = <<>>
  /\ given = Nothing

Receive(d) ==
  /\ queue' = Append(queue, d)
  /\ UNCHANGED given

Fetch ==
  /\ queue # <<>>
  /\ given' = Head(queue)
  /\ queue' = Tail(queue)

\* A fetch from an empty queue, or from a stream that never started.
FetchNothing ==
  /\ queue = <<>>
  /\ given' \in {Zeros, Nothing}
  /\ UNCHANGED queue

Close ==
  /\ queue' = <<>>
  /\ UNCHANGED given

Next == (\E d \in Datagram : Receive(d)) \/ Fetch \/ FetchNothing \/ Close

Spec == Init /\ [][Next]_queueVars

=============================================================================
