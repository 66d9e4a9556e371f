-------------------------- MODULE NetStreamProofs ---------------------------
(***************************************************************************)
(* Theorems about NetStream, for any number of requests and datagrams and  *)
(* any set of endpoints.  The fixed waits of the code are no handshake:    *)
(* that an answer is there when net_get looks for it, that a buffer is     *)
(* still lent when the loop fills it, and that the receive thread is gone  *)
(* when its headers are freed all follow from how long each side sleeps.   *)
(* Where a theorem depends on it, it assumes Punctual: no sleep is late by *)
(* more than the waits leave room for.                                     *)
(***************************************************************************)
EXTENDS NetStream, SequenceTheorems, TLAPS

(* A net_get waits longer than the loop sleeps, and destroy lingers longer *)
(* than the receive thread sleeps, with the delays included.               *)
Punctual ==
  /\ LoopPeriod + Jitter < GetWait
  /\ RcvPeriod + Jitter < Linger

Fetching == vm.at \in {"post", "wait"} /\ vm.op = "treatReceivedBuffer"
Sending == vm.at = "wait" /\ vm.op = "sendBuffer"

(* Sleeps of the loop and of the receive thread are this long at most. *)
Periods ==
  /\ loop.timer <= LoopPeriod + Jitter
  /\ rcv.timer <= RcvPeriod + Jitter

(* What was posted to send has not been sent, and bufferSent answers the   *)
(* net_send that polls it.                                                 *)
Sends ==
  /\ hdr.msg_code = "sendBuffer" => Sending /\ ~hdr.bufferSent /\ hist.sends = 0
  /\ hdr.bufferSent => Sending /\ hist.sends = 1
  /\ vm.at = "post" /\ vm.op = "sendBuffer" => hist.sends = 0

(* The buffer lent last is the one of the request under way. *)
Lent == vm.at \in {"post", "wait"} => hdr.transferBuffer = vm.request

(* A request for an endpoint is in the slot while its net_crtep waits, or  *)
(* since it returned unserved.                                             *)
Endpoints ==
  hdr.msg_code = "addEndpoint" => hist.unserved \/ (vm.at = "wait" /\ vm.op = "addEndpoint")

(* A stream that is not there, or about to be freed, has no loop. *)
Down ==
  /\ ~stream \/ vm.at = "linger" => loop.at = "off"
  /\ loop.at \in {"off", "start"} => receivedBytes = <<>>
  /\ loop.at = "start" => rcv.at = "none"

(* A fetch that was posted is served before its wait is over: until then   *)
(* the loop wakes up first.                                                *)
Fetches ==
  /\ loop.at # "off" /\ hdr.msg_code = "treatReceivedBuffer" =>
       /\ Fetching /\ vm.at = "wait" /\ reply = Nothing /\ vm.timer > 0
       /\ loop.at = "sleep" => loop.timer < vm.timer
  /\ loop.at # "off" /\ Fetching /\ vm.at = "wait" /\ reply = Nothing
       => hdr.msg_code = "treatReceivedBuffer"
  /\ Fetching /\ vm.at = "post" => reply = Nothing

Counted(b) == IF b THEN 1 ELSE 0

(* The datagrams promised: announced by an answer of net_hrecv, by         *)
(* hasReceived, by a receive thread about to set it, or being fetched.     *)
Promised ==
  hist.credit + Counted(hdr.hasReceived) + Counted(rcv.at = "flag")
    + Counted(Fetching /\ reply = Nothing)

(* For a polite program each of them is in the queue. *)
Kept ==
  /\ stray = "no" /\ hist.polite /\ loop.at # "off" => Promised <= Len(receivedBytes)
  /\ PolledGetFinds

(* Until the headers are freed, a receive thread between two calls of recv *)
(* has less to sleep than destroy.                                         *)
Leaving ==
  stray = "no" /\ vm.at = "linger" =>
    \/ rcv.at \in {"none", "ended", "blocked", "push"}
    \/ rcv.at = "sleep" /\ rcv.timer < vm.timer
    \/ rcv.at \in {"check", "recv"} /\ vm.timer > 0
    \/ rcv.at = "flag" /\ vm.timer > RcvPeriod + Jitter

(* Only a datagram with bytes is queued. *)
Bytes == rcv.at = "push" => rcv.got # 0

-----------------------------------------------------------------------------
(* Type correctness, one step for each group of actions.                   *)

(* The waits as numbers. *)
LEMMA Waits ==
  /\ LoopPeriod = 2 /\ RcvPeriod = 2 /\ GetWait = 4 /\ EndpointWait = 2
  /\ SendPollPeriod = 1 /\ Linger = 4 /\ Jitter \in Nat
  /\ Timer = 0..(4 + Jitter)
  /\ \A n \in Nat : Sleep(n) = n..(n + Jitter)
BY NetAssumption DEF LoopPeriod, RcvPeriod, GetWait, EndpointWait, SendPollPeriod, Linger, Timer, Sleep

(* Every sleep fits a timer, and what is left of it does. *)
LEMMA Naps ==
  /\ 0 \in Timer
  /\ \A n \in {LoopPeriod, RcvPeriod, GetWait, EndpointWait, SendPollPeriod, Linger} :
       Sleep(n) \subseteq Timer
  /\ \A code \in Requests : Wait(code) \subseteq Timer
  /\ \A t \in Timer : Elapsed(t) \in Timer
BY Waits DEF Wait, Requests, Elapsed

(* A stream starts without requests, datagrams or a receive thread. *)
LEMMA StartType ==
  ASSUME TypeOK, StartStream
  PROVE  /\ stream' \in BOOLEAN /\ hdr' \in Header /\ inbox' \in Seq({0} \cup Datagram)
         /\ loop' \in LoopRecord /\ rcv' \in RcvRecord /\ hist' \in HistRecord
<1>1. NewHeader \in Header
  BY NetAssumption DEF NewHeader, Header, Requests
<1>2. loop' \in LoopRecord
  BY DEF StartStream, TypeOK, LoopRecord
<1>3. rcv' \in RcvRecord
  BY DEF StartStream, TypeOK, RcvRecord
<1>4. hist' \in HistRecord
  BY DEF StartStream, TypeOK, HistRecord
<1> QED
  BY <1>1, <1>2, <1>3, <1>4, EmptySeq DEF StartStream

LEMMA InitType == Init => TypeOK
<1> SUFFICES ASSUME Init PROVE TypeOK
  OBVIOUS
<1>1. vm \in VmRecord /\ loop \in LoopRecord /\ rcv \in RcvRecord /\ hist \in HistRecord
  BY NetAssumption, Naps DEF Init, VmRecord, LoopRecord, RcvRecord, HistRecord, Requests
<1>2. hdr \in Header
  BY NetAssumption DEF Init, NewHeader, Header, Requests
<1> QED
  BY <1>1, <1>2, EmptySeq DEF Init, TypeOK, Pulled

LEMMA InstructionType ==
  ASSUME TypeOK, Instruction
  PROVE  TypeOK'
<1> USE DEF data, receiver
<1>1. CASE net_open
  <2>1. vm' \in VmRecord
    <3>1. vm.request + 1 \in 0..MaxRequests
      BY <1>1, NetAssumption DEF net_open, TypeOK, VmRecord
    <3>2. [vm EXCEPT !.request = @ + 1] \in VmRecord
      BY <3>1 DEF TypeOK, VmRecord
    <3>3. [vm EXCEPT !.request = @ + 1, !.at = "join", !.reopening = TRUE] \in VmRecord
      BY <3>1 DEF TypeOK, VmRecord
    <3> QED
      BY <1>1, <3>2, <3>3 DEF net_open
  <2>2. CASE hdr' = [hdr EXCEPT !.stopRequested = TRUE] /\ UNCHANGED <<stream, loop, receiver, hist>>
    <3>1. hdr' \in Header
      BY <2>2 DEF TypeOK, Header
    <3> QED
      BY <1>1, <2>1, <2>2, <3>1 DEF net_open, TypeOK
  <2>3. CASE StartStream
    BY <1>1, <2>1, <2>3, StartType DEF net_open, TypeOK
  <2> QED
    BY <1>1, <2>2, <2>3 DEF net_open
<1>2. CASE net_close
  <2>1. vm' \in VmRecord
    BY <1>2 DEF net_close, TypeOK, VmRecord
  <2>2. hdr' \in Header
    BY <1>2 DEF net_close, TypeOK, Header
  <2> QED
    BY <1>2, <2>1, <2>2 DEF net_close, TypeOK
<1>3. ASSUME NEW code \in Requests, NEW e \in Endpoint, Call(code, e)
      PROVE  TypeOK'
  <2>1. vm.request + 1 \in 0..MaxRequests /\ hdr.transferBuffer \in 0..MaxRequests
    BY <1>3, NetAssumption DEF Call, TypeOK, VmRecord, Header
  <2>2. vm' \in VmRecord
    BY <1>3, <2>1 DEF Call, TypeOK, VmRecord
  <2>3. hdr' \in Header
    BY <1>3, <2>1 DEF Call, TypeOK, Header
  <2>4. hist' \in HistRecord
    <3>1. \A b \in BOOLEAN, n \in Nat : [hist EXCEPT !.polite = b, !.credit = n] \in HistRecord
      BY DEF TypeOK, HistRecord
    <3>2. [hist EXCEPT !.sends = 0] \in HistRecord
      BY DEF TypeOK, HistRecord
    <3>3. (hist.polite /\ hist.credit > 0) \in BOOLEAN
          /\ (IF hist.credit > 0 THEN hist.credit - 1 ELSE 0) \in Nat
      BY DEF TypeOK, HistRecord
    <3> QED
      BY <1>3, <3>1, <3>2, <3>3 DEF Call
  <2> QED
    BY <1>3, <2>2, <2>3, <2>4 DEF Call, TypeOK, Pulled
<1>4. CASE net_selep
  <2>1. hdr' \in Header
    BY <1>4 DEF net_selep, TypeOK, Header
  <2> QED
    BY <1>4, <2>1 DEF net_selep, TypeOK
<1>5. CASE net_hrecv
  <2>1. hdr' \in Header
    BY <1>5 DEF net_hrecv, TypeOK, Header
  <2>2. hist' \in HistRecord
    <3>1. hist \in HistRecord /\ hist.credit + 1 \in Nat
      BY DEF TypeOK, HistRecord
    <3>2. hist' = [hist EXCEPT !.credit = hist.credit + 1]
      BY <1>5 DEF net_hrecv
    <3> QED
      BY <3>1, <3>2 DEF HistRecord
  <2> QED
    BY <1>5, <2>1, <2>2 DEF net_hrecv, TypeOK
<1> QED
  BY <1>1, <1>2, <1>3, <1>4, <1>5, NetAssumption DEF Instruction, net_get, net_send, net_crtep, Requests

LEMMA VmType ==
  ASSUME TypeOK, VmStep
  PROVE  TypeOK'
<1> USE DEF data, receiver
<1>0. vm' \in VmRecord
  <2>1. \A n \in Timer : [vm EXCEPT !.timer = n] \in VmRecord
    BY DEF TypeOK, VmRecord
  <2>2. \A n \in Timer : [vm EXCEPT !.at = "linger", !.timer = n] \in VmRecord
    BY DEF TypeOK, VmRecord
  <2>3. \A n \in Timer : [vm EXCEPT !.at = "wait", !.timer = n] \in VmRecord
    BY DEF TypeOK, VmRecord
  <2>4. [vm EXCEPT !.at = "idle"] \in VmRecord /\ vm.op \in Requests
    BY DEF TypeOK, VmRecord
  <2>5. CASE Post
    BY <2>3, <2>4, <2>5, Naps DEF Post
  <2>6. CASE GetDone \/ EndpointDone
    BY <2>4, <2>6 DEF GetDone, EndpointDone
  <2>7. CASE Joined \/ Destroyed
    BY <2>2, <2>4, <2>7, Naps DEF Joined, Destroyed
  <2>8. CASE SendPoll
    BY <2>1, <2>4, <2>8, Naps DEF SendPoll, PollAgain
  <2> QED
    BY <2>5, <2>6, <2>7, <2>8 DEF VmStep
<1>1. CASE Joined
  BY <1>0, <1>1 DEF Joined, TypeOK
<1>2. CASE Destroyed
  <2>1. stray' \in Requests \cup {"no", "receiver", "queue"}
    BY <1>2 DEF Destroyed
  <2>2. CASE StartStream
    BY <1>0, <1>2, <2>1, <2>2, StartType DEF Destroyed, TypeOK
  <2>3. CASE stream' = FALSE /\ rcv' = [rcv EXCEPT !.at = "none"] /\ inbox' = <<>> /\ UNCHANGED <<hdr, loop, hist>>
    <3>1. rcv' \in RcvRecord
      BY <2>3 DEF TypeOK, RcvRecord
    <3> QED
      BY <1>0, <1>2, <2>1, <2>3, <3>1, EmptySeq DEF Destroyed, TypeOK
  <2> QED
    BY <1>2, <2>2, <2>3 DEF Destroyed
<1>3. CASE Post
  <2>1. hdr' \in Header
    BY <1>3 DEF Post, TypeOK, Header, VmRecord
  <2>2. hist' \in HistRecord
    BY <1>3 DEF Post, TypeOK, HistRecord
  <2> QED
    BY <1>0, <1>3, <2>1, <2>2 DEF Post, TypeOK
<1>4. CASE GetDone
  BY <1>0, <1>4 DEF GetDone, TypeOK
<1>5. CASE EndpointDone
  <2>1. hdr' \in Header
    BY <1>5 DEF EndpointDone, TypeOK, Header, VmRecord
  <2>2. hist' \in HistRecord
    <3>1. \A b \in BOOLEAN : [hist EXCEPT !.unserved = b] \in HistRecord
      BY DEF TypeOK, HistRecord
    <3>2. hist' = [hist EXCEPT !.unserved = (hdr.msg_code = "addEndpoint")]
      BY <1>5 DEF EndpointDone
    <3> QED
      BY <3>1, <3>2, Zenon
  <2> QED
    BY <1>0, <1>5, <2>1, <2>2 DEF EndpointDone, TypeOK
<1>6. CASE SendPoll
  <2>1. hdr' \in Header
    BY <1>6 DEF SendPoll, PollAgain, TypeOK, Header
  <2> QED
    BY <1>0, <1>6, <2>1 DEF SendPoll, TypeOK
<1> QED
  BY <1>1, <1>2, <1>3, <1>4, <1>5, <1>6 DEF VmStep

LEMMA LoopType ==
  ASSUME TypeOK, LoopStep
  PROVE  TypeOK'
<1> USE DEF data, receiver
<1>0. loop' \in LoopRecord
  BY Naps DEF LoopStep, Startup, LoopLock, Serve, Ending, Teardown, TypeOK, LoopRecord
<1>1. CASE Startup
  <2>1. rcv' \in RcvRecord
    BY <1>1 DEF Startup, TypeOK, RcvRecord
  <2> QED
    BY <1>0, <1>1, <2>1, NetAssumption DEF Startup, TypeOK
<1>2. CASE LoopLock
  BY <1>0, <1>2 DEF LoopLock, TypeOK
<1>3. CASE Serve
  <2>1. hdr' \in Header
    BY <1>3 DEF Serve, SentFlag, TypeOK, Header
  <2>2. reply' \in Pulled /\ receivedBytes' \in Seq(Datagram)
    BY <1>3, HeadTailProperties DEF Serve, TypeOK, treatRcvMsg, sendFct, addEndpoint, Pulled
  <2>3. endpoints' \subseteq Endpoint
    BY <1>3 DEF Serve, TypeOK, treatRcvMsg, sendFct, addEndpoint, VmRecord
  <2>4. stray' \in Requests \cup {"no", "receiver", "queue"}
    BY <1>3 DEF Serve, TypeOK, Header
  <2>5. hist' \in HistRecord
    BY <1>3 DEF Serve, TypeOK, treatRcvMsg, sendFct, addEndpoint, HistRecord
  <2> QED
    BY <1>0, <1>3, <2>1, <2>2, <2>3, <2>4, <2>5 DEF Serve, TypeOK
<1>4. CASE Ending
  <2>1. hdr' \in Header
    BY <1>4 DEF Ending, TypeOK, Header
  <2> QED
    BY <1>0, <1>4, <2>1 DEF Ending, TypeOK
<1>5. CASE Teardown
  BY <1>0, <1>5, EmptySeq DEF Teardown, TypeOK
<1> QED
  BY <1>1, <1>2, <1>3, <1>4, <1>5 DEF LoopStep

LEMMA ReceiverType ==
  ASSUME TypeOK, Bytes, RcvStep \/ Network
  PROVE  TypeOK'
<1> USE DEF vmAndLoop
<1>1. CASE Arrive
  <2>1. \A d \in {0, hist.arrived + 1} : d \in {0} \cup Datagram
    BY <1>1, NetAssumption DEF Arrive, TypeOK, HistRecord, Datagram
  <2>2. inbox' \in Seq({0} \cup Datagram)
    BY <1>1, <2>1, AppendProperties DEF Arrive, TypeOK
  <2>3. hist' \in HistRecord
    <3>1. hist.arrived + 1 \in 0..MaxArrivals
      BY <1>1, NetAssumption DEF Arrive, TypeOK, HistRecord
    <3> QED
      BY <1>1, <3>1 DEF Arrive, TypeOK, HistRecord
  <2> QED
    BY <1>1, <2>2, <2>3 DEF Arrive, TypeOK
<1>2. CASE RcvCheck
  <2>1. rcv' \in RcvRecord
    BY <1>2 DEF RcvCheck, TypeOK, RcvRecord
  <2> QED
    BY <1>2, <2>1 DEF RcvCheck, TypeOK
<1>3. CASE RcvCall
  <2>1. rcv' \in RcvRecord
    BY <1>3 DEF RcvCall, TypeOK, RcvRecord
  <2> QED
    BY <1>3, <2>1 DEF RcvCall, TypeOK
<1>4. CASE RcvReturn
  <2>1. Head(inbox) \in {0} \cup Datagram /\ Tail(inbox) \in Seq({0} \cup Datagram)
    BY <1>4, HeadTailProperties DEF RcvReturn, TypeOK
  <2>2. rcv' \in RcvRecord
    BY <1>4, <2>1 DEF RcvReturn, AfterRecv, TypeOK, RcvRecord
  <2> QED
    BY <1>4, <2>1, <2>2 DEF RcvReturn, TypeOK
<1>5. ASSUME RcvSleep
      PROVE  rcv' \in RcvRecord
  BY <1>5, Naps DEF RcvSleep, TypeOK, RcvRecord
<1>6. CASE RcvError
  BY <1>5, <1>6 DEF RcvError, TypeOK
<1>7. CASE RcvPush
  <2>1. rcv' \in RcvRecord /\ rcv.got \in Datagram
    BY <1>7 DEF RcvPush, TypeOK, RcvRecord, Bytes
  <2>2. receivedBytes' \in Seq(Datagram)
    <3>1. receivedBytes \in Seq(Datagram)
      BY DEF TypeOK
    <3>2. Append(receivedBytes, rcv.got) \in Seq(Datagram)
      BY <2>1, <3>1, AppendProperties
    <3>3. receivedBytes' = receivedBytes \/ receivedBytes' = Append(receivedBytes, rcv.got)
      BY <1>7 DEF RcvPush
    <3> QED
      BY <3>1, <3>2, <3>3
  <2> QED
    BY <1>7, <2>1, <2>2 DEF RcvPush, TypeOK
<1>8. CASE RcvFlag
  <2>1. hdr' \in Header
    BY <1>8 DEF RcvFlag, TypeOK, Header
  <2> QED
    BY <1>5, <1>8, <2>1 DEF RcvFlag, TypeOK
<1>9. CASE RcvWake
  <2>1. rcv' \in RcvRecord
    BY <1>9 DEF RcvWake, TypeOK, RcvRecord
  <2> QED
    BY <1>9, <2>1 DEF RcvWake, TypeOK
<1> QED
  BY <1>1, <1>2, <1>3, <1>4, <1>6, <1>7, <1>8, <1>9 DEF RcvStep, Network

LEMMA TickType ==
  ASSUME TypeOK, Tick
  PROVE  TypeOK'
<1>1. vm' \in VmRecord
  BY Naps DEF Tick, TypeOK, VmRecord
<1>2. loop' \in LoopRecord
  BY Naps DEF Tick, TypeOK, LoopRecord
<1>3. rcv' \in RcvRecord
  BY Naps DEF Tick, TypeOK, RcvRecord
<1> QED
  BY <1>1, <1>2, <1>3 DEF Tick, TypeOK, data

LEMMA BytesStays ==
  ASSUME TypeOK, Bytes, [Next]_vars
  PROVE  Bytes'
<1> USE DEF Bytes
<1>1. CASE UNCHANGED rcv
  BY <1>1
<1>2. CASE StartStream \/ Startup \/ Destroyed \/ RcvCheck \/ RcvCall \/ RcvPush \/ RcvWake \/ RcvSleep \/ Tick
  BY <1>2 DEF TypeOK, RcvRecord, StartStream, Startup, Destroyed, RcvCheck, RcvCall, RcvPush, RcvWake,
              RcvSleep, Tick, receiver
<1>3. CASE RcvReturn
  BY <1>3 DEF RcvReturn, AfterRecv, TypeOK, RcvRecord
<1> QED
  BY <1>1, <1>2, <1>3
  DEF Next, vars, receiver, Instruction, net_open, net_close, Call, net_get, net_send, net_crtep, net_selep,
      net_hrecv, VmStep, Joined, Post, GetDone, EndpointDone, SendPoll, LoopStep, LoopLock, Serve, Ending,
      Teardown, RcvStep, Network, Arrive, RcvError, RcvFlag

LEMMA TypeStays ==
  ASSUME TypeOK, Bytes, [Next]_vars
  PROVE  TypeOK'
<1>1. CASE UNCHANGED vars
  BY <1>1 DEF vars, data, receiver, TypeOK
<1> QED
  BY <1>1, InstructionType, VmType, LoopType, ReceiverType, TickType DEF Next


-----------------------------------------------------------------------------
(* Requests: what is posted, lent and sent.                                *)

(* Sleeps last no longer than they may. *)
LEMMA PeriodsStay ==
  ASSUME TypeOK, Periods, [Next]_vars
  PROVE  Periods'
<1> USE Waits DEF Periods, TypeOK, LoopRecord, RcvRecord
<1>1. CASE UNCHANGED <<loop, rcv>>
  BY <1>1
<1>2. CASE Instruction \/ VmStep
  BY <1>2 DEF receiver, StartStream, Instruction, net_open, net_close, Call, net_get, net_send, net_crtep,
              net_selep, net_hrecv, VmStep, Joined, Destroyed, Post, GetDone, EndpointDone, SendPoll
<1>3. CASE LoopStep
  <2>1. CASE Serve
    <3>1. UNCHANGED rcv /\ (loop' = [loop EXCEPT !.at = "ending"]
                             \/ \E n \in Sleep(LoopPeriod) : loop' = [at |-> "sleep", timer |-> n])
      BY <2>1 DEF Serve, receiver
    <3>2. \A n \in Sleep(LoopPeriod) : n <= LoopPeriod + Jitter
      BY DEF Sleep
    <3> QED
      BY <3>1, <3>2
  <2>2. CASE Startup
    BY <2>2 DEF receiver, Startup
  <2>3. CASE LoopLock
    BY <2>3 DEF receiver, LoopLock
  <2>4. CASE Ending
    BY <2>4 DEF receiver, Ending
  <2>5. CASE Teardown
    BY <2>5 DEF receiver, Teardown
  <2> QED
    BY <1>3, <2>1, <2>2, <2>3, <2>4, <2>5 DEF LoopStep
<1>4. CASE RcvStep \/ Network
  <2>1. CASE RcvSleep /\ UNCHANGED loop
    <3>1. PICK n \in Sleep(RcvPeriod) : rcv' = [rcv EXCEPT !.at = "sleep", !.timer = n]
      BY <2>1 DEF RcvSleep
    <3>2. rcv'.timer = n
      BY <3>1
    <3> QED
      BY <2>1, <3>2 DEF Sleep
  <2> QED
    BY <1>4, <2>1 DEF vmAndLoop, RcvStep, Network, Arrive, RcvCheck, RcvCall, RcvReturn, RcvError, RcvPush,
                      RcvFlag, RcvWake
<1>5. CASE Tick
  BY <1>5 DEF Tick, Elapsed
<1> QED
  BY <1>1, <1>2, <1>3, <1>4, <1>5 DEF Next, vars, receiver

(* The buffer of a request stays in the header until it is over. *)
LEMMA LentStays ==
  ASSUME TypeOK, Lent, [Next]_vars
  PROVE  Lent'
<1> USE DEF Lent, TypeOK, Header, VmRecord
<1>1. CASE UNCHANGED <<vm, hdr>>
  BY <1>1
<1>2. CASE Instruction
  BY <1>2 DEF StartStream, Instruction, net_open, net_close, Call, net_get, net_send, net_crtep,
              net_selep, net_hrecv
<1>3. CASE VmStep
  BY <1>3 DEF StartStream, VmStep, Joined, Destroyed, Post, GetDone, EndpointDone, SendPoll, PollAgain
<1>4. CASE LoopStep
  BY <1>4 DEF LoopStep, Startup, LoopLock, Serve, Ending, Teardown
<1>5. CASE RcvStep \/ Network
  BY <1>5 DEF vmAndLoop, RcvStep, Network, Arrive, RcvCheck, RcvCall, RcvReturn, RcvError, RcvPush,
              RcvFlag, RcvWake
<1>6. CASE Tick
  BY <1>6 DEF Tick
<1> QED
  BY <1>1, <1>2, <1>3, <1>4, <1>5, <1>6 DEF Next, vars

LEMMA SendsStay ==
  ASSUME TypeOK, Sends, Lent, [Next]_vars
  PROVE  Sends'
<1> USE DEF Sends, Sending, TypeOK, Header, VmRecord, HistRecord
<1>1. CASE UNCHANGED <<vm, hdr, hist>>
  BY <1>1
<1>2. CASE Instruction
  <2>1. CASE net_open
    <3>1. CASE StartStream /\ vm' = [vm EXCEPT !.request = @ + 1]
      BY <3>1 DEF StartStream, NewHeader
    <3>2. CASE ~StartStream
      BY <2>1, <3>2 DEF net_open
    <3> QED
      BY <2>1, <3>1, <3>2 DEF net_open
  <2>2. ASSUME NEW code \in Requests, NEW e \in Endpoint, Call(code, e)
        PROVE  Sends'
    BY <2>2 DEF Call, Requests
  <2>3. CASE net_close \/ net_selep \/ net_hrecv
    BY <2>3 DEF net_close, net_selep, net_hrecv
  <2> QED
    BY <1>2, <2>1, <2>2, <2>3, NetAssumption DEF Instruction, net_get, net_send, net_crtep, Requests
<1>3. CASE VmStep
  <2>1. CASE Destroyed
    BY <2>1 DEF StartStream, Destroyed, NewHeader
  <2>2. CASE Post
    BY <2>2 DEF Post
  <2>3. CASE Joined \/ GetDone \/ EndpointDone
    BY <2>3 DEF Joined, GetDone, EndpointDone, Waited
  <2>4. CASE SendPoll
    BY <2>4 DEF SendPoll, PollAgain, Waited
  <2> QED
    BY <1>3, <2>1, <2>2, <2>3, <2>4 DEF VmStep
<1>4. CASE LoopStep
  <2>1. CASE Serve
    BY <2>1 DEF Serve, OwnBuffer, SentFlag, Lent, treatRcvMsg, sendFct, addEndpoint
  <2> QED
    BY <1>4, <2>1 DEF LoopStep, Startup, LoopLock, Ending, Teardown
<1>5. CASE RcvStep \/ Network
  BY <1>5 DEF vmAndLoop, RcvStep, Network, Arrive, RcvCheck, RcvCall, RcvReturn, RcvError, RcvPush,
              RcvFlag, RcvWake
<1>6. CASE Tick
  BY <1>6 DEF Tick
<1> QED
  BY <1>1, <1>2, <1>3, <1>4, <1>5, <1>6 DEF Next, vars

(* A net_crtep that returns with its request in the slot is remembered. *)
LEMMA EndpointsStay ==
  ASSUME TypeOK, Endpoints, [Next]_vars
  PROVE  Endpoints'
<1> USE DEF Endpoints, TypeOK, Header, VmRecord, HistRecord
<1>1. CASE UNCHANGED <<vm, hdr, hist>>
  BY <1>1
<1>2. CASE Instruction
  <2>1. CASE net_open
    <3>1. CASE StartStream
      BY <3>1 DEF StartStream, NewHeader
    <3>2. CASE ~StartStream
      BY <2>1, <3>2 DEF net_open
    <3> QED
      BY <3>1, <3>2
  <2>2. ASSUME NEW code \in Requests, NEW e \in Endpoint, Call(code, e)
        PROVE  Endpoints'
    BY <2>2 DEF Call
  <2>3. CASE net_close \/ net_selep \/ net_hrecv
    BY <2>3 DEF net_close, net_selep, net_hrecv
  <2> QED
    BY <1>2, <2>1, <2>2, <2>3, NetAssumption DEF Instruction, net_get, net_send, net_crtep, Requests
<1>3. CASE VmStep
  <2>1. CASE Destroyed
    BY <2>1 DEF StartStream, Destroyed, NewHeader
  <2>2. CASE Post
    BY <2>2 DEF Post
  <2>3. CASE EndpointDone
    <3>1. hdr'.msg_code = hdr.msg_code
      BY <2>3 DEF EndpointDone
    <3>2. hdr.msg_code = "addEndpoint" => hist'.unserved
      BY <2>3 DEF EndpointDone
    <3> QED
      BY <3>1, <3>2
  <2>4. CASE Joined \/ GetDone
    BY <2>4 DEF Joined, GetDone, Waited
  <2>5. CASE SendPoll
    BY <2>5 DEF SendPoll, PollAgain, Waited
  <2> QED
    BY <1>3, <2>1, <2>2, <2>3, <2>4, <2>5 DEF VmStep
<1>4. CASE LoopStep
  <2>1. CASE Serve
    BY <2>1 DEF Serve
  <2> QED
    BY <1>4, <2>1 DEF LoopStep, Startup, LoopLock, Ending, Teardown
<1>5. CASE RcvStep \/ Network
  BY <1>5 DEF vmAndLoop, RcvStep, Network, Arrive, RcvCheck, RcvCall, RcvReturn, RcvError, RcvPush,
              RcvFlag, RcvWake
<1>6. CASE Tick
  BY <1>6 DEF Tick
<1> QED
  BY <1>1, <1>2, <1>3, <1>4, <1>5, <1>6 DEF Next, vars

(* A stream that is not there has no loop, and one without a loop no data. *)
LEMMA DownStays ==
  ASSUME TypeOK, Down, [Next]_vars
  PROVE  Down'
<1> USE DEF Down, TypeOK, VmRecord, LoopRecord, RcvRecord, data, receiver
<1>1. CASE UNCHANGED <<vm, stream, loop, receivedBytes, rcv>>
  BY <1>1
<1>2. CASE Instruction
  BY <1>2 DEF StartStream, Instruction, net_open, net_close, Call, net_get, net_send, net_crtep,
              net_selep, net_hrecv
<1>3. CASE VmStep
  BY <1>3 DEF StartStream, VmStep, Joined, Destroyed, Post, GetDone, EndpointDone, SendPoll, PollAgain
<1>4. CASE LoopStep
  BY <1>4 DEF LoopStep, Startup, LoopLock, Serve, Ending, Teardown, treatRcvMsg, sendFct, addEndpoint
<1>5. CASE RcvStep \/ Network
  BY <1>5 DEF vmAndLoop, RcvStep, Network, Arrive, RcvCheck, RcvCall, RcvReturn, RcvError, RcvPush,
              RcvFlag, RcvWake, RcvSleep
<1>6. CASE Tick
  BY <1>6 DEF Tick
<1> QED
  BY <1>1, <1>2, <1>3, <1>4, <1>5, <1>6 DEF Next, vars


-----------------------------------------------------------------------------
(* Fetches: the fixed wait of net_get outlasts the period of the loop.     *)

(* The loop finds every fetch and every send with the buffer it came with. *)
LEMMA ServesOwn ==
  ASSUME TypeOK, Lent, Sends, Fetches, loop.at = "serve",
         hdr.msg_code \in {"treatReceivedBuffer", "sendBuffer"}
  PROVE  OwnBuffer
BY DEF Lent, Sends, Sending, Fetches, Fetching, OwnBuffer, TypeOK, Header, VmRecord

(* An endpoint too, unless its net_crtep did not wait for it. *)
LEMMA AddsOwn ==
  ASSUME TypeOK, Lent, Endpoints, hdr.msg_code = "addEndpoint", ~hist.unserved
  PROVE  OwnBuffer
BY DEF Lent, Endpoints, OwnBuffer

LEMMA OwnStays ==
  ASSUME TypeOK, Lent, Sends, Endpoints, Fetches, OwnBuffers, [Next]_vars
  PROVE  OwnBuffers'
<1>1. CASE UNCHANGED vars
  BY <1>1 DEF OwnBuffers, vars
<1>2. CASE stray' \in {"no", "receiver", "queue"}
  BY <1>2 DEF OwnBuffers, Requests
<1>3. CASE stray = "no" /\ Serve
  <2>1. CASE stray' # "no"
    <3>1. stray' = hdr.msg_code /\ ~OwnBuffer /\ hdr.msg_code # "NOP" /\ hist' = hist /\ loop.at = "serve"
      BY <1>3, <2>1 DEF Serve
    <3>2. hdr.msg_code = "addEndpoint"
      BY <3>1, ServesOwn DEF TypeOK, Header, Requests
    <3> QED
      BY <3>1, <3>2, AddsOwn DEF OwnBuffers
  <2> QED
    BY <1>2, <2>1
<1> QED
  BY <1>1, <1>2, <1>3
  DEF Next, Instruction, net_open, net_close, Call, net_get, net_send, net_crtep, net_selep, net_hrecv,
      VmStep, Joined, Destroyed, Post, GetDone, EndpointDone, SendPoll, LoopStep, Startup, LoopLock, Ending,
      Teardown, RcvStep, Network, Arrive, RcvCheck, RcvCall, RcvReturn, RcvPush, RcvWake, RcvError, RcvFlag,
      vmAndLoop, Tick

LEMMA FetchesStay ==
  ASSUME Punctual, TypeOK, Periods, Sends, Lent, Down, Fetches, [Next]_vars
  PROVE  Fetches'
<1> USE DEF Fetches, Fetching, TypeOK, Header, VmRecord, LoopRecord
<1>1. CASE UNCHANGED <<vm, reply, hdr, loop>>
  BY <1>1
<1>2. CASE Instruction
  <2>1. CASE net_open
    <3>1. CASE StartStream /\ vm' = [vm EXCEPT !.request = @ + 1]
      BY <2>1, <3>1 DEF net_open, StartStream, NewHeader
    <3>2. CASE ~StartStream
      BY <2>1, <3>2 DEF net_open
    <3> QED
      BY <2>1, <3>1, <3>2 DEF net_open
  <2>2. ASSUME NEW code \in Requests, NEW e \in Endpoint, Call(code, e)
        PROVE  Fetches'
    BY <2>2 DEF Call
  <2>3. CASE net_close \/ net_selep \/ net_hrecv
    BY <2>3 DEF net_close, net_selep, net_hrecv
  <2> QED
    BY <1>2, <2>1, <2>2, <2>3, NetAssumption DEF Instruction, net_get, net_send, net_crtep, Requests
<1>3. CASE VmStep
  <2>1. CASE Destroyed
    BY <2>1 DEF StartStream, Destroyed, NewHeader, Down
  <2>2. CASE Post
    <3>1. \A n \in Sleep(GetWait) : n > LoopPeriod + Jitter /\ n > 0
      BY NetAssumption DEF Punctual, Sleep, LoopPeriod, GetWait
    <3>2. PICK n \in Wait(vm.op) : vm' = [vm EXCEPT !.at = "wait", !.timer = n]
      BY <2>2 DEF Post
    <3>3. vm.op = "treatReceivedBuffer" => n > LoopPeriod + Jitter /\ n > 0
      BY <3>1 DEF Wait
    <3>4. loop.timer <= LoopPeriod + Jitter /\ loop.timer \in Int /\ n \in Int /\ LoopPeriod + Jitter \in Int
      BY Waits, Naps DEF Periods
    <3>5. /\ hdr'.msg_code = vm.op /\ vm'.at = "wait" /\ vm'.op = vm.op /\ vm'.timer = n
          /\ vm.at = "post" /\ UNCHANGED <<reply, loop>>
      BY <2>2, <3>2 DEF Post
    <3>6. CASE vm.op = "treatReceivedBuffer"
      BY <3>3, <3>4, <3>5, <3>6
    <3>7. CASE vm.op # "treatReceivedBuffer"
      BY <3>5, <3>7
    <3> QED
      BY <3>6, <3>7
  <2>3. CASE Joined \/ GetDone \/ EndpointDone
    <3>1. loop.at # "off" => hdr.msg_code # "treatReceivedBuffer"
      <4>1. Joined => loop.at = "off"
        BY DEF Joined
      <4>2. GetDone \/ EndpointDone => vm.timer = 0
        BY DEF GetDone, EndpointDone, Waited
      <4> QED
        BY <2>3, <4>1, <4>2
    <3>2. vm'.at \notin {"post", "wait"}
      <4>1. Joined => vm'.at = "linger"
        BY DEF Joined
      <4> QED
        BY <2>3, <4>1 DEF GetDone, EndpointDone
    <3>3. hdr'.msg_code = hdr.msg_code /\ UNCHANGED loop
      BY <2>3 DEF Joined, GetDone, EndpointDone
    <3> QED
      BY <3>1, <3>2, <3>3
  <2>4. CASE SendPoll
    BY <2>4 DEF SendPoll, PollAgain, Waited
  <2> QED
    BY <1>3, <2>1, <2>2, <2>3, <2>4 DEF VmStep
<1>4. CASE LoopStep
  <2>1. CASE Serve
    <3>1. hdr.msg_code = "treatReceivedBuffer" => reply' # Nothing
      BY <2>1, ServesOwn, HeadTailProperties, NetAssumption
         DEF Serve, treatRcvMsg, Zeros, Nothing, Datagram
    <3>2. hdr.msg_code # "treatReceivedBuffer" => reply' = reply
      BY <2>1 DEF Serve, treatRcvMsg, sendFct, addEndpoint
    <3> QED
      BY <2>1, <3>1, <3>2 DEF Serve
  <2> QED
    BY <1>4, <2>1 DEF LoopStep, Startup, LoopLock, Ending, Teardown
<1>5. CASE RcvStep \/ Network
  BY <1>5 DEF vmAndLoop, RcvStep, Network, Arrive, RcvCheck, RcvCall, RcvReturn, RcvError, RcvPush,
              RcvFlag, RcvWake
<1>6. CASE Tick
  <2>1. /\ vm.timer \in Nat /\ loop.timer \in Nat
        /\ \A t \in Nat : Elapsed(t) = IF t > 0 THEN t - 1 ELSE 0
    BY Waits DEF Elapsed
  <2>2. /\ UNCHANGED <<reply, hdr>>
        /\ vm' = [vm EXCEPT !.timer = Elapsed(vm.timer)]
        /\ loop' = [loop EXCEPT !.timer = Elapsed(loop.timer)]
    BY <1>6 DEF Tick
  <2>3. /\ vm'.at = vm.at /\ vm'.op = vm.op /\ vm'.timer = Elapsed(vm.timer)
        /\ loop'.at = loop.at /\ loop'.timer = Elapsed(loop.timer)
    BY <2>2
  <2>4. /\ loop.at \in {"off", "sleep"}
        /\ loop.at = "sleep" => loop.timer > 0
    BY <1>6 DEF Tick, Quiet
  <2> QED
    BY <2>1, <2>2, <2>3, <2>4
<1> QED
  BY <1>1, <1>2, <1>3, <1>4, <1>5, <1>6 DEF Next, vars

LEMMA FetchedInTime ==
  ASSUME TypeOK, Fetches
  PROVE  ServedInTime
BY DEF ServedInTime, Waited, Fetches, Fetching


-----------------------------------------------------------------------------
(* What net_hrecv announces is in the queue.                               *)

(* A fetch that is posted finds the datagram that was promised to it. *)
LEMMA ServedFetch ==
  ASSUME TypeOK, Lent, Sends, Fetches, Kept, Serve, hdr.msg_code = "treatReceivedBuffer"
  PROVE  /\ treatRcvMsg /\ reply = Nothing /\ reply' # Nothing /\ vm.at = "wait" /\ Fetching
         /\ receivedBytes # <<>> => reply' \in Datagram /\ Len(receivedBytes') = Len(receivedBytes) - 1
         /\ receivedBytes = <<>> => reply' = Zeros /\ receivedBytes' = <<>>
<1>1. treatRcvMsg /\ loop.at = "serve"
  BY ServesOwn DEF Serve
<1>2. reply = Nothing /\ vm.at = "wait" /\ Fetching
  BY <1>1 DEF Fetches
<1>3. receivedBytes # <<>> => reply' \in Datagram /\ Len(receivedBytes') = Len(receivedBytes) - 1
  BY <1>1, HeadTailProperties DEF treatRcvMsg, TypeOK
<1>4. receivedBytes = <<>> => reply' = Zeros /\ receivedBytes' = <<>>
  BY <1>1 DEF treatRcvMsg
<1> QED
  BY <1>1, <1>2, <1>3, <1>4, NetAssumption DEF Zeros, Nothing, Datagram

LEMMA KeptStays ==
  ASSUME TypeOK, Lent, Sends, Down, Fetches, Kept, [Next]_vars
  PROVE  Kept'
<1>0. Len(receivedBytes) \in Nat /\ Zeros # Nothing
  BY LenProperties, NetAssumption DEF TypeOK, Zeros, Nothing
<1> USE DEF Kept, PolledGetFinds, Promised, Counted, Fetching, TypeOK, Header, VmRecord, RcvRecord, HistRecord
<1>1. CASE UNCHANGED <<vm, reply, hdr, loop, receivedBytes, rcv, hist, stray>>
  BY <1>1
<1>2. CASE Instruction
  <2>1. CASE net_open
    <3>1. CASE StartStream /\ vm' = [vm EXCEPT !.request = @ + 1]
      BY <1>0, <2>1, <3>1 DEF net_open, StartStream, NewHeader, data
    <3>2. CASE stream
      <4>1. vm'.at = "join" /\ vm'.op = vm.op /\ vm.at = "idle" /\ hdr'.hasReceived = hdr.hasReceived
            /\ UNCHANGED <<reply, loop, receivedBytes, rcv, hist, stray>>
        BY <2>1, <3>2 DEF net_open, receiver, data
      <4> QED
        BY <4>1
    <3> QED
      BY <2>1, <3>1, <3>2 DEF net_open
  <2>2. ASSUME NEW code \in Requests, NEW e \in Endpoint, Call(code, e)
        PROVE  Kept'
    <3>1. CASE code = "treatReceivedBuffer"
      <4>1. /\ vm'.at = "post" /\ vm'.op = code /\ vm.at = "idle" /\ hdr'.hasReceived = hdr.hasReceived
            /\ reply' = Nothing /\ UNCHANGED <<loop, receivedBytes, rcv, stray>>
        BY <2>2 DEF Call, receiver, data
      <4>2. /\ hist'.polite => hist.polite /\ hist.credit > 0
            /\ hist.credit > 0 => hist'.credit = hist.credit - 1
        BY <2>2, <3>1 DEF Call
      <4> QED
        BY <1>0, <3>1, <4>1, <4>2
    <3>2. CASE code # "treatReceivedBuffer"
      BY <1>0, <2>2, <3>2 DEF Call, receiver, data
    <3> QED
      BY <3>1, <3>2
  <2>3. CASE net_close \/ net_selep
    <3>1. vm.at = "idle" /\ vm'.at \in {"idle", "join"} /\ vm'.op = vm.op /\ hdr'.hasReceived = hdr.hasReceived
          /\ UNCHANGED <<reply, loop, receivedBytes, rcv, hist, stray>>
      BY <2>3 DEF net_close, net_selep, receiver, data
    <3> QED
      BY <3>1
  <2>4. CASE net_hrecv
    <3>1. hdr.hasReceived /\ ~hdr'.hasReceived /\ hist'.credit = hist.credit + 1 /\ hist'.polite = hist.polite
          /\ UNCHANGED <<vm, reply, loop, receivedBytes, rcv, stray>>
      BY <2>4 DEF net_hrecv, receiver, data
    <3> QED
      BY <1>0, <3>1
  <2> QED
    BY <1>2, <2>1, <2>2, <2>3, <2>4, NetAssumption DEF Instruction, net_get, net_send, net_crtep, Requests
<1>3. CASE VmStep
  <2>1. CASE Destroyed
    <3>1. CASE StartStream
      BY <1>0, <2>1, <3>1 DEF StartStream, Destroyed, NewHeader, data
    <3>2. CASE ~StartStream
      BY <2>1, <3>2 DEF Destroyed, Down, data
    <3> QED
      BY <3>1, <3>2
  <2>2. CASE Post
    <3>1. vm'.at = "wait" /\ vm'.op = vm.op
      BY <2>2 DEF Post
    <3> QED
      BY <2>2, <3>1 DEF Post, receiver, data
  <2>3. CASE Joined
    <3>1. vm'.at = "linger" /\ vm'.op = vm.op
      BY <2>3 DEF Joined
    <3> QED
      BY <2>3, <3>1 DEF Joined, receiver, data
  <2>4. CASE GetDone
    BY <1>0, <2>4 DEF GetDone, Waited, receiver, data
  <2>5. CASE EndpointDone
    <3>1. /\ vm.op = "addEndpoint" /\ vm'.op = vm.op /\ hdr'.hasReceived = hdr.hasReceived
          /\ hist'.credit = hist.credit /\ hist'.polite = hist.polite
          /\ UNCHANGED <<reply, loop, receivedBytes, rcv, stray>>
      BY <2>5 DEF EndpointDone, Waited, receiver, data
    <3> QED
      BY <3>1
  <2>6. CASE SendPoll
    BY <2>6 DEF SendPoll, PollAgain, Waited, receiver, data
  <2> QED
    BY <1>3, <2>1, <2>2, <2>3, <2>4, <2>5, <2>6 DEF VmStep
<1>4. CASE LoopStep
  <2>1. CASE Serve
    <3>1. CASE hdr.msg_code = "treatReceivedBuffer"
      <4>1. UNCHANGED <<vm, rcv, hist, stray>> /\ hdr'.hasReceived = hdr.hasReceived /\ loop.at = "serve"
        BY <2>1, <3>1, ServesOwn DEF Serve, receiver, treatRcvMsg
      <4>2. hist.polite => receivedBytes # <<>> \/ stray # "no"
        BY <1>0, <2>1, <3>1, <4>1, ServedFetch
      <4>3. stray = "no"
        BY <1>4 DEF LoopStep
      <4>4. hist.polite => reply' # Zeros /\ Len(receivedBytes') = Len(receivedBytes) - 1
        BY <2>1, <3>1, <4>2, <4>3, ServedFetch, NetAssumption DEF Datagram, Zeros
      <4>5. reply = Nothing /\ reply' # Nothing /\ Fetching
        BY <2>1, <3>1, ServedFetch
      <4>6. hist.polite /\ stray = "no" => Promised' = Promised - 1 /\ Promised <= Len(receivedBytes)
        BY <1>0, <4>1, <4>5
      <4>7. Promised \in Nat
        OBVIOUS
      <4> QED
        BY <1>0, <4>1, <4>3, <4>4, <4>6, <4>7
    <3>2. CASE hdr.msg_code # "treatReceivedBuffer"
      <4>1. UNCHANGED <<vm, rcv, reply, receivedBytes>> /\ hdr'.hasReceived = hdr.hasReceived
            /\ loop.at = "serve"
        BY <2>1, <3>2 DEF Serve, receiver, data, sendFct, addEndpoint
      <4>2. hist'.credit = hist.credit /\ hist'.polite = hist.polite /\ (stray' = "no" => stray = "no")
        BY <1>4, <2>1, <3>2 DEF Serve, sendFct, addEndpoint, LoopStep
      <4> QED
        BY <4>1, <4>2
    <3> QED
      BY <3>1, <3>2
  <2>2. CASE Startup
    BY <2>2 DEF Startup, Down
  <2>3. CASE LoopLock \/ Ending \/ Teardown
    <3>1. loop.at # "off" /\ hdr'.hasReceived = hdr.hasReceived /\ UNCHANGED <<vm, reply, rcv, hist, stray>>
          /\ (loop'.at # "off" => UNCHANGED receivedBytes)
      BY <2>3 DEF LoopLock, Ending, Teardown, data, receiver, LoopRecord
    <3> QED
      BY <3>1
  <2> QED
    BY <1>4, <2>1, <2>2, <2>3 DEF LoopStep
<1>5. CASE RcvStep \/ Network
  <2>1. CASE RcvPush
    <3>1. loop.at # "off" /\ stray' = "no" => /\ receivedBytes' = Append(receivedBytes, rcv.got)
                           /\ rcv' = [rcv EXCEPT !.at = "flag"] /\ stray = "no"
      BY <2>1 DEF RcvPush
    <3>2. \A d : Len(Append(receivedBytes, d)) = Len(receivedBytes) + 1
      OBVIOUS
    <3> QED
      BY <1>0, <2>1, <3>1, <3>2 DEF RcvPush, vmAndLoop
  <2>2. CASE RcvFlag
    <3>1. rcv'.at = "sleep" /\ hdr'.hasReceived
      BY <2>2 DEF RcvFlag, RcvSleep
    <3> QED
      BY <1>0, <2>2, <3>1 DEF RcvFlag, vmAndLoop
  <2>3. CASE RcvError
    <3>1. rcv'.at = "sleep"
      BY <2>3 DEF RcvError, RcvSleep
    <3> QED
      BY <2>3, <3>1 DEF RcvError, vmAndLoop
  <2>4. CASE RcvReturn
    BY <2>4 DEF RcvReturn, AfterRecv, vmAndLoop
  <2> QED
    BY <1>5, <2>1, <2>2, <2>3, <2>4 DEF vmAndLoop, RcvStep, Network, Arrive, RcvCheck, RcvCall, RcvWake
<1>6. CASE Tick
  BY <1>6 DEF Tick, data
<1> QED
  BY <1>1, <1>2, <1>3, <1>4, <1>5, <1>6 DEF Next, vars, data, receiver

-----------------------------------------------------------------------------
(* The receive thread and the end of a stream.                             *)

LEMMA LeavingStays ==
  ASSUME Punctual, TypeOK, Periods, Down, Leaving, [Next]_vars
  PROVE  Leaving'
<1>0. /\ RcvPeriod + Jitter \in Nat /\ vm.timer \in Nat /\ rcv.timer \in Nat /\ rcv.timer <= RcvPeriod + Jitter
      /\ \A n \in Sleep(Linger) : n \in Nat /\ n > RcvPeriod + Jitter
  BY NetAssumption, Waits DEF Punctual, Periods, TypeOK, VmRecord, RcvRecord, Sleep
<1> USE DEF Leaving, TypeOK, VmRecord, RcvRecord
<1>1. CASE UNCHANGED <<vm, rcv, stray>>
  BY <1>1
<1>2. CASE Instruction
  BY <1>2 DEF StartStream, Instruction, net_open, net_close, Call, net_get, net_send, net_crtep,
              net_selep, net_hrecv
<1>3. CASE VmStep
  <2>1. CASE Joined
    <3>1. PICK n \in Sleep(Linger) : vm' = [vm EXCEPT !.at = "linger", !.timer = n]
      BY <2>1 DEF Joined
    <3>2. vm'.timer = n /\ UNCHANGED rcv
      BY <2>1, <3>1 DEF Joined, receiver
    <3> QED
      BY <1>0, <3>2
  <2>2. CASE Post \/ SendPoll
    <3>1. vm'.at # "linger"
      BY <2>2 DEF Post, SendPoll, PollAgain, Waited
    <3> QED
      BY <3>1
  <2> QED
    BY <1>3, <2>1, <2>2 DEF VmStep, Destroyed, GetDone, EndpointDone
<1>4. CASE LoopStep
  BY <1>4 DEF Down, LoopStep, Startup, LoopLock, Serve, Ending, Teardown, receiver
<1>5. CASE RcvStep \/ Network
  <2>1. CASE RcvFlag
    <3>1. PICK n \in Sleep(RcvPeriod) : rcv' = [rcv EXCEPT !.at = "sleep", !.timer = n]
      BY <2>1 DEF RcvFlag, RcvSleep
    <3>2. n <= RcvPeriod + Jitter /\ n \in Nat
      BY NetAssumption DEF Sleep, RcvPeriod
    <3> QED
      BY <1>0, <2>1, <3>1, <3>2 DEF RcvFlag, vmAndLoop
  <2>2. CASE RcvPush \/ RcvError
    BY <2>2 DEF RcvPush, RcvError, vmAndLoop, Down
  <2>3. CASE RcvReturn
    BY <2>3 DEF RcvReturn, AfterRecv, vmAndLoop
  <2> QED
    BY <1>0, <1>5, <2>1, <2>2, <2>3 DEF vmAndLoop, RcvStep, Network, Arrive, RcvCheck, RcvCall, RcvWake
<1>6. CASE Tick
  BY <1>0, <1>6 DEF Tick, Quiet, Elapsed
<1> QED
  BY <1>1, <1>2, <1>3, <1>4, <1>5, <1>6 DEF Next, vars, receiver


-----------------------------------------------------------------------------
(* The theorems.                                                           *)

(* Whatever the delays, the types and the requests to send hold up. *)
SendInv == TypeOK /\ Bytes /\ Lent /\ Sends

LEMMA InitHolds == Init => SendInv /\ Periods /\ Endpoints /\ Down /\ Fetches /\ OwnBuffers /\ Kept /\ Leaving
<1> SUFFICES ASSUME Init
             PROVE  SendInv /\ Periods /\ Endpoints /\ Down /\ Fetches /\ OwnBuffers /\ Kept /\ Leaving
  OBVIOUS
<1>1. TypeOK
  BY InitType
<1>2. Periods
  BY NetAssumption DEF Init, Periods, LoopPeriod, RcvPeriod
<1>3. Bytes /\ Lent /\ Sends /\ Endpoints /\ Down /\ Fetches /\ Leaving /\ OwnBuffers
  BY DEF Init, NewHeader, Bytes, Lent, Sends, Sending, Endpoints, Down, Fetches, Fetching, Leaving, OwnBuffers,
         Requests
<1>4. Kept
  BY NetAssumption DEF Init, Kept, PolledGetFinds, Nothing, Zeros
<1> QED
  BY <1>1, <1>2, <1>3, <1>4 DEF SendInv

LEMMA SendInvStays == SendInv /\ [Next]_vars => SendInv'
BY TypeStays, BytesStays, LentStays, SendsStay DEF SendInv

LEMMA SendInvAlways == Spec => []SendInv
BY InitHolds, SendInvStays, PTL DEF Spec

(* Every variable keeps its type: no wait, count or buffer exceeds its     *)
(* bound, and only datagrams with bytes are queued.                        *)
THEOREM TypeCorrect == Spec => []TypeOK
<1>1. SendInv => TypeOK
  BY DEF SendInv
<1> QED
  BY <1>1, SendInvAlways, PTL

(* net_send returns when its data have been handed to sendto, once,        *)
(* however late the threads wake up (net_symbols.cpp:129, unixnet.cpp:92). *)
THEOREM SentOnce == Spec => SentBeforeReturn
<1>1. SendInv /\ [Next]_vars => [Waited("sendBuffer") /\ vm'.at = "idle" => hist.sends = 1]_vars
  <2> SUFFICES ASSUME SendInv, Next, Waited("sendBuffer"), vm'.at = "idle" PROVE hist.sends = 1
    OBVIOUS
  <2>1. SendPoll
    BY DEF SendInv, TypeOK, VmRecord, Waited, Next, Instruction, net_open, net_close, Call, net_get,
           net_send, net_crtep, net_selep, net_hrecv, VmStep, Joined, Destroyed, Post, GetDone, EndpointDone,
           LoopStep, Startup, LoopLock, Serve, Ending, Teardown, RcvStep, Network, Arrive, RcvCheck, RcvCall,
           RcvReturn, RcvError, RcvPush, RcvFlag, RcvWake, vmAndLoop, Tick
  <2>2. hdr.bufferSent
    BY <2>1 DEF SendPoll, PollAgain, Waited, SendInv, TypeOK, VmRecord
  <2> QED
    BY <2>2 DEF SendInv, Sends
<1> QED
  BY <1>1, SendInvAlways, PTL DEF Spec, SentBeforeReturn

(* What the waits of the code secure when no sleep is too late. *)
IInv == SendInv /\ Periods /\ Endpoints /\ Down /\ Fetches /\ OwnBuffers /\ Kept /\ Leaving

LEMMA IInvAlways ==
  ASSUME Punctual
  PROVE  Spec => []IInv
<1>1. Init => IInv
  BY InitHolds DEF IInv
<1>2. IInv /\ [Next]_vars => IInv'
  BY SendInvStays, PeriodsStay, EndpointsStay, DownStays, FetchesStay, OwnStays, KeptStays, LeavingStays DEF IInv, SendInv
<1> QED
  BY <1>1, <1>2, PTL DEF Spec

(* When the loop fills the buffer of a net_get or reads the one of a       *)
(* net_send (unixnet.cpp:167-172), that instruction still waits and the    *)
(* buffer is its own.  An endpoint is added from the buffer of the         *)
(* net_crtep that waits for it too (unixnet.cpp:173-180), unless the       *)
(* request is of one that has returned: its 100 ms (net_symbols.cpp:220)   *)
(* may be over before the loop wakes, and what it left in the slot is then *)
(* served on a buffer that is not its own.                                 *)
THEOREM BuffersOwned ==
  ASSUME Punctual
  PROVE  Spec => []OwnBuffers
<1>1. IInv => OwnBuffers
  BY DEF IInv
<1> QED
  BY <1>1, IInvAlways, PTL

(* When net_get looks, the loop has answered (net_symbols.cpp:64).         *)
THEOREM AnsweredInTime ==
  ASSUME Punctual
  PROVE  Spec => []ServedInTime
<1>1. IInv => ServedInTime
  BY FetchedInTime DEF IInv, SendInv
<1> QED
  BY <1>1, IInvAlways, PTL

(* A fetch that net_hrecv announced finds a datagram, for any number of    *)
(* datagrams that arrive while hasReceived is being read and reset.        *)
THEOREM AnnouncedFound ==
  ASSUME Punctual
  PROVE  Spec => []PolledGetFinds
<1>1. IInv => PolledGetFinds
  BY DEF IInv, Kept
<1> QED
  BY <1>1, IInvAlways, PTL

(* When destroy frees the headers no receive thread is between two calls   *)
(* of recv.                                                                *)
THEOREM ReceiverGone ==
  ASSUME Punctual
  PROVE  Spec => ReceiverLeavesFirst
<1>1. IInv /\ [Next]_vars => [vm.at = "linger" /\ vm'.at = "idle"
                                => rcv.at \notin {"flag", "sleep", "check", "recv"}]_vars
  <2> SUFFICES ASSUME IInv, Next, vm.at = "linger", vm'.at = "idle"
               PROVE  rcv.at \notin {"flag", "sleep", "check", "recv"}
    OBVIOUS
  <2>1. vm.timer = 0 /\ stray = "no"
    BY DEF IInv, SendInv, TypeOK, VmRecord, Waited, Next, Instruction, net_open, net_close, Call, net_get,
           net_send, net_crtep, net_selep, net_hrecv, VmStep, Joined, Destroyed, Post, GetDone, EndpointDone,
           SendPoll, LoopStep, Startup, LoopLock, Serve, Ending, Teardown, RcvStep, Network, Arrive, RcvCheck,
           RcvCall, RcvReturn, RcvError, RcvPush, RcvFlag, RcvWake, vmAndLoop, Tick
  <2>2. RcvPeriod + Jitter \in Nat /\ rcv.timer \in Nat
    BY NetAssumption, Waits DEF IInv, SendInv, TypeOK, RcvRecord
  <2> QED
    BY <2>1, <2>2 DEF IInv, Leaving
<1> QED
  BY <1>1, IInvAlways, PTL DEF Spec, ReceiverLeavesFirst


-----------------------------------------------------------------------------
(* The stream implements DatagramQueue.                                    *)

(* What the last fetch handed over, as the refinement sees it. *)
Given == IF Fetching /\ vm.at = "wait" /\ reply # Nothing THEN reply ELSE answer

(* Every step receives a datagram, hands one over, finds none, closes the  *)
(* queue or leaves it alone.                                               *)
LEMMA StepHandsOver ==
  ASSUME IInv, [Next]_vars
  PROVE  \/ UNCHANGED <<receivedBytes, Given>>
         \/ \E d \in Datagram : receivedBytes' = Append(receivedBytes, d) /\ UNCHANGED Given
         \/ receivedBytes # <<>> /\ Given' = Head(receivedBytes) /\ receivedBytes' = Tail(receivedBytes)
         \/ receivedBytes = <<>> /\ Given' \in {Zeros, Nothing} /\ UNCHANGED receivedBytes
         \/ receivedBytes' = <<>> /\ UNCHANGED Given
<1>0. TypeOK /\ Bytes /\ Lent /\ Sends /\ Down /\ Fetches /\ Kept
  BY DEF IInv, SendInv
<1> USE DEF Given, Fetching
<1>1. CASE UNCHANGED <<vm, reply, answer, receivedBytes>>
  BY <1>1
<1>2. CASE Instruction
  <2>1. /\ vm.at = "idle" /\ vm'.at \in {"idle", "join", "post"} /\ UNCHANGED <<answer, receivedBytes>>
    BY <1>0, <1>2 DEF TypeOK, VmRecord, Instruction, net_open, net_close, Call, net_get, net_send, net_crtep,
                      net_selep, net_hrecv, data
  <2> QED
    BY <2>1
<1>3. CASE VmStep
  <2>1. CASE Joined \/ Destroyed
    <3>1. /\ vm.at \in {"join", "linger"} /\ vm'.at \in {"idle", "linger"}
          /\ UNCHANGED <<answer, receivedBytes>>
      BY <1>0, <2>1 DEF TypeOK, VmRecord, Joined, Destroyed, data
    <3> QED
      BY <3>1
  <2>2. CASE Post
    <3>1. /\ vm.at = "post" /\ vm'.at = "wait" /\ vm'.op = vm.op /\ UNCHANGED <<answer, reply, receivedBytes>>
      BY <1>0, <2>2 DEF TypeOK, VmRecord, Post, data
    <3>2. Fetching => reply = Nothing
      BY <1>0, <2>2, <3>1 DEF Fetches
    <3> QED
      BY <3>1, <3>2
  <2>3. CASE GetDone
    <3>1. /\ answer' = reply /\ vm'.at = "idle" /\ vm.at = "wait" /\ vm.op = "treatReceivedBuffer"
          /\ vm.timer = 0 /\ UNCHANGED receivedBytes
      BY <1>0, <2>3 DEF TypeOK, VmRecord, GetDone, Waited, data
    <3>2. CASE reply = Nothing
      <4>1. loop.at = "off"
        BY <1>0, <3>1, <3>2 DEF Fetches
      <4> QED
        BY <1>0, <3>1, <3>2, <4>1 DEF Down
    <3>3. CASE reply # Nothing
      BY <3>1, <3>3
    <3> QED
      BY <3>2, <3>3
  <2>4. CASE EndpointDone \/ SendPoll
    <3>1. vm.op # "treatReceivedBuffer" /\ vm'.op = vm.op /\ UNCHANGED <<answer, receivedBytes>>
      BY <1>0, <2>4 DEF TypeOK, VmRecord, EndpointDone, SendPoll, PollAgain, Waited, data
    <3> QED
      BY <3>1
  <2> QED
    BY <1>3, <2>1, <2>2, <2>3, <2>4 DEF VmStep
<1>4. CASE LoopStep
  <2>1. CASE Serve /\ hdr.msg_code = "treatReceivedBuffer"
    <3>1. treatRcvMsg /\ reply' # Nothing /\ vm.at = "wait" /\ Fetching /\ UNCHANGED <<vm, answer>>
      BY <1>0, <2>1, ServedFetch DEF Serve
    <3> QED
      BY <3>1 DEF treatRcvMsg
  <2>2. CASE Serve /\ hdr.msg_code # "treatReceivedBuffer"
    BY <2>2 DEF Serve, sendFct, addEndpoint, data
  <2>3. CASE Teardown
    BY <2>3 DEF Teardown
  <2> QED
    BY <1>4, <2>1, <2>2, <2>3 DEF LoopStep, Startup, LoopLock, Ending, data
<1>5. CASE RcvStep \/ Network
  <2>1. CASE RcvPush
    <3>1. rcv.got \in Datagram
      BY <1>0, <2>1 DEF RcvPush, TypeOK, RcvRecord, Bytes
    <3> QED
      BY <2>1, <3>1 DEF RcvPush, vmAndLoop
  <2> QED
    BY <1>5, <2>1 DEF vmAndLoop, RcvStep, Network, Arrive, RcvCheck, RcvCall, RcvReturn, RcvError, RcvFlag,
                      RcvWake
<1>6. CASE Tick
  <2>1. vm'.at = vm.at /\ vm'.op = vm.op /\ UNCHANGED <<reply, answer, receivedBytes>>
    BY <1>0, <1>6 DEF TypeOK, VmRecord, Tick, data
  <2> QED
    BY <2>1
<1> QED
  BY <1>1, <1>2, <1>3, <1>4, <1>5, <1>6 DEF Next, vars, data

(* A program is handed every datagram at most once and in the order of     *)
(* arrival, and zeros only when none is waiting: what net_get promises     *)
(* (net_symbols.cpp:64), for any number of datagrams, streams opened again *)
(* and fetches that find nothing.                                          *)
THEOREM HandedOverInOrder ==
  ASSUME Punctual
  PROVE  Spec => Handover
<1>1. Init => Queue!Init
  BY DEF Init, Queue!Init
<1>2. IInv /\ [Next]_vars => [Queue!Next]_(Queue!queueVars)
  <2> SUFFICES ASSUME IInv, [Next]_vars PROVE [Queue!Next]_(Queue!queueVars)
    OBVIOUS
  <2>1. /\ Given = IF vm.at = "wait" /\ vm.op = "treatReceivedBuffer" /\ reply # Nothing THEN reply ELSE answer
        /\ Given' = IF vm'.at = "wait" /\ vm'.op = "treatReceivedBuffer" /\ reply' # Nothing THEN reply' ELSE answer'
    BY DEF Given, Fetching
  <2> QED
    BY <2>1, StepHandsOver
       DEF Queue!Next, Queue!Receive, Queue!Fetch, Queue!FetchNothing, Queue!Close, Queue!queueVars
<1> QED
  BY <1>1, <1>2, IInvAlways, PTL DEF Spec, Handover, Queue!Spec

=============================================================================
