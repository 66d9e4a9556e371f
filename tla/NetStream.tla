------------------------------ MODULE NetStream ------------------------------
(***************************************************************************)
(* One network stream (Networking/): the thread that runs the VM and its   *)
(* network instructions (net_symbols.cpp, netman.cpp), the network loop    *)
(* and the receive thread (unixnet.cpp).                                   *)
(*                                                                         *)
(* The VM posts a request in a one-place slot and lends the loop a buffer; *)
(* then it sleeps for a fixed time (get, create endpoint) or polls (send). *)
(* Time passes in units of 50 ms, and only when no thread has anything to  *)
(* do; a sleep takes what it asks for and up to Jitter units more.         *)
(*                                                                         *)
(* "stray" records that a thread used memory that is not, or no longer, what *)
(* it takes it for.  C++ defines nothing after that; the model stops.       *)
(***************************************************************************)
EXTENDS Naturals, Sequences

CONSTANTS
  Jitter,       \* how late a sleep may end
  Endpoint,     \* the ids of endpoints, 0 among them
  MaxRequests,  \* bound: the instructions that open a stream or post a request
  MaxArrivals   \* bound: the datagrams that arrive

ASSUME NetAssumption ==
  /\ Jitter \in Nat /\ 0 \in Endpoint
  /\ MaxRequests \in Nat /\ MaxArrivals \in Nat

\* Datagrams are numbered in the order they arrive; 0 is one without bytes.
Datagram == 1..MaxArrivals
Zeros == MaxArrivals + 1
Nothing == MaxArrivals + 2
Pulled == Datagram \cup {Zeros, Nothing}
Requests == {"treatReceivedBuffer", "sendBuffer", "addEndpoint"}

VARIABLES
  vm,             \* the VM: where it is, the instruction it executes
  answer,         \* what the last net_get stored in memory
  reply,          \* what treatRcvMsg wrote in the buffer of the request
  stream,         \* whether netman has the stream
  hdr,            \* its running_hdr
  loop,           \* the network loop
  endpoints, receivedBytes,
  rcv,            \* the receive thread, with the datagram it got
  inbox,          \* the datagrams its socket holds
  hist,           \* history: the number of datagrams; how often the last net_send
                  \* was handed to sendto; the answers 1 of net_hrecv no net_get
                  \* has used; whether every net_get had one to use; whether
                  \* the request last posted was still unserved when its net_crtep
                  \* returned
  stray

vars == <<vm, answer, reply, stream, hdr, loop, endpoints, receivedBytes, rcv, inbox,
          hist, stray>>
data == <<endpoints, receivedBytes>>
receiver == <<rcv, inbox>>

Header ==
  [msg_code : Requests \cup {"NOP"}, transferBuffer : 0..MaxRequests,
   selectedEP : Endpoint,
   stopRequested : BOOLEAN, hasReceived : BOOLEAN, stopReceiving : BOOLEAN,
   bufferSent : BOOLEAN]

NewHeader ==
  [msg_code |-> "NOP", transferBuffer |-> 0, selectedEP |-> 0, stopRequested |-> FALSE,
   hasReceived |-> FALSE, stopReceiving |-> FALSE, bufferSent |-> FALSE]

\* The waits of the code, in units of 50 ms, and mutants of them.
LoopPeriodDoubled == 4
LoopPeriod == 2
RcvPeriod == 2
GetWaitHalved == 2
GetWait == 4
EndpointWait == 2
SendPollPeriod == 1
NoLinger == 0
Linger == 4

Sleep(n) == n..(n + Jitter)

\* recv_mtx: the loop holds it while it serves a request.
recv_mtx_free == loop.at # "serve"

-----------------------------------------------------------------------------
(* The VM.                                                                 *)

\* A new stream: fresh headers, and a thread that starts.
StartStream ==
  /\ stream' = TRUE /\ hdr' = NewHeader
  /\ loop' = [loop EXCEPT !.at = "start"]
  /\ rcv' = [rcv EXCEPT !.at = "none"] /\ inbox' = <<>>
  /\ hist' = [hist EXCEPT !.credit = 0, !.unserved = FALSE]

\* net_open; a stream that is open already is closed first.
net_open ==
  /\ vm.at = "idle" /\ vm.request < MaxRequests
  /\ \/ /\ ~stream
        /\ StartStream
        /\ vm' = [vm EXCEPT !.request = @ + 1]
     \/ /\ stream
        /\ hdr' = [hdr EXCEPT !.stopRequested = TRUE]
        /\ vm' = [vm EXCEPT !.request = @ + 1, !.at = "join", !.reopening = TRUE]
        /\ UNCHANGED <<stream, loop, receiver, hist>>
  /\ UNCHANGED <<answer, reply, data, stray>>

\* net_close: destroy asks the loop to stop and joins its thread.
net_close ==
  /\ vm.at = "idle" /\ stream
  /\ hdr' = [hdr EXCEPT !.stopRequested = TRUE]
  /\ vm' = [vm EXCEPT !.at = "join", !.reopening = FALSE]
  /\ UNCHANGED <<answer, reply, stream, loop, data, receiver, hist, stray>>

Joined ==
  /\ vm.at = "join" /\ loop.at = "off"
  /\ \E n \in Sleep(Linger) : vm' = [vm EXCEPT !.at = "linger", !.timer = n]
  /\ UNCHANGED <<answer, reply, stream, hdr, loop, data, receiver, hist, stray>>

\* The end of destroy, which frees the headers; net_open goes on.  A receive
\* thread that is blocked in recv keeps waiting, one that is not uses them.
Destroyed ==
  /\ vm.at = "linger" /\ vm.timer = 0
  /\ vm' = [vm EXCEPT !.at = "idle"]
  /\ stray' = IF rcv.at \in {"none", "ended", "blocked"} THEN "no" ELSE "receiver"
  /\ \/ vm.reopening /\ StartStream
     \/ /\ ~vm.reopening
        /\ stream' = FALSE
        /\ rcv' = [rcv EXCEPT !.at = "none"] /\ inbox' = <<>>
        /\ UNCHANGED <<hdr, loop, hist>>
  /\ UNCHANGED <<answer, reply, data>>

\* net_get, net_send and net_crtep lend their buffer before they take recv_mtx.
Call(code, e) ==
  /\ vm.at = "idle" /\ stream /\ vm.request < MaxRequests
  /\ vm' = [vm EXCEPT !.at = "post", !.op = code, !.arg = e, !.request = @ + 1,
                      !.saved = hdr.transferBuffer]
  /\ hdr' = [hdr EXCEPT !.transferBuffer = vm.request + 1]
  /\ reply' = Nothing
  /\ hist' = IF code = "treatReceivedBuffer"
               THEN [hist EXCEPT !.polite = @ /\ hist.credit > 0,
                                 !.credit = IF @ > 0 THEN @ - 1 ELSE 0]
               ELSE [hist EXCEPT !.sends = 0]
  /\ UNCHANGED <<answer, stream, loop, data, receiver, stray>>

net_get == Call("treatReceivedBuffer", 0)
net_send == Call("sendBuffer", 0)
net_crtep == \E e \in Endpoint : Call("addEndpoint", e)

Wait(code) ==
  CASE code = "treatReceivedBuffer" -> Sleep(GetWait)
    [] code = "addEndpoint" -> Sleep(EndpointWait)
    [] code = "sendBuffer" -> {0}

Post ==
  /\ vm.at = "post" /\ recv_mtx_free
  /\ hdr' = [hdr EXCEPT !.msg_code = vm.op]
  /\ \E n \in Wait(vm.op) : vm' = [vm EXCEPT !.at = "wait", !.timer = n]
  /\ hist' = [hist EXCEPT !.unserved = FALSE]
  /\ UNCHANGED <<answer, reply, stream, loop, data, receiver, stray>>

Waited(code) == vm.at = "wait" /\ vm.op = code /\ vm.timer = 0

\* The program gets what is in the buffer now, served or not.
GetDone ==
  /\ Waited("treatReceivedBuffer")
  /\ answer' = reply
  /\ vm' = [vm EXCEPT !.at = "idle"]
  /\ UNCHANGED <<reply, stream, hdr, loop, data, receiver, hist, stray>>

\* net_crtep frees its buffer, served or not, and puts back the pointer it found,
\* which an instruction that is over may have left.
EndpointDone ==
  /\ Waited("addEndpoint")
  /\ hdr' = [hdr EXCEPT !.transferBuffer = vm.saved]
  /\ vm' = [vm EXCEPT !.at = "idle"]
  /\ hist' = [hist EXCEPT !.unserved = hdr.msg_code = "addEndpoint"]
  /\ UNCHANGED <<answer, reply, stream, loop, data, receiver, stray>>

PollAgain ==
  /\ \E n \in Sleep(SendPollPeriod) : vm' = [vm EXCEPT !.timer = n]
  /\ UNCHANGED hdr

\* Mutant: the flag is not reset when the send is over.
SendPollKeepsFlag ==
  /\ Waited("sendBuffer")
  /\ \/ hdr.bufferSent /\ vm' = [vm EXCEPT !.at = "idle"] /\ UNCHANGED hdr
     \/ ~hdr.bufferSent /\ PollAgain
  /\ UNCHANGED <<answer, reply, stream, loop, data, receiver, hist, stray>>

\* One look at bufferSent, under sent_mtx.
SendPoll ==
  /\ Waited("sendBuffer")
  /\ \/ /\ hdr.bufferSent
        /\ hdr' = [hdr EXCEPT !.bufferSent = FALSE]
        /\ vm' = [vm EXCEPT !.at = "idle"]
     \/ ~hdr.bufferSent /\ PollAgain
  /\ UNCHANGED <<answer, reply, stream, loop, data, receiver, hist, stray>>

net_selep ==
  /\ vm.at = "idle" /\ stream
  /\ \E e \in Endpoint : hdr' = [hdr EXCEPT !.selectedEP = e]
  /\ UNCHANGED <<vm, answer, reply, stream, loop, data, receiver, hist, stray>>

\* Mutant: the answer 1 leaves the flag set.
net_hrecvKeepsFlag ==
  /\ vm.at = "idle" /\ stream /\ hdr.hasReceived /\ hist.credit < MaxArrivals
  /\ hist' = [hist EXCEPT !.credit = @ + 1]
  /\ UNCHANGED <<vm, answer, reply, stream, hdr, loop, data, receiver, stray>>

\* net_hrecv; the answer 0 changes nothing.
net_hrecv ==
  /\ vm.at = "idle" /\ stream /\ hdr.hasReceived
  /\ hdr' = [hdr EXCEPT !.hasReceived = FALSE]
  /\ hist' = [hist EXCEPT !.credit = @ + 1]
  /\ UNCHANGED <<vm, answer, reply, stream, loop, data, receiver, stray>>

-----------------------------------------------------------------------------
(* The network loop.                                                       *)

\* netint_submain and the start of unixnet_poststartup, which may fail.
Startup ==
  /\ loop.at = "start"
  /\ \/ /\ loop' = [at |-> "sleep", timer |-> 0]
        /\ endpoints' = {0}
        /\ rcv' = [rcv EXCEPT !.at = "check"]
     \/ /\ loop' = [loop EXCEPT !.at = "off"]
        /\ UNCHANGED <<endpoints, rcv>>
  /\ UNCHANGED <<vm, answer, reply, stream, hdr, receivedBytes, inbox, hist, stray>>

\* The loop takes recv_mtx.
LoopLock ==
  /\ loop.at = "sleep" /\ loop.timer = 0
  /\ loop' = [loop EXCEPT !.at = "serve"]
  /\ UNCHANGED <<vm, answer, reply, stream, hdr, data, receiver, hist, stray>>

\* The buffer the loop is about to use is the one the request came with: its
\* instruction waits.  One that is still to post has lent a buffer already, but
\* the request in the slot is an earlier one.
OwnBuffer ==
  /\ vm.at = "wait" /\ vm.op = hdr.msg_code
  /\ hdr.transferBuffer = vm.request

\* Mutant: the datagram that is handed over stays in the queue.
treatRcvMsgKeeps ==
  /\ reply' = IF receivedBytes = <<>> THEN Zeros ELSE Head(receivedBytes)
  /\ UNCHANGED <<data, hist>>

treatRcvMsg ==
  /\ \/ receivedBytes = <<>> /\ reply' = Zeros /\ UNCHANGED receivedBytes
     \/ /\ receivedBytes # <<>>
        /\ reply' = Head(receivedBytes)
        /\ receivedBytes' = Tail(receivedBytes)
  /\ UNCHANGED <<endpoints, hist>>

\* sendto fails for an endpoint that does not exist, and may fail for others;
\* whether it does or not, the sender is told.
sendFct ==
  /\ hist' = [hist EXCEPT !.sends = @ + 1]
  /\ UNCHANGED <<reply, data>>

addEndpoint ==
  /\ endpoints' = endpoints \cup {vm.arg}
  /\ UNCHANGED <<reply, receivedBytes, hist>>

\* Mutant: a sendto that fails leaves the flag as it was.
SentFlagOnSuccess ==
  IF hdr.msg_code = "sendBuffer" /\ hdr.selectedEP \in endpoints
    THEN TRUE ELSE hdr.bufferSent

\* bufferSent after the request of the slot was served.
SentFlag == hdr.msg_code = "sendBuffer" \/ hdr.bufferSent

\* The body of the loop up to its sleep, or to its end.
Serve ==
  /\ loop.at = "serve"
  /\ \/ /\ hdr.msg_code = "NOP"
        /\ UNCHANGED <<reply, data, hist, stray>>
     \/ /\ OwnBuffer
        /\ \/ hdr.msg_code = "treatReceivedBuffer" /\ treatRcvMsg
           \/ hdr.msg_code = "sendBuffer" /\ sendFct
           \/ hdr.msg_code = "addEndpoint" /\ addEndpoint
        /\ UNCHANGED stray
     \/ /\ hdr.msg_code # "NOP" /\ ~OwnBuffer
        /\ stray' = hdr.msg_code
        /\ UNCHANGED <<reply, data, hist>>
  /\ hdr' = [hdr EXCEPT !.msg_code = "NOP", !.bufferSent = SentFlag]
  /\ \/ hdr.stopRequested /\ loop' = [loop EXCEPT !.at = "ending"]
     \/ /\ ~hdr.stopRequested
        /\ \E n \in Sleep(LoopPeriod) : loop' = [at |-> "sleep", timer |-> n]
  /\ UNCHANGED <<vm, answer, stream, receiver>>

\* The receive thread is told to stop, and detached.
Ending ==
  /\ loop.at = "ending"
  /\ hdr' = [hdr EXCEPT !.stopReceiving = TRUE]
  /\ loop' = [loop EXCEPT !.at = "teardown"]
  /\ UNCHANGED <<vm, answer, reply, stream, data, receiver, hist, stray>>

\* The end of netint_submain: the socket is closed, the data are deleted.
Teardown ==
  /\ loop.at = "teardown"
  /\ loop' = [loop EXCEPT !.at = "off"]
  /\ endpoints' = {} /\ receivedBytes' = <<>>
  /\ UNCHANGED <<vm, answer, reply, stream, hdr, receiver, hist, stray>>

-----------------------------------------------------------------------------
(* The receive thread and the socket.                                      *)

vmAndLoop == <<vm, answer, reply, stream, loop, endpoints>>

\* A datagram, with bytes or without, reaches the socket while it is bound, or
\* while a recv that was called before it was closed still waits on it.
Arrive ==
  /\ loop.at \notin {"off", "start"} \/ rcv.at = "blocked"
  /\ hist.arrived < MaxArrivals
  /\ hist' = [hist EXCEPT !.arrived = @ + 1]
  /\ \E d \in {0, hist.arrived + 1} : inbox' = Append(inbox, d)
  /\ UNCHANGED <<vmAndLoop, hdr, receivedBytes, rcv, stray>>

RcvCheck ==
  /\ rcv.at = "check"
  /\ rcv' = [rcv EXCEPT !.at = IF hdr.stopReceiving THEN "ended" ELSE "recv"]
  /\ UNCHANGED <<vmAndLoop, hdr, receivedBytes, inbox, hist, stray>>

\* The call of recv; hSocket is a local of the network loop.
RcvCall ==
  /\ rcv.at = "recv"
  /\ \/ loop.at = "off" /\ stray' = "receiver" /\ UNCHANGED rcv
     \/ loop.at # "off" /\ rcv' = [rcv EXCEPT !.at = "blocked"] /\ UNCHANGED stray
  /\ UNCHANGED <<vmAndLoop, hdr, receivedBytes, inbox, hist>>

\* Mutant: a datagram without bytes is queued like any other.
AfterRecvAny(d) == "push"

\* A datagram without bytes ends the thread.
AfterRecv(d) == IF d = 0 THEN "ended" ELSE "push"

RcvReturn ==
  /\ rcv.at = "blocked" /\ inbox # <<>>
  /\ inbox' = Tail(inbox)
  /\ rcv' = [rcv EXCEPT !.got = Head(inbox), !.at = AfterRecv(Head(inbox))]
  /\ UNCHANGED <<vmAndLoop, hdr, receivedBytes, hist, stray>>

RcvSleep == \E n \in Sleep(RcvPeriod) : rcv' = [rcv EXCEPT !.at = "sleep", !.timer = n]

\* recv may fail while the socket is open.
RcvError ==
  /\ rcv.at = "blocked" /\ inbox = <<>> /\ loop.at # "off"
  /\ RcvSleep
  /\ UNCHANGED <<vmAndLoop, hdr, receivedBytes, inbox, hist, stray>>

\* The datagram is appended with no lock held: it may race with treatRcvMsg, or
\* find the data deleted.
RcvPush ==
  /\ rcv.at = "push"
  /\ \/ /\ loop.at # "off"
        /\ receivedBytes' = Append(receivedBytes, rcv.got)
        /\ UNCHANGED stray
     \/ /\ loop.at = "serve" /\ hdr.msg_code = "treatReceivedBuffer"
        /\ stray' = "queue" /\ UNCHANGED receivedBytes
     \/ loop.at = "off" /\ stray' = "receiver" /\ UNCHANGED receivedBytes
  /\ rcv' = [rcv EXCEPT !.at = "flag"]
  /\ UNCHANGED <<vmAndLoop, hdr, inbox, hist>>

RcvFlag ==
  /\ rcv.at = "flag"
  /\ hdr' = [hdr EXCEPT !.hasReceived = TRUE]
  /\ RcvSleep
  /\ UNCHANGED <<vmAndLoop, receivedBytes, inbox, hist, stray>>

RcvWake ==
  /\ rcv.at = "sleep" /\ rcv.timer = 0
  /\ rcv' = [rcv EXCEPT !.at = "check"]
  /\ UNCHANGED <<vmAndLoop, hdr, receivedBytes, inbox, hist, stray>>

-----------------------------------------------------------------------------
\* No thread has anything to do before its sleep ends.
Quiet ==
  /\ vm.at # "post"
  /\ vm.at \in {"wait", "linger"} => vm.timer > 0
  /\ vm.at = "join" => loop.at # "off"
  /\ loop.at \in {"off", "sleep"}
  /\ loop.at = "sleep" => loop.timer > 0
  /\ rcv.at \in {"none", "ended", "blocked", "sleep"}
  /\ rcv.at = "blocked" => inbox = <<>>
  /\ rcv.at = "sleep" => rcv.timer > 0

Elapsed(t) == IF t > 0 THEN t - 1 ELSE 0

\* 50 ms pass.
Tick ==
  /\ Quiet /\ stray = "no"
  /\ vm' = [vm EXCEPT !.timer = Elapsed(@)]
  /\ loop' = [loop EXCEPT !.timer = Elapsed(@)]
  /\ rcv' = [rcv EXCEPT !.timer = Elapsed(@)]
  /\ UNCHANGED <<answer, reply, stream, hdr, data, inbox, hist, stray>>

Init ==
  /\ vm = [at |-> "idle", timer |-> 0, op |-> "treatReceivedBuffer", arg |-> 0,
           request |-> 0, saved |-> 0, reopening |-> FALSE]
  /\ answer = Nothing /\ reply = Nothing
  /\ stream = FALSE /\ hdr = NewHeader
  /\ loop = [at |-> "off", timer |-> 0]
  /\ endpoints = {} /\ receivedBytes = <<>>
  /\ rcv = [at |-> "none", timer |-> 0, got |-> 0] /\ inbox = <<>>
  /\ hist = [arrived |-> 0, sends |-> 0, credit |-> 0, polite |-> TRUE, unserved |-> FALSE]
  /\ stray = "no"

Instruction ==
  stray = "no" /\ (\/ net_open \/ net_close \/ net_get \/ net_send \/ net_crtep
                   \/ net_selep \/ net_hrecv)

VmStep ==
  stray = "no" /\ (\/ Joined \/ Destroyed \/ Post \/ GetDone \/ EndpointDone \/ SendPoll)

LoopStep == stray = "no" /\ (Startup \/ LoopLock \/ Serve \/ Ending \/ Teardown)

RcvStep ==
  stray = "no" /\ (RcvCheck \/ RcvCall \/ RcvReturn \/ RcvPush \/ RcvFlag \/ RcvWake)

Network == stray = "no" /\ (Arrive \/ RcvError)

Next == Instruction \/ VmStep \/ LoopStep \/ RcvStep \/ Network \/ Tick

Spec == Init /\ [][Next]_vars

\* Threads that can run do, and time passes when they sleep.
FairSpec ==
  /\ Spec
  /\ WF_vars(VmStep) /\ WF_vars(LoopStep) /\ WF_vars(RcvStep) /\ WF_vars(Tick)

-----------------------------------------------------------------------------
(* Properties.                                                             *)

Timer == 0..(GetWait + Jitter)

VmRecord ==
  [at : {"idle", "post", "wait", "join", "linger"}, timer : Timer, op : Requests,
   arg : Endpoint, request : 0..MaxRequests, saved : 0..MaxRequests, reopening : BOOLEAN]
LoopRecord ==
  [at : {"off", "start", "sleep", "serve", "ending", "teardown"}, timer : Timer]
RcvRecord ==
  [at : {"none", "check", "recv", "blocked", "push", "flag", "sleep", "ended"},
   timer : Timer, got : {0} \cup Datagram]
HistRecord ==
  [arrived : 0..MaxArrivals, sends : Nat, credit : Nat, polite : BOOLEAN, unserved : BOOLEAN]

TypeOK ==
  /\ vm \in VmRecord
  /\ answer \in Pulled /\ reply \in Pulled
  /\ stream \in BOOLEAN /\ hdr \in Header
  /\ loop \in LoopRecord
  /\ endpoints \subseteq Endpoint /\ receivedBytes \in Seq(Datagram)
  /\ rcv \in RcvRecord
  /\ inbox \in Seq({0} \cup Datagram)
  /\ hist \in HistRecord
  /\ stray \in Requests \cup {"no", "receiver", "queue"}

\* When the 200 ms of net_get are over, the loop has answered: on a stream that
\* started, no fetch ever stores an unanswered buffer.
ServedInTime ==
  Waited("treatReceivedBuffer") /\ loop.at # "off" => reply # Nothing

\* The loop serves a request on the buffer it came with, while the instruction
\* that lent it waits: a net_get and a net_send always, a net_crtep unless it has
\* returned.  It may, since it waits no longer than the loop sleeps; its request
\* is then served late, on the pointer it put back or on the buffer of the next
\* instruction, as long as that one has not posted a request of its own.
OwnBuffers == stray \in Requests => stray = "addEndpoint" /\ hist.unserved

\* net_send returns only after its data were handed to sendto, and they are
\* handed over once.
SentBeforeReturn ==
  [][ Waited("sendBuffer") /\ vm'.at = "idle" => hist.sends = 1 ]_vars

\* On a stream that started, net_send returns, whether or not sendto succeeds.
SendReturns ==
  vm.at = "wait" /\ vm.op = "sendBuffer" /\ loop.at \notin {"off", "start"}
    ~> vm.at = "idle" \/ stray # "no"

\* A program that fetches only after net_hrecv answered 1, once for each such
\* answer, is never handed the zeros of an empty queue.
PolledGetFinds ==
  hist.polite /\ vm.op = "treatReceivedBuffer" => reply # Zeros

\* When destroy frees the headers, the receive thread is not between two calls of
\* recv, where it would go on to read stopReceiving: 200 ms outlast its sleep.
ReceiverLeavesFirst ==
  [][ vm.at = "linger" /\ vm'.at = "idle"
        => rcv.at \notin {"flag", "sleep", "check", "recv"} ]_vars

\* Once net_crtep is over, the endpoint can be selected: "Create a network stream
\* endpoint with a specified id (id used to select it)" (net_symbols.cpp:173).
EndpointReady ==
  [][ Waited("addEndpoint") /\ vm'.at = "idle" /\ loop.at # "off"
        => vm.arg \in endpoints ]_vars

\* Datagrams are handed over once and in order.
Queue == INSTANCE DatagramQueue
           WITH queue <- receivedBytes,
                given <- IF /\ vm.at = "wait" /\ vm.op = "treatReceivedBuffer"
                            /\ reply # Nothing
                           THEN reply ELSE answer
Handover == Queue!Spec

=============================================================================
