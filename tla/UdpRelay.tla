------------------------------ MODULE UdpRelay ------------------------------
(***************************************************************************)
(* The UDP relay (src/udpserver/udpserver.cpp): every datagram of a local  *)
(* client gets a detached thread that encrypts it, sends it to the far     *)
(* proxy from a socket of its own, waits for one answer and passes that on *)
(* to the client.  Request, frame and answer share one buffer.             *)
(*                                                                         *)
(* Datagrams are delivered whole, but may be lost, and answers also late   *)
(* or more than once.  A worker's port is free again when its socket is    *)
(* closed.  How the loop that starts the workers stops, and what its       *)
(* descriptor names afterwards, is Lifecycle's subject; the request to     *)
(* protect a worker's socket is ProtectRpc's.                              *)
(***************************************************************************)
EXTENDS Integers, Sequences

CONSTANTS
  Requests,    \* datagrams of local clients
  SizeOf,      \* [Requests -> Nat]
  Ports,       \* ports the kernel may bind the workers' sockets to
  Replies,     \* what may come as an answer: bytes on the wire, the length in front,
               \* the length of the method, whether the bytes behind that make a
               \* method, whether the rest can be decrypted with it
  ReadSize,    \* UDP_READ_SIZE
  BufferSize,  \* BUFFER_UDP_SIZE
  MethodSize,  \* bytes of the cipher's ToBytes
  Overhead     \* what the cipher adds

NoPort    == 0
NoRequest == << >>

ASSUME SizesAssumption   == SizeOf \in [Requests -> Nat]
ASSUME NamesAssumption   == NoPort \notin Ports /\ NoRequest \notin Requests
ASSUME BuffersAssumption == /\ {ReadSize, BufferSize, MethodSize, Overhead} \subseteq Nat
                            /\ ReadSize + MethodSize + Overhead + 5 <= BufferSize
ASSUME RepliesAssumption ==
  \A a \in Replies : /\ {a.size, a.head, a.method} \subseteq Nat
                     /\ {a.builds, a.readable} \subseteq BOOLEAN

VARIABLES
  listening,  \* the listening socket is open
  inbox,      \* requests on their way to it
  worker,     \* [Requests -> its thread: pc, port, bytes in use of its buffer, and the
              \* request that the answer in it answers]
  asks,       \* frames on their way to the far proxy: port and request
  answers,    \* answers on their way back: port, request, reply
  heard,      \* [Requests -> what its client was sent]
  before      \* history: whose workers had had a worker's port before it

vars == << listening, inbox, worker, asks, answers, heard, before >>

Lesser(a, b) == IF a < b THEN a ELSE b

At(r, pc) == worker[r].pc = pc

\* A worker's port is its own from its first sendto to its return.
Holders == {r \in Requests : worker[r].pc \in {"wait", "answer"}}

\* No worker has ended the process.
Alive == \A r \in Requests : ~At(r, "crashed")

\* Every return closes the worker's socket.
Ended(r) == [worker EXCEPT ![r].pc = "ended"]

Init ==
  /\ listening = TRUE
  /\ inbox = Requests
  /\ worker = [r \in Requests |-> [pc |-> "none", port |-> NoPort, used |-> 0,
                                   about |-> NoRequest]]
  /\ asks = {} /\ answers = {}
  /\ heard = [r \in Requests |-> << >>]
  /\ before = [r \in Requests |-> {}]

-----------------------------------------------------------------------------
(* UDPServer::Run.                                                         *)

\* Mutated: recvfrom may fill the whole buffer.
ReceiveWhole(r) ==
  /\ listening /\ r \in inbox
  /\ inbox' = inbox \ {r}
  /\ LET n == Lesser(SizeOf[r], BufferSize)
     IN  worker' = IF n < 1 THEN worker
                   ELSE [worker EXCEPT ![r].pc = "socket", ![r].used = n]
  /\ UNCHANGED << listening, asks, answers, heard, before >>

\* A datagram is cut to ReadSize bytes, and an empty one ignored.
Receive(r) ==
  /\ listening /\ r \in inbox
  /\ inbox' = inbox \ {r}
  /\ LET n == Lesser(SizeOf[r], ReadSize)
     IN  worker' = IF n < 1 THEN worker
                   ELSE [worker EXCEPT ![r].pc = "socket", ![r].used = n]
  /\ UNCHANGED << listening, asks, answers, heard, before >>

CloseListener ==
  /\ listening
  /\ listening' = FALSE
  /\ UNCHANGED << inbox, worker, asks, answers, heard, before >>

-----------------------------------------------------------------------------
(* udp_one_time_routine.                                                   *)

OpenSocket(r) ==
  /\ At(r, "socket")
  /\ worker' = [worker EXCEPT ![r].pc = "frame"]
  /\ UNCHANGED << listening, inbox, asks, answers, heard, before >>

\* The length of the rest, the length of the method, the method, the ciphertext.
BuildFrame(r) ==
  /\ At(r, "frame")
  /\ worker' = [worker EXCEPT ![r].pc = "send", ![r].used = 4 + 1 + MethodSize + @ + Overhead]
  /\ UNCHANGED << listening, inbox, asks, answers, heard, before >>

\* Mutated: all workers send from one port.
SendFrameShared(r) ==
  /\ At(r, "send")
  /\ \E p \in Ports :
       /\ \A q \in Holders : worker[q].port = p
       /\ worker' = [worker EXCEPT ![r].pc = "wait", ![r].port = p]
       /\ asks' = asks \cup {[port |-> p, about |-> r]}
       /\ before' = [before EXCEPT ![r] = {q \in Requests \ Holders : worker[q].port = p}]
  /\ UNCHANGED << listening, inbox, answers, heard >>

\* The first sendto binds the socket to a port no open socket has.
SendFrame(r) ==
  /\ At(r, "send")
  /\ \E p \in Ports \ {worker[q].port : q \in Holders} :
       /\ worker' = [worker EXCEPT ![r].pc = "wait", ![r].port = p]
       /\ asks' = asks \cup {[port |-> p, about |-> r]}
       /\ before' = [before EXCEPT ![r] = {q \in Requests \ Holders : worker[q].port = p}]
  /\ UNCHANGED << listening, inbox, answers, heard >>

\* One recvfrom, from whoever sends to the port.  What it returns is decrypted if it
\* is as long as it says and its method can be built.  The lengths of the two are
\* not compared: where the method, with its own length, is longer than what the
\* answer says, ll - kk - 1 wraps to almost 2^32, and the process ends while it
\* copies as many bytes.  Of an answer of four bytes, method and length are those
\* that this worker's frame has left in the buffer.
ReceiveAnswer(r) ==
  /\ At(r, "wait")
  /\ \E a \in answers :
       /\ a.port = worker[r].port
       /\ answers' \in {answers, answers \ {a}}
       /\ LET n     == Lesser(a.reply.size, ReadSize)
              ll    == a.reply.head
              kk    == IF n = 4 THEN MethodSize ELSE a.reply.method
              built == n = 4 \/ a.reply.builds
          IN  worker' = IF n - 4 # ll \/ ~built THEN Ended(r)
                        ELSE IF kk + 1 > ll THEN [worker EXCEPT ![r].pc = "crashed"]
                        ELSE IF ~a.reply.readable THEN Ended(r)
                        ELSE [worker EXCEPT ![r].pc = "answer", ![r].used = n,
                                            ![r].about = a.about]
  /\ UNCHANGED << listening, inbox, asks, heard, before >>

\* Through the listening socket to the request's sender, if that socket still is
\* there and the datagram is not lost.
SendAnswer(r) ==
  /\ At(r, "answer")
  /\ worker' = Ended(r)
  /\ \/ listening /\ heard' = [heard EXCEPT ![r] = Append(@, worker[r].about)]
     \/ UNCHANGED heard
  /\ UNCHANGED << listening, inbox, asks, answers, before >>

\* Mutated: the socket has no receive timeout.
GiveUpUntimed(r) ==
  /\ worker[r].pc \in {"socket", "frame", "send"}
  /\ worker' = Ended(r)
  /\ UNCHANGED << listening, inbox, asks, answers, heard, before >>

\* No socket, no such cipher on this processor, a sendto that fails, 60 s without
\* an answer: the request is dropped.
GiveUp(r) ==
  /\ worker[r].pc \in {"socket", "frame", "send", "wait"}
  /\ worker' = Ended(r)
  /\ UNCHANGED << listening, inbox, asks, answers, heard, before >>

-----------------------------------------------------------------------------
(* The far proxy and the network.                                          *)

FarAnswers(f) ==
  /\ asks' = asks \ {f}
  /\ \E reply \in Replies :
       answers' = answers \cup {[port |-> f.port, about |-> f.about, reply |-> reply]}
  /\ UNCHANGED << listening, inbox, worker, heard, before >>

Lose ==
  /\ \/ \E f \in asks : asks' = asks \ {f} /\ UNCHANGED answers
     \/ \E a \in answers : answers' = answers \ {a} /\ UNCHANGED asks
  /\ UNCHANGED << listening, inbox, worker, heard, before >>

-----------------------------------------------------------------------------
Work(r) == \/ OpenSocket(r) \/ BuildFrame(r) \/ SendFrame(r)
           \/ ReceiveAnswer(r) \/ SendAnswer(r) \/ GiveUp(r)

\* Nothing goes on once a worker has ended the process.
Next == Alive /\ (\/ \E r \in Requests : Receive(r) \/ Work(r)
                  \/ CloseListener
                  \/ \E f \in asks : FarAnswers(f)
                  \/ Lose)

\* Workers are scheduled and their calls return, recvfrom after 60 s at the
\* latest.  The far proxy and the network need not do anything.
Spec == Init /\ [][Next]_vars /\ \A r \in Requests : WF_vars(Alive /\ Work(r))

-----------------------------------------------------------------------------
(* Properties.                                                             *)

Datagram == [port : Ports, about : Requests]

Stages == {"none", "socket", "frame", "send", "wait", "answer", "ended", "crashed"}

TypeOK ==
  /\ listening \in BOOLEAN
  /\ inbox \subseteq Requests
  /\ worker \in [Requests -> [pc : Stages, port : Ports \cup {NoPort}, used : Nat,
                              about : Requests \cup {NoRequest}]]
  /\ asks \subseteq Datagram
  /\ answers \subseteq [port : Ports, about : Requests, reply : Replies]
  /\ heard \in [Requests -> Seq(Requests)]
  /\ before \in [Requests -> SUBSET Requests]

\* A request of any size, in the frame that is built around it in the buffer it
\* was received into, stays within that buffer (udpserver.cpp 62-77 and 167-176).
FrameFits == \A r \in Requests : worker[r].used <= BufferSize

\* A client is sent at most one answer to its request, and it is the answer to that
\* request.  The exception the code cannot rule out: a late answer to a request
\* whose worker had the same port and had already ended (udpserver.cpp 42-144).
AnswerToItsRequest ==
  \A r \in Requests : /\ Len(heard[r]) <= 1
                      /\ \A i \in 1..Len(heard[r]) : heard[r][i] \in {r} \cup before[r]

\* However the far proxy and the network behave, a worker that was started ends and
\* returns its socket, unless an answer has ended the whole process
\* (udpserver.cpp 51-122).
WorkersEnd == \A r \in Requests : (worker[r].pc # "none") ~> (At(r, "ended") \/ ~Alive)
=============================================================================
