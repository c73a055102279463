----------------------------- MODULE ProtectRpc -----------------------------
(***************************************************************************)
(* Socket protection: before a session connects its socket, it asks a      *)
(* service outside the process, the callee, to exempt the socket from the  *)
(* VPN (src/rpc, src/core/socketassistant.cpp).  The calls go over a pool  *)
(* of callers, each with one connection and one mutex; a counter that no   *)
(* lock guards picks the caller.                                           *)
(*                                                                         *)
(* A caller keeps its connection as a number of the descriptor table it    *)
(* shares with the sessions, and a call acts on whatever the number names  *)
(* at that moment.  Numbers 0 and 1 are the standard streams, 2 is left    *)
(* out.  An answer is sent as a whole; a read takes any part of what there *)
(* is, up to the length of one answer, for the whole result.               *)
(***************************************************************************)
EXTENDS Integers, Sequences, FiniteSets, FiniteSetsExt

CONSTANTS
  Threads,       \* session threads
  NoThread,
  NCallers,      \* size of the pool
  AnswerSize,    \* bytes of an answer, 8 in the code
  ValueSize,     \* how many of them, from the first on, the result is made of: 4
  MaxFd,         \* the descriptor table is 0..MaxFd
  MaxCalls,      \* bound: [Threads -> Nat], sockets a thread opens
  MaxFaults,     \* bound: connections the callee breaks or refuses
  MaxConns,      \* bound: connections ever made to the callee
  Early          \* the callee is set before the first socket is opened

ASSUME ThreadsAssumption == IsFiniteSet(Threads) /\ NoThread \notin Threads
ASSUME SizesAssumption   == NCallers \in Nat \ {0} /\ MaxFd \in Nat \ {0, 1}
ASSUME AnswerAssumption  == AnswerSize \in Nat /\ ValueSize \in 1..AnswerSize
ASSUME BoundsAssumption  == MaxCalls \in [Threads -> Nat] /\ MaxFaults \in Nat /\ MaxConns \in Nat
ASSUME EarlyAssumption   == Early \in BOOLEAN

VARIABLES
  fds,         \* the descriptor table: what each number names
  configured,  \* set_callee was called with a host and a port
  pool,        \* callerpool's g_instance: none, building, ready
  count,       \* callerpool::count
  callee,      \* [Callers -> client_caller::callee]
  lock,        \* [Callers -> the thread that holds bequeue]
  conn,        \* connections to the callee in the order they were made: calls under
               \* way, bytes read of the first answer, and, as a history, whether
               \* a read has ever left part of one
  faults,      \* how many of them it has broken or refused
  lost,        \* history: a caller has been without a connection of its own
  thread       \* a thread's place in the code and its local variables

vars == << fds, configured, pool, count, callee, lock, conn, faults, lost, thread >>

Callers == 0..(NCallers - 1)
Fd      == 0..MaxFd
NoFd    == -1
Calls   == UNION {{t} \X (1..MaxCalls[t]) : t \in Threads}
Failed  == << NoThread, 0 >>  \* the result of a call that failed, or has none
Foreign == << NoThread, 1 >>  \* bytes that are no answer of the callee's, or not all of one

Free       == << "free", 0 >>
Std        == << "std", 0 >>
Sock(t)    == << "sock", t >>
Dialing(t) == << "dialing", t >>
Conn(n)    == << "conn", n >>

-----------------------------------------------------------------------------
(* The descriptor table.                                                   *)

FreeFds      == {f \in Fd : fds[f] = Free}
Lowest       == Min(FreeFds)
Opened(file) == [fds EXCEPT ![Lowest] = file]
Closed(f)    == [g \in Fd |-> IF g = f THEN Free ELSE fds[g]]

\* What the connection of thread t's caller names.
Line(t)      == fds[callee[thread[t].v]]
IsConn(file) == file[1] = "conn"
Broken(file) == IsConn(file) => ~conn[file[2]].up

At(t, pc) == thread[t].pc = pc
Goto(t, pc) == thread' = [thread EXCEPT ![t].pc = pc]

\* Mutated: a failed call keeps the mutex.
ReturnHolding(t, r) == /\ lock' = IF r = Failed THEN lock ELSE [lock EXCEPT ![thread[t].v] = NoThread]
                       /\ thread' = [thread EXCEPT ![t].pc = "use", ![t].result = r]

\* call_protect_socket returns r and its lock_guard goes out of scope.
Return(t, r) == /\ lock' = [lock EXCEPT ![thread[t].v] = NoThread]
                /\ thread' = [thread EXCEPT ![t].pc = "use", ![t].result = r]

\* Before try_to_connect_callee; what follows it.
ToDial(t, after) == thread' = [thread EXCEPT ![t].pc = "dial", ![t].tries = 0, ![t].new = NoFd,
                                             ![t].after = after]

Init ==
  /\ fds = [f \in Fd |-> IF f \in {0, 1} THEN Std ELSE Free]
  /\ configured = Early
  /\ pool = "none"
  /\ count = 0
  /\ callee = [c \in Callers |-> 0]
  /\ lock = [c \in Callers |-> NoThread]
  /\ conn = <<>>
  /\ faults = 0
  /\ lost = FALSE
  /\ thread = [t \in Threads |-> [pc |-> "idle", round |-> 0, sock |-> NoFd, v |-> 0, reg |-> 0,
                                  new |-> NoFd, tries |-> 0, after |-> "fail", result |-> Failed]]

-----------------------------------------------------------------------------
(* A session opens a socket; the pool exists from the first on.            *)

OpenSocket(t) ==
  /\ At(t, "idle") /\ thread[t].round < MaxCalls[t]
  /\ FreeFds # {}
  /\ fds' = Opened(Sock(t))
  /\ thread' = [thread EXCEPT ![t].pc = "instance", ![t].sock = Lowest, ![t].round = @ + 1,
                              ![t].result = Failed]
  /\ UNCHANGED << configured, pool, count, callee, lock, conn, faults, lost >>

\* A stream socket that cannot be opened is given up; of a datagram socket the
\* callee is asked to protect number -1.
OpenSocketFails(t) ==
  /\ At(t, "idle") /\ thread[t].round < MaxCalls[t]
  /\ FreeFds = {}
  /\ \E pc \in {"idle", "instance"} :
       thread' = [thread EXCEPT ![t].pc = pc, ![t].sock = NoFd, ![t].round = @ + 1,
                                ![t].result = Failed]
  /\ UNCHANGED << fds, configured, pool, count, callee, lock, conn, faults, lost >>

\* callerpool::get_instance, which waits while another thread is building.
GetInstance(t) ==
  /\ At(t, "instance")
  /\ \/ pool = "ready" /\ Goto(t, "pick") /\ UNCHANGED pool
     \/ pool = "none" /\ pool' = "building"
        /\ thread' = [thread EXCEPT ![t].pc = "build", ![t].v = 0]
  /\ UNCHANGED << fds, configured, count, callee, lock, conn, faults, lost >>

\* The constructor has dealt with caller thread[t].v.
Constructed(t) ==
  IF thread[t].v + 1 \in Callers
  THEN thread' = [thread EXCEPT ![t].pc = "build", ![t].v = @ + 1] /\ UNCHANGED pool
  ELSE Goto(t, "pick") /\ pool' = "ready"

\* Without a callee the new caller keeps number 0.
Construct(t) ==
  /\ At(t, "build")
  /\ IF configured THEN ToDial(t, "build") /\ UNCHANGED << pool, lost >>
                   ELSE Constructed(t) /\ lost' = TRUE
  /\ UNCHANGED << fds, configured, count, callee, lock, conn, faults >>

\* callerpool::get_caller, one action per access to the counter.
Pick(t) ==
  /\ At(t, "pick")
  /\ thread' = [thread EXCEPT ![t].pc = "load", ![t].v = count % NCallers]
  /\ UNCHANGED << fds, configured, pool, count, callee, lock, conn, faults, lost >>

Load(t, pc, next) ==
  /\ At(t, pc)
  /\ thread' = [thread EXCEPT ![t].pc = next, ![t].reg = count]
  /\ UNCHANGED << fds, configured, pool, count, callee, lock, conn, faults, lost >>

\* The value that was loaded is not used again.
Store(t, pc, value, next) ==
  /\ At(t, pc)
  /\ count' = value
  /\ thread' = [thread EXCEPT ![t].pc = next, ![t].reg = 0]
  /\ UNCHANGED << fds, configured, pool, callee, lock, conn, faults, lost >>

\* Mutated: the counter is not reduced.
CountUnreduced(t) == Load(t, "load", "store") \/ Store(t, "store", thread[t].reg + 1, "call")

\* count++; count = count % 5;
Count(t) == \/ Load(t, "load", "store")    \/ Store(t, "store", thread[t].reg + 1, "reload")
            \/ Load(t, "reload", "reduce") \/ Store(t, "reduce", thread[t].reg % NCallers, "call")

-----------------------------------------------------------------------------
(* client_caller::try_to_connect_callee: at most three attempts.           *)

\* Mutated: one attempt too many.
DialTooOften(t) ==
  /\ At(t, "dial") /\ thread[t].tries <= 3
  /\ IF FreeFds = {}
     THEN thread' = [thread EXCEPT ![t].tries = @ + 1] /\ UNCHANGED fds
     ELSE /\ fds' = Opened(Dialing(t))
          /\ thread' = [thread EXCEPT ![t].pc = "connect", ![t].new = Lowest]
  /\ UNCHANGED << configured, pool, count, callee, lock, conn, faults, lost >>

Dial(t) ==
  /\ At(t, "dial") /\ thread[t].tries < 3
  /\ IF FreeFds = {}
     THEN thread' = [thread EXCEPT ![t].tries = @ + 1] /\ UNCHANGED fds
     ELSE /\ fds' = Opened(Dialing(t))
          /\ thread' = [thread EXCEPT ![t].pc = "connect", ![t].new = Lowest]
  /\ UNCHANGED << configured, pool, count, callee, lock, conn, faults, lost >>

\* Number 0 is not taken for a connection, and not closed either.
Connected(t) ==
  LET c == thread[t].v  f == thread[t].new
  IN  /\ At(t, "connect") /\ Len(conn) < MaxConns
      /\ conn' = Append(conn, [owner |-> c, up |-> TRUE, asked |-> <<>>, answered |-> <<>>,
                               got |-> 0, torn |-> FALSE])
      /\ fds' = [fds EXCEPT ![f] = Conn(Len(conn) + 1)]
      /\ callee' = IF f > 0 THEN [callee EXCEPT ![c] = f] ELSE callee
      /\ thread' = [thread EXCEPT ![t].pc = "dial", ![t].tries = IF f > 0 THEN 3 ELSE @ + 1]
      /\ UNCHANGED << configured, pool, count, lock, faults, lost >>

ConnectRefused(t) ==
  /\ At(t, "connect") /\ faults < MaxFaults
  /\ faults' = faults + 1
  /\ fds' = Closed(thread[t].new)
  /\ thread' = [thread EXCEPT ![t].pc = "dial", ![t].tries = @ + 1, ![t].new = NoFd]
  /\ UNCHANGED << configured, pool, count, callee, lock, conn, lost >>

\* Its result is 1 or 0.  The constructor and the calls after a failure ignore
\* it; the call that found no connection stores it as the connection's number.
Dialed(t) ==
  LET c == thread[t].v  found == callee[c] > 0
  IN  /\ At(t, "dial") /\ thread[t].tries = 3
      /\ CASE thread[t].after = "build" -> Constructed(t) /\ UNCHANGED << callee, lock >>
           [] thread[t].after = "first" -> /\ callee' = [callee EXCEPT ![c] = IF found THEN 1 ELSE 0]
                                           /\ IF found THEN Goto(t, "send") /\ UNCHANGED lock
                                                       ELSE Return(t, Failed)
                                           /\ UNCHANGED pool
           [] OTHER                     -> Return(t, Failed) /\ UNCHANGED << callee, pool >>
      /\ lost' = (lost \/ callee'[c] # thread[t].new)
      /\ UNCHANGED << fds, configured, count, conn, faults >>

-----------------------------------------------------------------------------
(* client_caller::call_protect_socket.                                     *)

CallProtect(t) ==
  /\ At(t, "call")
  /\ Goto(t, IF configured THEN "lock" ELSE "use")
  /\ UNCHANGED << fds, configured, pool, count, callee, lock, conn, faults, lost >>

\* Mutated: number 0, the value of a caller without a connection, is used.
EnterAtZero(t) ==
  LET c == thread[t].v
  IN  /\ At(t, "lock") /\ lock[c] = NoThread
      /\ lock' = [lock EXCEPT ![c] = t]
      /\ IF callee[c] < 0 THEN ToDial(t, "first") ELSE Goto(t, "send")
      /\ UNCHANGED << fds, configured, pool, count, callee, conn, faults, lost >>

Enter(t) ==
  LET c == thread[t].v
  IN  /\ At(t, "lock") /\ lock[c] = NoThread
      /\ lock' = [lock EXCEPT ![c] = t]
      /\ IF callee[c] <= 0 THEN ToDial(t, "first") ELSE Goto(t, "send")
      /\ UNCHANGED << fds, configured, pool, count, callee, conn, faults, lost >>

\* Mutated: the mutex is held for the request only.
SendRequestUnlocks(t) ==
  /\ At(t, "send") /\ Line(t)[1] \in {"conn", "sock"}
  /\ conn' = IF Broken(Line(t)) THEN conn
             ELSE [conn EXCEPT ![Line(t)[2]].asked = Append(@, << t, thread[t].round >>)]
  /\ lock' = [lock EXCEPT ![thread[t].v] = NoThread]
  /\ Goto(t, "read")
  /\ UNCHANGED << fds, configured, pool, count, callee, faults, lost >>

\* The number names a connection, or the socket of a session.  A send on a
\* connection that broke without notice succeeds too.
SendRequest(t) ==
  /\ At(t, "send") /\ Line(t)[1] \in {"conn", "sock"}
  /\ conn' = IF Broken(Line(t)) THEN conn
             ELSE [conn EXCEPT ![Line(t)[2]].asked = Append(@, << t, thread[t].round >>)]
  /\ Goto(t, "read")
  /\ UNCHANGED << fds, configured, pool, count, callee, lock, faults, lost >>

\* The connection is known to be broken, the number is not open, not a socket,
\* or the socket is not connected.
SendFails(t) ==
  /\ At(t, "send") /\ Broken(Line(t))
  /\ Goto(t, "hangup")
  /\ UNCHANGED << fds, configured, pool, count, callee, lock, conn, faults, lost >>

\* read returns k bytes of what has arrived on connection n, at most as many as an
\* answer has.  Whatever their number, the first ValueSize of the buffer are the
\* result: the first answer's, if they all came now and none of them before.
ReadBytes(t, n, k) ==
  LET c == conn[n]  end == c.got + k
  IN  /\ c.answered # <<>>
      /\ end <= AnswerSize \/ Len(c.answered) > 1
      /\ Return(t, IF c.got = 0 /\ k >= ValueSize THEN Head(c.answered) ELSE Foreign)
      /\ conn' = [conn EXCEPT ![n].answered = IF end < AnswerSize THEN @ ELSE Tail(@),
                              ![n].got      = IF end < AnswerSize THEN end ELSE end - AnswerSize,
                              ![n].torn     = @ \/ end # AnswerSize]

\* read takes bytes of an answer, or what has arrived for a session.
ReadAnswer(t) ==
  /\ At(t, "read")
  /\ \/ IsConn(Line(t)) /\ \E k \in 1..AnswerSize : ReadBytes(t, Line(t)[2], k)
     \/ Line(t)[1] = "sock" /\ Return(t, Foreign) /\ UNCHANGED conn
  /\ UNCHANGED << fds, configured, pool, count, callee, faults, lost >>

\* A connection that broke still yields what had arrived before.
ReadFails(t) ==
  /\ At(t, "read") /\ Broken(Line(t))
  /\ IsConn(Line(t)) => conn[Line(t)[2]].answered = <<>>
  /\ Goto(t, "hangup")
  /\ UNCHANGED << fds, configured, pool, count, callee, lock, conn, faults, lost >>

\* Mutated: no new connection is made.
HangUpOnly(t) ==
  /\ At(t, "hangup")
  /\ fds' = Closed(callee[thread[t].v])
  /\ Return(t, Failed)
  /\ UNCHANGED << configured, pool, count, callee, conn, faults, lost >>

\* Mutated: with the new connection the request is sent again.
HangUpResends(t) ==
  /\ At(t, "hangup")
  /\ fds' = Closed(callee[thread[t].v])
  /\ ToDial(t, "first")
  /\ UNCHANGED << configured, pool, count, callee, lock, conn, faults, lost >>

\* After a failure the connection is closed and another one is made; callee
\* keeps the closed number until there is one.
HangUp(t) ==
  /\ At(t, "hangup")
  /\ fds' = Closed(callee[thread[t].v])
  /\ ToDial(t, "fail")
  /\ UNCHANGED << configured, pool, count, callee, lock, conn, faults, lost >>

\* Protected or not, the socket is used and closed.
CloseSocket(t) ==
  /\ At(t, "use")
  /\ fds' = Closed(thread[t].sock)
  /\ thread' = [thread EXCEPT ![t].pc = "idle", ![t].sock = NoFd]
  /\ UNCHANGED << configured, pool, count, callee, lock, conn, faults, lost >>

-----------------------------------------------------------------------------
(* The program around the proxy and the callee.                            *)

SetCallee ==
  /\ ~configured
  /\ configured' = TRUE
  /\ UNCHANGED << fds, pool, count, callee, lock, conn, faults, lost, thread >>

CalleeAnswers(n) ==
  /\ conn[n].up /\ conn[n].asked # <<>>
  /\ conn' = [conn EXCEPT ![n].asked = Tail(@), ![n].answered = Append(@, Head(conn[n].asked))]
  /\ UNCHANGED << fds, configured, pool, count, callee, lock, faults, lost, thread >>

\* The connection is closed in order, or reset: what had arrived is lost.
CalleeBreaks(n) ==
  /\ conn[n].up /\ faults < MaxFaults
  /\ faults' = faults + 1
  /\ \E rest \in {conn[n].answered, <<>>} :
       conn' = [conn EXCEPT ![n].up = FALSE, ![n].asked = <<>>, ![n].answered = rest,
                            ![n].got = IF rest = <<>> THEN 0 ELSE @]
  /\ UNCHANGED << fds, configured, pool, count, callee, lock, lost, thread >>

-----------------------------------------------------------------------------
Proceed(t) == \/ GetInstance(t) \/ Construct(t) \/ Pick(t) \/ Count(t)
              \/ Dial(t) \/ Connected(t) \/ ConnectRefused(t) \/ Dialed(t)
              \/ CallProtect(t) \/ Enter(t) \/ SendRequest(t) \/ SendFails(t)
              \/ ReadAnswer(t) \/ ReadFails(t) \/ HangUp(t) \/ CloseSocket(t)

Next == \/ \E t \in Threads : OpenSocket(t) \/ OpenSocketFails(t) \/ Proceed(t)
        \/ \E n \in 1..Len(conn) : CalleeAnswers(n) \/ CalleeBreaks(n)
        \/ SetCallee

\* Threads are scheduled and calls that can return do; the callee answers what
\* it is asked.  No session has to open a socket, nothing has to break.
Fairness == /\ \A t \in Threads : WF_vars(Proceed(t))
            /\ \A n \in 1..MaxConns : WF_vars(n \in 1..Len(conn) /\ CalleeAnswers(n))

Spec == Init /\ [][Next]_vars /\ Fairness

-----------------------------------------------------------------------------
Files == {Free, Std} \cup {Sock(t) : t \in Threads} \cup {Dialing(t) : t \in Threads}
         \cup {Conn(n) : n \in 1..MaxConns}

TypeOK ==
  /\ fds \in [Fd -> Files]
  /\ configured \in BOOLEAN
  /\ pool \in {"none", "building", "ready"}
  /\ count \in Nat
  /\ callee \in [Callers -> Fd]
  /\ lock \in [Callers -> Threads \cup {NoThread}]
  /\ conn \in Seq([owner : Callers, up : BOOLEAN, asked : Seq(Calls), answered : Seq(Calls),
                   got : 0..(AnswerSize - 1), torn : BOOLEAN])
  /\ faults \in 0..MaxFaults
  /\ lost \in BOOLEAN
  /\ thread \in [Threads -> [pc : {"idle", "instance", "build", "pick", "load", "store", "reload",
                                   "reduce", "call", "lock", "dial", "connect", "send", "read",
                                   "hangup", "use"},
                             round : Nat, sock : Fd \cup {NoFd}, v : Nat, reg : Nat,
                             new : Fd \cup {NoFd}, tries : 0..3, after : {"build", "first", "fail"},
                             result : Calls \cup {Failed, Foreign}]]

-----------------------------------------------------------------------------
(* Safety.                                                                 *)

\* No lock guards the counter: sessions that overlap lose steps of each other's, and
\* can drive it on from where another has not reduced it yet.  Whenever no session is
\* between its increment and its reduction, it is the number of a caller again, so
\* that nothing of this is left behind (callerpool.cpp 30-41).
CounterSettles == (\A t \in Threads : thread[t].pc \notin {"reload", "reduce"}) => count \in Callers

Talking(t) == thread[t].pc \in {"send", "read", "hangup"}

\* As long as every attempt to find or to replace a connection has left the caller
\* with one, a caller sends to, reads from and closes its own connection and
\* nothing else, although the number of a connection it has closed may at once be
\* another session's socket (clientcaller.cpp 84-101).
OwnConnection ==
  ~lost => \A t \in Threads : Talking(t) =>
             /\ IsConn(Line(t))
             /\ conn[Line(t)[2]].owner = thread[t].v

\* Under the same condition the result of a read is the callee's answer to this call,
\* not to an earlier one or to one another session made through the same caller; or
\* on this very connection a read, this one or one before, has returned less than a
\* whole answer, of which the code takes no notice.  The damage is confined to the
\* connection: the one that replaces it is in step again (clientcaller.cpp 71-107).
AnswerIsOwn ==
  [][\A t \in Threads :
       ~lost /\ At(t, "read") /\ At(t, "use")' =>
         \/ thread'[t].result = << t, thread[t].round >>
         \/ conn'[Line(t)[2]].torn]_vars

\* The number a caller has before its first connection is that of the standard
\* input, which no call uses or closes, whatever fails (clientcaller.cpp 73-90).
StdinUntouched == fds[0] = Std

-----------------------------------------------------------------------------
(* What keeps the calls going.                                             *)

\* A thread is in the constructor of the pool; or it replaces the connection of
\* its caller.
Building(t)  == At(t, "build") \/ (thread[t].pc \in {"dial", "connect"} /\ thread[t].after = "build")
Replacing(t) == thread[t].pc \in {"dial", "connect"} /\ thread[t].after # "build"

\* Between the callee and the caller there is this call and nothing else.
Under(n, msg) == \/ conn[n].asked = << msg >> /\ conn[n].answered = <<>>
                 \/ conn[n].asked = <<>> /\ conn[n].answered = << msg >>

\* No session waits for one that waits itself: while the pool is not ready a thread
\* is building it, a mutex is held by a thread that is inside a call on that very
\* caller, past its lock_guard (clientcaller.cpp 71-107); and, as long as callers
\* have connections of their own, a read is made only after this call's request
\* was put on the line, or on one that has broken; where reads have returned parts
\* of answers, there is still one to come, or bytes of one.
WaitsEnd ==
  /\ pool = "building" => \E t \in Threads : Building(t)
  /\ \A c \in Callers : lock[c] # NoThread =>
       /\ thread[lock[c]].v = c
       /\ Talking(lock[c]) \/ Replacing(lock[c])
  /\ ~lost => \A t \in Threads : At(t, "read") =>
       \/ Under(Line(t)[2], << t, thread[t].round >>)
       \/ ~conn[Line(t)[2]].up
       \/ conn[Line(t)[2]].torn /\ conn[Line(t)[2]].asked \o conn[Line(t)[2]].answered # <<>>

\* Steps that are left of try_to_connect_callee's three attempts.
Attempts(t) == 2 * (3 - thread[t].tries) + (IF At(t, "dial") THEN 1 ELSE 0)

\* Steps that are left to a session until its socket is closed, at most.
Ahead == [idle |-> 0, use |-> 1, hangup |-> 9, read |-> 10, send |-> 11, lock |-> 19, call |-> 20,
          reduce |-> 21, reload |-> 22, store |-> 23, load |-> 24, pick |-> 25]
Rest(t) == CASE thread[t].after = "build" -> 17 + 8 * (NCallers - thread[t].v)
             [] thread[t].after = "first" -> 11
             [] OTHER                     -> 1
StepsLeft(t) == CASE At(t, "instance")                 -> 26 + 8 * NCallers
                  [] At(t, "build")                    -> 25 + 8 * (NCallers - thread[t].v)
                  [] thread[t].pc \in {"dial", "connect"} -> Rest(t) + Attempts(t)
                  [] OTHER                             -> Ahead[thread[t].pc]

\* A call takes a bounded number of steps, whatever fails: three attempts to connect
\* where it found no connection and three where it lost one, no request is sent
\* again after a failure, no other session's step sets it back (callerpool.cpp
\* 15-41, clientcaller.cpp 41-107).
CallsAdvance ==
  [][\A t \in Threads : /\ Proceed(t) => StepsLeft(t)' < StepsLeft(t)
                        /\ StepsLeft(t)' <= StepsLeft(t) \/ At(t, "idle")]_vars

-----------------------------------------------------------------------------
(* Liveness.                                                               *)

\* A session that waits for its caller gets it and its call returns, as long as
\* callers have connections of their own: the mutex is released on every way out,
\* also after a broken connection (clientcaller.cpp 71-107).
CallsReturn == \A t \in Threads : (At(t, "lock") /\ ~lost) ~> (At(t, "use") \/ lost)
=============================================================================
