----------------------------- MODULE Lifecycle -----------------------------
(***************************************************************************)
(* Start and stop of the proxy (src/core/mobile_core.cpp), the TCP accept  *)
(* loop (Socks5Server::run), the UDP receive loop (UDPServer::Run), the    *)
(* detached threads both of them start, and the process's descriptor table *)
(* they share.  The kernel gives out the lowest free descriptor, a call on *)
(* a descriptor acts on whatever that number names at that moment, and a   *)
(* call that is already blocked keeps the file it found: on Linux, close() *)
(* of a listening descriptor does not wake an accept() that is waiting.    *)
(* Descriptors 1 and 2 are left out, 0 is the standard input.              *)
(***************************************************************************)
EXTENDS Integers, FiniteSets, FiniteSetsExt

CONSTANTS
  Conns,      \* TCP connections of local clients
  Datagrams,  \* datagrams of local clients that get a worker thread
  MaxFd,      \* the descriptor table is 0..MaxFd
  MaxStarts   \* bound: how often start_server is called

ASSUME MaxFdAssumption     == MaxFd \in Nat \ {0}
ASSUME MaxStartsAssumption == MaxStarts \in Nat \ {0}
ASSUME FiniteAssumption    == IsFiniteSet(Conns) /\ IsFiniteSet(Datagrams)
\* The names of the threads differ.
ASSUME NamesAssumption     == {"main", "udp"} \cap (Conns \cup Datagrams) = {}

VARIABLES
  fds,      \* the descriptor table: what each number names
  main,     \* the thread that calls start_server and stop_server
  gen,      \* how many times start_server has built the servers
  tcp,      \* g_tcpRoutine: pc, the new descriptor, the file accept waits on
  handle,   \* g_tcpServer->handle
  udp,      \* g_udpRoutine: pc and the local variable fd
  stop,     \* g_udpServer->stop
  backlog,  \* connections waiting at the current TCP listener
  session,  \* [Conns -> a detached session thread: pc, its two descriptors]
  worker,   \* [Datagrams -> a detached UDP worker: pc, its socket, the copy of fd and
            \* the server it was copied from]
  thieves   \* history: threads that closed a descriptor of somebody else's

vars == << fds, main, gen, tcp, handle, udp, stop, backlog, session, worker, thieves >>
others == << gen, handle, stop >>

Fd   == 0..MaxFd
NoFd == -1

Free  == << "free", 0 >>
Stdin == << "stdin", 0 >>
TcpListener(g) == << "tcp", g >>
UdpListener(g) == << "udp", g >>
ClientSock(c)   == << "client", c >>
UpstreamSock(c) == << "upstream", c >>
WorkerSock(d)   == << "worker", d >>

-----------------------------------------------------------------------------
(* The descriptor table.                                                   *)

FreeFds == {f \in Fd : fds[f] = Free}

\* socket() and accept() when the table is full.
TableFull == FreeFds = {}

\* socket() and accept() name the new file with the lowest free number.
Opened(file) == [fds EXCEPT ![Min(FreeFds)] = file]

Named(f) == IF f \in Fd THEN fds[f] ELSE Free

\* close(f) by thread t, which means to close file.  A number that is not open
\* is left alone (EBADF).
CloseFd(t, f, file) ==
  /\ fds' = [g \in Fd |-> IF g = f THEN Free ELSE fds[g]]
  /\ thieves' = IF Named(f) \in {file, Free} THEN thieves ELSE thieves \cup {t}

-----------------------------------------------------------------------------
Init ==
  /\ fds = [f \in Fd |-> IF f = 0 THEN Stdin ELSE Free]
  /\ main = "idle"
  /\ gen = 0
  /\ tcp = [pc |-> "none", new |-> NoFd, file |-> Free]
  /\ handle = 0
  /\ udp = [pc |-> "none", fd |-> NoFd]
  /\ stop = FALSE
  /\ backlog = {}
  /\ session = [c \in Conns |-> [pc |-> "none", src |-> NoFd, dst |-> NoFd]]
  /\ worker = [d \in Datagrams |-> [pc |-> "none", own |-> NoFd, out |-> NoFd, gen |-> 0]]
  /\ thieves = {}

-----------------------------------------------------------------------------
(* start_server and stop_server.                                           *)

\* Both servers are built (handle is 0 and stop is false) and both threads run.
\* The caller starts a stopped proxy only.
StartServer ==
  /\ main = "idle" /\ gen < MaxStarts
  /\ main' = "running"
  /\ gen' = gen + 1
  /\ handle' = 0
  /\ stop' = FALSE
  /\ tcp' = [pc |-> "start", new |-> NoFd, file |-> Free]
  /\ udp' = [pc |-> "start", fd |-> NoFd]
  /\ backlog' = {}
  /\ UNCHANGED << fds, session, worker, thieves >>

\* g_tcpServer->shutdown(): close(handle), whatever handle is by now.
StopTcp ==
  /\ main = "running"
  /\ main' = "stopUdp"
  /\ CloseFd("main", handle, TcpListener(gen))
  /\ UNCHANGED << others, tcp, udp, backlog, session, worker >>

\* g_udpServer->stop_server().
StopUdp ==
  /\ main = "stopUdp"
  /\ main' = "joinTcp"
  /\ stop' = TRUE
  /\ UNCHANGED << fds, gen, handle, tcp, udp, backlog, session, worker, thieves >>

\* Mutated: the server is deleted without waiting for its thread.
JoinTcpSkipped ==
  /\ main = "joinTcp"
  /\ main' = "delete"
  /\ UNCHANGED << fds, others, tcp, udp, backlog, session, worker, thieves >>

JoinTcp ==
  /\ main = "joinTcp"
  /\ tcp.pc = "exited"
  /\ main' = "delete"
  /\ UNCHANGED << fds, others, tcp, udp, backlog, session, worker, thieves >>

\* delete g_tcpServer: the destructor calls shutdown(), which closes handle a
\* second time.
DeleteTcpServer ==
  /\ main = "delete"
  /\ main' = "joinUdp"
  /\ CloseFd("main", handle, TcpListener(gen))
  /\ UNCHANGED << others, tcp, udp, backlog, session, worker >>

\* The UDP thread is joined; g_udpServer is forgotten, never deleted.
JoinUdp ==
  /\ main = "joinUdp"
  /\ udp.pc = "exited"
  /\ main' = "idle"
  /\ UNCHANGED << fds, others, tcp, udp, backlog, session, worker, thieves >>

-----------------------------------------------------------------------------
(* Socks5Server::run.                                                      *)

\* create_listening_socket: socket() and bind() work.
TcpCreate ==
  /\ tcp.pc = "start"
  /\ ~TableFull
  /\ fds' = Opened(TcpListener(gen))
  /\ tcp' = [tcp EXCEPT !.pc = "created", !.new = Min(FreeFds)]
  /\ UNCHANGED << main, others, udp, backlog, session, worker, thieves >>

\* socket() or bind() fails; create_listening_socket has closed what it opened,
\* handle becomes -1 and run returns.
TcpCreateFails ==
  /\ tcp.pc = "start"
  /\ handle' = NoFd
  /\ tcp' = [tcp EXCEPT !.pc = "exited"]
  /\ UNCHANGED << fds, main, gen, stop, udp, backlog, session, worker, thieves >>

\* handle = create_listening_socket(...): only now can shutdown() find it.
TcpPublish ==
  /\ tcp.pc = "created"
  /\ handle' = tcp.new
  /\ tcp' = [tcp EXCEPT !.pc = "listen", !.new = NoFd]
  /\ UNCHANGED << fds, main, gen, stop, udp, backlog, session, worker, thieves >>

\* listen(handle): -1 when handle no longer names the bound socket.
TcpListen ==
  /\ tcp.pc = "listen"
  /\ tcp' = [tcp EXCEPT !.pc = IF Named(handle) = TcpListener(gen) THEN "accept" ELSE "exited"]
  /\ UNCHANGED << fds, main, others, udp, backlog, session, worker, thieves >>

\* Mutated: an error of accept does not end the loop.
TcpAcceptRetries ==
  /\ tcp.pc = "accept"
  /\ Named(handle) = TcpListener(gen)
  /\ tcp' = [tcp EXCEPT !.pc = "blocked", !.file = Named(handle)]
  /\ UNCHANGED << fds, main, others, udp, backlog, session, worker, thieves >>

\* Entering accept(handle): the kernel looks the number up once.
TcpAccept ==
  /\ tcp.pc = "accept"
  /\ tcp' = IF Named(handle) = TcpListener(gen)
            THEN [tcp EXCEPT !.pc = "blocked", !.file = Named(handle)]
            ELSE [tcp EXCEPT !.pc = "exited"]
  /\ UNCHANGED << fds, main, others, udp, backlog, session, worker, thieves >>

\* Mutated: the connection that was served is accepted again.
TcpAcceptedAgain(c) ==
  /\ tcp.pc = "blocked"
  /\ c \in backlog
  /\ ~TableFull
  /\ fds' = Opened(ClientSock(c))
  /\ session' = [session EXCEPT ![c] = [pc |-> "hello", src |-> Min(FreeFds), dst |-> NoFd]]
  /\ tcp' = [tcp EXCEPT !.pc = "accept", !.file = Free]
  /\ UNCHANGED << main, others, udp, backlog, worker, thieves >>

\* accept returns a connection: build_service_routine starts its thread.
TcpAccepted(c) ==
  /\ tcp.pc = "blocked"
  /\ c \in backlog
  /\ ~TableFull
  /\ fds' = Opened(ClientSock(c))
  /\ session' = [session EXCEPT ![c] = [pc |-> "hello", src |-> Min(FreeFds), dst |-> NoFd]]
  /\ backlog' = backlog \ {c}
  /\ tcp' = [tcp EXCEPT !.pc = "accept", !.file = Free]
  /\ UNCHANGED << main, others, udp, worker, thieves >>

\* accept fails, out of descriptors or because a connection was aborted before it
\* was taken: the loop breaks and run returns.
TcpAcceptFails ==
  /\ tcp.pc = "blocked"
  /\ backlog # {}
  /\ \/ TableFull /\ UNCHANGED backlog
     \/ \E c \in backlog : backlog' = backlog \ {c}
  /\ tcp' = [tcp EXCEPT !.pc = "exited", !.file = Free]
  /\ UNCHANGED << fds, main, others, udp, session, worker, thieves >>

\* A listener takes connections while a number or a blocked accept holds it.
Listening == /\ tcp.pc \in {"accept", "blocked"}
             /\ TcpListener(gen) \in {tcp.file} \cup {fds[f] : f \in Fd}

ClientConnects(c) ==
  /\ Listening
  /\ session[c].pc = "none"
  /\ c \notin backlog
  /\ backlog' = backlog \cup {c}
  /\ UNCHANGED << fds, main, others, tcp, udp, session, worker, thieves >>

-----------------------------------------------------------------------------
(* doServeOnOne, in a detached thread that owns copies of all it uses.     *)

\* The handshake succeeds: the upstream socket is open, the pumps run.
SessionConnects(c) ==
  /\ session[c].pc = "hello"
  /\ ~TableFull
  /\ fds' = Opened(UpstreamSock(c))
  /\ session' = [session EXCEPT ![c].pc = "relay", ![c].dst = Min(FreeFds)]
  /\ UNCHANGED << main, others, tcp, udp, backlog, worker, thieves >>

\* Mutated: the wrong stream is closed, and so the client's one is closed twice.
SessionClosesClient(c) ==
  /\ session[c].pc = "relay"
  /\ CloseFd(c, session[c].src, ClientSock(c))
  /\ session' = [session EXCEPT ![c].pc = "closing"]
  /\ UNCHANGED << main, others, tcp, udp, backlog, worker >>

\* Both pumps are joined and ~Stream closes the upstream descriptor.
SessionClosesUpstream(c) ==
  /\ session[c].pc = "relay"
  /\ CloseFd(c, session[c].dst, UpstreamSock(c))
  /\ session' = [session EXCEPT ![c].pc = "closing", ![c].dst = NoFd]
  /\ UNCHANGED << main, others, tcp, udp, backlog, worker >>

\* The last reference to the client's stream goes, after the session or after
\* a handshake that failed.
SessionEnds(c) ==
  /\ session[c].pc \in {"hello", "closing"}
  /\ CloseFd(c, session[c].src, ClientSock(c))
  /\ session' = [session EXCEPT ![c].pc = "ended", ![c].src = NoFd]
  /\ UNCHANGED << main, others, tcp, udp, backlog, worker >>

-----------------------------------------------------------------------------
(* UDPServer::Run.                                                         *)

UdpCreate ==
  /\ udp.pc = "start"
  /\ ~TableFull
  /\ fds' = Opened(UdpListener(gen))
  /\ udp' = [pc |-> "poll", fd |-> Min(FreeFds)]
  /\ UNCHANGED << main, others, tcp, backlog, session, worker, thieves >>

UdpCreateFails ==
  /\ udp.pc = "start"
  /\ udp' = [udp EXCEPT !.pc = "exited"]
  /\ UNCHANGED << fds, main, others, tcp, backlog, session, worker, thieves >>

\* The head of the loop looks at stop.
UdpPoll ==
  /\ udp.pc = "poll"
  /\ udp' = [udp EXCEPT !.pc = IF stop THEN "close" ELSE "recv"]
  /\ UNCHANGED << fds, main, others, tcp, backlog, session, worker, thieves >>

\* recvfrom gets a datagram; its worker thread takes a copy of fd along.
UdpReceive(d) ==
  /\ udp.pc = "recv"
  /\ worker[d].pc = "none"
  /\ worker' = [worker EXCEPT ![d].pc = "start", ![d].out = udp.fd, ![d].gen = gen]
  /\ udp' = [udp EXCEPT !.pc = "poll"]
  /\ UNCHANGED << fds, main, others, tcp, backlog, session, thieves >>

\* Mutated: no receive timeout, and so no return without a datagram.
UdpNeverTimesOut == FALSE /\ UNCHANGED vars

\* recvfrom fails or its 60 s pass.
UdpTimeout ==
  /\ udp.pc = "recv"
  /\ udp' = [udp EXCEPT !.pc = "poll"]
  /\ UNCHANGED << fds, main, others, tcp, backlog, session, worker, thieves >>

UdpClose ==
  /\ udp.pc = "close"
  /\ CloseFd("udp", udp.fd, UdpListener(gen))
  /\ udp' = [pc |-> "exited", fd |-> NoFd]
  /\ UNCHANGED << main, others, tcp, backlog, session, worker >>

-----------------------------------------------------------------------------
(* udp_one_time_routine, in a detached thread.                             *)

WorkerOpens(d) ==
  /\ worker[d].pc = "start"
  /\ ~TableFull
  /\ fds' = Opened(WorkerSock(d))
  /\ worker' = [worker EXCEPT ![d].pc = "ask", ![d].own = Min(FreeFds)]
  /\ UNCHANGED << main, others, tcp, udp, backlog, session, thieves >>

\* socket() failed: the routine returns, ~SocketHandle closes -1.
WorkerOpenFails(d) ==
  /\ worker[d].pc = "start"
  /\ TableFull
  /\ worker' = [worker EXCEPT ![d].pc = "ended", ![d].out = NoFd]
  /\ UNCHANGED << fds, main, others, tcp, udp, backlog, session, thieves >>

\* An answer arrived and is sent through fd, or there was none; ~SocketHandle.
WorkerEnds(d) ==
  /\ worker[d].pc = "ask"
  /\ CloseFd(d, worker[d].own, WorkerSock(d))
  /\ worker' = [worker EXCEPT ![d].pc = "ended", ![d].own = NoFd, ![d].out = NoFd]
  /\ UNCHANGED << main, others, tcp, udp, backlog, session >>

-----------------------------------------------------------------------------
StopServer == StopTcp \/ StopUdp \/ JoinTcp \/ DeleteTcpServer \/ JoinUdp

TcpRoutine == \/ TcpCreate \/ TcpCreateFails \/ TcpPublish \/ TcpListen
              \/ TcpAccept \/ TcpAcceptFails
              \/ \E c \in Conns : TcpAccepted(c)

UdpRoutine == \/ UdpCreate \/ UdpCreateFails \/ UdpPoll \/ UdpTimeout \/ UdpClose
              \/ \E d \in Datagrams : UdpReceive(d)

Session(c) == SessionConnects(c) \/ SessionClosesUpstream(c) \/ SessionEnds(c)

Worker(d) == WorkerOpens(d) \/ WorkerOpenFails(d) \/ WorkerEnds(d)

Next == \/ StartServer
        \/ StopServer
        \/ TcpRoutine
        \/ UdpRoutine
        \/ \E c \in Conns : Session(c) \/ ClientConnects(c)
        \/ \E d \in Datagrams : Worker(d)

\* Threads are scheduled and calls that can return do.  stop_server, once it is
\* called, goes on; nobody has to call it, and no client has to connect.
Fairness == /\ WF_vars(main # "running" /\ StopServer)
            /\ WF_vars(TcpRoutine)
            /\ WF_vars(UdpRoutine)

Spec == Init /\ [][Next]_vars /\ Fairness

-----------------------------------------------------------------------------
Files == {Free, Stdin}
         \cup {TcpListener(g) : g \in 1..MaxStarts} \cup {UdpListener(g) : g \in 1..MaxStarts}
         \cup {ClientSock(c) : c \in Conns} \cup {UpstreamSock(c) : c \in Conns}
         \cup {WorkerSock(d) : d \in Datagrams}

AnyFd == Fd \cup {NoFd}

TypeOK ==
  /\ fds \in [Fd -> Files]
  /\ main \in {"idle", "running", "stopUdp", "joinTcp", "delete", "joinUdp"}
  /\ gen \in 0..MaxStarts
  /\ tcp \in [pc : {"none", "start", "created", "listen", "accept", "blocked", "exited"},
              new : AnyFd, file : Files]
  /\ handle \in AnyFd
  /\ udp \in [pc : {"none", "start", "poll", "recv", "close", "exited"}, fd : AnyFd]
  /\ stop \in BOOLEAN
  /\ backlog \subseteq {c \in Conns : session[c].pc = "none"}
  /\ session \in [Conns -> [pc : {"none", "hello", "relay", "closing", "ended"},
                            src : AnyFd, dst : AnyFd]]
  /\ worker \in [Datagrams -> [pc : {"none", "start", "ask", "ended"}, own : AnyFd, out : AnyFd,
                           gen : 0..MaxStarts]]
  /\ thieves \subseteq {"main", "udp"} \cup Conns \cup Datagrams

-----------------------------------------------------------------------------
(* Safety.                                                                 *)

\* Until stop_server has closed a number that was not, or no longer, its
\* listener's, no thread closes a descriptor of another's, and every detached
\* thread's descriptors name its own sockets; the copy a worker answers through
\* names the socket of its server as long as that server's loop runs
\* (socks5server.cpp 252-304, udpserver.cpp 23-40 and 137-189, stream.cpp 16-23).
DescriptorsOwned ==
  "main" \notin thieves =>
    /\ thieves = {}
    /\ \A c \in Conns :
         /\ session[c].pc \in {"hello", "relay", "closing"} => Named(session[c].src) = ClientSock(c)
         /\ session[c].pc = "relay" => Named(session[c].dst) = UpstreamSock(c)
    /\ \A d \in Datagrams : worker[d].pc = "ask" => Named(worker[d].own) = WorkerSock(d)
    /\ udp.pc \in {"poll", "recv", "close"} =>
         \A f \in {udp.fd} \cup {worker[d].out : d \in {w \in Datagrams :
                                  worker[w].pc \in {"start", "ask"} /\ worker[w].gen = gen}} :
           Named(f) = UdpListener(gen)

\* When stop_server has returned, both threads have ended and neither listening
\* socket is open: the ports are free for the next start_server
\* (mobile_core.cpp 62-101).
NothingListensAfterStop ==
  main = "idle" /\ gen > 0 =>
    /\ tcp.pc = "exited" /\ udp.pc = "exited"
    /\ \A f \in Fd : fds[f] \notin {TcpListener(gen), UdpListener(gen)}

-----------------------------------------------------------------------------
(* Liveness.                                                               *)

\* The flag stop_server sets ends the UDP loop: recvfrom returns within 60 s
\* whatever arrives, and the loop looks again (udpserver.cpp 156-192).
UdpLoopEnds == stop ~> (udp.pc = "exited")

\* If shutdown() closed the listener, the next connection to arrive releases
\* stop_server (socks5server.cpp 280-292, mobile_core.cpp 76-84).
ConnectionReleasesStop ==
  (/\ main = "joinTcp" /\ tcp.pc = "blocked" /\ backlog # {}
   /\ Named(handle) # TcpListener(gen)) ~> (main # "joinTcp")

-----------------------------------------------------------------------------
(* What the program says of itself.                                        *)

\* main.cpp 39 tells the user who interrupts it to wait for the exit, which
\* stop_server precedes: stop_server returns.
StopReturns == (main = "stopUdp") ~> (main = "idle")

\* mobile_core.cpp 86 calls the deletion of g_tcpServer safe: it closes no
\* descriptor but the server's own.
DeleteIsSafe == [][DeleteTcpServer => thieves' = thieves]_vars
=============================================================================
