-------------------------- MODULE LifecycleProofs --------------------------
(***************************************************************************)
(* The safety of Lifecycle for any number of clients, datagrams, starts    *)
(* and descriptors, and that what stop_server does to the routines sticks. *)
(***************************************************************************)
EXTENDS Lifecycle, WellFoundedInduction, TLAPS

-----------------------------------------------------------------------------
(* The descriptor table.                                                   *)

LEMMA FdType == /\ MaxFd \in Nat /\ Fd \subseteq Nat /\ 0 \in Fd /\ NoFd \notin Fd
                /\ NoFd = -1 /\ AnyFd = Fd \cup {NoFd}
  BY MaxFdAssumption DEF Fd, NoFd, AnyFd

LEMMA MinInSet ==
  ASSUME NEW S \in SUBSET Nat, S # {}
  PROVE  Min(S) \in S
<1> DEFINE R == OpToRel(<, Nat)
<1>1. IsWellFoundedOn(R, Nat)
  BY NatLessThanWellFounded
<1>2. \A x, y \in Nat : (<< y, x >> \in R) <=> y < x
  BY DEF OpToRel
<1> HIDE DEF R
<1>3. \E x \in S : \A y \in S : ~(<< y, x >> \in R)
  BY <1>1, WFMin
<1>4. \E x \in S : \A y \in S : x =< y
  <2>1. PICK x \in S : \A y \in S : ~(<< y, x >> \in R)
    BY <1>3
  <2>2. \A y \in S : ~(y < x)
    BY <1>2, <2>1
  <2>3. QED
    BY <2>2
<1>5. QED
  BY <1>4 DEF Min

LEMMA LowestIsFree ==
  ASSUME ~TableFull
  PROVE  Min(FreeFds) \in Fd /\ fds[Min(FreeFds)] = Free
<1>1. FreeFds \in SUBSET Nat /\ FreeFds # {}
  BY FdType DEF FreeFds, TableFull
<1>2. Min(FreeFds) \in FreeFds
  BY <1>1, MinInSet
<1>3. QED
  BY <1>2 DEF FreeFds

LEMMA OpenedTable ==
  ASSUME fds \in [Fd -> Files], ~TableFull, NEW file \in Files, fds' = Opened(file)
  PROVE  /\ fds' \in [Fd -> Files]
         /\ Min(FreeFds) \in Fd
         /\ fds[Min(FreeFds)] = Free
         /\ fds'[Min(FreeFds)] = file
         /\ \A f \in Fd \ {Min(FreeFds)} : fds'[f] = fds[f]
<1> DEFINE m == Min(FreeFds)
<1>1. m \in Fd /\ fds[m] = Free
  BY LowestIsFree
<1> HIDE DEF m
<1>2. fds' = [fds EXCEPT ![m] = file]
  BY DEF Opened, m
<1>3. QED
  BY <1>1, <1>2 DEF m

LEMMA ClosedTable ==
  ASSUME fds \in [Fd -> Files], NEW t, NEW f, NEW file, CloseFd(t, f, file)
  PROVE  /\ fds' \in [Fd -> Files]
         /\ \A g \in Fd : fds'[g] = IF g = f THEN Free ELSE fds[g]
         /\ thieves' \in {thieves, thieves \cup {t}}
         /\ Named(f) \in {file, Free} => thieves' = thieves
         /\ Named(f) \notin {file, Free} => t \in thieves'
  BY DEF CloseFd, Files

-----------------------------------------------------------------------------
(* Type correctness.  The listeners belong to a start, so that there has   *)
(* been one when a routine is at work.                                     *)

Started == gen = 0 => main = "idle" /\ tcp.pc = "none" /\ udp.pc = "none"

TInv == TypeOK /\ Started

LEMMA ListenerFiles ==
  ASSUME TInv, tcp.pc # "none" \/ udp.pc # "none" \/ main # "idle"
  PROVE  gen \in 1..MaxStarts /\ TcpListener(gen) \in Files /\ UdpListener(gen) \in Files
<1>1. gen \in 1..MaxStarts
  BY MaxStartsAssumption DEF TInv, TypeOK, Started
<1>2. QED
  BY <1>1 DEF Files

LEMMA OtherFiles ==
  /\ Free \in Files /\ Stdin \in Files
  /\ \A c \in Conns : ClientSock(c) \in Files /\ UpstreamSock(c) \in Files
  /\ \A d \in Datagrams : WorkerSock(d) \in Files
  BY DEF Files

SessionType == [pc : {"none", "hello", "relay", "closing", "ended"}, src : AnyFd, dst : AnyFd]

WorkerType == [pc : {"none", "start", "ask", "ended"}, own : AnyFd, out : AnyFd,
               gen : 0..MaxStarts]

LEMMA InitTInv == Init => TInv
<1> SUFFICES ASSUME Init PROVE TInv
  OBVIOUS
<1>1. fds \in [Fd -> Files]
  BY FdType, OtherFiles DEF Init
<1>2. session \in [Conns -> SessionType] /\ worker \in [Datagrams -> WorkerType]
  BY FdType, MaxStartsAssumption DEF Init, SessionType, WorkerType
<1>3. /\ main = "idle" /\ gen \in 0..MaxStarts /\ handle \in AnyFd
      /\ backlog = {} /\ thieves = {}
  BY FdType, MaxStartsAssumption, SMT DEF Init
<1>5. stop \in BOOLEAN
  BY DEF Init
<1>4. /\ tcp \in [pc : {"none", "start", "created", "listen", "accept", "blocked", "exited"},
                  new : AnyFd, file : Files]
      /\ udp \in [pc : {"none", "start", "poll", "recv", "close", "exited"}, fd : AnyFd]
      /\ tcp.pc = "none" /\ udp.pc = "none"
  BY FdType, OtherFiles DEF Init
<1>6. QED
  BY <1>1, <1>2, <1>3, <1>4, <1>5 DEF TInv, TypeOK, Started, SessionType, WorkerType

\* A step that opens or closes a descriptor, or none, and changes one detached thread.
LEMMA SessionTInv ==
  ASSUME TInv, NEW c \in Conns, NEW w \in SessionType, session' = [session EXCEPT ![c] = w],
         c \notin backlog', backlog' \subseteq backlog,
         fds' \in [Fd -> Files], thieves' \subseteq thieves \cup {c},
         UNCHANGED << main, others, tcp, udp, worker >>
  PROVE  TInv'
<1>1. session' \in [Conns -> SessionType]
  BY DEF TInv, TypeOK, SessionType
<1>2. backlog' \subseteq {b \in Conns : session'[b].pc = "none"}
  BY DEF TInv, TypeOK
<1>3. QED
  BY <1>1, <1>2 DEF TInv, TypeOK, Started, SessionType, others

LEMMA WorkerTInv ==
  ASSUME TInv, NEW d \in Datagrams, NEW w \in WorkerType, worker' = [worker EXCEPT ![d] = w],
         fds' \in [Fd -> Files], thieves' \subseteq thieves \cup {d},
         UNCHANGED << main, others, tcp, udp, backlog, session >>
  PROVE  TInv'
<1>1. worker' \in [Datagrams -> WorkerType]
  BY DEF TInv, TypeOK, WorkerType
<1>2. QED
  BY <1>1 DEF TInv, TypeOK, Started, WorkerType, others

\* The caller of start_server and stop_server.
LEMMA MainTInv ==
  ASSUME TInv, StartServer \/ StopServer
  PROVE  TInv'
<1>1. CASE StartServer
  <2>1. gen' \in 0..MaxStarts /\ gen' # 0
    BY <1>1, MaxStartsAssumption DEF StartServer, TInv, TypeOK
  <2>2. /\ tcp' \in [pc : {"none", "start", "created", "listen", "accept", "blocked", "exited"},
                     new : AnyFd, file : Files]
        /\ udp' \in [pc : {"none", "start", "poll", "recv", "close", "exited"}, fd : AnyFd]
        /\ handle' \in AnyFd
    BY <1>1, FdType, OtherFiles DEF StartServer
  <2>3. QED
    BY <1>1, <2>1, <2>2 DEF StartServer, TInv, TypeOK, Started
<1>2. CASE StopTcp
  <2>1. fds' \in [Fd -> Files] /\ thieves' \subseteq thieves \cup {"main"}
    BY <1>2, ClosedTable DEF StopTcp, TInv, TypeOK
  <2>2. QED
    BY <1>2, <2>1 DEF StopTcp, TInv, TypeOK, Started, others
<1>3. CASE StopUdp
  BY <1>3 DEF StopUdp, TInv, TypeOK, Started
<1>4. CASE JoinTcp
  BY <1>4 DEF JoinTcp, TInv, TypeOK, Started, others
<1>5. CASE DeleteTcpServer
  <2>1. fds' \in [Fd -> Files] /\ thieves' \subseteq thieves \cup {"main"}
    BY <1>5, ClosedTable DEF DeleteTcpServer, TInv, TypeOK
  <2>2. QED
    BY <1>5, <2>1 DEF DeleteTcpServer, TInv, TypeOK, Started, others
<1>6. CASE JoinUdp
  BY <1>6 DEF JoinUdp, TInv, TypeOK, Started, others
<1>7. QED
  BY <1>1, <1>2, <1>3, <1>4, <1>5, <1>6 DEF StopServer

LEMMA TcpTInv ==
  ASSUME TInv, TcpRoutine
  PROVE  TInv'
<1>1. CASE TcpCreate
  BY <1>1, OpenedTable, ListenerFiles, FdType DEF TcpCreate, TInv, TypeOK, Started, others
<1>2. CASE TcpCreateFails
  BY <1>2, FdType DEF TcpCreateFails, TInv, TypeOK, Started
<1>3. CASE TcpPublish
  BY <1>3, FdType DEF TcpPublish, TInv, TypeOK, Started
<1>4. CASE TcpListen
  BY <1>4 DEF TcpListen, TInv, TypeOK, Started, others
<1>5. CASE TcpAccept
  BY <1>5, ListenerFiles DEF TcpAccept, TInv, TypeOK, Started, others
<1>6. CASE TcpAcceptFails
  BY <1>6, OtherFiles DEF TcpAcceptFails, TInv, TypeOK, Started, others
<1>7. ASSUME NEW c \in Conns, TcpAccepted(c) PROVE TInv'
  BY <1>7, OpenedTable, OtherFiles, FdType DEF TcpAccepted, TInv, TypeOK, Started, others
<1>8. QED
  BY <1>1, <1>2, <1>3, <1>4, <1>5, <1>6, <1>7 DEF TcpRoutine

LEMMA UdpTInv ==
  ASSUME TInv, UdpRoutine
  PROVE  TInv'
<1>1. CASE UdpCreate
  BY <1>1, OpenedTable, ListenerFiles, FdType DEF UdpCreate, TInv, TypeOK, Started, others
<1>2. CASE UdpCreateFails
  BY <1>2 DEF UdpCreateFails, TInv, TypeOK, Started, others
<1>3. CASE UdpPoll
  BY <1>3 DEF UdpPoll, TInv, TypeOK, Started, others
<1>4. CASE UdpTimeout
  BY <1>4 DEF UdpTimeout, TInv, TypeOK, Started, others
<1>5. CASE UdpClose
  <2>1. fds' \in [Fd -> Files] /\ thieves' \subseteq thieves \cup {"udp"}
    BY <1>5, ClosedTable DEF UdpClose, TInv, TypeOK
  <2>2. QED
    BY <1>5, <2>1, FdType DEF UdpClose, TInv, TypeOK, Started, others
<1>6. ASSUME NEW d \in Datagrams, UdpReceive(d) PROVE TInv'
  <2> DEFINE w == [worker[d] EXCEPT !.pc = "start", !.out = udp.fd, !.gen = gen]
  <2>1. w \in WorkerType /\ worker' = [worker EXCEPT ![d] = w]
    BY <1>6 DEF UdpReceive, TInv, TypeOK, WorkerType
  <2> HIDE DEF w
  <2>2. worker' \in [Datagrams -> WorkerType]
    BY <2>1 DEF TInv, TypeOK, WorkerType
  <2>3. QED
    BY <1>6, <2>2 DEF UdpReceive, TInv, TypeOK, Started, WorkerType, others
<1>7. QED
  BY <1>1, <1>2, <1>3, <1>4, <1>5, <1>6 DEF UdpRoutine

LEMMA DetachedTInv ==
  ASSUME TInv,
         \/ \E c \in Conns : Session(c) \/ ClientConnects(c)
         \/ \E d \in Datagrams : Worker(d)
  PROVE  TInv'
<1>1. ASSUME NEW c \in Conns, SessionConnects(c) PROVE TInv'
  <2> DEFINE w == [session[c] EXCEPT !.pc = "relay", !.dst = Min(FreeFds)]
  <2>1. fds' \in [Fd -> Files] /\ Min(FreeFds) \in AnyFd /\ thieves' = thieves
    BY <1>1, OpenedTable, OtherFiles, FdType DEF SessionConnects, TInv, TypeOK
  <2>2. session[c] \in SessionType /\ NoFd \in AnyFd
    BY FdType DEF TInv, TypeOK, SessionType
  <2>3. w \in SessionType
    BY <2>1, <2>2 DEF SessionType
  <2>4. session' = [session EXCEPT ![c] = w]
    BY <1>1, <2>2 DEF SessionConnects
  <2>5. UNCHANGED << main, others, tcp, udp, worker >> /\ c \notin backlog' /\ backlog' \subseteq backlog
    BY <1>1 DEF SessionConnects, TInv, TypeOK, others
  <2> HIDE DEF w
  <2>6. QED
    BY <2>1, <2>3, <2>4, <2>5, SessionTInv
<1>2. ASSUME NEW c \in Conns, SessionClosesUpstream(c) PROVE TInv'
  <2> DEFINE w == [session[c] EXCEPT !.pc = "closing", !.dst = NoFd]
  <2>1. fds' \in [Fd -> Files] /\ thieves' \subseteq thieves \cup {c}
    BY <1>2, ClosedTable DEF SessionClosesUpstream, TInv, TypeOK
  <2>2. session[c] \in SessionType /\ NoFd \in AnyFd
    BY FdType DEF TInv, TypeOK, SessionType
  <2>3. w \in SessionType
    BY <2>1, <2>2 DEF SessionType
  <2>4. session' = [session EXCEPT ![c] = w]
    BY <1>2, <2>2 DEF SessionClosesUpstream
  <2>5. UNCHANGED << main, others, tcp, udp, worker >> /\ c \notin backlog' /\ backlog' \subseteq backlog
    BY <1>2 DEF SessionClosesUpstream, TInv, TypeOK, others
  <2> HIDE DEF w
  <2>6. QED
    BY <2>1, <2>3, <2>4, <2>5, SessionTInv
<1>3. ASSUME NEW c \in Conns, SessionEnds(c) PROVE TInv'
  <2> DEFINE w == [session[c] EXCEPT !.pc = "ended", !.src = NoFd]
  <2>1. fds' \in [Fd -> Files] /\ thieves' \subseteq thieves \cup {c}
    BY <1>3, ClosedTable DEF SessionEnds, TInv, TypeOK
  <2>2. session[c] \in SessionType /\ NoFd \in AnyFd
    BY FdType DEF TInv, TypeOK, SessionType
  <2>3. w \in SessionType
    BY <2>1, <2>2 DEF SessionType
  <2>4. session' = [session EXCEPT ![c] = w]
    BY <1>3, <2>2 DEF SessionEnds
  <2>5. UNCHANGED << main, others, tcp, udp, worker >> /\ c \notin backlog' /\ backlog' \subseteq backlog
    BY <1>3 DEF SessionEnds, TInv, TypeOK, others
  <2> HIDE DEF w
  <2>6. QED
    BY <2>1, <2>3, <2>4, <2>5, SessionTInv
<1>4. ASSUME NEW c \in Conns, ClientConnects(c) PROVE TInv'
  BY <1>4 DEF ClientConnects, TInv, TypeOK, Started, others
<1>5. ASSUME NEW d \in Datagrams, WorkerOpens(d) PROVE TInv'
  <2> DEFINE w == [worker[d] EXCEPT !.pc = "ask", !.own = Min(FreeFds)]
  <2>1. fds' \in [Fd -> Files] /\ Min(FreeFds) \in AnyFd /\ thieves' = thieves
    BY <1>5, OpenedTable, OtherFiles, FdType DEF WorkerOpens, TInv, TypeOK
  <2>2. worker[d] \in WorkerType /\ NoFd \in AnyFd
    BY FdType DEF TInv, TypeOK, WorkerType
  <2>3. w \in WorkerType
    BY <2>1, <2>2 DEF WorkerType
  <2>4. worker' = [worker EXCEPT ![d] = w]
    BY <1>5, <2>2 DEF WorkerOpens
  <2>5. UNCHANGED << main, others, tcp, udp, backlog, session >>
    BY <1>5 DEF WorkerOpens, TInv, TypeOK, others
  <2> HIDE DEF w
  <2>6. QED
    BY <2>1, <2>3, <2>4, <2>5, WorkerTInv
<1>6. ASSUME NEW d \in Datagrams, WorkerOpenFails(d) PROVE TInv'
  <2> DEFINE w == [worker[d] EXCEPT !.pc = "ended", !.out = NoFd]
  <2>1. fds' \in [Fd -> Files] /\ thieves' = thieves
    BY <1>6 DEF WorkerOpenFails, TInv, TypeOK
  <2>2. worker[d] \in WorkerType /\ NoFd \in AnyFd
    BY FdType DEF TInv, TypeOK, WorkerType
  <2>3. w \in WorkerType
    BY <2>1, <2>2 DEF WorkerType
  <2>4. worker' = [worker EXCEPT ![d] = w]
    BY <1>6, <2>2 DEF WorkerOpenFails
  <2>5. UNCHANGED << main, others, tcp, udp, backlog, session >>
    BY <1>6 DEF WorkerOpenFails, TInv, TypeOK, others
  <2> HIDE DEF w
  <2>6. QED
    BY <2>1, <2>3, <2>4, <2>5, WorkerTInv
<1>7. ASSUME NEW d \in Datagrams, WorkerEnds(d) PROVE TInv'
  <2> DEFINE w == [worker[d] EXCEPT !.pc = "ended", !.own = NoFd, !.out = NoFd]
  <2>1. fds' \in [Fd -> Files] /\ thieves' \subseteq thieves \cup {d}
    BY <1>7, ClosedTable DEF WorkerEnds, TInv, TypeOK
  <2>2. worker[d] \in WorkerType /\ NoFd \in AnyFd
    BY FdType DEF TInv, TypeOK, WorkerType
  <2>3. w \in WorkerType
    BY <2>1, <2>2 DEF WorkerType
  <2>4. worker' = [worker EXCEPT ![d] = w]
    BY <1>7, <2>2 DEF WorkerEnds
  <2>5. UNCHANGED << main, others, tcp, udp, backlog, session >>
    BY <1>7 DEF WorkerEnds, TInv, TypeOK, others
  <2> HIDE DEF w
  <2>6. QED
    BY <2>1, <2>3, <2>4, <2>5, WorkerTInv
<1>8. QED
  BY <1>1, <1>2, <1>3, <1>4, <1>5, <1>6, <1>7 DEF Session, Worker

LEMMA NextTInv == TInv /\ [Next]_vars => TInv'
<1>1. CASE UNCHANGED vars
  BY <1>1 DEF vars, TInv, TypeOK, Started
<1>2. QED
  BY <1>1, MainTInv, TcpTInv, UdpTInv, DetachedTInv DEF Next

LEMMA TypeInvariant == Spec => []TInv
  BY InitTInv, NextTInv, PTL DEF Spec

-----------------------------------------------------------------------------
(* Which numbers may name a listener.                                      *)

\* No file belongs to a start to come.
NoneAhead ==
  \A f \in Fd, g \in 1..MaxStarts : fds[f] \in {TcpListener(g), UdpListener(g)} => g <= gen

\* The TCP listener is known by its thread, and to everybody once it is published.
TcpHeld ==
  \A f \in Fd : fds[f] = TcpListener(gen) =>
    \/ tcp.pc = "created" /\ f = tcp.new
    \/ tcp.pc \in {"listen", "accept", "blocked", "exited"} /\ f = handle

UdpHeld ==
  \A f \in Fd : fds[f] = UdpListener(gen) => udp.pc \in {"poll", "recv", "close"} /\ f = udp.fd

\* How far stop_server has come.
Stopping ==
  /\ main \in {"delete", "joinUdp"} \/ (main = "idle" /\ gen > 0) => tcp.pc = "exited"
  /\ main = "joinUdp" \/ (main = "idle" /\ gen > 0) =>
       \A f \in Fd : fds[f] # TcpListener(gen)
  /\ main = "idle" /\ gen > 0 => udp.pc = "exited"

LInv == TInv /\ NoneAhead /\ TcpHeld /\ UdpHeld /\ Stopping

\* Files are told apart by their kind and their owner.
LEMMA FilesDiffer ==
  /\ \A g, h : TcpListener(g) # UdpListener(h)
  /\ \A g : TcpListener(g) \notin {Free, Stdin} /\ UdpListener(g) \notin {Free, Stdin}
  /\ \A g, c : TcpListener(g) \notin {ClientSock(c), UpstreamSock(c), WorkerSock(c)}
  /\ \A g, c : UdpListener(g) \notin {ClientSock(c), UpstreamSock(c), WorkerSock(c)}
  /\ \A b, c : /\ ClientSock(b) \notin {UpstreamSock(c), WorkerSock(c)}
               /\ UpstreamSock(b) # WorkerSock(c)
  /\ \A b : Free \notin {ClientSock(b), UpstreamSock(b), WorkerSock(b)}
  /\ \A g, h : TcpListener(g) = TcpListener(h) \/ UdpListener(g) = UdpListener(h) => g = h
  /\ \A b, c : ClientSock(b) = ClientSock(c) \/ UpstreamSock(b) = UpstreamSock(c)
                 \/ WorkerSock(b) = WorkerSock(c) => b = c
  BY DEF TcpListener, UdpListener, ClientSock, UpstreamSock, WorkerSock, Free, Stdin

LEMMA InitLInv == Init => LInv
<1> SUFFICES ASSUME Init PROVE LInv
  OBVIOUS
<1>1. \A f \in Fd : fds[f] \in {Stdin, Free}
  BY DEF Init
<1>2. NoneAhead /\ TcpHeld /\ UdpHeld
  BY <1>1, FilesDiffer DEF NoneAhead, TcpHeld, UdpHeld
<1>3. Stopping
  BY DEF Init, Stopping
<1>4. QED
  BY <1>2, <1>3, InitTInv DEF LInv

\* A step that lets no number name a listener it did not name before, and takes
\* neither routine back.
LEMMA QuietLInv ==
  ASSUME LInv, TInv', UNCHANGED << gen, handle >>,
         \A f \in Fd, g \in 1..MaxStarts :
           /\ fds'[f] = TcpListener(g) => fds[f] = TcpListener(g)
           /\ fds'[f] = UdpListener(g) => fds[f] = UdpListener(g),
         \/ tcp' = tcp
         \/ /\ tcp.pc \in {"listen", "accept", "blocked"}
            /\ tcp'.pc \in {"listen", "accept", "blocked", "exited"},
         \/ udp' = udp
         \/ /\ udp.pc \in {"poll", "recv"} /\ udp'.pc \in {"poll", "recv", "close"}
            /\ udp'.fd = udp.fd,
         main' = main
  PROVE  LInv'
<1>1. CASE gen = 0
  <2>1. main = "idle" /\ tcp.pc = "none" /\ udp.pc = "none" /\ tcp' = tcp /\ udp' = udp
    BY <1>1 DEF LInv, TInv, Started
  <2>2. \A g \in 1..MaxStarts : ~(g <= gen)
    BY <1>1, MaxStartsAssumption
  <2>3. \A f \in Fd : fds'[f] \notin {TcpListener(0), UdpListener(0)}
    <3>1. \A f \in Fd : fds'[f] \in Files
      BY DEF TInv, TypeOK
    <3>2. \A g \in 1..MaxStarts : g # 0
      BY MaxStartsAssumption
    <3>3. TcpListener(0) \notin Files /\ UdpListener(0) \notin Files
      BY <3>2, FilesDiffer DEF Files
    <3>4. QED
      BY <3>1, <3>3
  <2>4. NoneAhead'
    BY <2>2 DEF LInv, NoneAhead
  <2>5. TcpHeld' /\ UdpHeld' /\ Stopping'
    BY <1>1, <2>1, <2>3 DEF TcpHeld, UdpHeld, Stopping
  <2>6. QED
    BY <2>4, <2>5 DEF LInv
<1>2. CASE gen # 0
  <2>1. gen \in 1..MaxStarts
    BY <1>2, MaxStartsAssumption DEF LInv, TInv, TypeOK
  <2>2. NoneAhead'
    BY DEF LInv, NoneAhead
  <2>3. TcpHeld'
    BY <2>1 DEF LInv, TcpHeld
  <2>4. UdpHeld'
    BY <2>1 DEF LInv, UdpHeld
  <2>5. Stopping'
    BY <2>1 DEF LInv, Stopping
  <2>6. QED
    BY <2>2, <2>3, <2>4, <2>5 DEF LInv
<1>3. QED
  BY <1>1, <1>2

\* What open and close do to the listeners.
LEMMA OpenKeepsListeners ==
  ASSUME TInv, ~TableFull, NEW file \in Files, fds' = Opened(file),
         \A g : file \notin {TcpListener(g), UdpListener(g)}
  PROVE  \A f \in Fd, g \in 1..MaxStarts :
           /\ fds'[f] = TcpListener(g) => fds[f] = TcpListener(g)
           /\ fds'[f] = UdpListener(g) => fds[f] = UdpListener(g)
  BY OpenedTable DEF TInv, TypeOK

LEMMA CloseKeepsListeners ==
  ASSUME TInv, NEW t, NEW n, NEW file, CloseFd(t, n, file)
  PROVE  \A f \in Fd, g \in 1..MaxStarts :
           /\ fds'[f] = TcpListener(g) => fds[f] = TcpListener(g)
           /\ fds'[f] = UdpListener(g) => fds[f] = UdpListener(g)
  BY ClosedTable, FilesDiffer DEF TInv, TypeOK

LEMMA MainLInv ==
  ASSUME LInv, TInv', StartServer \/ StopServer
  PROVE  LInv'
<1> USE DEF LInv
<1>1. CASE StartServer
  <2>1. gen \in Nat /\ gen' = gen + 1 /\ fds' = fds /\ main' = "running"
    BY <1>1, MaxStartsAssumption DEF StartServer, TInv, TypeOK
  <2>2. \A g \in 1..MaxStarts : g <= gen => g <= gen' /\ g # gen'
    BY <2>1, MaxStartsAssumption
  <2>3. NoneAhead'
    BY <2>1, <2>2 DEF NoneAhead
  <2>4. gen' \in 1..MaxStarts
    BY <2>1, <1>1, MaxStartsAssumption DEF StartServer
  <2>5. \A f \in Fd : fds'[f] \notin {TcpListener(gen'), UdpListener(gen')}
    BY <2>1, <2>2, <2>4 DEF NoneAhead
  <2>6. TcpHeld' /\ UdpHeld' /\ Stopping'
    BY <2>1, <2>5 DEF TcpHeld, UdpHeld, Stopping
  <2>7. QED
    BY <2>3, <2>6
<1>2. CASE StopServer
  <2>1. UNCHANGED << gen, handle, tcp, udp >> /\ main # "idle"
    BY <1>2 DEF StopServer, StopTcp, StopUdp, JoinTcp, DeleteTcpServer, JoinUdp, others
  <2>2. gen \in 1..MaxStarts
    BY <2>1, ListenerFiles
  <2>3. \A f \in Fd, g \in 1..MaxStarts :
           /\ fds'[f] = TcpListener(g) => fds[f] = TcpListener(g)
           /\ fds'[f] = UdpListener(g) => fds[f] = UdpListener(g)
    BY <1>2, CloseKeepsListeners
       DEF StopServer, StopTcp, StopUdp, JoinTcp, DeleteTcpServer, JoinUdp, others
  <2>4. NoneAhead' /\ TcpHeld' /\ UdpHeld'
    BY <2>1, <2>2, <2>3 DEF NoneAhead, TcpHeld, UdpHeld
  <2>5. Stopping'
    <3>1. CASE StopTcp \/ StopUdp \/ JoinTcp
      BY <2>1, <3>1 DEF StopTcp, StopUdp, JoinTcp, Stopping
    <3>2. CASE DeleteTcpServer
      <4>1. tcp.pc = "exited" /\ main' = "joinUdp"
        BY <3>2 DEF DeleteTcpServer, Stopping
      <4>2. \A f \in Fd : f = handle => fds'[f] = Free
        BY <3>2, ClosedTable DEF DeleteTcpServer, TInv, TypeOK
      <4>3. \A f \in Fd : fds'[f] # TcpListener(gen)
        BY <2>2, <2>3, <4>1, <4>2, FilesDiffer DEF TcpHeld
      <4>4. QED
        BY <2>1, <4>1, <4>3 DEF Stopping
    <3>3. CASE JoinUdp
      BY <2>1, <3>3 DEF JoinUdp, Stopping, others
    <3>4. QED
      BY <1>2, <3>1, <3>2, <3>3 DEF StopServer
  <2>6. QED
    BY <2>4, <2>5
<1>3. QED
  BY <1>1, <1>2

LEMMA TcpLInv ==
  ASSUME LInv, TInv', TcpRoutine
  PROVE  LInv'
<1>1. CASE TcpCreate
  <2>1. /\ gen \in 1..MaxStarts /\ TcpListener(gen) \in Files /\ gen' = gen /\ gen \in Nat
        /\ tcp.pc = "start" /\ tcp'.pc = "created" /\ tcp'.new = Min(FreeFds)
        /\ UNCHANGED << main, handle, udp >>
    BY <1>1, ListenerFiles, MaxStartsAssumption DEF TcpCreate, LInv, TInv, TypeOK, others
  <2>2. /\ fds'[Min(FreeFds)] = TcpListener(gen)
        /\ \A f \in Fd \ {Min(FreeFds)} : fds'[f] = fds[f]
    BY <1>1, <2>1, OpenedTable DEF TcpCreate, LInv, TInv, TypeOK
  <2>3. NoneAhead'
    BY <2>1, <2>2, FilesDiffer DEF LInv, NoneAhead
  <2>4. TcpHeld'
    BY <2>1, <2>2 DEF LInv, TcpHeld
  <2>5. UdpHeld'
    BY <2>1, <2>2, FilesDiffer DEF LInv, UdpHeld
  <2>6. Stopping'
    BY <2>1 DEF LInv, Stopping
  <2>7. QED
    BY <2>3, <2>4, <2>5, <2>6 DEF LInv
<1>2. CASE TcpCreateFails
  <2>1. /\ tcp.pc = "start" /\ tcp'.pc = "exited" /\ UNCHANGED << fds, main, gen, udp >>
    BY <1>2 DEF TcpCreateFails, LInv, TInv, TypeOK
  <2>2. NoneAhead' /\ TcpHeld' /\ UdpHeld' /\ Stopping'
    BY <2>1 DEF LInv, NoneAhead, TcpHeld, UdpHeld, Stopping
  <2>3. QED
    BY <2>2 DEF LInv
<1>3. CASE TcpPublish
  <2>1. /\ tcp.pc = "created" /\ tcp'.pc = "listen" /\ handle' = tcp.new
        /\ UNCHANGED << fds, main, gen, udp >>
    BY <1>3 DEF TcpPublish, LInv, TInv, TypeOK
  <2>2. NoneAhead' /\ TcpHeld' /\ UdpHeld' /\ Stopping'
    BY <2>1 DEF LInv, NoneAhead, TcpHeld, UdpHeld, Stopping
  <2>3. QED
    BY <2>2 DEF LInv
<1>4. CASE TcpListen \/ TcpAccept \/ TcpAcceptFails
  <2>1. /\ UNCHANGED << fds, main, gen, handle, udp >>
        /\ tcp.pc \in {"listen", "accept", "blocked"}
        /\ tcp'.pc \in {"listen", "accept", "blocked", "exited"}
    BY <1>4, ZenonT(90) DEF TcpListen, TcpAccept, TcpAcceptFails, others, LInv, TInv, TypeOK
  <2>2. QED
    BY <2>1, QuietLInv
<1>5. ASSUME NEW c \in Conns, TcpAccepted(c) PROVE LInv'
  <2>1. /\ UNCHANGED << main, gen, handle, udp >>
        /\ tcp.pc = "blocked" /\ tcp'.pc = "accept"
    BY <1>5 DEF TcpAccepted, others, LInv, TInv, TypeOK
  <2>2. \A f \in Fd, g \in 1..MaxStarts :
           /\ fds'[f] = TcpListener(g) => fds[f] = TcpListener(g)
           /\ fds'[f] = UdpListener(g) => fds[f] = UdpListener(g)
    BY <1>5, OpenKeepsListeners, OtherFiles, FilesDiffer DEF TcpAccepted, LInv
  <2>3. QED
    BY <2>1, <2>2, QuietLInv
<1>6. QED
  BY <1>1, <1>2, <1>3, <1>4, <1>5 DEF TcpRoutine

LEMMA UdpLInv ==
  ASSUME LInv, TInv', UdpRoutine
  PROVE  LInv'
<1>1. CASE UdpCreate
  <2>1. /\ gen \in 1..MaxStarts /\ UdpListener(gen) \in Files /\ gen' = gen /\ gen \in Nat
        /\ udp.pc = "start" /\ udp'.pc = "poll" /\ udp'.fd = Min(FreeFds)
        /\ UNCHANGED << main, handle, tcp >>
    BY <1>1, ListenerFiles, MaxStartsAssumption DEF UdpCreate, LInv, TInv, TypeOK, others
  <2>2. /\ fds'[Min(FreeFds)] = UdpListener(gen)
        /\ \A f \in Fd \ {Min(FreeFds)} : fds'[f] = fds[f]
    BY <1>1, <2>1, OpenedTable DEF UdpCreate, LInv, TInv, TypeOK
  <2>3. NoneAhead'
    BY <2>1, <2>2, FilesDiffer DEF LInv, NoneAhead
  <2>4. TcpHeld'
    BY <2>1, <2>2, FilesDiffer DEF LInv, TcpHeld
  <2>5. UdpHeld'
    BY <2>1, <2>2 DEF LInv, UdpHeld
  <2>6. Stopping'
    BY <2>1, <2>2, FilesDiffer DEF LInv, Stopping
  <2>7. QED
    BY <2>3, <2>4, <2>5, <2>6 DEF LInv
<1>2. CASE UdpCreateFails
  <2>1. /\ udp.pc = "start" /\ udp'.pc = "exited"
        /\ UNCHANGED << fds, main, gen, handle, tcp >>
    BY <1>2 DEF UdpCreateFails, LInv, TInv, TypeOK, others
  <2>2. NoneAhead' /\ TcpHeld' /\ UdpHeld' /\ Stopping'
    BY <2>1 DEF LInv, NoneAhead, TcpHeld, UdpHeld, Stopping
  <2>3. QED
    BY <2>2 DEF LInv
<1>3. CASE UdpPoll \/ UdpTimeout \/ \E d \in Datagrams : UdpReceive(d)
  <2>1. /\ UNCHANGED << fds, main, gen, handle, tcp >>
        /\ udp.pc \in {"poll", "recv"} /\ udp'.pc \in {"poll", "recv", "close"}
        /\ udp'.fd = udp.fd
    BY <1>3, ZenonT(90) DEF UdpPoll, UdpTimeout, UdpReceive, others, LInv, TInv, TypeOK
  <2>2. QED
    BY <2>1, QuietLInv
<1>4. CASE UdpClose
  <2>1. /\ gen \in 1..MaxStarts /\ udp.pc = "close" /\ udp'.pc = "exited"
        /\ UNCHANGED << main, gen, handle, tcp >>
    BY <1>4, ListenerFiles DEF UdpClose, LInv, TInv, TypeOK, others
  <2>2. /\ \A f \in Fd, g \in 1..MaxStarts :
             /\ fds'[f] = TcpListener(g) => fds[f] = TcpListener(g)
             /\ fds'[f] = UdpListener(g) => fds[f] = UdpListener(g)
        /\ \A f \in Fd : f = udp.fd => fds'[f] = Free
    BY <1>4, CloseKeepsListeners, ClosedTable DEF UdpClose, LInv, TInv, TypeOK
  <2>3. NoneAhead' /\ TcpHeld'
    BY <2>1, <2>2 DEF LInv, NoneAhead, TcpHeld
  <2>4. UdpHeld'
    BY <2>1, <2>2, FilesDiffer DEF LInv, UdpHeld
  <2>5. Stopping'
    BY <2>1, <2>2 DEF LInv, Stopping
  <2>6. QED
    BY <2>3, <2>4, <2>5 DEF LInv
<1>5. QED
  BY <1>1, <1>2, <1>3, <1>4 DEF UdpRoutine

\* Only the routines open listeners.
LEMMA DetachedOpensNone ==
  ASSUME TInv,
         \/ \E c \in Conns : Session(c) \/ ClientConnects(c)
         \/ \E d \in Datagrams : Worker(d)
  PROVE  \A f \in Fd, g \in 1..MaxStarts :
           /\ fds'[f] = TcpListener(g) => fds[f] = TcpListener(g)
           /\ fds'[f] = UdpListener(g) => fds[f] = UdpListener(g)
<1> DEFINE Kept == \A f \in Fd, g \in 1..MaxStarts :
                     /\ fds'[f] = TcpListener(g) => fds[f] = TcpListener(g)
                     /\ fds'[f] = UdpListener(g) => fds[f] = UdpListener(g)
<1>1. ASSUME NEW c \in Conns, SessionConnects(c) PROVE Kept
  BY <1>1, OpenKeepsListeners, OtherFiles, FilesDiffer DEF SessionConnects
<1>2. ASSUME NEW c \in Conns, SessionClosesUpstream(c) \/ SessionEnds(c) PROVE Kept
  BY <1>2, CloseKeepsListeners DEF SessionClosesUpstream, SessionEnds
<1>3. ASSUME NEW d \in Datagrams, WorkerOpens(d) PROVE Kept
  BY <1>3, OpenKeepsListeners, OtherFiles, FilesDiffer DEF WorkerOpens
<1>4. ASSUME NEW d \in Datagrams, WorkerEnds(d) PROVE Kept
  BY <1>4, CloseKeepsListeners DEF WorkerEnds
<1>5. ASSUME (\E c \in Conns : ClientConnects(c)) \/ (\E d \in Datagrams : WorkerOpenFails(d))
      PROVE  Kept
  BY <1>5 DEF ClientConnects, WorkerOpenFails
<1>6. QED
  BY <1>1, <1>2, <1>3, <1>4, <1>5 DEF Session, Worker

LEMMA DetachedLInv ==
  ASSUME LInv, TInv',
         \/ \E c \in Conns : Session(c) \/ ClientConnects(c)
         \/ \E d \in Datagrams : Worker(d)
  PROVE  LInv'
<1>1. UNCHANGED << main, gen, handle, tcp, udp >>
  BY DEF Session, SessionConnects, SessionClosesUpstream, SessionEnds, ClientConnects,
         Worker, WorkerOpens, WorkerOpenFails, WorkerEnds, others
<1>2. \A f \in Fd, g \in 1..MaxStarts :
         /\ fds'[f] = TcpListener(g) => fds[f] = TcpListener(g)
         /\ fds'[f] = UdpListener(g) => fds[f] = UdpListener(g)
  BY DetachedOpensNone DEF LInv
<1>3. QED
  BY <1>1, <1>2, QuietLInv

LEMMA NextLInv == LInv /\ [Next]_vars => LInv'
<1> SUFFICES ASSUME LInv, [Next]_vars PROVE LInv'
  OBVIOUS
<1>1. TInv'
  BY NextTInv DEF LInv
<1>2. CASE UNCHANGED vars
  BY <1>1, <1>2, QuietLInv DEF vars
<1>3. QED
  BY <1>1, <1>2, MainLInv, TcpLInv, UdpLInv, DetachedLInv DEF Next

LEMMA ListenersInvariant == Spec => []LInv
  BY InitLInv, NextLInv, PTL DEF Spec

-----------------------------------------------------------------------------
(* The routines end.  A stop works by two facts that nothing undoes before *)
(* the next start: the flag for the UDP loop and, for the TCP loop, that   *)
(* its listener has no number any more.                                    *)

Deaf == tcp.pc \notin {"none", "start"} /\ \A f \in Fd : fds[f] # TcpListener(gen)

TcpSteps == [created |-> 4, listen |-> 3, blocked |-> 2, accept |-> 1,
             exited |-> 0, none |-> 0, start |-> 0]
UdpSteps == [start |-> 4, recv |-> 3, poll |-> 2, close |-> 1, exited |-> 0, none |-> 0]

\* How many calls are left to a routine that is to end.
TcpLeft == TcpSteps[tcp.pc]
UdpLeft == UdpSteps[udp.pc]

\* Once the listener is closed the accept loop has at most four more calls to make
\* and serves at most the connection a blocked accept returns; once the flag is set
\* the UDP loop takes at most one more datagram; and no step of any thread, be it
\* one that is given the listener's old number, changes that before the next start
\* (socks5server.cpp 261-308, udpserver.cpp 146-192).
StopSticks ==
  [][~StartServer =>
       /\ Deaf => Deaf' /\ TcpLeft' <= TcpLeft /\ (TcpRoutine => TcpLeft' < TcpLeft)
       /\ stop => stop' /\ UdpLeft' <= UdpLeft /\ (UdpRoutine => UdpLeft' < UdpLeft)]_vars

LEMMA MainSticks ==
  ASSUME TInv, StopServer
  PROVE  /\ UNCHANGED << gen, tcp, udp >> /\ (stop => stop')
         /\ Deaf => Deaf'
<1>1. UNCHANGED << gen, tcp, udp >> /\ (stop => stop')
  BY DEF StopServer, StopTcp, StopUdp, JoinTcp, DeleteTcpServer, JoinUdp, others
<1>2. ASSUME Deaf PROVE Deaf'
  <2>1. gen \in 1..MaxStarts
    BY <1>2, ListenerFiles DEF Deaf
  <2>2. \A f \in Fd, g \in 1..MaxStarts :
           /\ fds'[f] = TcpListener(g) => fds[f] = TcpListener(g)
           /\ fds'[f] = UdpListener(g) => fds[f] = UdpListener(g)
    BY CloseKeepsListeners
       DEF StopServer, StopTcp, StopUdp, JoinTcp, DeleteTcpServer, JoinUdp, others
  <2>3. QED
    BY <1>1, <1>2, <2>1, <2>2 DEF Deaf
<1>3. QED
  BY <1>1, <1>2

LEMMA TcpSticks ==
  ASSUME TInv, TcpRoutine
  PROVE  /\ UNCHANGED << gen, udp, stop >>
         /\ Deaf => Deaf' /\ TcpLeft' < TcpLeft
<1>1. UNCHANGED << gen, udp, stop >>
  BY DEF TcpRoutine, TcpCreate, TcpCreateFails, TcpPublish, TcpListen, TcpAccept,
         TcpAcceptFails, TcpAccepted, others
<1>2. ASSUME Deaf PROVE Deaf' /\ TcpLeft' < TcpLeft
  <2>1. gen \in 1..MaxStarts /\ tcp.pc \notin {"none", "start"}
        /\ \A f \in Fd : fds[f] # TcpListener(gen)
    BY <1>2, ListenerFiles DEF Deaf
  <2>2. Named(handle) # TcpListener(gen)
    BY <2>1, FilesDiffer DEF Named
  <2>3. ~TcpCreate /\ ~TcpCreateFails
    BY <2>1 DEF TcpCreate, TcpCreateFails
  <2>4. CASE TcpPublish
    <3>1. tcp.pc = "created" /\ tcp'.pc = "listen" /\ fds' = fds
      BY <2>4 DEF TcpPublish, TInv, TypeOK
    <3>2. QED
      BY <1>1, <2>1, <3>1 DEF Deaf, TcpLeft, TcpSteps
  <2>5. CASE TcpListen
    <3>1. tcp.pc = "listen" /\ tcp'.pc = "exited" /\ fds' = fds
      BY <2>2, <2>5 DEF TcpListen, TInv, TypeOK
    <3>2. QED
      BY <1>1, <2>1, <3>1 DEF Deaf, TcpLeft, TcpSteps
  <2>6. CASE TcpAccept
    <3>1. tcp.pc = "accept" /\ tcp'.pc = "exited" /\ fds' = fds
      BY <2>2, <2>6 DEF TcpAccept, TInv, TypeOK
    <3>2. QED
      BY <1>1, <2>1, <3>1 DEF Deaf, TcpLeft, TcpSteps
  <2>7. CASE TcpAcceptFails
    <3>1. tcp.pc = "blocked" /\ tcp'.pc = "exited" /\ fds' = fds
      BY <2>7 DEF TcpAcceptFails, TInv, TypeOK
    <3>2. QED
      BY <1>1, <2>1, <3>1 DEF Deaf, TcpLeft, TcpSteps
  <2>8. ASSUME NEW c \in Conns, TcpAccepted(c) PROVE Deaf' /\ TcpLeft' < TcpLeft
    <3>1. tcp.pc = "blocked" /\ tcp'.pc = "accept"
      BY <2>8 DEF TcpAccepted, TInv, TypeOK
    <3>2. \A f \in Fd, g \in 1..MaxStarts :
             /\ fds'[f] = TcpListener(g) => fds[f] = TcpListener(g)
             /\ fds'[f] = UdpListener(g) => fds[f] = UdpListener(g)
      BY <2>8, OpenKeepsListeners, OtherFiles, FilesDiffer DEF TcpAccepted
    <3>3. QED
      BY <1>1, <2>1, <3>1, <3>2 DEF Deaf, TcpLeft, TcpSteps
  <2>9. QED
    BY <2>3, <2>4, <2>5, <2>6, <2>7, <2>8 DEF TcpRoutine
<1>3. QED
  BY <1>1, <1>2

LEMMA UdpSticks ==
  ASSUME TInv, UdpRoutine
  PROVE  /\ UNCHANGED << gen, tcp, stop >>
         /\ Deaf => Deaf'
         /\ stop => UdpLeft' < UdpLeft
<1>1. UNCHANGED << gen, tcp, stop >>
  BY DEF UdpRoutine, UdpCreate, UdpCreateFails, UdpPoll, UdpTimeout, UdpClose, UdpReceive, others
<1>2. ASSUME Deaf PROVE Deaf'
  <2>1. gen \in 1..MaxStarts /\ UdpListener(gen) \in Files
    BY <1>2, ListenerFiles DEF Deaf
  <2>2. CASE UdpCreate
    BY <1>1, <1>2, <2>1, <2>2, OpenedTable, FilesDiffer DEF UdpCreate, Deaf, TInv, TypeOK
  <2>3. CASE UdpClose
    <3>1. \A f \in Fd, g \in 1..MaxStarts :
             /\ fds'[f] = TcpListener(g) => fds[f] = TcpListener(g)
             /\ fds'[f] = UdpListener(g) => fds[f] = UdpListener(g)
      BY <2>3, CloseKeepsListeners DEF UdpClose
    <3>2. QED
      BY <1>1, <1>2, <2>1, <3>1 DEF Deaf
  <2>4. CASE UdpCreateFails \/ UdpPoll \/ UdpTimeout \/ \E d \in Datagrams : UdpReceive(d)
    <3>1. fds' = fds
      BY <2>4 DEF UdpCreateFails, UdpPoll, UdpTimeout, UdpReceive
    <3>2. QED
      BY <1>1, <1>2, <3>1 DEF Deaf
  <2>5. QED
    BY <2>2, <2>3, <2>4 DEF UdpRoutine
<1>3. ASSUME stop PROVE UdpLeft' < UdpLeft
  <2>1. \/ udp.pc = "start" /\ udp'.pc \in {"poll", "exited"}
        \/ udp.pc = "poll" /\ udp'.pc = "close"
        \/ udp.pc = "recv" /\ udp'.pc = "poll"
        \/ udp.pc = "close" /\ udp'.pc = "exited"
    <3>1. CASE UdpCreate
      BY <3>1 DEF UdpCreate
    <3>2. CASE UdpCreateFails
      BY <3>2 DEF UdpCreateFails, TInv, TypeOK
    <3>3. CASE UdpPoll
      BY <1>3, <3>3 DEF UdpPoll, TInv, TypeOK
    <3>4. CASE UdpTimeout
      BY <3>4 DEF UdpTimeout, TInv, TypeOK
    <3>5. CASE UdpClose
      BY <3>5 DEF UdpClose
    <3>6. ASSUME NEW d \in Datagrams, UdpReceive(d)
          PROVE  udp.pc = "recv" /\ udp'.pc = "poll"
      BY <3>6 DEF UdpReceive, TInv, TypeOK
    <3>7. QED
      BY <3>1, <3>2, <3>3, <3>4, <3>5, <3>6 DEF UdpRoutine
  <2>2. QED
    BY <2>1 DEF UdpLeft, UdpSteps
<1>4. QED
  BY <1>1, <1>2, <1>3

LEMMA DetachedSticks ==
  ASSUME TInv,
         \/ \E c \in Conns : Session(c) \/ ClientConnects(c)
         \/ \E d \in Datagrams : Worker(d)
  PROVE  UNCHANGED << gen, tcp, udp, stop >> /\ (Deaf => Deaf')
<1>1. UNCHANGED << gen, tcp, udp, stop >>
  BY DEF Session, SessionConnects, SessionClosesUpstream, SessionEnds, ClientConnects,
         Worker, WorkerOpens, WorkerOpenFails, WorkerEnds, others
<1>2. \A f \in Fd, g \in 1..MaxStarts :
         /\ fds'[f] = TcpListener(g) => fds[f] = TcpListener(g)
         /\ fds'[f] = UdpListener(g) => fds[f] = UdpListener(g)
  BY DetachedOpensNone
<1>3. ASSUME Deaf PROVE Deaf'
  BY <1>1, <1>2, <1>3, ListenerFiles DEF Deaf
<1>4. QED
  BY <1>1, <1>3

-----------------------------------------------------------------------------
(* Who owns which number.                                                  *)

\* A thread that is not the one of stop_server holds number f for its file.
Claims(f, file) ==
  \/ \E c \in Conns : /\ file = ClientSock(c) /\ f = session[c].src
                      /\ session[c].pc \in {"hello", "relay", "closing"}
  \/ \E c \in Conns : /\ file = UpstreamSock(c) /\ f = session[c].dst
                      /\ session[c].pc = "relay"
  \/ \E d \in Datagrams : /\ file = WorkerSock(d) /\ f = worker[d].own
                          /\ worker[d].pc = "ask"
  \/ /\ file = UdpListener(gen) /\ udp.pc \in {"poll", "recv", "close"}
     /\ \/ f = udp.fd
        \/ \E d \in Datagrams : /\ worker[d].pc \in {"start", "ask"} /\ worker[d].gen = gen
                                /\ f = worker[d].out

\* A worker's server has been started, and one that waits for its socket has none yet.
Dated ==
  /\ \A d \in Datagrams : worker[d].gen <= gen
  /\ udp.pc = "start" =>
       \A d \in Datagrams : worker[d].pc \in {"start", "ask"} => worker[d].gen # gen

Honest == "main" \notin thieves =>
            /\ thieves = {}
            /\ \A f \in AnyFd, file \in Files : Claims(f, file) => Named(f) = file

OInv == TInv /\ Dated /\ Honest

\* The property in terms of claims.
LEMMA HonestIsOwned ==
  ASSUME OInv
  PROVE  DescriptorsOwned
<1> SUFFICES ASSUME "main" \notin thieves
             PROVE  /\ thieves = {}
                    /\ \A c \in Conns :
                         /\ session[c].pc \in {"hello", "relay", "closing"} =>
                              Named(session[c].src) = ClientSock(c)
                         /\ session[c].pc = "relay" => Named(session[c].dst) = UpstreamSock(c)
                    /\ \A d \in Datagrams :
                         worker[d].pc = "ask" => Named(worker[d].own) = WorkerSock(d)
                    /\ udp.pc \in {"poll", "recv", "close"} =>
                         \A f \in {udp.fd} \cup {worker[d].out : d \in {w \in Datagrams :
                                        worker[w].pc \in {"start", "ask"} /\ worker[w].gen = gen}} :
                           Named(f) = UdpListener(gen)
  BY DEF DescriptorsOwned
<1>1. /\ thieves = {}
      /\ \A f \in AnyFd, file \in Files : Claims(f, file) => Named(f) = file
  BY DEF OInv, Honest
<1>2. /\ \A c \in Conns : session[c].src \in AnyFd /\ session[c].dst \in AnyFd
      /\ \A d \in Datagrams : worker[d].own \in AnyFd /\ worker[d].out \in AnyFd
      /\ udp.fd \in AnyFd
  BY DEF OInv, TInv, TypeOK
<1>3. ASSUME NEW c \in Conns
      PROVE  /\ session[c].pc \in {"hello", "relay", "closing"} =>
                  Named(session[c].src) = ClientSock(c)
             /\ session[c].pc = "relay" => Named(session[c].dst) = UpstreamSock(c)
  BY <1>1, <1>2, OtherFiles DEF Claims
<1>4. ASSUME NEW d \in Datagrams, worker[d].pc = "ask"
      PROVE  Named(worker[d].own) = WorkerSock(d)
  BY <1>1, <1>2, <1>4, OtherFiles DEF Claims
<1>5. ASSUME udp.pc \in {"poll", "recv", "close"}
      PROVE  /\ Named(udp.fd) = UdpListener(gen)
             /\ \A d \in Datagrams : worker[d].pc \in {"start", "ask"} /\ worker[d].gen = gen =>
                  Named(worker[d].out) = UdpListener(gen)
  <2>1. UdpListener(gen) \in Files
    BY <1>5, ListenerFiles DEF OInv
  <2>2. QED
    BY <1>1, <1>2, <1>5, <2>1 DEF Claims
<1>6. QED
  BY <1>1, <1>3, <1>4, <1>5

\* No thread claims a TCP listener or a closed number.
LEMMA ClaimedFiles ==
  ASSUME NEW f, NEW file, Claims(f, file)
  PROVE  file # Free /\ \A g : file # TcpListener(g)
  BY FilesDiffer DEF Claims

\* A claim names an open number, so it is a number of the table.
LEMMA HonestClaim ==
  ASSUME OInv, "main" \notin thieves, NEW f \in AnyFd, NEW file \in Files, Claims(f, file)
  PROVE  f \in Fd /\ fds[f] = file /\ file # Free
<1>1. Named(f) = file /\ file # Free
  BY ClaimedFiles DEF OInv, Honest
<1>2. QED
  BY <1>1 DEF Named

\* Nothing is opened or closed.
LEMMA QuietHonest ==
  ASSUME OInv, UNCHANGED << fds, thieves >>,
         \A f \in AnyFd, file \in Files : Claims(f, file)' => Claims(f, file)
  PROVE  Honest'
  BY DEF OInv, Honest, Named

\* The lowest free number is nobody's; whoever opens it may claim it.
LEMMA OpenHonest ==
  ASSUME OInv, ~TableFull, NEW new \in Files, fds' = Opened(new), thieves' = thieves,
         \A f \in AnyFd, file \in Files :
           Claims(f, file)' => Claims(f, file) \/ (f = Min(FreeFds) /\ file = new)
  PROVE  Honest'
<1> SUFFICES ASSUME "main" \notin thieves,
                    NEW f \in AnyFd, NEW file \in Files, Claims(f, file)'
             PROVE  fds'[f] = file /\ f \in Fd
  BY DEF OInv, Honest, Named
<1>1. /\ Min(FreeFds) \in Fd /\ fds[Min(FreeFds)] = Free /\ fds'[Min(FreeFds)] = new
      /\ \A g \in Fd \ {Min(FreeFds)} : fds'[g] = fds[g]
  BY OpenedTable DEF OInv, TInv, TypeOK
<1>2. CASE f = Min(FreeFds) /\ file = new
  BY <1>1, <1>2
<1>3. CASE Claims(f, file)
  <2>1. f \in Fd /\ fds[f] = file /\ file # Free
    BY <1>3, HonestClaim
  <2>2. QED
    BY <1>1, <2>1
<1>4. QED
  BY <1>2, <1>3

\* A thread that closes what it claims closes its own, and nobody else's number.
LEMMA CloseHonest ==
  ASSUME OInv, NEW t, t # "main", NEW n \in AnyFd, NEW old \in Files, Claims(n, old),
         CloseFd(t, n, old),
         \A f \in AnyFd, file \in Files : Claims(f, file)' => Claims(f, file) /\ file # old
  PROVE  Honest'
<1> SUFFICES ASSUME "main" \notin thieves'
             PROVE  /\ thieves' = {}
                    /\ \A f \in AnyFd, file \in Files : Claims(f, file)' => Named(f)' = file
  BY DEF Honest
<1>1. /\ thieves' \in {thieves, thieves \cup {t}}
      /\ Named(n) \in {old, Free} => thieves' = thieves
      /\ \A g \in Fd : fds'[g] = IF g = n THEN Free ELSE fds[g]
  BY ClosedTable DEF OInv, TInv, TypeOK
<1>2. "main" \notin thieves
  BY <1>1
<1>3. n \in Fd /\ fds[n] = old
  BY <1>2, HonestClaim
<1>4. thieves' = {}
  BY <1>1, <1>2, <1>3 DEF OInv, Honest, Named
<1>5. ASSUME NEW f \in AnyFd, NEW file \in Files, Claims(f, file)'
      PROVE  Named(f)' = file
  <2>1. f \in Fd /\ fds[f] = file /\ file # old
    BY <1>2, <1>5, HonestClaim
  <2>2. QED
    BY <1>1, <1>3, <2>1 DEF Named
<1>6. QED
  BY <1>4, <1>5

\* stop_server closes the TCP listener or nothing, or becomes a thief.
LEMMA MainCloseHonest ==
  ASSUME OInv, CloseFd("main", handle, TcpListener(gen)), handle \in AnyFd,
         \A f \in AnyFd, file \in Files : Claims(f, file)' => Claims(f, file)
  PROVE  Honest'
<1> SUFFICES ASSUME "main" \notin thieves'
             PROVE  /\ thieves' = {}
                    /\ \A f \in AnyFd, file \in Files : Claims(f, file)' => Named(f)' = file
  BY DEF Honest
<1>1. /\ thieves' \in {thieves, thieves \cup {"main"}}
      /\ Named(handle) \in {TcpListener(gen), Free} => thieves' = thieves
      /\ Named(handle) \notin {TcpListener(gen), Free} => "main" \in thieves'
      /\ \A g \in Fd : fds'[g] = IF g = handle THEN Free ELSE fds[g]
  BY ClosedTable DEF OInv, TInv, TypeOK
<1>2. "main" \notin thieves /\ Named(handle) \in {TcpListener(gen), Free} /\ thieves' = {}
  BY <1>1 DEF OInv, Honest
<1>3. ASSUME NEW f \in AnyFd, NEW file \in Files, Claims(f, file)'
      PROVE  Named(f)' = file
  <2>1. Claims(f, file)
    BY <1>3
  <2>2. f \in Fd /\ fds[f] = file /\ file # Free /\ file # TcpListener(gen)
    BY <1>2, <2>1, HonestClaim, ClaimedFiles
  <2>3. f # handle
    BY <1>2, <2>2 DEF Named
  <2>4. QED
    BY <1>1, <2>2, <2>3 DEF Named
<1>4. QED
  BY <1>2, <1>3

LEMMA InitOInv == Init => OInv
<1> SUFFICES ASSUME Init PROVE OInv
  OBVIOUS
<1>1. /\ thieves = {} /\ udp.pc = "none" /\ gen = 0
      /\ \A c \in Conns : session[c].pc = "none"
      /\ \A d \in Datagrams : worker[d].pc = "none" /\ worker[d].gen = 0
  BY DEF Init
<1>2. Dated
  BY <1>1 DEF Dated
<1>3. Honest
  BY <1>1 DEF Honest, Claims
<1>4. QED
  BY <1>2, <1>3, InitTInv DEF OInv

LEMMA MainOInv ==
  ASSUME OInv, TInv', StartServer \/ StopServer
  PROVE  OInv'
<1>1. CASE StartServer
  <2>1. /\ gen \in Nat /\ gen' = gen + 1 /\ udp'.pc = "start"
        /\ UNCHANGED << fds, session, worker, thieves >>
        /\ \A d \in Datagrams : worker[d].gen \in Nat
    BY <1>1, MaxStartsAssumption DEF StartServer, OInv, TInv, TypeOK
  <2>2. Dated'
    BY <2>1 DEF OInv, Dated
  <2>3. \A f \in AnyFd, file \in Files : Claims(f, file)' => Claims(f, file)
    BY <2>1 DEF Claims
  <2>4. QED
    BY <2>1, <2>2, <2>3, QuietHonest DEF OInv
<1>2. CASE StopServer
  <2>1. UNCHANGED << gen, session, worker, udp, handle >>
    BY <1>2 DEF StopServer, StopTcp, StopUdp, JoinTcp, DeleteTcpServer, JoinUdp, others
  <2>2. Dated' /\ \A f \in AnyFd, file \in Files : Claims(f, file)' => Claims(f, file)
    BY <2>1 DEF OInv, Dated, Claims
  <2>3. CASE StopTcp \/ DeleteTcpServer
    BY <2>2, <2>3, MainCloseHonest DEF StopTcp, DeleteTcpServer, OInv, TInv, TypeOK
  <2>4. CASE StopUdp \/ JoinTcp \/ JoinUdp
    BY <2>2, <2>4, QuietHonest DEF StopUdp, JoinTcp, JoinUdp, OInv
  <2>5. QED
    BY <1>2, <2>2, <2>3, <2>4 DEF StopServer, OInv
<1>3. QED
  BY <1>1, <1>2

LEMMA TcpOInv ==
  ASSUME OInv, TInv', TcpRoutine
  PROVE  OInv'
<1>1. UNCHANGED << gen, worker, udp >>
  BY DEF TcpRoutine, TcpCreate, TcpCreateFails, TcpPublish, TcpListen, TcpAccept,
         TcpAcceptFails, TcpAccepted, others
<1>2. Dated'
  BY <1>1 DEF OInv, Dated
<1>3. CASE TcpCreate
  <2>1. session' = session /\ ~TableFull /\ fds' = Opened(TcpListener(gen)) /\ thieves' = thieves
    BY <1>3 DEF TcpCreate
  <2>2. TcpListener(gen) \in Files
    BY <1>3, ListenerFiles DEF TcpCreate, OInv
  <2>3. \A f \in AnyFd, file \in Files : Claims(f, file)' => Claims(f, file)
    BY <1>1, <2>1 DEF Claims
  <2>4. QED
    BY <1>2, <2>1, <2>2, <2>3, OpenHonest DEF OInv
<1>4. CASE TcpCreateFails \/ TcpPublish \/ TcpListen \/ TcpAccept \/ TcpAcceptFails
  <2>1. UNCHANGED << fds, session, thieves >>
    BY <1>4 DEF TcpCreateFails, TcpPublish, TcpListen, TcpAccept, TcpAcceptFails
  <2>2. \A f \in AnyFd, file \in Files : Claims(f, file)' => Claims(f, file)
    BY <1>1, <2>1 DEF Claims
  <2>3. QED
    BY <1>2, <2>1, <2>2, QuietHonest DEF OInv
<1>5. ASSUME NEW c \in Conns, TcpAccepted(c) PROVE OInv'
  <2>1. ~TableFull /\ fds' = Opened(ClientSock(c)) /\ thieves' = thieves
    BY <1>5 DEF TcpAccepted
  <2>2. /\ session'[c].pc = "hello" /\ session'[c].src = Min(FreeFds)
        /\ \A b \in Conns \ {c} : session'[b] = session[b]
    BY <1>5 DEF TcpAccepted, OInv, TInv, TypeOK
  <2>3. \A f \in AnyFd, file \in Files :
          Claims(f, file)' => Claims(f, file) \/ (f = Min(FreeFds) /\ file = ClientSock(c))
    BY <1>1, <2>2 DEF Claims
  <2>4. QED
    BY <1>2, <2>1, <2>3, OtherFiles, OpenHonest DEF OInv
<1>6. QED
  BY <1>3, <1>4, <1>5 DEF TcpRoutine

LEMMA UdpOInv ==
  ASSUME OInv, TInv', UdpRoutine
  PROVE  OInv'
<1>1. UNCHANGED << gen, session >>
  BY DEF UdpRoutine, UdpCreate, UdpCreateFails, UdpPoll, UdpTimeout, UdpReceive, UdpClose, others
<1>2. CASE UdpCreate
  <2>1. /\ ~TableFull /\ fds' = Opened(UdpListener(gen)) /\ thieves' = thieves
        /\ worker' = worker /\ udp.pc = "start" /\ udp'.pc = "poll" /\ udp'.fd = Min(FreeFds)
    BY <1>2 DEF UdpCreate
  <2>2. UdpListener(gen) \in Files
    BY <1>2, ListenerFiles DEF UdpCreate, OInv
  <2>3. \A d \in Datagrams : worker[d].pc \in {"start", "ask"} => worker[d].gen # gen
    BY <2>1 DEF OInv, Dated
  <2>4. \A f \in AnyFd, file \in Files :
          Claims(f, file)' => Claims(f, file) \/ (f = Min(FreeFds) /\ file = UdpListener(gen))
    BY <1>1, <2>1, <2>3 DEF Claims
  <2>5. Dated'
    BY <1>1, <2>1 DEF OInv, Dated
  <2>6. QED
    BY <2>1, <2>2, <2>4, <2>5, OpenHonest DEF OInv
<1>3. CASE UdpCreateFails \/ UdpPoll \/ UdpTimeout
  <2>1. /\ UNCHANGED << fds, thieves, worker >> /\ udp'.fd = udp.fd
        /\ udp'.pc # "start"
        /\ udp'.pc \in {"poll", "recv", "close"} => udp.pc \in {"poll", "recv", "close"}
    BY <1>3 DEF UdpCreateFails, UdpPoll, UdpTimeout, OInv, TInv, TypeOK
  <2>2. \A f \in AnyFd, file \in Files : Claims(f, file)' => Claims(f, file)
    BY <1>1, <2>1 DEF Claims
  <2>3. Dated'
    BY <1>1, <2>1 DEF OInv, Dated
  <2>4. QED
    BY <2>1, <2>2, <2>3, QuietHonest DEF OInv
<1>4. ASSUME NEW d \in Datagrams, UdpReceive(d) PROVE OInv'
  <2>1. /\ UNCHANGED << fds, thieves >>
        /\ udp.pc = "recv" /\ udp'.pc = "poll" /\ udp'.fd = udp.fd
        /\ worker'[d].pc = "start" /\ worker'[d].out = udp.fd /\ worker'[d].gen = gen
        /\ worker'[d].own = worker[d].own
        /\ \A e \in Datagrams \ {d} : worker'[e] = worker[e]
    BY <1>4 DEF UdpReceive, OInv, TInv, TypeOK
  <2>2. \A f \in AnyFd, file \in Files : Claims(f, file)' => Claims(f, file)
    BY <1>1, <2>1 DEF Claims
  <2>3. Dated'
    BY <1>1, <2>1, MaxStartsAssumption DEF OInv, Dated, TInv, TypeOK
  <2>4. QED
    BY <2>1, <2>2, <2>3, QuietHonest DEF OInv
<1>5. CASE UdpClose
  <2>1. /\ CloseFd("udp", udp.fd, UdpListener(gen)) /\ worker' = worker
        /\ udp.pc = "close" /\ udp'.pc = "exited"
    BY <1>5 DEF UdpClose
  <2>2. UdpListener(gen) \in Files /\ udp.fd \in AnyFd
    BY <1>5, ListenerFiles DEF UdpClose, OInv, TInv, TypeOK
  <2>3. Claims(udp.fd, UdpListener(gen))
    BY <2>1 DEF Claims
  <2>4. \A f \in AnyFd, file \in Files :
          Claims(f, file)' => Claims(f, file) /\ file # UdpListener(gen)
    BY <1>1, <2>1, FilesDiffer DEF Claims
  <2>5. Dated'
    BY <1>1, <2>1 DEF OInv, Dated
  <2>6. QED
    BY <2>1, <2>2, <2>3, <2>4, <2>5, CloseHonest DEF OInv
<1>6. QED
  BY <1>2, <1>3, <1>4, <1>5 DEF UdpRoutine

LEMMA SessionOInv ==
  ASSUME OInv, TInv', NEW c \in Conns, c # "main", Session(c) \/ ClientConnects(c)
  PROVE  OInv'
<1>1. UNCHANGED << gen, udp, worker >> /\ Dated'
  BY DEF Session, SessionConnects, SessionClosesUpstream, SessionEnds, ClientConnects, others,
         OInv, Dated
<1>2. CASE SessionConnects(c)
  <2>1. ~TableFull /\ fds' = Opened(UpstreamSock(c)) /\ thieves' = thieves /\ session[c].pc = "hello"
    BY <1>2 DEF SessionConnects
  <2>2. /\ session'[c].src = session[c].src /\ session'[c].dst = Min(FreeFds)
        /\ \A b \in Conns \ {c} : session'[b] = session[b]
    BY <1>2 DEF SessionConnects, OInv, TInv, TypeOK
  <2>3. \A f \in AnyFd, file \in Files :
          Claims(f, file)' => Claims(f, file) \/ (f = Min(FreeFds) /\ file = UpstreamSock(c))
    BY <1>1, <2>1, <2>2 DEF Claims
  <2>4. QED
    BY <1>1, <2>1, <2>3, OtherFiles, OpenHonest DEF OInv
<1>3. CASE SessionClosesUpstream(c)
  <2>1. CloseFd(c, session[c].dst, UpstreamSock(c)) /\ session[c].pc = "relay"
    BY <1>3 DEF SessionClosesUpstream
  <2>2. /\ session'[c].src = session[c].src /\ session'[c].pc = "closing"
        /\ session[c].dst \in AnyFd
        /\ \A b \in Conns \ {c} : session'[b] = session[b]
    BY <1>3 DEF SessionClosesUpstream, OInv, TInv, TypeOK
  <2>3. Claims(session[c].dst, UpstreamSock(c))
    BY <2>1 DEF Claims
  <2>4. \A f \in AnyFd, file \in Files :
          Claims(f, file)' => Claims(f, file) /\ file # UpstreamSock(c)
    BY <1>1, <2>1, <2>2, FilesDiffer DEF Claims
  <2>5. QED
    BY <1>1, <2>1, <2>2, <2>3, <2>4, OtherFiles, CloseHonest DEF OInv
<1>4. CASE SessionEnds(c)
  <2>1. CloseFd(c, session[c].src, ClientSock(c)) /\ session[c].pc \in {"hello", "closing"}
    BY <1>4 DEF SessionEnds
  <2>2. /\ session'[c].pc = "ended" /\ session[c].src \in AnyFd
        /\ \A b \in Conns \ {c} : session'[b] = session[b]
    BY <1>4 DEF SessionEnds, OInv, TInv, TypeOK
  <2>3. Claims(session[c].src, ClientSock(c))
    BY <2>1 DEF Claims
  <2>4. \A f \in AnyFd, file \in Files :
          Claims(f, file)' => Claims(f, file) /\ file # ClientSock(c)
    BY <1>1, <2>1, <2>2, FilesDiffer DEF Claims
  <2>5. QED
    BY <1>1, <2>1, <2>2, <2>3, <2>4, OtherFiles, CloseHonest DEF OInv
<1>5. CASE ClientConnects(c)
  <2>1. UNCHANGED << fds, thieves, session >>
    BY <1>5 DEF ClientConnects
  <2>2. \A f \in AnyFd, file \in Files : Claims(f, file)' => Claims(f, file)
    BY <1>1, <2>1 DEF Claims
  <2>3. QED
    BY <1>1, <2>1, <2>2, QuietHonest DEF OInv
<1>6. QED
  BY <1>2, <1>3, <1>4, <1>5 DEF Session

LEMMA WorkerOInv ==
  ASSUME OInv, TInv', NEW d \in Datagrams, d # "main", Worker(d)
  PROVE  OInv'
<1>1. UNCHANGED << gen, udp, session >>
  BY DEF Worker, WorkerOpens, WorkerOpenFails, WorkerEnds, others
<1>2. CASE WorkerOpens(d)
  <2>1. ~TableFull /\ fds' = Opened(WorkerSock(d)) /\ thieves' = thieves /\ worker[d].pc = "start"
    BY <1>2 DEF WorkerOpens
  <2>2. /\ worker'[d].own = Min(FreeFds)
        /\ worker'[d].out = worker[d].out /\ worker'[d].gen = worker[d].gen
        /\ \A e \in Datagrams \ {d} : worker'[e] = worker[e]
    BY <1>2 DEF WorkerOpens, OInv, TInv, TypeOK
  <2>3. \A f \in AnyFd, file \in Files :
          Claims(f, file)' => Claims(f, file) \/ (f = Min(FreeFds) /\ file = WorkerSock(d))
    BY <1>1, <2>1, <2>2 DEF Claims
  <2>4. Dated'
    BY <1>1, <2>1, <2>2 DEF OInv, Dated
  <2>5. QED
    BY <2>1, <2>3, <2>4, OtherFiles, OpenHonest DEF OInv
<1>3. CASE WorkerOpenFails(d)
  <2>1. /\ UNCHANGED << fds, thieves >> /\ worker'[d].pc = "ended"
        /\ worker'[d].gen = worker[d].gen
        /\ \A e \in Datagrams \ {d} : worker'[e] = worker[e]
    BY <1>3 DEF WorkerOpenFails, OInv, TInv, TypeOK
  <2>2. \A f \in AnyFd, file \in Files : Claims(f, file)' => Claims(f, file)
    BY <1>1, <2>1 DEF Claims
  <2>3. Dated'
    BY <1>1, <2>1 DEF OInv, Dated
  <2>4. QED
    BY <2>1, <2>2, <2>3, QuietHonest DEF OInv
<1>4. CASE WorkerEnds(d)
  <2>1. CloseFd(d, worker[d].own, WorkerSock(d)) /\ worker[d].pc = "ask"
    BY <1>4 DEF WorkerEnds
  <2>2. /\ worker'[d].pc = "ended" /\ worker'[d].gen = worker[d].gen
        /\ worker[d].own \in AnyFd
        /\ \A e \in Datagrams \ {d} : worker'[e] = worker[e]
    BY <1>4 DEF WorkerEnds, OInv, TInv, TypeOK
  <2>3. Claims(worker[d].own, WorkerSock(d))
    BY <2>1 DEF Claims
  <2>4. \A f \in AnyFd, file \in Files :
          Claims(f, file)' => Claims(f, file) /\ file # WorkerSock(d)
    BY <1>1, <2>1, <2>2, FilesDiffer DEF Claims
  <2>5. Dated'
    BY <1>1, <2>2 DEF OInv, Dated
  <2>6. QED
    BY <2>1, <2>2, <2>3, <2>4, <2>5, OtherFiles, CloseHonest DEF OInv
<1>5. QED
  BY <1>2, <1>3, <1>4 DEF Worker

LEMMA NextOInv == OInv /\ [Next]_vars => OInv'
<1> SUFFICES ASSUME OInv, [Next]_vars PROVE OInv'
  OBVIOUS
<1>1. TInv'
  BY NextTInv DEF OInv
<1>2. CASE UNCHANGED vars
  <2>1. UNCHANGED << fds, thieves, gen, session, worker, udp >>
    BY <1>2 DEF vars
  <2>2. Dated' /\ \A f \in AnyFd, file \in Files : Claims(f, file)' => Claims(f, file)
    BY <2>1 DEF OInv, Dated, Claims
  <2>3. QED
    BY <1>1, <2>1, <2>2, QuietHonest DEF OInv
<1>3. QED
  BY <1>1, <1>2, MainOInv, TcpOInv, UdpOInv, SessionOInv, WorkerOInv, NamesAssumption DEF Next

LEMMA OwnersInvariant == Spec => []OInv
  BY InitOInv, NextOInv, PTL DEF Spec

-----------------------------------------------------------------------------
(* Results.                                                                *)

\* The states of servers, routines, detached threads and the descriptor table are
\* always well-formed; in particular a waiting connection has no session yet
\* (mobile_core.cpp 20-101, socks5server.cpp 261-308, udpserver.cpp 146-192).
THEOREM TypeCorrect == Spec => []TypeOK
<1>1. TInv => TypeOK
  BY DEF TInv
<1>2. QED
  BY <1>1, TypeInvariant, PTL

\* With any number of clients, datagrams, restarts and descriptors, also when the
\* table is full: as long as stop_server closes nothing but its listener, every
\* thread's descriptors name its own sockets and nobody closes another's
\* (socks5server.cpp 252-304, udpserver.cpp 23-40 and 137-189, stream.cpp 16-23).
THEOREM OwnersKept == Spec => []DescriptorsOwned
<1>1. OInv => DescriptorsOwned
  BY HonestIsOwned
<1>2. QED
  BY <1>1, OwnersInvariant, PTL

\* Whatever the interleaving of start_server, stop_server and the two routines, a
\* stop_server that has returned leaves neither routine nor listener behind, even
\* when it closed somebody else's descriptor on the way (mobile_core.cpp 62-101).
THEOREM NothingListens == Spec => []NothingListensAfterStop
<1>1. LInv => NothingListensAfterStop
  BY DEF LInv, Stopping, UdpHeld, NothingListensAfterStop
<1>2. QED
  BY <1>1, ListenersInvariant, PTL
\* With any number of clients, datagrams, restarts and descriptors: a listener that
\* was closed stays closed and a flag that was set stays set until the next start,
\* and from then on every call of a routine is one of the few it has left, whoever
\* is given the listener's number (socks5server.cpp 261-308, udpserver.cpp 146-192).
THEOREM StopSticksAlways == Spec => StopSticks
<1>1. TInv /\ [Next]_vars =>
        [~StartServer =>
           /\ Deaf => Deaf' /\ TcpLeft' <= TcpLeft /\ (TcpRoutine => TcpLeft' < TcpLeft)
           /\ stop => stop' /\ UdpLeft' <= UdpLeft /\ (UdpRoutine => UdpLeft' < UdpLeft)]_vars
  <2> SUFFICES ASSUME TInv, Next, ~StartServer
               PROVE  /\ Deaf => Deaf' /\ TcpLeft' <= TcpLeft /\ (TcpRoutine => TcpLeft' < TcpLeft)
                      /\ stop => stop' /\ UdpLeft' <= UdpLeft /\ (UdpRoutine => UdpLeft' < UdpLeft)
    OBVIOUS
  <2>1. TcpLeft \in Nat /\ UdpLeft \in Nat
    BY DEF TcpLeft, TcpSteps, UdpLeft, UdpSteps, TInv, TypeOK
  <2>2. UNCHANGED tcp => TcpLeft' = TcpLeft
    BY DEF TcpLeft
  <2>3. UNCHANGED udp => UdpLeft' = UdpLeft
    BY DEF UdpLeft
  <2>4. TcpLeft' \in Nat /\ UdpLeft' \in Nat
    <3>1. TInv'
      BY NextTInv
    <3>2. QED
      BY <3>1 DEF TcpLeft, TcpSteps, UdpLeft, UdpSteps, TInv, TypeOK
  <2>5. TcpRoutine => /\ UNCHANGED << udp, stop >>
                      /\ (Deaf => Deaf' /\ TcpLeft' < TcpLeft)
    BY TcpSticks
  <2>6. UdpRoutine => /\ UNCHANGED << tcp, stop >>
                      /\ (Deaf => Deaf')
                      /\ (stop => UdpLeft' < UdpLeft)
    BY UdpSticks
  <2>7. ~TcpRoutine /\ ~UdpRoutine => /\ UNCHANGED << tcp, udp >> /\ (stop => stop')
                                     /\ (Deaf => Deaf')
    BY MainSticks, DetachedSticks DEF Next
  <2>8. Deaf => Deaf'
    BY <2>5, <2>6, <2>7
  <2>9. stop => stop'
    BY <2>5, <2>6, <2>7
  <2>10. Deaf => TcpLeft' <= TcpLeft
    BY <2>1, <2>2, <2>4, <2>5, <2>6, <2>7
  <2>11. ASSUME stop PROVE UdpLeft' <= UdpLeft
    <3>1. UdpLeft' = UdpLeft \/ UdpLeft' < UdpLeft
      BY <2>3, <2>5, <2>6, <2>7, <2>11, ZenonT(90)
    <3>2. QED
      BY <2>1, <2>4, <3>1
  <2>12. QED
    BY <2>5, <2>6, <2>8, <2>9, <2>10, <2>11
<1>2. QED
  BY <1>1, TypeInvariant, PTL DEF Spec, StopSticks
=============================================================================
