-------------------------- MODULE ProtectRpcProofs --------------------------
(***************************************************************************)
(* The safety of ProtectRpc for any number of sessions, callers, calls,    *)
(* descriptors, connections and faults; that no session waits in vain, and *)
(* that calls advance.                                                     *)
(***************************************************************************)
EXTENDS ProtectRpc, SequenceTheorems, WellFoundedInduction, TLAPS

-----------------------------------------------------------------------------
(* Constants, numbers and sequences.                                       *)

LEMMA ConstantTypes ==
  /\ NCallers \in Nat \ {0} /\ MaxFd \in Nat /\ MaxFd >= 2
  /\ MaxFaults \in Nat /\ MaxConns \in Nat
  /\ AnswerSize \in Nat /\ ValueSize \in 1..AnswerSize /\ AnswerSize >= 1
  /\ \A t \in Threads : MaxCalls[t] \in Nat /\ t # NoThread
  /\ Callers = 0..(NCallers - 1) /\ 0 \in Callers
  /\ Fd = 0..MaxFd /\ 0 \in Fd /\ 1 \in Fd /\ NoFd = -1 /\ NoFd \notin Fd
  BY SizesAssumption, BoundsAssumption, ThreadsAssumption, AnswerAssumption DEF Callers, Fd, NoFd

LEMMA Reduced ==
  ASSUME NEW n \in Nat
  PROVE  n % NCallers \in Callers /\ n % NCallers \in Nat
  BY ConstantTypes

LEMMA MinInSet ==
  ASSUME NEW S \in SUBSET Nat, S # {}
  PROVE  Min(S) \in S
<1> DEFINE R == OpToRel(<, Nat)
<1>1. IsWellFoundedOn(R, Nat)
  BY NatLessThanWellFounded
<1>2. \A x, y \in Nat : (<< y, x >> \in R) <=> y < x
  BY DEF OpToRel
<1> HIDE DEF R
<1>3. \E x \in S : \A y \in S : ~(<< y, x >> \in R)
  BY <1>1, WFMin
<1>4. \E x \in S : \A y \in S : x =< y
  <2>1. PICK x \in S : \A y \in S : ~(<< y, x >> \in R)
    BY <1>3
  <2>2. \A y \in S : ~(y < x)
    BY <1>2, <2>1
  <2>3. QED
    BY <2>2
<1>5. QED
  BY <1>4 DEF Min

LEMMA LowestIsFree ==
  ASSUME FreeFds # {}
  PROVE  Lowest \in Fd /\ fds[Lowest] = Free
<1>1. FreeFds \in SUBSET Nat
  BY ConstantTypes DEF FreeFds
<1>2. Lowest \in FreeFds
  BY <1>1, MinInSet DEF Lowest
<1>3. QED
  BY <1>2 DEF FreeFds

\* Files are told apart by their kind and their owner.
LEMMA FilesDiffer ==
  /\ \A t : {Sock(t), Dialing(t), Conn(t)} \cap {Free, Std} = {}
  /\ \A t, u : Sock(t) # Dialing(u) /\ Sock(t) # Conn(u) /\ Dialing(t) # Conn(u)
  /\ \A t, u : Sock(t) = Sock(u) \/ Dialing(t) = Dialing(u) \/ Conn(t) = Conn(u) => t = u
  /\ Free # Std
  BY DEF Free, Std, Sock, Dialing, Conn

LEMMA FileKinds ==
  /\ \A n : IsConn(Conn(n)) /\ Conn(n)[1] = "conn" /\ Conn(n)[2] = n
  /\ \A t : ~IsConn(Sock(t)) /\ ~IsConn(Dialing(t))
  /\ ~IsConn(Free) /\ ~IsConn(Std)
  /\ \A file \in Files : IsConn(file) => \E n \in 1..MaxConns : file = Conn(n)
  BY DEF Free, Std, Sock, Dialing, Conn, IsConn, Files

LEMMA FileTypes ==
  /\ Free \in Files /\ Std \in Files
  /\ \A t \in Threads : Sock(t) \in Files /\ Dialing(t) \in Files
  /\ \A n \in 1..MaxConns : Conn(n) \in Files
  BY DEF Files

LEMMA SeqFacts ==
  ASSUME NEW T, NEW s \in Seq(T)
  PROVE  /\ Len(s) \in Nat
         /\ \A x \in T : Append(s, x) \in Seq(T) /\ Len(Append(s, x)) = Len(s) + 1
         /\ s # << >> => Head(s) \in T /\ Tail(s) \in Seq(T) /\ Len(s) > 0
  BY AppendProperties, HeadTailProperties, LenProperties, EmptySeq

-----------------------------------------------------------------------------
(* Type correctness.                                                       *)

ConnType == [owner : Callers, up : BOOLEAN, asked : Seq(Calls), answered : Seq(Calls),
             got : 0..(AnswerSize - 1), torn : BOOLEAN]

Places == {"idle", "instance", "build", "pick", "load", "store", "reload", "reduce", "call",
           "lock", "dial", "connect", "send", "read", "hangup", "use"}

ThreadType == [pc : Places,
               round : Nat, sock : Fd \cup {NoFd}, v : Nat, reg : Nat,
               new : Fd \cup {NoFd}, tries : 0..3, after : {"build", "first", "fail"},
               result : Calls \cup {Failed, Foreign}]

\* A session at work is in one of its rounds.
Rounds == \A t \in Threads : /\ thread[t].round <= MaxCalls[t]
                             /\ thread[t].pc # "idle" => thread[t].round >= 1

\* A number names a connection that has been made.
ConnsMade == \A f \in Fd : \A n \in 1..MaxConns : fds[f] = Conn(n) => n \in 1..Len(conn)

\* connect is called on an open descriptor, in one of three attempts.
Dialled == \A t \in Threads : At(t, "connect") => thread[t].new \in Fd /\ thread[t].tries < 3

\* The caller a thread has picked is one of the pool, whatever the counter was.
CallerExists == \A t \in Threads : thread[t].v \in Callers

TInv == TypeOK /\ CallerExists /\ Rounds /\ ConnsMade /\ Dialled

LEMMA TypeParts ==
  ASSUME TypeOK
  PROVE  /\ thread \in [Threads -> ThreadType]
         /\ conn \in Seq(ConnType)
  BY DEF TypeOK, ThreadType, Places, ConnType

\* A field of a thread's record can be set to any value of its type.
LEMMA Edits ==
  ASSUME NEW r \in ThreadType
  PROVE  /\ \A x \in Places : [r EXCEPT !.pc = x] \in ThreadType
         /\ \A x \in Nat : /\ [r EXCEPT !.round = x] \in ThreadType
                           /\ [r EXCEPT !.v = x] \in ThreadType
                           /\ [r EXCEPT !.reg = x] \in ThreadType
         /\ \A x \in Fd \cup {NoFd} : /\ [r EXCEPT !.sock = x] \in ThreadType
                                      /\ [r EXCEPT !.new = x] \in ThreadType
         /\ \A x \in 0..3 : [r EXCEPT !.tries = x] \in ThreadType
         /\ \A x \in {"build", "first", "fail"} : [r EXCEPT !.after = x] \in ThreadType
         /\ \A x \in Calls \cup {Failed, Foreign} : [r EXCEPT !.result = x] \in ThreadType
<1>1. \A x \in Places : [r EXCEPT !.pc = x] \in ThreadType
  BY DEF ThreadType
<1>2. \A x \in Nat : /\ [r EXCEPT !.round = x] \in ThreadType
                     /\ [r EXCEPT !.v = x] \in ThreadType
                     /\ [r EXCEPT !.reg = x] \in ThreadType
  BY DEF ThreadType
<1>3. \A x \in Fd \cup {NoFd} : /\ [r EXCEPT !.sock = x] \in ThreadType
                                /\ [r EXCEPT !.new = x] \in ThreadType
  BY DEF ThreadType
<1>4. /\ \A x \in 0..3 : [r EXCEPT !.tries = x] \in ThreadType
      /\ \A x \in {"build", "first", "fail"} : [r EXCEPT !.after = x] \in ThreadType
  BY DEF ThreadType
<1>5. \A x \in Calls \cup {Failed, Foreign} : [r EXCEPT !.result = x] \in ThreadType
  BY DEF ThreadType
<1>6. QED
  BY <1>1, <1>2, <1>3, <1>4, <1>5

\* What is left of an action once its thread's record and its table are known.
LEMMA ThreadStep ==
  ASSUME TInv, NEW t \in Threads, NEW w \in ThreadType, thread' = [thread EXCEPT ![t] = w],
         w.v \in Callers, w.round = thread[t].round \/ (w.round >= 1 /\ w.round <= MaxCalls[t]),
         w.pc = "idle" \/ thread[t].pc # "idle" \/ w.round >= 1,
         w.pc = "connect" => w.new \in Fd /\ w.tries < 3,
         fds' \in [Fd -> Files], configured' = configured,
         pool' \in {"none", "building", "ready"},
         count' \in Nat, callee' \in [Callers -> Fd],
         lock' \in [Callers -> Threads \cup {NoThread}],
         conn' \in Seq(ConnType), faults' \in 0..MaxFaults, lost' \in BOOLEAN,
         ConnsMade'
  PROVE  /\ TInv'
         /\ thread'[t] = w
         /\ \A u \in Threads \ {t} : thread'[u] = thread[u]
<1>1. /\ thread' \in [Threads -> ThreadType]
      /\ thread'[t] = w
      /\ \A u \in Threads \ {t} : thread'[u] = thread[u]
  BY TypeParts DEF TInv
<1>2. TypeOK'
  BY <1>1 DEF TInv, TypeOK, ThreadType, Places, ConnType
<1>3. CallerExists' /\ Dialled'
  BY <1>1 DEF TInv, CallerExists, Dialled, At
<1>4. Rounds'
  BY <1>1 DEF TInv, Rounds
<1>5. QED
  BY <1>1, <1>2, <1>3, <1>4 DEF TInv

\* The same, where but the thread nothing moves that the types care about.
LEMMA LocalStep ==
  ASSUME TInv, NEW t \in Threads, NEW w \in ThreadType, thread' = [thread EXCEPT ![t] = w],
         w.v \in Callers, w.round = thread[t].round \/ (w.round >= 1 /\ w.round <= MaxCalls[t]),
         w.pc = "idle" \/ thread[t].pc # "idle" \/ w.round >= 1,
         w.pc = "connect" => w.new \in Fd /\ w.tries < 3,
         UNCHANGED << fds, configured, callee, conn, faults >>,
         pool' \in {"none", "building", "ready"}, count' \in Nat,
         lock' \in [Callers -> Threads \cup {NoThread}], lost' \in BOOLEAN
  PROVE  /\ TInv'
         /\ thread'[t] = w
         /\ \A u \in Threads \ {t} : thread'[u] = thread[u]
<1>1. /\ fds' \in [Fd -> Files] /\ callee' \in [Callers -> Fd] /\ conn' \in Seq(ConnType)
      /\ faults' \in 0..MaxFaults /\ ConnsMade'
  BY TypeParts DEF TInv, TypeOK, ConnsMade
<1>2. QED
  BY <1>1, ThreadStep

LEMMA InitTInv == Init => TInv
<1> SUFFICES ASSUME Init PROVE TInv
  OBVIOUS
<1>1. fds \in [Fd -> Files] /\ callee \in [Callers -> Fd]
  BY ConstantTypes, FileTypes DEF Init
<1>2. thread \in [Threads -> ThreadType]
  BY ConstantTypes DEF Init, ThreadType, Places
<1>3. /\ pool \in {"none", "building", "ready"} /\ count \in Nat
      /\ lock \in [Callers -> Threads \cup {NoThread}] /\ conn \in Seq(ConnType)
  BY DEF Init
<1>4. faults \in 0..MaxFaults
  BY ConstantTypes DEF Init
<1>5. configured \in BOOLEAN /\ lost \in BOOLEAN
  BY EarlyAssumption DEF Init
<1>6. CallerExists /\ Rounds /\ Dialled
  BY ConstantTypes DEF Init, CallerExists, Rounds, Dialled, At
<1>7. ConnsMade
  BY FilesDiffer DEF Init, ConnsMade
<1>8. QED
  BY <1>1, <1>2, <1>3, <1>4, <1>5, <1>6, <1>7 DEF TInv, TypeOK, ThreadType, Places, ConnType

-----------------------------------------------------------------------------
(* Each action keeps the types.                                            *)

LEMMA OtherTypes ==
  ASSUME TInv
  PROVE  /\ fds \in [Fd -> Files]
         /\ pool \in {"none", "building", "ready"}
         /\ count \in Nat /\ callee \in [Callers -> Fd]
         /\ lock \in [Callers -> Threads \cup {NoThread}]
         /\ conn \in Seq(ConnType) /\ faults \in 0..MaxFaults /\ lost \in BOOLEAN
  BY TypeParts DEF TInv, TypeOK

LEMMA RecordTypes ==
  ASSUME TInv, NEW t \in Threads
  PROVE  /\ thread[t] \in ThreadType /\ thread[t].v \in Callers /\ thread[t].v \in Nat
         /\ thread[t].round \in Nat /\ thread[t].round <= MaxCalls[t]
         /\ thread[t].reg \in Nat /\ thread[t].tries \in 0..3
         /\ thread[t].pc # "idle" => thread[t].round >= 1
<1>1. thread[t] \in ThreadType /\ thread[t].v \in Callers
  BY TypeParts DEF TInv, CallerExists
<1>2. thread[t].round <= MaxCalls[t] /\ (thread[t].pc # "idle" => thread[t].round >= 1)
  BY DEF TInv, Rounds
<1>3. QED
  BY <1>1, <1>2 DEF ThreadType

\* A session goes on to another place in the code; the table stays as it is.
LEMMA GotoTInv ==
  ASSUME TInv, NEW t \in Threads, NEW pc \in Places \ {"connect"}, thread[t].pc # "idle",
         Goto(t, pc), UNCHANGED << fds, configured, faults >>,
         callee' \in [Callers -> Fd], conn' \in Seq(ConnType), Len(conn') = Len(conn),
         pool' \in {"none", "building", "ready"}, count' \in Nat,
         lock' \in [Callers -> Threads \cup {NoThread}], lost' \in BOOLEAN
  PROVE  TInv'
<1> DEFINE w == [thread[t] EXCEPT !.pc = pc]
<1>1. thread' = [thread EXCEPT ![t] = w]
  BY TypeParts DEF TInv, Goto, ThreadType
<1>2. thread[t] \in ThreadType /\ thread[t].v \in Callers
  BY TypeParts DEF TInv, CallerExists
<1>3. w \in ThreadType
  BY <1>2 DEF ThreadType
<1>4. w.pc # "connect" /\ w.v = thread[t].v /\ w.round = thread[t].round
  BY <1>2 DEF ThreadType
<1> HIDE DEF w
<1>5. ConnsMade'
  BY DEF TInv, ConnsMade
<1>6. QED
  BY <1>1, <1>2, <1>3, <1>4, <1>5, OtherTypes, ThreadStep

\* The number of a free descriptor is given to a file.
LEMMA OpenedType ==
  ASSUME TInv, FreeFds # {}, NEW file \in Files, \A n : file # Conn(n), fds' = Opened(file),
         UNCHANGED conn
  PROVE  fds' \in [Fd -> Files] /\ ConnsMade' /\ Lowest \in Fd
<1>1. Lowest \in Fd
  BY LowestIsFree
<1>2. fds \in [Fd -> Files] /\ ConnsMade
  BY DEF TInv, TypeOK
<1>3. fds' = [fds EXCEPT ![Lowest] = file]
  BY DEF Opened
<1>4. QED
  BY <1>1, <1>2, <1>3 DEF ConnsMade

LEMMA ClosedType ==
  ASSUME TInv, NEW f, fds' = Closed(f), UNCHANGED conn
  PROVE  fds' \in [Fd -> Files] /\ ConnsMade'
<1>1. fds \in [Fd -> Files] /\ ConnsMade
  BY DEF TInv, TypeOK
<1>2. \A n : Free # Conn(n)
  BY FilesDiffer
<1>3. QED
  BY <1>1, <1>2, FileTypes DEF Closed, ConnsMade

LEMMA OpenSocketTInv ==
  ASSUME TInv, NEW t \in Threads, OpenSocket(t)
  PROVE  TInv'
<1> DEFINE w == [thread[t] EXCEPT !.pc = "instance", !.sock = Lowest, !.round = @ + 1,
                                  !.result = Failed]
<1>1. thread' = [thread EXCEPT ![t] = w]
  BY TypeParts DEF TInv, OpenSocket, ThreadType
<1>2. fds' \in [Fd -> Files] /\ ConnsMade' /\ Lowest \in Fd
  BY OpenedType, FileTypes, FilesDiffer DEF OpenSocket
<1>3. thread[t] \in ThreadType /\ thread[t].v \in Callers
  BY TypeParts DEF TInv, CallerExists
<1>4. w \in ThreadType
  <2> DEFINE a == [thread[t] EXCEPT !.pc = "instance"]
             b == [a EXCEPT !.sock = Lowest]
             c == [b EXCEPT !.round = thread[t].round + 1]
             d == [c EXCEPT !.result = Failed]
  <2>1. w = d
    BY <1>3 DEF ThreadType
  <2>2. a \in ThreadType
    BY <1>3, Edits DEF Places
  <2> HIDE DEF a
  <2>3. b \in ThreadType
    BY <2>2, <1>2, Edits
  <2> HIDE DEF b
  <2>4. c \in ThreadType
    <3>1. thread[t].round + 1 \in Nat
      BY <1>3 DEF ThreadType
    <3>2. QED
      BY <3>1, <2>3, Edits
  <2> HIDE DEF c
  <2>5. QED
    BY <2>1, <2>4, Edits
<1>5. w.v = thread[t].v /\ w.pc = "instance" /\ w.round = thread[t].round + 1
  BY <1>3 DEF ThreadType
<1>6. thread[t].round \in Nat /\ thread[t].round < MaxCalls[t] /\ MaxCalls[t] \in Nat
  BY <1>3, ConstantTypes DEF OpenSocket, ThreadType
<1> HIDE DEF w
<1>7. w.v \in Callers /\ w.round >= 1 /\ w.round <= MaxCalls[t]
  BY <1>3, <1>5, <1>6
<1>8. QED
  BY <1>1, <1>2, <1>4, <1>5, <1>7, OtherTypes, ThreadStep DEF OpenSocket

LEMMA OpenSocketFailsTInv ==
  ASSUME TInv, NEW t \in Threads, OpenSocketFails(t)
  PROVE  TInv'
<1>1. PICK pc \in {"idle", "instance"} :
        thread' = [thread EXCEPT ![t].pc = pc, ![t].sock = NoFd, ![t].round = @ + 1,
                                 ![t].result = Failed]
  BY DEF OpenSocketFails
<1> DEFINE w == [thread[t] EXCEPT !.pc = pc, !.sock = NoFd, !.round = @ + 1, !.result = Failed]
<1>2. thread' = [thread EXCEPT ![t] = w]
  BY <1>1, TypeParts DEF TInv, ThreadType
<1>3. thread[t] \in ThreadType /\ thread[t].v \in Callers
  BY TypeParts DEF TInv, CallerExists
<1>4. w \in ThreadType
  <2> DEFINE a == [thread[t] EXCEPT !.pc = pc]
             b == [a EXCEPT !.sock = NoFd]
             c == [b EXCEPT !.round = thread[t].round + 1]
             d == [c EXCEPT !.result = Failed]
  <2>1. w = d
    BY <1>3 DEF ThreadType
  <2>2. a \in ThreadType
    BY <1>3, Edits DEF Places
  <2> HIDE DEF a
  <2>3. b \in ThreadType
    BY <2>2, Edits
  <2> HIDE DEF b
  <2>4. c \in ThreadType
    <3>1. thread[t].round + 1 \in Nat
      BY <1>3 DEF ThreadType
    <3>2. QED
      BY <3>1, <2>3, Edits
  <2> HIDE DEF c
  <2>5. QED
    BY <2>1, <2>4, Edits
<1>5. w.v = thread[t].v /\ w.pc # "connect" /\ w.round = thread[t].round + 1
  BY <1>3 DEF ThreadType
<1>6. thread[t].round \in Nat /\ thread[t].round < MaxCalls[t] /\ MaxCalls[t] \in Nat
  BY <1>3, ConstantTypes DEF OpenSocketFails, ThreadType
<1> HIDE DEF w
<1>7. w.v \in Callers /\ w.round >= 1 /\ w.round <= MaxCalls[t]
  BY <1>3, <1>5, <1>6
<1>8. QED
  BY <1>2, <1>4, <1>5, <1>7, OtherTypes, LocalStep DEF OpenSocketFails

LEMMA ConstructedTInv ==
  ASSUME TInv, NEW t \in Threads, thread[t].pc # "idle", Constructed(t),
         UNCHANGED << fds, configured, count, callee, lock, conn, faults >>, lost' \in BOOLEAN
  PROVE  TInv'
<1>1. CASE thread[t].v + 1 \in Callers
  <2> DEFINE w == [thread[t] EXCEPT !.pc = "build", !.v = @ + 1]
  <2>1. thread[t] \in ThreadType
    BY TypeParts DEF TInv
  <2>2. thread' = [thread EXCEPT ![t] = w]
    BY <1>1, TypeParts DEF TInv, Constructed, ThreadType
  <2>3. w \in ThreadType
    <3> DEFINE a == [thread[t] EXCEPT !.pc = "build"]
               b == [a EXCEPT !.v = thread[t].v + 1]
    <3>1. w = b
      BY <2>1 DEF ThreadType
    <3>2. a \in ThreadType
      BY <2>1, Edits DEF Places
    <3> HIDE DEF a
    <3>3. thread[t].v + 1 \in Nat
      BY <2>1 DEF ThreadType
    <3>4. QED
      BY <3>1, <3>2, <3>3, Edits
  <2>4. w.v = thread[t].v + 1 /\ w.round = thread[t].round /\ w.pc = "build"
    BY <2>1 DEF ThreadType
  <2> HIDE DEF w
  <2>5. w.v \in Callers /\ w.pc # "connect" /\ pool' \in {"none", "building", "ready"}
    BY <1>1, <2>4, OtherTypes DEF Constructed
  <2>6. QED
    BY <2>2, <2>3, <2>4, <2>5, OtherTypes, LocalStep
<1>2. CASE ~(thread[t].v + 1 \in Callers)
  BY <1>2, OtherTypes, GotoTInv DEF Constructed, Places
<1>3. QED
  BY <1>1, <1>2

\* Before try_to_connect_callee nothing but the thread and what it has locked or
\* closed has changed.
LEMMA ToDialTInv ==
  ASSUME TInv, NEW t \in Threads, NEW after \in {"build", "first", "fail"}, ToDial(t, after),
         thread[t].pc # "idle", fds' \in [Fd -> Files], ConnsMade',
         UNCHANGED << configured, pool, count, callee, conn, faults, lost >>,
         lock' \in [Callers -> Threads \cup {NoThread}]
  PROVE  TInv'
<1> DEFINE w == [thread[t] EXCEPT !.pc = "dial", !.tries = 0, !.new = NoFd, !.after = after]
<1>1. thread' = [thread EXCEPT ![t] = w]
  BY TypeParts DEF TInv, ToDial, ThreadType
<1>2. thread[t] \in ThreadType /\ thread[t].v \in Callers
  BY TypeParts DEF TInv, CallerExists
<1>3. w \in ThreadType
  <2> DEFINE a == [thread[t] EXCEPT !.pc = "dial"]
             b == [a EXCEPT !.tries = 0]
             c == [b EXCEPT !.new = NoFd]
             d == [c EXCEPT !.after = after]
  <2>1. w = d
    BY <1>2 DEF ThreadType
  <2>2. a \in ThreadType
    BY <1>2, Edits DEF Places
  <2> HIDE DEF a
  <2>3. b \in ThreadType
    <3>1. 0 \in 0..3
      OBVIOUS
    <3>2. QED
      BY <3>1, <2>2, Edits
  <2> HIDE DEF b
  <2>4. c \in ThreadType
    BY <2>3, Edits
  <2> HIDE DEF c
  <2>5. QED
    BY <2>1, <2>4, Edits
<1>4. w.v = thread[t].v /\ w.round = thread[t].round /\ w.pc = "dial"
  BY <1>2 DEF ThreadType
<1> HIDE DEF w
<1>5. QED
  BY <1>1, <1>2, <1>3, <1>4, OtherTypes, ThreadStep

\* call_protect_socket returns; the descriptor table is not touched.
LEMMA ReturnTInv ==
  ASSUME TInv, NEW t \in Threads, NEW r \in Calls \cup {Failed, Foreign}, Return(t, r),
         thread[t].pc # "idle", callee' \in [Callers -> Fd],
         UNCHANGED << fds, configured, pool, count, faults >>, lost' \in BOOLEAN,
         conn' \in Seq(ConnType), Len(conn') = Len(conn)
  PROVE  TInv'
<1> DEFINE w == [thread[t] EXCEPT !.pc = "use", !.result = r]
<1>1. thread' = [thread EXCEPT ![t] = w]
  BY TypeParts DEF TInv, Return, ThreadType
<1>2. thread[t] \in ThreadType /\ thread[t].v \in Callers
  BY TypeParts DEF TInv, CallerExists
<1>3. w \in ThreadType
  BY <1>2 DEF ThreadType, Places
<1>4. w.v = thread[t].v /\ w.round = thread[t].round /\ w.pc = "use"
  BY <1>2 DEF ThreadType
<1> HIDE DEF w
<1>5. lock' \in [Callers -> Threads \cup {NoThread}]
  BY OtherTypes DEF Return
<1>6. ConnsMade'
  BY DEF TInv, ConnsMade
<1>7. QED
  BY <1>1, <1>2, <1>3, <1>4, <1>5, <1>6, OtherTypes, ThreadStep

LEMMA GetInstanceTInv ==
  ASSUME TInv, NEW t \in Threads, GetInstance(t)
  PROVE  TInv'
<1>1. CASE pool = "ready" /\ Goto(t, "pick") /\ UNCHANGED pool
  BY <1>1, OtherTypes, GotoTInv DEF GetInstance, At, Places
<1>2. CASE pool' = "building" /\ thread' = [thread EXCEPT ![t].pc = "build", ![t].v = 0]
  <2> DEFINE a == [thread[t] EXCEPT !.pc = "build"]
             w == [a EXCEPT !.v = 0]
  <2>1. a \in ThreadType /\ a.round = thread[t].round /\ a.pc = "build"
    BY RecordTypes DEF ThreadType, Places
  <2>2. thread' = [thread EXCEPT ![t] = w]
    BY <1>2, TypeParts DEF TInv, ThreadType
  <2> HIDE DEF a
  <2>3. w \in ThreadType /\ w.round = thread[t].round /\ w.pc = "build" /\ w.v = 0
    BY <2>1, Edits DEF ThreadType
  <2> HIDE DEF w
  <2>4. QED
    BY <1>2, <2>2, <2>3, ConstantTypes, OtherTypes, LocalStep DEF GetInstance, At
<1>3. QED
  BY <1>1, <1>2 DEF GetInstance

LEMMA ConstructTInv ==
  ASSUME TInv, NEW t \in Threads, Construct(t)
  PROVE  TInv'
<1>1. thread[t].pc # "idle" /\ ConnsMade /\ fds' = fds /\ conn' = conn
  BY DEF Construct, At, TInv
<1>2. ConnsMade'
  BY <1>1 DEF ConnsMade
<1>3. CASE configured
  BY <1>1, <1>2, <1>3, OtherTypes, ToDialTInv DEF Construct
<1>4. CASE ~configured
  BY <1>1, <1>4, OtherTypes, ConstructedTInv DEF Construct
<1>5. QED
  BY <1>3, <1>4

LEMMA PickTInv ==
  ASSUME TInv, NEW t \in Threads, Pick(t)
  PROVE  TInv'
<1> DEFINE n == count % NCallers
           a == [thread[t] EXCEPT !.pc = "load"]
           w == [a EXCEPT !.v = n]
<1>1. n \in Callers /\ n \in Nat
  BY Reduced, OtherTypes
<1>2. a \in ThreadType /\ a.round = thread[t].round /\ a.pc = "load"
  BY RecordTypes DEF ThreadType, Places
<1>3. thread' = [thread EXCEPT ![t] = w]
  BY TypeParts DEF TInv, ThreadType, Pick
<1> HIDE DEF a, n
<1>4. w \in ThreadType /\ w.round = thread[t].round /\ w.pc = "load" /\ w.v = n
  BY <1>1, <1>2, Edits DEF ThreadType
<1> HIDE DEF w
<1>5. QED
  BY <1>1, <1>3, <1>4, OtherTypes, LocalStep DEF Pick, At

LEMMA LoadTInv ==
  ASSUME TInv, NEW t \in Threads, NEW pc, NEW next \in Places \ {"connect"}, pc # "idle",
         Load(t, pc, next)
  PROVE  TInv'
<1> DEFINE a == [thread[t] EXCEPT !.pc = next]
           w == [a EXCEPT !.reg = count]
<1>1. a \in ThreadType /\ a.round = thread[t].round /\ a.pc = next /\ a.v = thread[t].v
  BY RecordTypes DEF ThreadType, Places
<1>2. thread' = [thread EXCEPT ![t] = w]
  BY TypeParts DEF TInv, ThreadType, Load
<1> HIDE DEF a
<1>3. w \in ThreadType /\ w.round = thread[t].round /\ w.pc = next /\ w.v = thread[t].v
  BY <1>1, Edits, OtherTypes, ZenonT(90) DEF ThreadType
<1> HIDE DEF w
<1>4. QED
  BY <1>2, <1>3, RecordTypes, OtherTypes, LocalStep DEF Load, At

LEMMA StoreTInv ==
  ASSUME TInv, NEW t \in Threads, NEW pc, NEW value \in Nat, NEW next \in Places \ {"connect"},
         pc # "idle", Store(t, pc, value, next)
  PROVE  TInv'
<1> DEFINE a == [thread[t] EXCEPT !.pc = next]
           w == [a EXCEPT !.reg = 0]
<1>1. a \in ThreadType /\ a.round = thread[t].round /\ a.pc = next /\ a.v = thread[t].v
  BY RecordTypes DEF ThreadType, Places
<1>2. thread' = [thread EXCEPT ![t] = w]
  BY TypeParts DEF TInv, ThreadType, Store
<1> HIDE DEF a
<1>3. w \in ThreadType /\ w.round = thread[t].round /\ w.pc = next /\ w.v = thread[t].v
  BY <1>1, Edits, ZenonT(90) DEF ThreadType
<1> HIDE DEF w
<1>4. QED
  BY <1>2, <1>3, RecordTypes, OtherTypes, LocalStep DEF Store, At

LEMMA CountTInv ==
  ASSUME TInv, NEW t \in Threads, Count(t)
  PROVE  TInv'
<1>1. CASE Load(t, "load", "store") \/ Load(t, "reload", "reduce")
  BY <1>1, LoadTInv DEF Places
<1>2. thread[t].reg + 1 \in Nat /\ thread[t].reg % NCallers \in Nat
  BY RecordTypes, Reduced
<1>3. CASE Store(t, "store", thread[t].reg + 1, "reload")
  BY <1>2, <1>3, StoreTInv DEF Places
<1>4. CASE Store(t, "reduce", thread[t].reg % NCallers, "call")
  BY <1>2, <1>4, StoreTInv DEF Places
<1>5. QED
  BY <1>1, <1>3, <1>4 DEF Count

LEMMA DialTInv ==
  ASSUME TInv, NEW t \in Threads, Dial(t)
  PROVE  TInv'
<1>1. thread[t].tries + 1 \in 0..3 /\ thread[t].tries < 3
  BY RecordTypes DEF Dial
<1>2. CASE FreeFds = {}
  <2> DEFINE n == thread[t].tries + 1
             w == [thread[t] EXCEPT !.tries = n]
  <2>1. thread' = [thread EXCEPT ![t] = w]
    BY <1>2, TypeParts DEF TInv, ThreadType, Dial
  <2>2. w.v = thread[t].v /\ w.round = thread[t].round /\ w.pc = "dial"
    BY RecordTypes DEF Dial, At, ThreadType
  <2> HIDE DEF n
  <2>3. w \in ThreadType
    BY <1>1, RecordTypes, Edits DEF n
  <2> HIDE DEF w
  <2>4. QED
    BY <1>2, <2>1, <2>2, <2>3, RecordTypes, OtherTypes, LocalStep DEF Dial, At
<1>3. CASE FreeFds # {}
  <2> DEFINE a == [thread[t] EXCEPT !.pc = "connect"]
             w == [a EXCEPT !.new = Lowest]
  <2>1. /\ a \in ThreadType /\ a.round = thread[t].round /\ a.pc = "connect"
        /\ a.v = thread[t].v /\ a.tries = thread[t].tries
    BY RecordTypes DEF ThreadType, Places
  <2>2. thread' = [thread EXCEPT ![t] = w]
    BY <1>3, TypeParts DEF TInv, ThreadType, Dial
  <2>3. fds' \in [Fd -> Files] /\ ConnsMade' /\ Lowest \in Fd
    BY <1>3, OpenedType, FileTypes, FilesDiffer DEF Dial
  <2> HIDE DEF a
  <2>4. /\ w \in ThreadType /\ w.round = thread[t].round /\ w.pc = "connect"
        /\ w.v = thread[t].v /\ w.tries = thread[t].tries /\ w.new = Lowest
    BY <2>1, <2>3, Edits, SMTT(60) DEF ThreadType
  <2> HIDE DEF w
  <2>5. QED
    BY <1>1, <2>2, <2>3, <2>4, RecordTypes, OtherTypes, ThreadStep DEF Dial, At
<1>4. QED
  BY <1>2, <1>3

NewConn(c) == [owner |-> c, up |-> TRUE, asked |-> << >>, answered |-> << >>,
               got |-> 0, torn |-> FALSE]

LEMMA ConnectedTInv ==
  ASSUME TInv, NEW t \in Threads, Connected(t)
  PROVE  TInv'
<1> DEFINE f == thread[t].new
           m == IF f > 0 THEN 3 ELSE thread[t].tries + 1
           a == [thread[t] EXCEPT !.pc = "dial"]
           w == [a EXCEPT !.tries = m]
<1>1. f \in Fd /\ m \in 0..3
  <2>1. f \in Fd /\ thread[t].tries < 3
    BY DEF Connected, TInv, Dialled
  <2>2. thread[t].tries \in 0..3
    BY RecordTypes
  <2>3. QED
    BY <2>1, <2>2
<1>2. thread' = [thread EXCEPT ![t] = w]
  BY TypeParts DEF TInv, ThreadType, Connected
<1>3. a \in ThreadType /\ a.round = thread[t].round /\ a.pc = "dial" /\ a.v = thread[t].v
  BY RecordTypes DEF ThreadType, Places
<1> HIDE DEF a, m
<1>4. w \in ThreadType /\ w.round = thread[t].round /\ w.pc = "dial" /\ w.v = thread[t].v
  BY <1>1, <1>3, Edits DEF ThreadType
<1> HIDE DEF w
<1>5. NewConn(thread[t].v) \in ConnType
  BY RecordTypes, ConstantTypes DEF NewConn, ConnType
<1>6. /\ conn' = Append(conn, NewConn(thread[t].v)) /\ Len(conn) < MaxConns
      /\ fds' = [fds EXCEPT ![f] = Conn(Len(conn) + 1)]
  BY DEF Connected, NewConn
<1>7. conn' \in Seq(ConnType) /\ Len(conn') = Len(conn) + 1 /\ Len(conn) \in Nat
  BY <1>5, <1>6, SeqFacts, OtherTypes
<1>8. Conn(Len(conn) + 1) \in Files
  BY <1>6, <1>7, ConstantTypes, FileTypes
<1>9. fds' \in [Fd -> Files]
  BY <1>6, <1>8, OtherTypes
<1>10. ConnsMade'
  <2> SUFFICES ASSUME NEW g \in Fd, NEW n \in 1..MaxConns, fds'[g] = Conn(n)
               PROVE  n \in 1..Len(conn')
    BY DEF ConnsMade
  <2>1. CASE g = f
    BY <1>1, <1>6, <1>7, <2>1, OtherTypes, FilesDiffer
  <2>2. CASE g # f
    <3>1. fds[g] = Conn(n)
      BY <1>6, <2>2, OtherTypes
    <3>2. n \in 1..Len(conn)
      BY <3>1 DEF TInv, ConnsMade
    <3>3. QED
      BY <3>2, <1>7
  <2>3. QED
    BY <2>1, <2>2
<1>11. callee' \in [Callers -> Fd]
  BY <1>1, OtherTypes DEF Connected
<1>12. QED
  BY <1>2, <1>4, <1>7, <1>9, <1>10, <1>11, RecordTypes, OtherTypes, ThreadStep DEF Connected, At

LEMMA ConnectRefusedTInv ==
  ASSUME TInv, NEW t \in Threads, ConnectRefused(t)
  PROVE  TInv'
<1> DEFINE m == thread[t].tries + 1
           a == [thread[t] EXCEPT !.pc = "dial"]
           b == [a EXCEPT !.tries = m]
           w == [b EXCEPT !.new = NoFd]
<1>1. m \in 0..3
  BY RecordTypes DEF ConnectRefused, TInv, Dialled
<1>2. thread' = [thread EXCEPT ![t] = w]
  BY TypeParts DEF TInv, ThreadType, ConnectRefused
<1>3. a \in ThreadType /\ a.round = thread[t].round /\ a.pc = "dial" /\ a.v = thread[t].v
  BY RecordTypes DEF ThreadType, Places
<1> HIDE DEF a, m
<1>4. b \in ThreadType /\ b.round = thread[t].round /\ b.pc = "dial" /\ b.v = thread[t].v
  BY <1>1, <1>3, Edits DEF ThreadType
<1> HIDE DEF b
<1>5. w \in ThreadType /\ w.round = thread[t].round /\ w.pc = "dial" /\ w.v = thread[t].v
  BY <1>4, Edits DEF ThreadType
<1> HIDE DEF w
<1>6. fds' \in [Fd -> Files] /\ ConnsMade'
  BY ClosedType DEF ConnectRefused
<1>7. faults' \in 0..MaxFaults
  BY OtherTypes, ConstantTypes DEF ConnectRefused
<1>8. QED
  BY <1>2, <1>5, <1>6, <1>7, RecordTypes, OtherTypes, ThreadStep DEF ConnectRefused, At

LEMMA DialedTInv ==
  ASSUME TInv, NEW t \in Threads, Dialed(t)
  PROVE  TInv'
<1> DEFINE c == thread[t].v
<1>1. /\ thread[t].pc # "idle" /\ Failed \in Calls \cup {Failed, Foreign}
      /\ UNCHANGED << fds, configured, count, conn, faults >> /\ c \in Callers
      /\ lost' \in BOOLEAN
  BY RecordTypes DEF Dialed, At
<1>2. CASE Constructed(t) /\ UNCHANGED << callee, lock >>
  BY <1>1, <1>2, ConstructedTInv
<1>3. CASE /\ callee' = [callee EXCEPT ![c] = IF callee[c] > 0 THEN 1 ELSE 0]
           /\ IF callee[c] > 0 THEN Goto(t, "send") /\ UNCHANGED lock ELSE Return(t, Failed)
           /\ UNCHANGED pool
  <2>1. callee' \in [Callers -> Fd]
    BY <1>1, <1>3, OtherTypes, ConstantTypes
  <2>2. CASE callee[c] > 0
    BY <1>1, <1>3, <2>1, <2>2, OtherTypes, GotoTInv DEF Places
  <2>3. CASE ~(callee[c] > 0)
    BY <1>1, <1>3, <2>1, <2>3, OtherTypes, ReturnTInv
  <2>4. QED
    BY <2>2, <2>3
<1>4. CASE Return(t, Failed) /\ UNCHANGED << callee, pool >>
  BY <1>1, <1>4, OtherTypes, ReturnTInv
<1>5. QED
  BY <1>2, <1>3, <1>4 DEF Dialed

\* What a thread asks is one of its calls.
LEMMA CallType ==
  ASSUME TInv, NEW t \in Threads, thread[t].pc # "idle"
  PROVE  << t, thread[t].round >> \in Calls
<1>1. thread[t].round \in 1..MaxCalls[t]
  BY RecordTypes, ConstantTypes
<1>2. << t, thread[t].round >> \in {t} \X (1..MaxCalls[t])
  BY <1>1
<1>3. QED
  BY <1>2 DEF Calls

\* The record of a connection is replaced by another.
LEMMA ConnEdit ==
  ASSUME TInv, NEW n \in 1..Len(conn), NEW k \in ConnType, conn' = [conn EXCEPT ![n] = k]
  PROVE  /\ conn' \in Seq(ConnType) /\ Len(conn') = Len(conn)
         /\ conn'[n] = k
         /\ \A m \in 1..Len(conn) \ {n} : conn'[m] = conn[m]
<1>1. conn \in Seq(ConnType)
  BY OtherTypes
<1>2. QED
  BY <1>1, ExceptSeq

LEMMA ConnRecord ==
  ASSUME TInv, NEW n \in 1..Len(conn)
  PROVE  /\ conn[n] \in ConnType /\ conn[n].owner \in Callers /\ conn[n].up \in BOOLEAN
         /\ conn[n].asked \in Seq(Calls) /\ conn[n].answered \in Seq(Calls)
         /\ conn[n].got \in 0..(AnswerSize - 1) /\ conn[n].torn \in BOOLEAN
         /\ \A s \in Seq(Calls) : /\ [conn[n] EXCEPT !.asked = s] \in ConnType
                                  /\ [conn[n] EXCEPT !.answered = s] \in ConnType
                                  /\ \A r \in Seq(Calls) :
                                       [conn[n] EXCEPT !.asked = s, !.answered = r] \in ConnType
<1>1. conn[n] \in ConnType
  BY OtherTypes, ElementOfSeq
<1>2. QED
  BY <1>1 DEF ConnType

\* What a thread's caller names is a file, and a connection only if it was made.
LEMMA LineType ==
  ASSUME TInv, NEW t \in Threads
  PROVE  /\ Line(t) \in Files /\ callee[thread[t].v] \in Fd
         /\ IsConn(Line(t)) => /\ Line(t)[2] \in 1..Len(conn) /\ Line(t) = Conn(Line(t)[2])
<1>1. callee[thread[t].v] \in Fd
  BY RecordTypes, OtherTypes
<1>2. Line(t) \in Files
  BY <1>1, OtherTypes DEF Line
<1>3. ASSUME IsConn(Line(t)) PROVE Line(t)[2] \in 1..Len(conn) /\ Line(t) = Conn(Line(t)[2])
  <2>1. PICK n \in 1..MaxConns : Line(t) = Conn(n)
    BY <1>2, <1>3, FileKinds
  <2>2. n \in 1..Len(conn)
    BY <1>1, <2>1 DEF TInv, ConnsMade, Line
  <2>3. QED
    BY <2>1, <2>2, FileKinds
<1>4. QED
  BY <1>1, <1>2, <1>3

LEMMA CallProtectTInv ==
  ASSUME TInv, NEW t \in Threads, CallProtect(t)
  PROVE  TInv'
<1>1. PICK pc \in {"lock", "use"} : Goto(t, pc)
  BY DEF CallProtect
<1>2. QED
  BY <1>1, OtherTypes, GotoTInv DEF CallProtect, At, Places

LEMMA EnterTInv ==
  ASSUME TInv, NEW t \in Threads, Enter(t)
  PROVE  TInv'
<1>1. /\ lock' \in [Callers -> Threads \cup {NoThread}] /\ thread[t].pc # "idle"
      /\ fds' = fds /\ conn' = conn /\ ConnsMade
  BY RecordTypes, OtherTypes DEF Enter, At, TInv
<1>2. ConnsMade'
  BY <1>1 DEF ConnsMade
<1>3. CASE ToDial(t, "first")
  BY <1>1, <1>2, <1>3, OtherTypes, ToDialTInv DEF Enter
<1>4. CASE Goto(t, "send")
  BY <1>1, <1>4, OtherTypes, GotoTInv DEF Enter, Places
<1>5. QED
  BY <1>3, <1>4 DEF Enter

LEMMA SendRequestTInv ==
  ASSUME TInv, NEW t \in Threads, SendRequest(t)
  PROVE  TInv'
<1>1. conn' \in Seq(ConnType) /\ Len(conn') = Len(conn)
  <2>1. CASE Broken(Line(t))
    BY <2>1, OtherTypes DEF SendRequest
  <2>2. CASE ~Broken(Line(t))
    <3> DEFINE n == Line(t)[2]
               s == Append(conn[n].asked, << t, thread[t].round >>)
    <3>1. n \in 1..Len(conn)
      BY <2>2, LineType DEF Broken
    <3>2. s \in Seq(Calls)
      BY <3>1, ConnRecord, CallType, AppendProperties DEF SendRequest, At
    <3>3. conn' = [conn EXCEPT ![n] = [conn[n] EXCEPT !.asked = s]]
      BY <2>2 DEF SendRequest
    <3> HIDE DEF s, n
    <3>4. [conn[n] EXCEPT !.asked = s] \in ConnType
      BY <3>1, <3>2, ConnRecord
    <3>5. QED
      BY <3>1, <3>3, <3>4, ConnEdit
  <2>3. QED
    BY <2>1, <2>2
<1>2. QED
  BY <1>1, OtherTypes, GotoTInv DEF SendRequest, At, Places

LEMMA FailsTInv ==
  ASSUME TInv, NEW t \in Threads, SendFails(t) \/ ReadFails(t)
  PROVE  TInv'
  BY OtherTypes, GotoTInv DEF SendFails, ReadFails, At, Places

\* What a read changes of the connection n it reads from.
ReadConn(n, s, g, b) == [conn[n] EXCEPT !.answered = s, !.got = g, !.torn = b]

LEMMA ReadBytesEffect ==
  ASSUME TInv, NEW t \in Threads, NEW n \in 1..Len(conn), NEW k \in 1..AnswerSize,
         ReadBytes(t, n, k)
  PROVE  /\ \E r \in Calls \cup {Foreign} : Return(t, r)
         /\ Len(conn') = Len(conn) /\ conn' \in Seq(ConnType)
         /\ conn'[n].owner = conn[n].owner /\ conn'[n].up = conn[n].up
         /\ conn'[n].asked = conn[n].asked
         /\ conn[n].answered # << >> /\ conn[n].answered \in Seq(Calls)
         /\ \A m \in 1..Len(conn) \ {n} : conn'[m] = conn[m]
         /\ conn[n].torn => conn'[n].torn
         /\ conn[n].got = 0 /\ ~conn'[n].torn =>
              /\ k = AnswerSize /\ conn'[n].got = 0
              /\ conn'[n].answered = Tail(conn[n].answered)
              /\ Return(t, Head(conn[n].answered))
<1> DEFINE e == conn[n].got + k
           r == IF conn[n].got = 0 /\ k >= ValueSize THEN Head(conn[n].answered) ELSE Foreign
           s == IF e < AnswerSize THEN conn[n].answered ELSE Tail(conn[n].answered)
           g == IF e < AnswerSize THEN e ELSE e - AnswerSize
           b == conn[n].torn \/ e # AnswerSize
<1>1. /\ conn[n] \in ConnType /\ conn[n].got \in 0..(AnswerSize - 1) /\ conn[n].torn \in BOOLEAN
      /\ conn[n].answered \in Seq(Calls) /\ conn[n].answered # << >>
  BY ConnRecord DEF ReadBytes
<1>2. Head(conn[n].answered) \in Calls /\ Tail(conn[n].answered) \in Seq(Calls)
  BY <1>1, SeqFacts
<1>3. s \in Seq(Calls) /\ r \in Calls \cup {Foreign} /\ b \in BOOLEAN
  BY <1>1, <1>2
<1>4. g \in 0..(AnswerSize - 1)
  BY <1>1, ConstantTypes
<1>5. Return(t, r) /\ conn' = [conn EXCEPT ![n] = ReadConn(n, s, g, b)]
  BY DEF ReadBytes, ReadConn
<1>6. conn[n].got = 0 /\ ~b => k = AnswerSize /\ g = 0 /\ s = Tail(conn[n].answered)
                               /\ r = Head(conn[n].answered)
  BY <1>1, ConstantTypes
<1>7. conn[n].torn => b
  OBVIOUS
<1> HIDE DEF e, r, s, g, b
<1>8. /\ ReadConn(n, s, g, b) \in ConnType
      /\ ReadConn(n, s, g, b).owner = conn[n].owner /\ ReadConn(n, s, g, b).up = conn[n].up
      /\ ReadConn(n, s, g, b).asked = conn[n].asked /\ ReadConn(n, s, g, b).answered = s
      /\ ReadConn(n, s, g, b).got = g /\ ReadConn(n, s, g, b).torn = b
  BY <1>1, <1>3, <1>4 DEF ReadConn, ConnType
<1>9. /\ conn' \in Seq(ConnType) /\ Len(conn') = Len(conn)
      /\ conn'[n] = ReadConn(n, s, g, b)
      /\ \A m \in 1..Len(conn) \ {n} : conn'[m] = conn[m]
  BY <1>5, <1>8, ConnEdit
<1>10. QED
  BY <1>1, <1>3, <1>5, <1>6, <1>7, <1>8, <1>9

LEMMA ReadAnswerTInv ==
  ASSUME TInv, NEW t \in Threads, ReadAnswer(t)
  PROVE  TInv'
<1>1. ASSUME IsConn(Line(t)), NEW k \in 1..AnswerSize, ReadBytes(t, Line(t)[2], k)
      PROVE  TInv'
  <2>1. Line(t)[2] \in 1..Len(conn)
    BY <1>1, LineType
  <2>2. /\ \E r \in Calls \cup {Foreign} : Return(t, r)
        /\ conn' \in Seq(ConnType) /\ Len(conn') = Len(conn)
    BY <1>1, <2>1, ReadBytesEffect
  <2>3. QED
    BY <2>2, OtherTypes, ReturnTInv DEF ReadAnswer, At
<1>2. CASE Return(t, Foreign) /\ UNCHANGED conn
  BY <1>2, OtherTypes, ReturnTInv DEF ReadAnswer, At
<1>3. QED
  BY <1>1, <1>2 DEF ReadAnswer

LEMMA HangUpTInv ==
  ASSUME TInv, NEW t \in Threads, HangUp(t)
  PROVE  TInv'
<1>1. fds' \in [Fd -> Files] /\ ConnsMade'
  BY ClosedType DEF HangUp
<1>2. QED
  BY <1>1, OtherTypes, ToDialTInv DEF HangUp, At

LEMMA CloseSocketTInv ==
  ASSUME TInv, NEW t \in Threads, CloseSocket(t)
  PROVE  TInv'
<1> DEFINE a == [thread[t] EXCEPT !.pc = "idle"]
           w == [a EXCEPT !.sock = NoFd]
<1>1. fds' \in [Fd -> Files] /\ ConnsMade'
  BY ClosedType DEF CloseSocket
<1>2. thread' = [thread EXCEPT ![t] = w]
  BY TypeParts DEF TInv, ThreadType, CloseSocket
<1>3. a \in ThreadType /\ a.round = thread[t].round /\ a.pc = "idle" /\ a.v = thread[t].v
  BY RecordTypes DEF ThreadType, Places
<1> HIDE DEF a
<1>4. w \in ThreadType /\ w.round = thread[t].round /\ w.pc = "idle" /\ w.v = thread[t].v
  BY <1>3, Edits DEF ThreadType
<1> HIDE DEF w
<1>5. QED
  BY <1>1, <1>2, <1>4, RecordTypes, OtherTypes, ThreadStep DEF CloseSocket, At

\* The program and the callee leave the threads and the table alone.
LEMMA OutsideStep ==
  ASSUME TInv, UNCHANGED << fds, pool, count, callee, lock, lost, thread >>,
         configured' \in BOOLEAN, faults' \in 0..MaxFaults,
         conn' \in Seq(ConnType), Len(conn') = Len(conn)
  PROVE  TInv'
<1>1. TypeOK'
  BY DEF TInv, TypeOK, ConnType
<1>2. CallerExists' /\ Rounds' /\ ConnsMade' /\ Dialled'
  BY DEF TInv, CallerExists, Rounds, ConnsMade, Dialled, At
<1>3. QED
  BY <1>1, <1>2 DEF TInv

LEMMA CalleeAnswersTInv ==
  ASSUME TInv, NEW n \in 1..Len(conn), CalleeAnswers(n)
  PROVE  TInv'
<1> DEFINE k == [conn[n] EXCEPT !.asked = Tail(conn[n].asked),
                                !.answered = Append(conn[n].answered, Head(conn[n].asked))]
<1>1. conn[n].asked \in Seq(Calls) /\ conn[n].answered \in Seq(Calls) /\ conn[n].asked # << >>
  BY ConnRecord DEF CalleeAnswers
<1>2. /\ Tail(conn[n].asked) \in Seq(Calls)
      /\ Append(conn[n].answered, Head(conn[n].asked)) \in Seq(Calls)
  BY <1>1, SeqFacts
<1>3. k \in ConnType
  BY <1>2, ConnRecord
<1>4. conn' = [conn EXCEPT ![n] = k]
  BY DEF CalleeAnswers
<1> HIDE DEF k
<1>5. QED
  BY <1>3, <1>4, ConnEdit, OtherTypes, OutsideStep DEF CalleeAnswers, TInv, TypeOK

LEMMA CalleeBreaksTInv ==
  ASSUME TInv, NEW n \in 1..Len(conn), CalleeBreaks(n)
  PROVE  TInv'
<1>1. PICK rest \in {conn[n].answered, << >>} :
        conn' = [conn EXCEPT ![n].up = FALSE, ![n].asked = << >>, ![n].answered = rest,
                             ![n].got = IF rest = << >> THEN 0 ELSE @]
  BY DEF CalleeBreaks
<1> DEFINE g == IF rest = << >> THEN 0 ELSE conn[n].got
           k == [conn[n] EXCEPT !.up = FALSE, !.asked = << >>, !.answered = rest, !.got = g]
<1>2. conn[n] \in ConnType /\ conn[n].answered \in Seq(Calls) /\ << >> \in Seq(Calls)
  BY ConnRecord, EmptySeq
<1>3. k \in ConnType
  <2> DEFINE a == [conn[n] EXCEPT !.up = FALSE]
             b == [a EXCEPT !.asked = << >>]
             c == [b EXCEPT !.answered = rest]
             d == [c EXCEPT !.got = g]
  <2>1. g \in 0..(AnswerSize - 1)
    <3>1. conn[n].got \in 0..(AnswerSize - 1)
      BY ConnRecord
    <3>2. QED
      BY <3>1, ConstantTypes
  <2> HIDE DEF g
  <2>2. k = d
    BY <1>2 DEF ConnType
  <2>3. a \in ConnType
    BY <1>2 DEF ConnType
  <2> HIDE DEF a
  <2>4. b \in ConnType
    BY <1>2, <2>3 DEF ConnType
  <2> HIDE DEF b
  <2>5. rest \in Seq(Calls)
    BY <1>1, <1>2
  <2>6. c \in ConnType
    BY <2>4, <2>5 DEF ConnType
  <2> HIDE DEF c
  <2>7. d \in ConnType
    BY <2>1, <2>6 DEF ConnType
  <2>8. QED
    BY <2>2, <2>7
<1>4. conn' = [conn EXCEPT ![n] = k]
  BY <1>1
<1> HIDE DEF k
<1>5. faults' \in 0..MaxFaults
  BY OtherTypes, ConstantTypes DEF CalleeBreaks
<1>6. QED
  BY <1>3, <1>4, <1>5, ConnEdit, OutsideStep DEF CalleeBreaks, TInv, TypeOK

LEMMA NextTInv == TInv /\ [Next]_vars => TInv'
<1> SUFFICES ASSUME TInv, [Next]_vars PROVE TInv'
  OBVIOUS
<1>1. CASE UNCHANGED vars
  BY <1>1, OtherTypes, OutsideStep DEF vars, TInv, TypeOK
<1>2. CASE SetCallee
  BY <1>2, OtherTypes, OutsideStep DEF SetCallee
<1>3. ASSUME NEW n \in 1..Len(conn), CalleeAnswers(n) \/ CalleeBreaks(n) PROVE TInv'
  BY <1>3, CalleeAnswersTInv, CalleeBreaksTInv
<1>4. ASSUME NEW t \in Threads, OpenSocket(t) \/ OpenSocketFails(t) \/ Proceed(t) PROVE TInv'
  BY <1>4, OpenSocketTInv, OpenSocketFailsTInv, GetInstanceTInv, ConstructTInv, PickTInv,
     CountTInv, DialTInv, ConnectedTInv, ConnectRefusedTInv, DialedTInv, CallProtectTInv,
     EnterTInv, SendRequestTInv, FailsTInv, ReadAnswerTInv, HangUpTInv, CloseSocketTInv
     DEF Proceed
<1>5. QED
  BY <1>1, <1>2, <1>3, <1>4 DEF Next

LEMMA TInvAlways == Spec => []TInv
  BY InitTInv, NextTInv, PTL DEF Spec

\* Whatever the threads do at once, every variable stays in its type; a descriptor
\* table entry names a connection only if that was made (callerpool.cpp 7-41,
\* clientcaller.cpp 41-107).
THEOREM TypeCorrect == Spec => []TypeOK
<1>1. TInv => TypeOK
  BY DEF TInv
<1>2. QED
  BY <1>1, TInvAlways, PTL

-----------------------------------------------------------------------------
(* The inductive invariant of the connections.                             *)

\* One thread builds the pool; nobody is past get_instance before it is ready.
Phases ==
  /\ \A t \in Threads : Building(t) => pool = "building"
  /\ \A t, u \in Threads : Building(t) /\ Building(u) => t = u
  /\ \A t \in Threads : thread[t].pc \notin {"idle", "instance"} /\ ~Building(t) => pool = "ready"

\* What is done to a caller's connection is done under its mutex.
Locked == \A t \in Threads : Talking(t) \/ Replacing(t) => lock[thread[t].v] = t

\* Nothing a thread closes or replaces is the standard input.
NotStdin ==
  /\ fds[0] = Std
  /\ \A t \in Threads : /\ thread[t].sock # 0
                        /\ At(t, "connect") => thread[t].new # 0
                        /\ Talking(t) => callee[thread[t].v] # 0

SInv == Phases /\ Locked /\ NotStdin

\* A number a thread keeps names the file it opened.
OwnFiles ==
  \A t \in Threads : /\ thread[t].sock # NoFd => fds[thread[t].sock] = Sock(t)
                     /\ At(t, "connect") => fds[thread[t].new] = Dialing(t)

Its(c)    == fds[callee[c]]
Served(c) == IsConn(Its(c)) /\ conn[Its(c)[2]].owner = c

\* Thread t has not built the pool up to caller c, or replaces its connection.
Excused(t, c) == (Building(t) /\ c >= thread[t].v) \/ (Replacing(t) /\ c = thread[t].v)

CallersServed ==
  \A c \in Callers : Served(c) \/ pool = "none" \/ \E t \in Threads : Excused(t, c)

\* Where try_to_connect_callee has connected, the caller is served; it is never
\* called for a caller found without a connection.
Redialled ==
  \A t \in Threads : /\ thread[t].pc \in {"dial", "connect"} => thread[t].after # "first"
                     /\ At(t, "dial") /\ thread[t].new # NoFd => Served(thread[t].v)

\* Nothing is under way on connection n; or reads have returned parts of answers there,
\* and nothing is claimed of what is.
Bare(n)  == conn[n].asked = << >> /\ conn[n].answered = << >>
Quiet(n) == conn[n].torn \/ Bare(n)

\* On the connection of a caller, where answers were read whole, there is one call at
\* most, that of the thread that waits for its answer.
OneCall ==
  \A c \in Callers : Served(c) =>
    \/ Quiet(Its(c)[2])
    \/ \E t \in Threads : /\ At(t, "read") /\ thread[t].v = c
                          /\ Under(Its(c)[2], << t, thread[t].round >>)

\* Nothing is under way to a callee that is gone.
GoneIsDeaf == \A n \in 1..Len(conn) : ~conn[n].up => conn[n].asked = << >>

\* Before the first byte of an answer that is read whole, none of it has been read.
WholeReads == \A n \in 1..Len(conn) : conn[n].torn \/ conn[n].got = 0

LInv == OwnFiles /\ CallersServed /\ Redialled /\ OneCall

PInv == TInv /\ SInv /\ GoneIsDeaf /\ WholeReads /\ (~lost => LInv)

-----------------------------------------------------------------------------
(* What an action does to its thread.                                      *)

Others(t) == \A u \in Threads \ {t} : thread'[u] = thread[u]

\* The fields of thread t that an action may leave as they are.
KeepsSock(t) == thread'[t].sock = thread[t].sock /\ thread'[t].round = thread[t].round
KeepsLine(t) == thread'[t].v = thread[t].v /\ thread'[t].result = thread[t].result

LEMMA OpenSocketEffect ==
  ASSUME TInv, NEW t \in Threads, OpenSocket(t)
  PROVE  /\ Others(t) /\ thread'[t].pc = "instance" /\ thread'[t].sock = Lowest
         /\ thread'[t].result = Failed
  BY TypeParts DEF TInv, OpenSocket, ThreadType, Others

LEMMA OpenSocketFailsEffect ==
  ASSUME TInv, NEW t \in Threads, OpenSocketFails(t)
  PROVE  /\ Others(t) /\ thread'[t].pc \in {"idle", "instance"} /\ thread'[t].sock = NoFd
         /\ thread'[t].result = Failed
  BY TypeParts DEF TInv, OpenSocketFails, ThreadType, Others

LEMMA GotoEffect ==
  ASSUME TInv, NEW t \in Threads, NEW pc, Goto(t, pc)
  PROVE  /\ Others(t) /\ KeepsSock(t) /\ KeepsLine(t) /\ thread'[t].pc = pc
         /\ thread'[t].new = thread[t].new /\ thread'[t].after = thread[t].after
  BY TypeParts DEF TInv, Goto, ThreadType, Others, KeepsSock, KeepsLine

LEMMA BuildEffect ==
  ASSUME TInv, NEW t \in Threads, NEW n,
         thread' = [thread EXCEPT ![t].pc = "build", ![t].v = n]
  PROVE  /\ Others(t) /\ KeepsSock(t) /\ thread'[t].pc = "build" /\ thread'[t].v = n
         /\ thread'[t].result = thread[t].result
  BY TypeParts DEF TInv, ThreadType, Others, KeepsSock

LEMMA PickEffect ==
  ASSUME TInv, NEW t \in Threads, Pick(t)
  PROVE  /\ Others(t) /\ KeepsSock(t) /\ thread'[t].pc = "load"
         /\ thread'[t].result = thread[t].result
  BY TypeParts DEF TInv, Pick, ThreadType, Others, KeepsSock

LEMMA LoadEffect ==
  ASSUME TInv, NEW t \in Threads, NEW pc, NEW next, Load(t, pc, next)
  PROVE  Others(t) /\ KeepsSock(t) /\ KeepsLine(t) /\ thread'[t].pc = next
  BY TypeParts DEF TInv, Load, ThreadType, Others, KeepsSock, KeepsLine

LEMMA StoreEffect ==
  ASSUME TInv, NEW t \in Threads, NEW pc, NEW value, NEW next, Store(t, pc, value, next)
  PROVE  Others(t) /\ KeepsSock(t) /\ KeepsLine(t) /\ thread'[t].pc = next
  BY TypeParts DEF TInv, Store, ThreadType, Others, KeepsSock, KeepsLine

LEMMA ToDialEffect ==
  ASSUME TInv, NEW t \in Threads, NEW after, ToDial(t, after)
  PROVE  /\ Others(t) /\ KeepsSock(t) /\ KeepsLine(t) /\ thread'[t].pc = "dial"
         /\ thread'[t].new = NoFd /\ thread'[t].after = after
  BY TypeParts DEF TInv, ToDial, ThreadType, Others, KeepsSock, KeepsLine

LEMMA DialEffect ==
  ASSUME TInv, NEW t \in Threads, Dial(t)
  PROVE  /\ Others(t) /\ KeepsSock(t) /\ KeepsLine(t) /\ thread'[t].after = thread[t].after
         /\ IF FreeFds = {} THEN thread'[t].pc = "dial" /\ thread'[t].new = thread[t].new
                            ELSE thread'[t].pc = "connect" /\ thread'[t].new = Lowest
<1>1. CASE FreeFds = {}
  BY <1>1, TypeParts DEF TInv, Dial, At, ThreadType, Others, KeepsSock, KeepsLine
<1>2. CASE FreeFds # {}
  BY <1>2, TypeParts DEF TInv, Dial, ThreadType, Others, KeepsSock, KeepsLine
<1>3. QED
  BY <1>1, <1>2

LEMMA ConnectedEffect ==
  ASSUME TInv, NEW t \in Threads, Connected(t)
  PROVE  /\ Others(t) /\ KeepsSock(t) /\ KeepsLine(t) /\ thread'[t].pc = "dial"
         /\ thread'[t].new = thread[t].new /\ thread'[t].after = thread[t].after
  BY TypeParts DEF TInv, Connected, ThreadType, Others, KeepsSock, KeepsLine

LEMMA ConnectRefusedEffect ==
  ASSUME TInv, NEW t \in Threads, ConnectRefused(t)
  PROVE  /\ Others(t) /\ KeepsSock(t) /\ KeepsLine(t) /\ thread'[t].pc = "dial"
         /\ thread'[t].new = NoFd /\ thread'[t].after = thread[t].after
  BY TypeParts DEF TInv, ConnectRefused, ThreadType, Others, KeepsSock, KeepsLine

LEMMA ReturnEffect ==
  ASSUME TInv, NEW t \in Threads, NEW r, Return(t, r)
  PROVE  /\ Others(t) /\ KeepsSock(t) /\ thread'[t].pc = "use" /\ thread'[t].result = r
         /\ thread'[t].v = thread[t].v
  BY TypeParts DEF TInv, Return, ThreadType, Others, KeepsSock

LEMMA CloseSocketEffect ==
  ASSUME TInv, NEW t \in Threads, CloseSocket(t)
  PROVE  Others(t) /\ thread'[t].pc = "idle" /\ thread'[t].sock = NoFd
  BY TypeParts DEF TInv, CloseSocket, ThreadType, Others

-----------------------------------------------------------------------------
(* Each action keeps the phases, the mutexes and the standard input.       *)

\* What thread t's step has to show.
LEMMA SStep ==
  ASSUME TInv, SInv, NEW t \in Threads, Others(t), pool' = pool,
         Building(t)' => Building(t),
         thread'[t].pc \in {"idle", "instance"} \/ Building(t)' \/ pool = "ready",
         (Talking(t) \/ Replacing(t))' => lock'[thread'[t].v] = t,
         \A c \in Callers : lock'[c] = lock[c] \/ lock[c] \in {t, NoThread},
         fds'[0] = Std, thread'[t].sock # 0,
         At(t, "connect")' => thread'[t].new # 0,
         Talking(t)' => callee'[thread'[t].v] # 0,
         \A c \in Callers : callee[c] # 0 => callee'[c] # 0
  PROVE  SInv'
<1>1. ASSUME NEW u \in Threads \ {t}
      PROVE  /\ thread'[u] = thread[u] /\ thread[u].v \in Callers /\ u # NoThread
             /\ At(u, "connect")' = At(u, "connect") /\ Building(u)' = Building(u)
             /\ Replacing(u)' = Replacing(u) /\ Talking(u)' = Talking(u)
  BY RecordTypes, ConstantTypes DEF Others, At, Building, Replacing, Talking
<1>2. Phases'
  BY <1>1 DEF SInv, Phases
<1>3. Locked'
  <2> SUFFICES ASSUME NEW u \in Threads \ {t}, Talking(u)' \/ Replacing(u)'
               PROVE  lock'[thread'[u].v] = u
    BY DEF Locked
  <2>1. lock[thread[u].v] = u
    BY <1>1 DEF SInv, Locked
  <2>2. QED
    BY <1>1, <2>1
<1>4. NotStdin'
  <2>1. ASSUME NEW u \in Threads \ {t}
        PROVE  /\ thread'[u].sock # 0
               /\ At(u, "connect")' => thread'[u].new # 0
               /\ Talking(u)' => callee'[thread'[u].v] # 0
    BY <1>1 DEF SInv, NotStdin
  <2>2. QED
    BY <2>1 DEF NotStdin
<1>5. QED
  BY <1>2, <1>3, <1>4 DEF SInv

\* A step of a thread that is neither talking nor at the pool, before or after.
LEMMA SAside ==
  ASSUME TInv, SInv, NEW t \in Threads, Others(t), UNCHANGED << pool, lock, callee >>,
         thread'[t].pc \notin {"build", "dial", "connect", "send", "read", "hangup"},
         thread'[t].pc \in {"idle", "instance"} \/ (thread[t].pc \notin {"idle", "instance"}
                                                    /\ ~Building(t)),
         fds'[0] = Std, thread'[t].sock # 0
  PROVE  SInv'
<1>1. ~Building(t)' /\ ~Replacing(t)' /\ ~Talking(t)' /\ ~At(t, "connect")'
  BY DEF Building, Replacing, Talking, At
<1>2. thread'[t].pc \in {"idle", "instance"} \/ pool = "ready"
  BY DEF SInv, Phases
<1>3. QED
  BY <1>1, <1>2, SStep

LEMMA StdStays ==
  ASSUME TInv, SInv
  PROVE  /\ fds[0] = Std /\ NoFd # 0
         /\ FreeFds # {} => Lowest # 0 /\ \A file : Opened(file)[0] = Std
         /\ \A f : f # 0 => Closed(f)[0] = Std
<1>1. fds[0] = Std
  BY DEF SInv, NotStdin
<1>2. FreeFds # {} => Lowest # 0
  BY <1>1, LowestIsFree, FilesDiffer
<1>3. FreeFds # {} => \A file : Opened(file)[0] = Std
  BY <1>1, <1>2, OtherTypes, ConstantTypes DEF Opened
<1>4. QED
  BY <1>1, <1>2, <1>3, ConstantTypes DEF Closed

LEMMA AsideS ==
  ASSUME TInv, SInv, NEW t \in Threads,
         \/ OpenSocket(t) \/ OpenSocketFails(t) \/ Pick(t) \/ Count(t) \/ CallProtect(t)
         \/ CloseSocket(t)
  PROVE  SInv'
<1>1. thread[t].sock # 0
  BY DEF SInv, NotStdin
<1>2. CASE OpenSocket(t)
  BY <1>2, OpenSocketEffect, StdStays, SAside DEF OpenSocket
<1>3. CASE OpenSocketFails(t)
  BY <1>3, OpenSocketFailsEffect, StdStays, SAside DEF OpenSocketFails
<1>4. CASE Pick(t)
  <2>1. thread[t].pc = "pick" /\ UNCHANGED << pool, lock, callee, fds >>
    BY <1>4 DEF Pick, At
  <2>2. QED
    BY <1>1, <1>4, <2>1, PickEffect, StdStays, SAside DEF KeepsSock, Building, At
<1>5. CASE Count(t)
  <2>1. CASE Load(t, "load", "store") \/ Load(t, "reload", "reduce")
    <3>1. thread[t].pc \in {"load", "reload"} /\ UNCHANGED << pool, lock, callee, fds >>
      BY <2>1 DEF Load, At
    <3>2. Others(t) /\ KeepsSock(t) /\ thread'[t].pc \in {"store", "reduce"}
      BY <2>1, LoadEffect
    <3>3. QED
      BY <1>1, <3>1, <3>2, StdStays, SAside DEF KeepsSock, Building, At
  <2>2. ASSUME NEW pc, NEW n, NEW next, Store(t, pc, n, next),
               << pc, next >> \in {<< "store", "reload" >>, << "reduce", "call" >>}
        PROVE  SInv'
    <3>1. thread[t].pc \in {"store", "reduce"} /\ UNCHANGED << pool, lock, callee, fds >>
      BY <2>2 DEF Store, At
    <3>2. Others(t) /\ KeepsSock(t) /\ thread'[t].pc \in {"reload", "call"}
      BY <2>2, StoreEffect
    <3>3. QED
      BY <1>1, <3>1, <3>2, StdStays, SAside DEF KeepsSock, Building, At
  <2>3. QED
    BY <1>5, <2>1, <2>2 DEF Count
<1>6. CASE CallProtect(t)
  <2>1. PICK pc \in {"lock", "use"} : Goto(t, pc)
    BY <1>6 DEF CallProtect
  <2>2. QED
    BY <1>1, <1>6, <2>1, GotoEffect, StdStays, SAside DEF CallProtect, KeepsSock, Building, At
<1>7. CASE CloseSocket(t)
  BY <1>1, <1>7, CloseSocketEffect, StdStays, SAside DEF CloseSocket
<1>8. QED
  BY <1>2, <1>3, <1>4, <1>5, <1>6, <1>7

\* The building thread is done with one caller.
LEMMA ConstructedS ==
  ASSUME TInv, SInv, NEW t \in Threads, Building(t), Constructed(t),
         UNCHANGED << lock, callee, fds >>
  PROVE  SInv'
<1>1. thread[t].sock # 0
  BY DEF SInv, NotStdin
<1>2. CASE thread[t].v + 1 \in Callers
  <2>1. /\ Others(t) /\ KeepsSock(t) /\ thread'[t].pc = "build"
        /\ thread'[t].v = thread[t].v + 1 /\ pool' = pool
    BY <1>2, BuildEffect DEF Constructed
  <2>2. Building(t)' /\ ~Replacing(t)' /\ ~Talking(t)' /\ ~At(t, "connect")'
    BY <2>1 DEF Building, Replacing, Talking, At
  <2>3. QED
    BY <1>1, <2>1, <2>2, StdStays, SStep DEF KeepsSock
<1>3. CASE ~(thread[t].v + 1 \in Callers)
  <2>1. Others(t) /\ KeepsSock(t) /\ thread'[t].pc = "pick" /\ pool' = "ready"
    BY <1>3, GotoEffect DEF Constructed
  <2>2. ~Building(t)' /\ ~Replacing(t)' /\ ~Talking(t)' /\ ~At(t, "connect")'
    BY <2>1 DEF Building, Replacing, Talking, At
  <2>3. \A u \in Threads \ {t} : ~Building(u) /\ thread'[u] = thread[u]
    BY <2>1 DEF SInv, Phases, Others
  <2>4. Phases'
    <3>1. \A u \in Threads : ~Building(u)'
      BY <2>2, <2>3 DEF Building, At
    <3>2. QED
      BY <2>1, <3>1 DEF Phases
  <2>5. Locked' /\ NotStdin'
    BY <1>1, <2>1, <2>2, <2>3, StdStays
       DEF SInv, Locked, NotStdin, Talking, Replacing, At, KeepsSock
  <2>6. QED
    BY <2>4, <2>5 DEF SInv
<1>4. QED
  BY <1>2, <1>3

LEMMA GetInstanceS ==
  ASSUME TInv, SInv, NEW t \in Threads, GetInstance(t)
  PROVE  SInv'
<1>1. thread[t].sock # 0 /\ thread[t].pc = "instance"
  BY DEF SInv, NotStdin, GetInstance, At
<1>2. CASE pool = "ready" /\ Goto(t, "pick") /\ UNCHANGED pool
  <2>1. Others(t) /\ KeepsSock(t) /\ thread'[t].pc = "pick"
    BY <1>2, GotoEffect
  <2>2. ~Building(t)' /\ ~Replacing(t)' /\ ~Talking(t)' /\ ~At(t, "connect")'
    BY <2>1 DEF Building, Replacing, Talking, At
  <2>3. QED
    BY <1>1, <1>2, <2>1, <2>2, StdStays, SStep DEF GetInstance, KeepsSock
<1>3. CASE /\ pool = "none" /\ pool' = "building"
           /\ thread' = [thread EXCEPT ![t].pc = "build", ![t].v = 0]
  <2>1. Others(t) /\ KeepsSock(t) /\ thread'[t].pc = "build"
    BY <1>3, BuildEffect
  <2>2. Building(t)' /\ ~Replacing(t)' /\ ~Talking(t)' /\ ~At(t, "connect")'
    BY <2>1 DEF Building, Replacing, Talking, At
  <2>3. \A u \in Threads \ {t} : /\ ~Building(u) /\ thread'[u] = thread[u]
                                 /\ thread[u].pc \in {"idle", "instance"}
    BY <1>3, <2>1 DEF SInv, Phases, Others
  <2>4. Phases'
    <3>1. \A u \in Threads \ {t} : ~Building(u)' /\ thread'[u].pc \in {"idle", "instance"}
      BY <2>3 DEF Building, At
    <3>2. QED
      BY <1>3, <2>2, <3>1 DEF Phases
  <2>5. Locked' /\ NotStdin'
    BY <1>1, <2>1, <2>2, <2>3, StdStays
       DEF SInv, Locked, NotStdin, Talking, Replacing, At, KeepsSock, GetInstance
  <2>6. QED
    BY <2>4, <2>5 DEF SInv
<1>4. QED
  BY <1>2, <1>3 DEF GetInstance

LEMMA ConstructS ==
  ASSUME TInv, SInv, NEW t \in Threads, Construct(t)
  PROVE  SInv'
<1>1. thread[t].sock # 0 /\ Building(t)
  BY DEF SInv, NotStdin, Construct, Building
<1>2. CASE configured
  <2>1. /\ Others(t) /\ KeepsSock(t) /\ thread'[t].pc = "dial" /\ thread'[t].after = "build"
        /\ UNCHANGED << pool, lock, callee, fds >>
    BY <1>2, ToDialEffect DEF Construct
  <2>2. Building(t)' /\ ~Replacing(t)' /\ ~Talking(t)' /\ ~At(t, "connect")'
    BY <2>1 DEF Building, Replacing, Talking, At
  <2>3. QED
    BY <1>1, <2>1, <2>2, StdStays, SStep DEF KeepsSock
<1>3. CASE ~configured
  BY <1>1, <1>3, ConstructedS DEF Construct
<1>4. QED
  BY <1>2, <1>3

\* A step within try_to_connect_callee.
LEMMA DiallingS ==
  ASSUME TInv, SInv, NEW t \in Threads, thread[t].pc \in {"dial", "connect"}, Others(t),
         KeepsSock(t), KeepsLine(t), thread'[t].after = thread[t].after,
         thread'[t].pc \in {"dial", "connect"}, UNCHANGED << pool, lock >>,
         thread'[t].pc = "connect" => thread'[t].new # 0, fds'[0] = Std,
         \A c \in Callers : callee[c] # 0 => callee'[c] # 0
  PROVE  SInv'
<1>1. thread[t].sock # 0
  BY DEF SInv, NotStdin
<1>2. Building(t)' = Building(t) /\ Replacing(t)' = Replacing(t) /\ ~Talking(t)'
  BY DEF Building, Replacing, Talking, At
<1>3. Building(t) \/ pool = "ready"
  BY DEF SInv, Phases
<1>4. Replacing(t) => lock[thread[t].v] = t
  BY DEF SInv, Locked
<1>5. QED
  BY <1>1, <1>2, <1>3, <1>4, SStep DEF KeepsSock, KeepsLine, At

LEMMA DialS ==
  ASSUME TInv, SInv, NEW t \in Threads, Dial(t) \/ Connected(t) \/ ConnectRefused(t)
  PROVE  SInv'
<1>1. CASE Dial(t)
  <2>1. CASE FreeFds = {}
    <3>1. thread[t].pc = "dial" /\ UNCHANGED << pool, lock, callee, fds >>
      BY <1>1, <2>1 DEF Dial, At
    <3>2. QED
      BY <1>1, <2>1, <3>1, DialEffect, StdStays, DiallingS
  <2>2. CASE FreeFds # {}
    <3>1. thread[t].pc = "dial" /\ UNCHANGED << pool, lock, callee >> /\ fds' = Opened(Dialing(t))
      BY <1>1, <2>2 DEF Dial, At
    <3>2. QED
      BY <1>1, <2>2, <3>1, DialEffect, StdStays, DiallingS
  <2>3. QED
    BY <2>1, <2>2
<1>2. CASE Connected(t)
  <2>1. thread[t].pc = "connect" /\ UNCHANGED << pool, lock >> /\ thread[t].new # 0
    BY <1>2 DEF Connected, At, SInv, NotStdin
  <2>2. thread[t].new \in Fd /\ thread[t].v \in Callers
    BY <2>1, RecordTypes DEF TInv, Dialled, At
  <2>3. fds'[0] = Std
    BY <1>2, <2>1, StdStays, OtherTypes, ConstantTypes DEF Connected
  <2>4. \A c \in Callers : callee[c] # 0 => callee'[c] # 0
    BY <1>2, <2>1, OtherTypes DEF Connected
  <2>5. QED
    BY <1>2, <2>1, <2>3, <2>4, ConnectedEffect, DiallingS
<1>3. CASE ConnectRefused(t)
  <2>1. thread[t].pc = "connect" /\ UNCHANGED << pool, lock, callee >> /\ thread[t].new # 0
    BY <1>3 DEF ConnectRefused, At, SInv, NotStdin
  <2>2. fds'[0] = Std
    BY <1>3, <2>1, StdStays DEF ConnectRefused
  <2>3. QED
    BY <1>3, <2>1, <2>2, ConnectRefusedEffect, DiallingS
<1>4. QED
  BY <1>1, <1>2, <1>3

\* A thread that holds the mutex of its caller goes on talking or replacing.
LEMMA HoldingS ==
  ASSUME TInv, SInv, NEW t \in Threads, Others(t), KeepsSock(t), KeepsLine(t),
         pool = "ready", pool' = pool, ~Building(t)', ~At(t, "connect")',
         lock'[thread[t].v] = t, \A c \in Callers : lock'[c] = lock[c] \/ lock[c] \in {t, NoThread},
         Talking(t)' => callee'[thread[t].v] # 0,
         fds'[0] = Std, \A c \in Callers : callee[c] # 0 => callee'[c] # 0
  PROVE  SInv'
<1>1. thread[t].sock # 0
  BY DEF SInv, NotStdin
<1>2. QED
  BY <1>1, SStep DEF KeepsSock, KeepsLine

LEMMA TalkingFacts ==
  ASSUME TInv, SInv, NEW t \in Threads, Talking(t)
  PROVE  /\ pool = "ready" /\ lock[thread[t].v] = t /\ callee[thread[t].v] # 0
         /\ ~Building(t) /\ thread[t].v \in Callers
  BY RecordTypes DEF SInv, Phases, Locked, NotStdin, Talking, Building, At

LEMMA EnterS ==
  ASSUME TInv, SInv, NEW t \in Threads, Enter(t)
  PROVE  SInv'
<1> DEFINE c == thread[t].v
<1>1. /\ thread[t].pc = "lock" /\ c \in Callers /\ lock[c] = NoThread
      /\ lock' = [lock EXCEPT ![c] = t] /\ UNCHANGED << pool, callee, fds >>
  BY RecordTypes DEF Enter, At
<1>2. pool = "ready"
  BY <1>1 DEF SInv, Phases, Building, At
<1>3. lock'[c] = t /\ \A d \in Callers : lock'[d] = lock[d] \/ lock[d] \in {t, NoThread}
  BY <1>1, OtherTypes
<1>4. CASE callee[c] <= 0
  <2>1. /\ Others(t) /\ KeepsSock(t) /\ KeepsLine(t) /\ thread'[t].pc = "dial"
        /\ thread'[t].after = "first"
    BY <1>4, ToDialEffect DEF Enter
  <2>2. ~Building(t)' /\ ~Talking(t)' /\ ~At(t, "connect")'
    BY <2>1 DEF Building, Talking, At
  <2>3. QED
    BY <1>1, <1>2, <1>3, <2>1, <2>2, StdStays, HoldingS
<1>5. CASE ~(callee[c] <= 0)
  <2>1. Others(t) /\ KeepsSock(t) /\ KeepsLine(t) /\ thread'[t].pc = "send"
    BY <1>5, GotoEffect DEF Enter
  <2>2. ~Building(t)' /\ ~At(t, "connect")'
    BY <2>1 DEF Building, At
  <2>3. callee[c] # 0
    BY <1>5
  <2>4. QED
    BY <1>1, <1>2, <1>3, <2>1, <2>2, <2>3, StdStays, HoldingS
<1>6. QED
  BY <1>4, <1>5

LEMMA TalkS ==
  ASSUME TInv, SInv, NEW t \in Threads,
         SendRequest(t) \/ SendFails(t) \/ ReadFails(t) \/ HangUp(t)
  PROVE  SInv'
<1>1. CASE SendRequest(t) \/ SendFails(t) \/ ReadFails(t)
  <2>1. Talking(t) /\ UNCHANGED << pool, lock, callee, fds >>
    BY <1>1 DEF SendRequest, SendFails, ReadFails, Talking, At
  <2>2. PICK pc \in {"read", "hangup"} : Goto(t, pc)
    BY <1>1 DEF SendRequest, SendFails, ReadFails
  <2>3. ~Building(t)' /\ ~At(t, "connect")'
    BY <2>2, GotoEffect DEF Building, At
  <2>4. QED
    BY <2>1, <2>2, <2>3, GotoEffect, TalkingFacts, StdStays, HoldingS
<1>2. CASE HangUp(t)
  <2>1. Talking(t) /\ UNCHANGED << pool, lock, callee >> /\ fds' = Closed(callee[thread[t].v])
    BY <1>2 DEF HangUp, Talking, At
  <2>2. /\ Others(t) /\ KeepsSock(t) /\ KeepsLine(t) /\ thread'[t].pc = "dial"
        /\ thread'[t].after = "fail"
    BY <1>2, ToDialEffect DEF HangUp
  <2>3. ~Building(t)' /\ ~At(t, "connect")' /\ ~Talking(t)'
    BY <2>2 DEF Building, At, Talking
  <2>4. fds'[0] = Std
    BY <2>1, TalkingFacts, StdStays
  <2>5. QED
    BY <2>1, <2>2, <2>3, <2>4, TalkingFacts, HoldingS
<1>3. QED
  BY <1>1, <1>2

LEMMA ReturnS ==
  ASSUME TInv, SInv, NEW t \in Threads, NEW r, Talking(t) \/ Replacing(t), Return(t, r),
         UNCHANGED << pool, fds >>, \A c \in Callers : callee[c] # 0 => callee'[c] # 0
  PROVE  SInv'
<1>1. thread[t].sock # 0 /\ lock[thread[t].v] = t
  BY DEF SInv, NotStdin, Locked
<1>2. pool = "ready"
  BY DEF SInv, Phases, Talking, Replacing, Building, At
<1>3. Others(t) /\ KeepsSock(t) /\ thread'[t].pc = "use"
  BY ReturnEffect
<1>4. ~Building(t)' /\ ~Replacing(t)' /\ ~Talking(t)' /\ ~At(t, "connect")'
  BY <1>3 DEF Building, Replacing, Talking, At
<1>5. \A c \in Callers : lock'[c] = lock[c] \/ lock[c] = t
  BY <1>1, OtherTypes DEF Return
<1>6. QED
  BY <1>1, <1>2, <1>3, <1>4, <1>5, StdStays, SStep DEF KeepsSock

LEMMA DialedS ==
  ASSUME TInv, SInv, NEW t \in Threads, Dialed(t)
  PROVE  SInv'
<1> DEFINE c == thread[t].v
<1>1. thread[t].pc = "dial" /\ c \in Callers /\ fds' = fds /\ callee \in [Callers -> Fd]
  BY RecordTypes, OtherTypes DEF Dialed, At
<1>2. CASE thread[t].after = "build"
  <2>1. Building(t)
    BY <1>1, <1>2 DEF Building
  <2>2. Constructed(t) /\ UNCHANGED << callee, lock >>
    BY <1>2 DEF Dialed
  <2>3. QED
    BY <1>1, <2>1, <2>2, ConstructedS
<1>3. CASE thread[t].after = "first"
  <2>1. Replacing(t) /\ ~Building(t) /\ pool' = pool
    BY <1>1, <1>3 DEF Replacing, Building, At, Dialed
  <2>2. callee' = [callee EXCEPT ![c] = IF callee[c] > 0 THEN 1 ELSE 0]
    BY <1>3 DEF Dialed
  <2>3. \A d \in Callers : callee[d] # 0 => callee'[d] # 0
    BY <1>1, <2>2, ConstantTypes
  <2>4. CASE callee[c] > 0
    <3>1. Goto(t, "send") /\ lock' = lock
      BY <1>3, <2>4 DEF Dialed
    <3>2. Others(t) /\ KeepsSock(t) /\ KeepsLine(t) /\ thread'[t].pc = "send"
      BY <3>1, GotoEffect
    <3>3. ~Building(t)' /\ ~At(t, "connect")'
      BY <3>2 DEF Building, At
    <3>4. lock[c] = t /\ pool = "ready" /\ callee'[c] # 0
      BY <1>1, <2>1, <2>2, <2>4 DEF SInv, Locked, Phases
    <3>5. QED
      BY <1>1, <2>1, <2>3, <3>1, <3>2, <3>3, <3>4, StdStays, HoldingS
  <2>5. CASE ~(callee[c] > 0)
    <3>1. Return(t, Failed)
      BY <1>3, <2>5 DEF Dialed
    <3>2. QED
      BY <1>1, <2>1, <2>3, <3>1, ReturnS
  <2>6. QED
    BY <2>4, <2>5
<1>4. CASE thread[t].after \notin {"build", "first"}
  <2>1. Replacing(t)
    BY <1>1, <1>4 DEF Replacing
  <2>2. Return(t, Failed) /\ UNCHANGED << callee, pool >>
    BY <1>4 DEF Dialed
  <2>3. QED
    BY <1>1, <2>1, <2>2, ReturnS
<1>5. QED
  BY <1>2, <1>3, <1>4

LEMMA ReadAnswerS ==
  ASSUME TInv, SInv, NEW t \in Threads, ReadAnswer(t)
  PROVE  SInv'
<1>1. Talking(t) /\ UNCHANGED << pool, callee, fds >>
  BY DEF ReadAnswer, Talking, At
<1>2. \E r : Return(t, r)
  BY DEF ReadAnswer, ReadBytes
<1>3. QED
  BY <1>1, <1>2, ReturnS

LEMMA NextSInv == TInv /\ SInv /\ [Next]_vars => SInv'
<1> SUFFICES ASSUME TInv, SInv, [Next]_vars PROVE SInv'
  OBVIOUS
<1>1. CASE UNCHANGED << fds, pool, callee, lock, thread >>
  BY <1>1 DEF SInv, Phases, Locked, NotStdin, Building, Replacing, Talking, At
<1>2. CASE UNCHANGED vars \/ SetCallee \/ \E n \in 1..Len(conn) : CalleeAnswers(n) \/ CalleeBreaks(n)
  BY <1>1, <1>2 DEF vars, SetCallee, CalleeAnswers, CalleeBreaks
<1>3. ASSUME NEW t \in Threads, OpenSocket(t) \/ OpenSocketFails(t) \/ Proceed(t) PROVE SInv'
  BY <1>3, AsideS, GetInstanceS, ConstructS, DialS, DialedS, EnterS, TalkS, ReadAnswerS
     DEF Proceed
<1>4. QED
  BY <1>2, <1>3 DEF Next

LEMMA InitSInv == Init => SInv
<1> SUFFICES ASSUME Init PROVE SInv
  OBVIOUS
<1>1. \A t \in Threads : thread[t].pc = "idle" /\ thread[t].sock = NoFd
  BY DEF Init
<1>2. Phases /\ Locked
  BY <1>1 DEF Phases, Locked, Building, Replacing, Talking, At
<1>3. NotStdin
  BY <1>1, ConstantTypes DEF Init, NotStdin, Talking, At
<1>4. QED
  BY <1>2, <1>3 DEF SInv

\* However many connections fail and whatever numbers are used again, no call
\* closes or takes over the standard input, whose number a caller without a
\* connection holds (clientcaller.cpp 73-102).
THEOREM StdinIsSafe == Spec => []StdinUntouched
<1>1. TInv /\ SInv => StdinUntouched
  BY DEF SInv, NotStdin, StdinUntouched
<1>2. QED
  BY <1>1, InitTInv, NextTInv, InitSInv, NextSInv, PTL DEF Spec

-----------------------------------------------------------------------------
(* Each action keeps the connections with their callers.                   *)

LEMMA ServedLine ==
  ASSUME TInv, NEW c \in Callers, Served(c)
  PROVE  Its(c)[2] \in 1..Len(conn) /\ Its(c) = Conn(Its(c)[2]) /\ callee[c] \in Fd
<1>1. callee[c] \in Fd /\ Its(c) \in Files
  BY OtherTypes DEF Its
<1>2. PICK n \in 1..MaxConns : Its(c) = Conn(n)
  BY <1>1, FileKinds DEF Served
<1>3. n \in 1..Len(conn)
  BY <1>1, <1>2 DEF TInv, ConnsMade, Its
<1>4. QED
  BY <1>1, <1>2, <1>3, FileKinds

\* A thread that talks, as long as no caller has lost its connection, has the
\* connection of its caller and is the only one at it.
LEMMA TalkingServed ==
  ASSUME TInv, SInv, CallersServed, NEW t \in Threads, Talking(t)
  PROVE  /\ Served(thread[t].v) /\ Line(t) = Its(thread[t].v)
         /\ \A u \in Threads \ {t} :
              thread[u].v = thread[t].v => ~Talking(u) /\ ~Replacing(u)
         /\ \A u \in Threads : ~Building(u)
<1>1. \A u \in Threads : ~Building(u)
  BY TalkingFacts DEF SInv, Phases
<1>2. \A u \in Threads \ {t} : thread[u].v = thread[t].v => ~Talking(u) /\ ~Replacing(u)
  BY TalkingFacts DEF SInv, Locked
<1>3. ~Replacing(t)
  BY DEF Talking, Replacing
<1>4. Served(thread[t].v)
  BY <1>1, <1>2, <1>3, TalkingFacts DEF CallersServed, Excused
<1>5. QED
  BY <1>1, <1>2, <1>4 DEF Line, Its

LEMMA OwnFilesStep ==
  ASSUME TInv, OwnFiles, NEW t \in Threads, Others(t),
         \A u \in Threads \ {t} : \A f \in Fd : fds[f] \in {Sock(u), Dialing(u)} => fds'[f] = fds[f],
         thread'[t].sock # NoFd => fds'[thread'[t].sock] = Sock(t),
         At(t, "connect")' => fds'[thread'[t].new] = Dialing(t)
  PROVE  OwnFiles'
<1> SUFFICES ASSUME NEW u \in Threads \ {t}
             PROVE  /\ thread'[u].sock # NoFd => fds'[thread'[u].sock] = Sock(u)
                    /\ At(u, "connect")' => fds'[thread'[u].new] = Dialing(u)
  BY DEF OwnFiles
<1>1. thread'[u] = thread[u] /\ At(u, "connect")' = At(u, "connect")
  BY DEF Others, At
<1>2. thread[u].sock \in Fd \cup {NoFd} /\ (At(u, "connect") => thread[u].new \in Fd)
  BY RecordTypes DEF ThreadType, TInv, Dialled
<1>3. QED
  BY <1>1, <1>2 DEF OwnFiles

LEMMA CallersServedStep ==
  ASSUME CallersServed, NEW t \in Threads, Others(t),
         pool = "none" => pool' = "none" \/ \A c \in Callers : Excused(t, c)',
         \A c \in Callers : Served(c) => Served(c)' \/ Excused(t, c)',
         \A c \in Callers : Excused(t, c) => Served(c)' \/ Excused(t, c)'
  PROVE  CallersServed'
<1> SUFFICES ASSUME NEW c \in Callers
             PROVE  Served(c)' \/ pool' = "none" \/ \E u \in Threads : Excused(u, c)'
  BY DEF CallersServed
<1>1. \A u \in Threads \ {t} : Excused(u, c)' = Excused(u, c)
  BY DEF Others, Excused, Building, Replacing, At
<1>2. QED
  BY <1>1 DEF CallersServed

LEMMA RedialledStep ==
  ASSUME Redialled, NEW t \in Threads, Others(t),
         \A u \in Threads \ {t} : At(u, "dial") /\ Served(thread[u].v) => Served(thread[u].v)',
         thread'[t].pc \in {"dial", "connect"} => thread'[t].after # "first",
         At(t, "dial")' /\ thread'[t].new # NoFd => Served(thread[t].v)'
  PROVE  Redialled'
<1>1. ASSUME NEW u \in Threads \ {t}
      PROVE  /\ thread'[u].pc \in {"dial", "connect"} => thread'[u].after # "first"
             /\ At(u, "dial")' /\ thread'[u].new # NoFd => Served(thread[u].v)'
  <2>1. thread'[u] = thread[u] /\ At(u, "dial")' = At(u, "dial")
    BY DEF Others, At
  <2>2. QED
    BY <2>1 DEF Redialled
<1>2. QED
  BY <1>1 DEF Redialled

\* The calls on a connection are those they were.
SameCalls(n) == /\ conn'[n].asked = conn[n].asked /\ conn'[n].answered = conn[n].answered
                /\ conn'[n].torn = conn[n].torn

LEMMA OneCallStep ==
  ASSUME OneCall, NEW t \in Threads, Others(t),
         \A c \in Callers : Served(c)' =>
           \/ Quiet(Its(c)[2])'
           \/ Served(c) /\ Its(c)' = Its(c) /\ SameCalls(Its(c)[2])
           \/ /\ At(t, "read")' /\ thread'[t].v = c
              /\ Under(Its(c)[2], << t, thread[t].round >>)',
         \A c \in Callers : At(t, "read") /\ thread[t].v = c /\ Served(c)' =>
           \/ Quiet(Its(c)[2])'
           \/ At(t, "read")' /\ thread'[t].v = c /\ thread'[t].round = thread[t].round
  PROVE  OneCall'
<1> SUFFICES ASSUME NEW c \in Callers, Served(c)', ~Quiet(Its(c)[2])'
             PROVE  \E u \in Threads : /\ At(u, "read")' /\ thread'[u].v = c
                                       /\ Under(Its(c)[2], << u, thread[u].round >>)'
  BY DEF OneCall
<1>1. CASE Served(c) /\ Its(c)' = Its(c) /\ SameCalls(Its(c)[2])
  <2>1. ~Quiet(Its(c)[2])
    BY <1>1 DEF Quiet, Bare, SameCalls
  <2>2. PICK u \in Threads : /\ At(u, "read") /\ thread[u].v = c
                             /\ Under(Its(c)[2], << u, thread[u].round >>)
    BY <1>1, <2>1 DEF OneCall
  <2>3. At(u, "read")' /\ thread'[u].v = c /\ thread'[u].round = thread[u].round
    BY <2>2 DEF Others, At
  <2>4. Under(Its(c)[2], << u, thread[u].round >>)'
    BY <1>1, <2>2, <2>3 DEF Under, SameCalls
  <2>5. QED
    BY <2>3, <2>4
<1>2. QED
  BY <1>1

\* A step that opens and closes thread t's own files, and leaves the callers alone.
LEMMA LFiles ==
  ASSUME TInv, LInv, NEW t \in Threads, Others(t), UNCHANGED << callee, conn >>,
         \A f \in Fd : fds'[f] = fds[f] \/ (/\ fds[f] \in {Free, Sock(t), Dialing(t)}
                                            /\ ~IsConn(fds'[f])),
         thread'[t].sock # NoFd => fds'[thread'[t].sock] = Sock(t),
         At(t, "connect")' => fds'[thread'[t].new] = Dialing(t),
         pool = "none" => pool' = "none" \/ \A c \in Callers : Excused(t, c)',
         \A c \in Callers : Excused(t, c) => Served(c) \/ Excused(t, c)',
         thread'[t].pc \in {"dial", "connect"} => thread'[t].after # "first",
         At(t, "dial")' /\ thread'[t].new # NoFd => Served(thread'[t].v),
         At(t, "read") => Quiet(Its(thread[t].v)[2]),
         TInv'
  PROVE  LInv'
<1>1. ASSUME NEW c \in Callers
      PROVE  /\ Served(c)' = Served(c)
             /\ Served(c) => Its(c)' = Its(c) /\ SameCalls(Its(c)[2])
  <2>1. callee[c] \in Fd /\ Its(c)' = fds'[callee[c]] /\ Its(c) = fds[callee[c]]
    BY OtherTypes DEF Its
  <2>2. CASE Its(c)' = Its(c)
    BY <2>2 DEF Served, SameCalls
  <2>3. CASE Its(c) \in {Free, Sock(t), Dialing(t)} /\ ~IsConn(Its(c))'
    BY <2>3, FileKinds DEF Served
  <2>4. QED
    BY <2>1, <2>2, <2>3 DEF IsConn
<1>2. OwnFiles'
  <2>1. \A u \in Threads \ {t} : \A f \in Fd : fds[f] \in {Sock(u), Dialing(u)} => fds'[f] = fds[f]
    BY FilesDiffer
  <2>2. QED
    BY <2>1, OwnFilesStep DEF LInv
<1>3. CallersServed'
  BY <1>1, CallersServedStep DEF LInv
<1>4. Redialled'
  <2>1. \A u \in Threads \ {t} : At(u, "dial") /\ Served(thread[u].v) => Served(thread[u].v)'
    <3> SUFFICES ASSUME NEW u \in Threads \ {t}, Served(thread[u].v) PROVE Served(thread[u].v)'
      OBVIOUS
    <3>1. thread'[u].v = thread[u].v /\ thread[u].v \in Callers
      BY RecordTypes DEF Others
    <3>2. QED
      BY <1>1, <3>1
  <2>2. At(t, "dial")' /\ thread'[t].new # NoFd => Served(thread[t].v)'
    <3>1. thread'[t].v \in Callers
      BY DEF TInv, CallerExists
    <3>2. QED
      BY <1>1, <3>1
  <2>3. QED
    BY <2>1, <2>2, RedialledStep DEF LInv
<1>5. OneCall'
  <2>1. \A c \in Callers : Served(c)' => Served(c) /\ Its(c)' = Its(c) /\ SameCalls(Its(c)[2])
    BY <1>1
  <2>2. ASSUME NEW c \in Callers, At(t, "read"), thread[t].v = c, Served(c)'
        PROVE  Quiet(Its(c)[2])'
    BY <2>1, <2>2 DEF Quiet, Bare
  <2>3. QED
    BY <2>1, <2>2, OneCallStep DEF LInv
<1>6. QED
  BY <1>2, <1>3, <1>4, <1>5 DEF LInv

\* A step that moves only the thread, and what the connections do not depend on.
LEMMA LQuiet ==
  ASSUME TInv, LInv, NEW t \in Threads, Others(t), UNCHANGED << fds, callee, conn >>,
         thread'[t].sock \in {thread[t].sock, NoFd}, thread'[t].pc # "connect",
         pool = "none" => pool' = "none" \/ \A c \in Callers : Excused(t, c)',
         \A c \in Callers : Excused(t, c) => Served(c) \/ Excused(t, c)',
         thread'[t].pc = "dial" => thread'[t].after # "first" /\ thread'[t].new = NoFd,
         At(t, "read") => Quiet(Its(thread[t].v)[2]),
         TInv'
  PROVE  LInv'
<1>1. thread'[t].sock # NoFd => fds'[thread'[t].sock] = Sock(t)
  BY DEF LInv, OwnFiles
<1>2. ~At(t, "connect")' /\ (At(t, "dial")' => thread'[t].new = NoFd)
  BY DEF At
<1>3. QED
  BY <1>1, <1>2, LFiles

\* The same for a thread outside the constructor and try_to_connect_callee.
LEMMA LAside ==
  ASSUME TInv, LInv, NEW t \in Threads, Others(t), UNCHANGED << fds, callee, conn, pool >>,
         KeepsSock(t),
         thread[t].pc \notin {"idle", "build", "dial", "connect", "read"},
         thread'[t].pc \notin {"idle", "dial", "connect"}, TInv'
  PROVE  LInv'
<1>1. \A c \in Callers : ~Excused(t, c)
  BY DEF Excused, Building, Replacing, At
<1>2. ~At(t, "read")
  BY DEF At
<1>3. QED
  BY <1>1, <1>2, LQuiet DEF KeepsSock

LEMMA SocketL ==
  ASSUME TInv, SInv, LInv, NEW t \in Threads, TInv',
         OpenSocket(t) \/ OpenSocketFails(t) \/ CloseSocket(t)
  PROVE  LInv'
<1>1. \A c \in Callers : ~Excused(t, c)
  BY DEF OpenSocket, OpenSocketFails, CloseSocket, Excused, Building, Replacing, At
<1>2. ~At(t, "read")
  BY DEF OpenSocket, OpenSocketFails, CloseSocket, At
<1>3. CASE OpenSocket(t)
  <2>1. /\ Others(t) /\ thread'[t].pc = "instance" /\ thread'[t].sock = Lowest
        /\ thread'[t].result = Failed /\ Lowest \in Fd /\ fds[Lowest] = Free
        /\ UNCHANGED << callee, conn, pool >>
    BY <1>3, OpenSocketEffect, LowestIsFree DEF OpenSocket
  <2>2. fds' = [fds EXCEPT ![Lowest] = Sock(t)]
    BY <1>3 DEF OpenSocket, Opened
  <2>3. /\ \A f \in Fd : fds'[f] = fds[f] \/ (fds[f] = Free /\ ~IsConn(fds'[f]))
        /\ fds'[Lowest] = Sock(t)
    BY <2>1, <2>2, OtherTypes, FileKinds
  <2>4. ~At(t, "connect")' /\ ~At(t, "dial")'
    BY <2>1 DEF At
  <2>5. QED
    BY <1>1, <1>2, <2>1, <2>3, <2>4, LFiles
<1>4. CASE OpenSocketFails(t)
  <2>1. UNCHANGED << fds, callee, conn, pool >>
    BY <1>4 DEF OpenSocketFails
  <2>2. QED
    BY <1>1, <1>2, <1>4, <2>1, OpenSocketFailsEffect, LQuiet
<1>5. CASE CloseSocket(t)
  <2>1. /\ Others(t) /\ thread'[t].pc = "idle" /\ thread'[t].sock = NoFd
        /\ UNCHANGED << callee, conn, pool >> /\ fds' = Closed(thread[t].sock)
    BY <1>5, CloseSocketEffect DEF CloseSocket
  <2>2. \A f \in Fd : fds'[f] = fds[f] \/ (fds[f] = Sock(t) /\ ~IsConn(fds'[f]))
    BY <2>1, ConstantTypes, FileKinds DEF Closed, LInv, OwnFiles
  <2>3. ~At(t, "connect")' /\ ~At(t, "dial")'
    BY <2>1 DEF At
  <2>4. QED
    BY <1>1, <1>2, <2>1, <2>2, <2>3, LFiles
<1>6. QED
  BY <1>3, <1>4, <1>5

LEMMA AsideL ==
  ASSUME TInv, SInv, LInv, NEW t \in Threads, TInv',
         Pick(t) \/ Count(t) \/ CallProtect(t) \/ SendFails(t)
  PROVE  LInv'
<1>1. CASE Pick(t)
  <2>1. thread[t].pc = "pick" /\ UNCHANGED << fds, callee, conn, pool >>
    BY <1>1 DEF Pick, At
  <2>2. Others(t) /\ KeepsSock(t) /\ thread'[t].pc = "load"
    BY <1>1, PickEffect
  <2>3. QED
    BY <2>1, <2>2, LAside
<1>2. CASE Load(t, "load", "store") \/ Load(t, "reload", "reduce")
  <2>1. thread[t].pc \in {"load", "reload"} /\ UNCHANGED << fds, callee, conn, pool >>
    BY <1>2 DEF Load, At
  <2>2. Others(t) /\ KeepsSock(t) /\ KeepsLine(t) /\ thread'[t].pc \in {"store", "reduce"}
    BY <1>2, LoadEffect
  <2>3. QED
    BY <2>1, <2>2, LAside
<1>3. ASSUME NEW pc \in {"lock", "use", "hangup"}, Goto(t, pc),
             thread[t].pc \in {"call", "send"},
             UNCHANGED << fds, callee, conn, pool >>
      PROVE  LInv'
  BY <1>3, GotoEffect, LAside
<1>4. CASE Store(t, "store", thread[t].reg + 1, "reload")
  <2>1. thread[t].pc = "store" /\ UNCHANGED << fds, callee, conn, pool >>
    BY <1>4 DEF Store, At
  <2>2. QED
    BY <1>4, <2>1, StoreEffect, LAside
<1>5. CASE Store(t, "reduce", thread[t].reg % NCallers, "call")
  <2>1. thread[t].pc = "reduce" /\ UNCHANGED << fds, callee, conn, pool >>
    BY <1>5 DEF Store, At
  <2>2. QED
    BY <1>5, <2>1, StoreEffect, LAside
<1>6. CASE CallProtect(t) \/ SendFails(t)
  BY <1>3, <1>6 DEF CallProtect, SendFails, At
<1>7. QED
  BY <1>1, <1>2, <1>4, <1>5, <1>6 DEF Count

LEMMA GetInstanceL ==
  ASSUME TInv, LInv, NEW t \in Threads, TInv', GetInstance(t)
  PROVE  LInv'
<1>1. thread[t].pc = "instance" /\ UNCHANGED << fds, callee, conn >>
  BY DEF GetInstance, At
<1>2. CASE pool = "ready" /\ Goto(t, "pick") /\ UNCHANGED pool
  <2>1. Others(t) /\ KeepsSock(t) /\ KeepsLine(t) /\ thread'[t].pc = "pick"
    BY <1>2, GotoEffect
  <2>2. QED
    BY <1>1, <1>2, <2>1, LAside DEF KeepsLine
<1>3. CASE thread' = [thread EXCEPT ![t].pc = "build", ![t].v = 0]
  <2>1. /\ Others(t) /\ KeepsSock(t) /\ thread'[t].pc = "build" /\ thread'[t].v = 0
        /\ thread'[t].result = thread[t].result
    BY <1>3, BuildEffect
  <2>2. \A c \in Callers : Excused(t, c)' /\ ~Excused(t, c)
    BY <1>1, <2>1, ConstantTypes DEF Excused, Building, Replacing, At
  <2>3. QED
    BY <1>1, <2>1, <2>2, LQuiet DEF KeepsSock, At
<1>4. QED
  BY <1>2, <1>3 DEF GetInstance

\* The building thread goes on to the next caller when this one is served.
LEMMA ConstructedL ==
  ASSUME TInv, SInv, LInv, NEW t \in Threads, TInv', Building(t), Constructed(t),
         UNCHANGED << fds, callee, conn >>, Served(thread[t].v)
  PROVE  LInv'
<1>1. /\ pool = "building" /\ thread[t].pc \in {"build", "dial", "connect"}
      /\ thread[t].v \in Callers
  BY RecordTypes DEF SInv, Phases, Building, At
<1>2. CASE thread[t].v + 1 \in Callers
  <2>1. /\ Others(t) /\ KeepsSock(t) /\ thread'[t].pc = "build"
        /\ thread'[t].v = thread[t].v + 1 /\ thread'[t].result = thread[t].result
    BY <1>2, BuildEffect DEF Constructed
  <2>2. ASSUME NEW c \in Callers, Excused(t, c) PROVE Served(c) \/ Excused(t, c)'
    <3>1. c >= thread[t].v
      BY <2>2, <1>1, ConstantTypes DEF Excused
    <3>2. c = thread[t].v \/ c >= thread[t].v + 1
      BY <1>1, <3>1, ConstantTypes
    <3>3. QED
      BY <2>1, <3>2 DEF Excused, Building, At
  <2>3. QED
    BY <1>1, <2>1, <2>2, LQuiet DEF KeepsSock, At
<1>3. CASE ~(thread[t].v + 1 \in Callers)
  <2>1. Others(t) /\ KeepsSock(t) /\ KeepsLine(t) /\ thread'[t].pc = "pick"
    BY <1>3, GotoEffect DEF Constructed
  <2>2. ASSUME NEW c \in Callers, Excused(t, c) PROVE Served(c)
    <3>1. c >= thread[t].v
      BY <2>2, <1>1, ConstantTypes DEF Excused
    <3>2. c = thread[t].v
      BY <1>1, <1>3, <3>1, ConstantTypes
    <3>3. QED
      BY <3>2
  <2>3. QED
    BY <1>1, <2>1, <2>2, LQuiet DEF KeepsSock, At
<1>4. QED
  BY <1>2, <1>3

LEMMA ConstructL ==
  ASSUME TInv, SInv, LInv, NEW t \in Threads, TInv', Construct(t), ~lost'
  PROVE  LInv'
<1>1. /\ thread[t].pc = "build" /\ ToDial(t, "build")
      /\ UNCHANGED << pool, fds, callee, conn >>
  BY DEF Construct, At
<1>2. /\ Others(t) /\ KeepsSock(t) /\ KeepsLine(t) /\ thread'[t].pc = "dial"
      /\ thread'[t].new = NoFd /\ thread'[t].after = "build"
  BY <1>1, ToDialEffect
<1>3. \A c \in Callers : Excused(t, c) => Excused(t, c)'
  BY <1>1, <1>2 DEF Excused, Building, Replacing, At, KeepsLine
<1>4. QED
  BY <1>1, <1>2, <1>3, LQuiet DEF KeepsSock, At

LEMMA DialedL ==
  ASSUME TInv, SInv, LInv, NEW t \in Threads, TInv', Dialed(t), ~lost'
  PROVE  LInv'
<1>1. /\ thread[t].pc = "dial" /\ thread[t].v \in Callers /\ UNCHANGED << fds, conn >>
      /\ callee'[thread[t].v] = thread[t].new /\ thread[t].after # "first"
  BY RecordTypes DEF Dialed, At, LInv, Redialled
<1>2. UNCHANGED callee
  BY <1>1 DEF Dialed
<1>3. Served(thread[t].v)
  <2>1. thread[t].new # NoFd
    BY <1>1, <1>2, OtherTypes, ConstantTypes
  <2>2. QED
    BY <1>1, <2>1 DEF LInv, Redialled, At
<1>4. CASE thread[t].after = "build"
  BY <1>1, <1>2, <1>3, <1>4, ConstructedL DEF Dialed, Building
<1>5. CASE thread[t].after # "build"
  <2>1. Return(t, Failed) /\ UNCHANGED pool
    BY <1>1, <1>5 DEF Dialed
  <2>2. Others(t) /\ KeepsSock(t) /\ thread'[t].pc = "use" /\ thread'[t].result = Failed
    BY <2>1, ReturnEffect
  <2>3. \A c \in Callers : Excused(t, c) => Served(c)
    BY <1>1, <1>3, <1>5 DEF Excused, Building, At
  <2>4. QED
    BY <1>1, <1>2, <2>1, <2>2, <2>3, LQuiet DEF KeepsSock, At
<1>6. QED
  BY <1>4, <1>5

\* A free mutex is that of a caller with a connection.
LEMMA EnterL ==
  ASSUME TInv, SInv, LInv, NEW t \in Threads, TInv', Enter(t)
  PROVE  LInv'
<1>1. /\ thread[t].pc = "lock" /\ thread[t].v \in Callers /\ lock[thread[t].v] = NoThread
      /\ UNCHANGED << pool, fds, callee, conn >>
  BY RecordTypes DEF Enter, At
<1>2. pool = "ready"
  BY <1>1 DEF SInv, Phases, Building, At
<1>3. Served(thread[t].v)
  <2>1. \A u \in Threads : ~Building(u) /\ (Replacing(u) => thread[u].v # thread[t].v)
    BY <1>1, <1>2, ConstantTypes DEF SInv, Phases, Locked
  <2>2. QED
    BY <1>1, <1>2, <2>1 DEF LInv, CallersServed, Excused
<1>4. callee[thread[t].v] \in Fd /\ callee[thread[t].v] # 0
  BY <1>1, <1>3, ServedLine, StdStays, FileKinds DEF Served, Its
<1>5. Goto(t, "send")
  BY <1>4, ConstantTypes DEF Enter
<1>6. QED
  BY <1>1, <1>5, GotoEffect, LAside DEF KeepsLine

\* An answer that was asked for is on its way as long as the connection lasts.
LEMMA ReadFailsL ==
  ASSUME TInv, SInv, GoneIsDeaf, LInv, NEW t \in Threads, TInv', ReadFails(t)
  PROVE  LInv'
<1> DEFINE n == Its(thread[t].v)[2]
<1>1. thread[t].pc = "read" /\ UNCHANGED << pool, fds, callee, conn >> /\ thread[t].v \in Callers
  BY RecordTypes DEF ReadFails, At
<1>2. Talking(t)
  BY <1>1 DEF Talking
<1>3. Served(thread[t].v) /\ Line(t) = Its(thread[t].v)
  BY <1>2, TalkingServed DEF LInv
<1>4. conn[n].answered = << >> /\ conn[n].asked = << >>
  <2>1. n \in 1..Len(conn) /\ IsConn(Line(t))
    BY <1>1, <1>3, ServedLine DEF Served
  <2>2. ~conn[n].up /\ conn[n].answered = << >>
    BY <1>3, <2>1 DEF ReadFails, Broken
  <2>3. QED
    BY <2>1, <2>2 DEF GoneIsDeaf
<1>5. \A c \in Callers : ~Excused(t, c)
  BY <1>1 DEF Excused, Building, Replacing, At
<1>6. /\ Others(t) /\ KeepsSock(t) /\ KeepsLine(t) /\ thread'[t].pc = "hangup"
  BY GotoEffect DEF ReadFails
<1>7. Quiet(Its(thread[t].v)[2])
  BY <1>4 DEF Quiet, Bare
<1>8. QED
  BY <1>1, <1>5, <1>6, <1>7, LQuiet DEF KeepsSock

\* A dialling thread remains excused for the same callers.
LEMMA StillExcused ==
  ASSUME NEW t \in Threads, thread[t].pc \in {"dial", "connect"},
         thread'[t].pc \in {"dial", "connect"}, thread'[t].after = thread[t].after, KeepsLine(t)
  PROVE  \A c : Excused(t, c)' = Excused(t, c)
  BY DEF Excused, Building, Replacing, At, KeepsLine

LEMMA DialL ==
  ASSUME TInv, SInv, LInv, NEW t \in Threads, TInv', Dial(t)
  PROVE  LInv'
<1>1. thread[t].pc = "dial" /\ UNCHANGED << pool, callee, conn >> /\ thread[t].after # "first"
  BY DEF Dial, At, LInv, Redialled
<1>2. /\ Others(t) /\ KeepsSock(t) /\ KeepsLine(t) /\ thread'[t].after = thread[t].after
      /\ thread'[t].pc \in {"dial", "connect"}
  BY DialEffect
<1>3. \A c : Excused(t, c)' = Excused(t, c)
  BY <1>1, <1>2, StillExcused
<1>4. ~At(t, "read")
  BY <1>1 DEF At
<1>5. thread[t].sock # NoFd => thread[t].sock \in Fd /\ fds[thread[t].sock] = Sock(t)
  BY RecordTypes DEF ThreadType, LInv, OwnFiles
<1>6. CASE FreeFds = {}
  <2>1. fds' = fds /\ thread'[t].pc = "dial" /\ thread'[t].new = thread[t].new
    BY <1>6, DialEffect DEF Dial
  <2>2. thread[t].new # NoFd => Served(thread[t].v)
    BY <1>1 DEF LInv, Redialled, At
  <2>3. thread'[t].sock # NoFd => fds'[thread'[t].sock] = Sock(t)
    BY <1>2, <1>5, <2>1 DEF KeepsSock
  <2>4. ~At(t, "connect")' /\ (thread'[t].new # NoFd => Served(thread'[t].v))
    BY <1>2, <2>1, <2>2 DEF At, KeepsLine
  <2>5. QED
    BY <1>1, <1>2, <1>3, <1>4, <2>1, <2>3, <2>4, LFiles
<1>7. CASE FreeFds # {}
  <2>1. /\ Lowest \in Fd /\ fds[Lowest] = Free /\ thread'[t].pc = "connect"
        /\ thread'[t].new = Lowest /\ fds' = [fds EXCEPT ![Lowest] = Dialing(t)]
    BY <1>7, LowestIsFree, DialEffect DEF Dial, Opened
  <2>2. /\ \A f \in Fd : fds'[f] = fds[f] \/ (fds[f] = Free /\ ~IsConn(fds'[f]))
        /\ fds'[Lowest] = Dialing(t)
    BY <2>1, OtherTypes, FileKinds
  <2>3. thread'[t].sock # NoFd => fds'[thread'[t].sock] = Sock(t)
    <3>1. thread[t].sock # NoFd => thread[t].sock # Lowest
      BY <1>5, <2>1, FilesDiffer
    <3>2. thread[t].sock # NoFd => fds'[thread[t].sock] = fds[thread[t].sock]
      BY <1>5, <2>1, <3>1, OtherTypes
    <3>3. QED
      BY <1>2, <1>5, <3>2 DEF KeepsSock
  <2>4. ~At(t, "dial")'
    BY <2>1 DEF At
  <2>5. QED
    BY <1>1, <1>2, <1>3, <1>4, <2>1, <2>2, <2>3, <2>4, LFiles
<1>8. QED
  BY <1>6, <1>7

LEMMA ConnectRefusedL ==
  ASSUME TInv, SInv, LInv, NEW t \in Threads, TInv', ConnectRefused(t)
  PROVE  LInv'
<1>1. /\ thread[t].pc = "connect" /\ UNCHANGED << pool, callee, conn >>
      /\ thread[t].after # "first" /\ fds[thread[t].new] = Dialing(t)
      /\ fds' = Closed(thread[t].new)
  BY DEF ConnectRefused, At, LInv, Redialled, OwnFiles
<1>2. /\ Others(t) /\ KeepsSock(t) /\ KeepsLine(t) /\ thread'[t].after = thread[t].after
      /\ thread'[t].pc = "dial" /\ thread'[t].new = NoFd
  BY ConnectRefusedEffect
<1>3. \A c : Excused(t, c)' = Excused(t, c)
  BY <1>1, <1>2, StillExcused
<1>4. ~At(t, "read") /\ ~At(t, "connect")'
  BY <1>1, <1>2 DEF At
<1>5. \A f \in Fd : fds'[f] = fds[f] \/ (fds[f] = Dialing(t) /\ ~IsConn(fds'[f]))
  BY <1>1, FileKinds DEF Closed
<1>6. thread[t].sock # NoFd => thread[t].sock \in Fd /\ fds[thread[t].sock] = Sock(t)
  BY RecordTypes DEF ThreadType, LInv, OwnFiles
<1>7. thread'[t].sock # NoFd => fds'[thread'[t].sock] = Sock(t)
  BY <1>1, <1>2, <1>6, FilesDiffer DEF KeepsSock, Closed
<1>8. QED
  BY <1>1, <1>2, <1>3, <1>4, <1>5, <1>7, LFiles

\* The new connection is the caller's own and nothing is under way on it.
LEMMA ConnectedL ==
  ASSUME TInv, SInv, LInv, NEW t \in Threads, TInv', Connected(t)
  PROVE  LInv'
<1> DEFINE v == thread[t].v
           f == thread[t].new
           n == Len(conn) + 1
<1>1. /\ thread[t].pc = "connect" /\ UNCHANGED pool /\ thread[t].after # "first"
      /\ f \in Fd /\ f # 0 /\ fds[f] = Dialing(t) /\ v \in Callers
  BY RecordTypes DEF Connected, At, LInv, Redialled, OwnFiles, TInv, Dialled, SInv, NotStdin
<1>2. /\ Others(t) /\ KeepsSock(t) /\ KeepsLine(t) /\ thread'[t].after = thread[t].after
      /\ thread'[t].pc = "dial" /\ thread'[t].new = f
  BY ConnectedEffect
<1>3. /\ conn' = Append(conn, NewConn(v)) /\ Len(conn) \in Nat /\ NewConn(v) \in ConnType
      /\ fds' = [fds EXCEPT ![f] = Conn(n)] /\ callee' = [callee EXCEPT ![v] = f]
  <2>1. NewConn(v) \in ConnType
    BY <1>1, ConstantTypes DEF NewConn, ConnType
  <2>2. f > 0
    BY <1>1, ConstantTypes
  <2>3. conn' = Append(conn, NewConn(v)) /\ fds' = [fds EXCEPT ![f] = Conn(n)]
    BY DEF Connected, NewConn
  <2>4. callee' = [callee EXCEPT ![v] = f]
    BY <2>2 DEF Connected
  <2>5. QED
    BY <2>1, <2>3, <2>4, OtherTypes, SeqFacts
<1>4. conn'[n] = NewConn(v) /\ \A m \in 1..Len(conn) : conn'[m] = conn[m]
  BY <1>3, OtherTypes, AppendProperties
<1>5. /\ fds'[f] = Conn(n) /\ callee'[v] = f
      /\ \A g \in Fd \ {f} : fds'[g] = fds[g]
      /\ \A d \in Callers \ {v} : callee'[d] = callee[d]
  BY <1>1, <1>3, OtherTypes
<1>6. /\ \A d \in Callers : d = v => Served(d)' /\ Quiet(Its(d)[2])'
  <2> SUFFICES ASSUME NEW d \in Callers, d = v PROVE Served(d)' /\ Quiet(Its(d)[2])'
    OBVIOUS
  <2>1. Its(d)' = Conn(n)
    BY <1>5 DEF Its
  <2>2. QED
    BY <1>4, <2>1, FileKinds DEF Served, Quiet, Bare, NewConn
<1>7. ASSUME NEW d \in Callers, d # v, Served(d)
      PROVE  Served(d)' /\ Its(d)' = Its(d) /\ SameCalls(Its(d)[2])
  <2>1. Its(d)[2] \in 1..Len(conn) /\ callee[d] \in Fd /\ callee[d] # f
    BY <1>1, <1>7, ServedLine, FileKinds DEF Served, Its
  <2>2. Its(d)' = Its(d)
    BY <1>5, <1>7, <2>1 DEF Its
  <2>3. QED
    BY <1>4, <1>7, <2>1, <2>2 DEF Served, SameCalls
<1>8. ASSUME NEW d \in Callers, d # v, Served(d)'
      PROVE  Served(d)
  <2>1. callee'[d] = callee[d] /\ callee[d] \in Fd
    BY <1>5, <1>8, OtherTypes
  <2>2. callee[d] # f
    <3> SUFFICES ASSUME callee[d] = f PROVE FALSE
      OBVIOUS
    <3>1. Its(d)' = Conn(n)
      BY <1>5, <2>1 DEF Its
    <3>2. QED
      BY <1>4, <1>8, <3>1, FileKinds DEF Served, NewConn
  <2>3. Its(d)' = Its(d) /\ IsConn(Its(d))
    BY <1>5, <1>8, <2>1, <2>2 DEF Its, Served
  <2>4. Its(d)[2] \in 1..Len(conn)
    <3>1. PICK m \in 1..MaxConns : Its(d) = Conn(m)
      BY <2>1, <2>3, OtherTypes, FileKinds DEF Its
    <3>2. QED
      BY <2>1, <3>1, FileKinds DEF TInv, ConnsMade, Its
  <2>5. QED
    BY <1>4, <1>8, <2>3, <2>4 DEF Served
<1>9. OwnFiles'
  <2>1. \A u \in Threads \ {t} : \A g \in Fd : fds[g] \in {Sock(u), Dialing(u)} => fds'[g] = fds[g]
    BY <1>1, <1>5, FilesDiffer
  <2>2. thread[t].sock # NoFd => thread[t].sock \in Fd /\ fds[thread[t].sock] = Sock(t)
    BY RecordTypes DEF ThreadType, LInv, OwnFiles
  <2>3. thread'[t].sock # NoFd => fds'[thread'[t].sock] = Sock(t)
    BY <1>1, <1>2, <1>5, <2>2, FilesDiffer DEF KeepsSock
  <2>4. ~At(t, "connect")'
    BY <1>2 DEF At
  <2>5. QED
    BY <1>2, <2>1, <2>3, <2>4, OwnFilesStep DEF LInv
<1>10. CallersServed'
  <2>1. \A c : Excused(t, c)' = Excused(t, c)
    BY <1>1, <1>2, StillExcused
  <2>2. \A c \in Callers : Served(c) => Served(c)'
    BY <1>6, <1>7
  <2>3. QED
    BY <1>1, <1>2, <2>1, <2>2, CallersServedStep DEF LInv
<1>11. Redialled'
  <2>1. \A u \in Threads \ {t} : Served(thread[u].v) => Served(thread[u].v)'
    <3> SUFFICES ASSUME NEW u \in Threads \ {t}, Served(thread[u].v) PROVE Served(thread[u].v)'
      OBVIOUS
    <3>1. thread'[u].v = thread[u].v /\ thread[u].v \in Callers
      BY <1>2, RecordTypes DEF Others
    <3>2. QED
      BY <1>6, <1>7, <3>1
  <2>2. Served(thread[t].v)'
    <3>1. thread'[t].v = v
      BY <1>2 DEF KeepsLine
    <3>2. QED
      BY <1>1, <1>6, <3>1
  <2>3. QED
    BY <1>1, <1>2, <2>1, <2>2, RedialledStep DEF LInv
<1>12. OneCall'
  <2>1. \A c \in Callers : Served(c)' => \/ Quiet(Its(c)[2])'
                                         \/ Served(c) /\ Its(c)' = Its(c) /\ SameCalls(Its(c)[2])
    BY <1>6, <1>7, <1>8
  <2>2. ~At(t, "read")
    BY <1>1 DEF At
  <2>3. QED
    BY <1>2, <2>1, <2>2, OneCallStep DEF LInv
<1>13. QED
  BY <1>9, <1>10, <1>11, <1>12 DEF LInv

-----------------------------------------------------------------------------
(* Steps that move what is under way on a connection.                      *)

LEMMA LineOwners ==
  ASSUME NEW c, NEW d, Served(c), Served(d), Its(c)[2] = Its(d)[2]
  PROVE  c = d
  BY DEF Served

LEMMA ServedSame ==
  ASSUME TInv, UNCHANGED << fds, callee >>,
         \A m \in 1..Len(conn) : conn'[m].owner = conn[m].owner
  PROVE  \A c \in Callers : Its(c)' = Its(c) /\ Served(c)' = Served(c)
<1> SUFFICES ASSUME NEW c \in Callers PROVE Its(c)' = Its(c) /\ Served(c)' = Served(c)
  OBVIOUS
<1>1. Its(c)' = Its(c)
  BY DEF Its
<1>2. CASE ~IsConn(Its(c))
  BY <1>1, <1>2 DEF Served
<1>3. CASE IsConn(Its(c))
  <2>1. callee[c] \in Fd /\ Its(c) \in Files
    BY OtherTypes DEF Its
  <2>2. PICK n \in 1..MaxConns : Its(c) = Conn(n)
    BY <1>3, <2>1, FileKinds
  <2>3. Its(c)[2] \in 1..Len(conn)
    BY <2>1, <2>2, FileKinds DEF TInv, ConnsMade, Its
  <2>4. QED
    BY <1>1, <2>3 DEF Served
<1>4. QED
  BY <1>2, <1>3

\* A thread sends or reads on its caller's connection.
LEMMA LTalk ==
  ASSUME TInv, SInv, LInv, NEW t \in Threads, TInv', Others(t), KeepsSock(t),
         UNCHANGED << fds, callee, pool >>, Talking(t), thread'[t].v = thread[t].v,
         thread'[t].pc \notin {"idle", "dial", "connect"},
         \A m \in 1..Len(conn) : conn'[m].owner = conn[m].owner,
         \A m \in 1..Len(conn) \ {Its(thread[t].v)[2]} : SameCalls(m),
         \A n : n = Its(thread[t].v)[2] =>
           Quiet(n)' \/ (At(t, "read")' /\ Under(n, << t, thread[t].round >>)')
  PROVE  LInv'
<1>1. /\ Served(thread[t].v) /\ thread[t].v \in Callers
      /\ \A c \in Callers : ~Excused(t, c)
      /\ \A u \in Threads \ {t} : thread[u].v = thread[t].v => ~Talking(u)
  BY TalkingServed, TalkingFacts DEF LInv, Excused, Talking, Replacing
<1>2. \A c \in Callers : Its(c)' = Its(c) /\ Served(c)' = Served(c)
  BY ServedSame
<1>3. ~At(t, "connect")' /\ ~At(t, "dial")'
  BY DEF At
<1>4. OwnFiles'
  BY <1>3, OwnFilesStep DEF LInv, OwnFiles, KeepsSock
<1>5. CallersServed'
  BY <1>1, <1>2, CallersServedStep DEF LInv
<1>6. Redialled'
  <2>1. \A u \in Threads \ {t} : Served(thread[u].v) => Served(thread[u].v)'
    <3> SUFFICES ASSUME NEW u \in Threads \ {t}, Served(thread[u].v) PROVE Served(thread[u].v)'
      OBVIOUS
    <3>1. thread'[u].v = thread[u].v /\ thread[u].v \in Callers
      BY RecordTypes DEF Others
    <3>2. QED
      BY <1>2, <3>1
  <2>2. QED
    BY <1>3, <2>1, RedialledStep DEF LInv
<1>7. OneCall'
  <2>1. ASSUME NEW c \in Callers, Served(c)', c # thread[t].v
        PROVE  Served(c) /\ Its(c)' = Its(c) /\ SameCalls(Its(c)[2])
    <3>1. Served(c) /\ Its(c)[2] \in 1..Len(conn) /\ Its(c)[2] # Its(thread[t].v)[2]
      BY <1>1, <1>2, <2>1, ServedLine, LineOwners
    <3>2. QED
      BY <1>2, <3>1
  <2>2. ASSUME NEW c \in Callers, c = thread[t].v
        PROVE  \/ Quiet(Its(c)[2])'
               \/ /\ At(t, "read")' /\ thread'[t].v = c
                  /\ Under(Its(c)[2], << t, thread[t].round >>)'
    <3>1. PICK n : n = Its(c)[2]
      OBVIOUS
    <3>2. Quiet(n)' \/ (At(t, "read")' /\ Under(n, << t, thread[t].round >>)')
      BY <2>2, <3>1
    <3>3. Its(c)'[2] = n
      BY <1>2, <3>1
    <3>4. QED
      BY <2>2, <3>2, <3>3 DEF Quiet, Bare, Under
  <2>3. \A c \in Callers : At(t, "read") /\ thread[t].v = c /\ Served(c)' =>
           \/ Quiet(Its(c)[2])'
           \/ At(t, "read")' /\ thread'[t].v = c /\ thread'[t].round = thread[t].round
    BY <2>2 DEF KeepsSock
  <2>4. QED
    BY <2>1, <2>2, <2>3, OneCallStep DEF LInv
<1>8. QED
  BY <1>4, <1>5, <1>6, <1>7 DEF LInv

\* Before its call nothing is under way to a thread's caller.
LEMMA QuietBefore ==
  ASSUME TInv, SInv, LInv, NEW t \in Threads, At(t, "send")
  PROVE  Quiet(Its(thread[t].v)[2])
<1>1. Talking(t) /\ ~At(t, "read")
  BY DEF Talking, At
<1>2. \A u \in Threads : thread[u].v = thread[t].v => ~At(u, "read")
  BY <1>1, TalkingServed DEF LInv, Talking, At
<1>3. Served(thread[t].v) /\ thread[t].v \in Callers
  BY <1>1, TalkingServed, TalkingFacts DEF LInv
<1>4. QED
  BY <1>2, <1>3 DEF LInv, OneCall

LEMMA SendRequestL ==
  ASSUME TInv, SInv, LInv, NEW t \in Threads, TInv', SendRequest(t)
  PROVE  LInv'
<1> DEFINE v == thread[t].v
           n == Its(v)[2]
           msg == << t, thread[t].round >>
<1>1. /\ thread[t].pc = "send" /\ UNCHANGED << fds, callee, pool >> /\ Goto(t, "read")
      /\ Talking(t) /\ At(t, "send")
  BY DEF SendRequest, Talking, At
<1>2. /\ Others(t) /\ KeepsSock(t) /\ KeepsLine(t) /\ thread'[t].pc = "read" /\ At(t, "read")'
  BY <1>1, GotoEffect DEF At
<1>3. /\ Served(v) /\ Line(t) = Its(v) /\ v \in Callers /\ n \in 1..Len(conn)
      /\ Quiet(n)
  BY <1>1, TalkingServed, TalkingFacts, ServedLine, QuietBefore DEF LInv
<1>4. CASE conn' = conn
  <2>1. Quiet(n) /\ \A m : SameCalls(m)
    BY <1>3, <1>4 DEF SameCalls
  <2>2. \A m : m = n => Quiet(m)'
    BY <1>4, <2>1 DEF Quiet, Bare
  <2>3. QED
    BY <1>1, <1>2, <1>4, <2>1, <2>2, LTalk DEF KeepsLine
<1>5. CASE conn' = [conn EXCEPT ![n].asked = Append(@, msg)]
  <2> HIDE DEF n
  <2>1. /\ conn'[n].asked = Append(conn[n].asked, msg) /\ conn'[n].answered = conn[n].answered
        /\ conn'[n].owner = conn[n].owner /\ conn'[n].torn = conn[n].torn
        /\ \A m \in 1..Len(conn) \ {n} : conn'[m] = conn[m]
    <3>1. conn' = [conn EXCEPT ![n] = [conn[n] EXCEPT !.asked = Append(conn[n].asked, msg)]]
      BY <1>5
    <3>2. n \in DOMAIN conn /\ DOMAIN conn = 1..Len(conn) /\ conn[n] \in ConnType
      BY <1>3, OtherTypes, LenProperties, ConnRecord
    <3>3. QED
      BY <3>1, <3>2 DEF ConnType
  <2>2. \A m \in 1..Len(conn) : conn'[m].owner = conn[m].owner
    BY <2>1
  <2>3. \A m \in 1..Len(conn) \ {n} : SameCalls(m)
    BY <2>1 DEF SameCalls
  <2>4. thread'[t].round = thread[t].round
    BY <1>2 DEF KeepsSock
  <2>5. ASSUME NEW m, m = n
        PROVE  Quiet(m)' \/ (At(t, "read")' /\ Under(m, << t, thread[t].round >>)')
    <3>1. CASE conn[n].torn
      BY <2>1, <2>5, <3>1 DEF Quiet
    <3>2. CASE ~conn[n].torn
      <4>1. conn[n].asked = << >> /\ conn[n].answered = << >>
        BY <1>3, <3>2 DEF Quiet, Bare
      <4>2. Append(<< >>, msg) = << msg >>
        OBVIOUS
      <4>3. QED
        BY <1>2, <2>1, <2>4, <2>5, <4>1, <4>2 DEF Under
    <3>3. QED
      BY <3>1, <3>2
  <2>6. QED
    BY <1>1, <1>2, <2>2, <2>3, <2>5, LTalk DEF KeepsLine, n
<1>6. QED
  BY <1>3, <1>4, <1>5 DEF SendRequest

\* Where answers were read whole, the answer a thread finds is to its own call.
LEMMA WholeCall ==
  ASSUME TInv, SInv, LInv, NEW t \in Threads, At(t, "read"), NEW n, n = Its(thread[t].v)[2],
         ~conn[n].torn, conn[n].answered # << >>
  PROVE  conn[n].asked = << >> /\ conn[n].answered = << << t, thread[t].round >> >>
<1>1. /\ Served(thread[t].v) /\ thread[t].v \in Callers
      /\ \A u \in Threads \ {t} : thread[u].v = thread[t].v => ~Talking(u)
  BY TalkingServed, TalkingFacts DEF LInv, Talking, At
<1>2. ~Quiet(n)
  BY DEF Quiet, Bare
<1>3. PICK u \in Threads : /\ At(u, "read") /\ thread[u].v = thread[t].v
                           /\ Under(n, << u, thread[u].round >>)
  BY <1>1, <1>2 DEF LInv, OneCall
<1>4. u = t
  BY <1>1, <1>3 DEF Talking, At
<1>5. QED
  BY <1>3, <1>4 DEF Under

LEMMA ReadAnswerL ==
  ASSUME TInv, SInv, LInv, WholeReads, NEW t \in Threads, TInv', ReadAnswer(t)
  PROVE  LInv'
<1> DEFINE v == thread[t].v
           n == Its(v)[2]
<1>1. /\ thread[t].pc = "read" /\ UNCHANGED << fds, callee, pool >> /\ Talking(t)
  BY DEF ReadAnswer, Talking, At
<1>2. /\ Served(v) /\ Line(t) = Its(v) /\ v \in Callers /\ n \in 1..Len(conn)
      /\ Line(t) = Conn(n)
      /\ \A u \in Threads \ {t} : thread[u].v = v => ~Talking(u)
  BY <1>1, TalkingServed, TalkingFacts, ServedLine DEF LInv
<1>3. PICK k \in 1..AnswerSize : ReadBytes(t, n, k)
  BY <1>2, FileKinds DEF ReadAnswer, Conn
<1>4. /\ Others(t) /\ KeepsSock(t) /\ thread'[t].v = v /\ thread'[t].pc = "use"
  BY <1>2, <1>3, ReadBytesEffect, ReturnEffect
<1>5. /\ conn'[n].owner = conn[n].owner /\ \A m \in 1..Len(conn) \ {n} : conn'[m] = conn[m]
      /\ conn'[n].torn \/ (conn'[n].asked = << >> /\ conn'[n].answered = << >>)
  <2> HIDE DEF n
  <2>1. CASE conn'[n].torn
    BY <1>2, <1>3, <2>1, ReadBytesEffect
  <2>2. CASE ~conn'[n].torn
    <3>1. /\ conn[n].got = 0 /\ ~conn[n].torn /\ conn[n].answered # << >>
      BY <1>2, <1>3, <2>2, ReadBytesEffect DEF WholeReads
    <3>2. conn[n].asked = << >> /\ conn[n].answered = << << t, thread[t].round >> >>
      BY <1>1, <1>2, <3>1, WholeCall DEF n, At
    <3>3. Tail(<< << t, thread[t].round >> >>) = << >>
      OBVIOUS
    <3>4. QED
      BY <1>2, <1>3, <2>2, <3>1, <3>2, <3>3, ReadBytesEffect
  <2>3. QED
    BY <2>1, <2>2
<1>6. \A m \in 1..Len(conn) : conn'[m].owner = conn[m].owner
  BY <1>5
<1>7. \A m \in 1..Len(conn) \ {n} : SameCalls(m)
  BY <1>5 DEF SameCalls
<1>8. \A m : m = n => Quiet(m)'
  BY <1>5 DEF Quiet, Bare
<1>9. QED
  BY <1>1, <1>4, <1>6, <1>7, <1>8, LTalk

\* The closed connection's caller is excused until the thread has returned; no
\* other caller held the same number.
LEMMA HangUpL ==
  ASSUME TInv, SInv, LInv, NEW t \in Threads, TInv', HangUp(t)
  PROVE  LInv'
<1> DEFINE v == thread[t].v
<1>1. /\ thread[t].pc = "hangup" /\ UNCHANGED << callee, conn, pool >> /\ Talking(t)
      /\ ToDial(t, "fail") /\ fds' = Closed(callee[v])
  BY DEF HangUp, Talking, At
<1>2. /\ Others(t) /\ KeepsSock(t) /\ KeepsLine(t) /\ thread'[t].pc = "dial"
      /\ thread'[t].new = NoFd /\ thread'[t].after = "fail"
  BY <1>1, ToDialEffect
<1>3. /\ Served(v) /\ v \in Callers /\ IsConn(fds[callee[v]])
      /\ \A u \in Threads \ {t} : thread[u].v = v => ~Replacing(u)
      /\ \A u \in Threads : ~Building(u)
  BY <1>1, TalkingServed, TalkingFacts DEF LInv, Served, Its
<1>4. \A f \in Fd : f # callee[v] => fds'[f] = fds[f]
  BY <1>1 DEF Closed
<1>5. ASSUME NEW c \in Callers, c # v, Served(c)
      PROVE  Served(c)' /\ Its(c)' = Its(c) /\ SameCalls(Its(c)[2])
  <2>1. callee[c] \in Fd /\ callee[c] # callee[v]
    BY <1>3, <1>5, ServedLine DEF Served, Its
  <2>2. Its(c)' = Its(c)
    BY <1>1, <1>4, <2>1 DEF Its
  <2>3. QED
    BY <1>1, <1>5, <2>2 DEF Served, SameCalls
<1>6. ASSUME NEW c \in Callers, Served(c)'
      PROVE  c # v /\ Served(c)
  <2>1. callee[c] \in Fd /\ callee[c] # callee[v]
    BY <1>1, <1>6, OtherTypes, FileKinds DEF Served, Its, Closed
  <2>2. Its(c)' = Its(c)
    BY <1>1, <1>4, <2>1 DEF Its
  <2>3. QED
    BY <1>1, <1>6, <2>1, <2>2 DEF Served
<1>7. ~At(t, "connect")' /\ ~At(t, "read") /\ ~At(t, "send")
  BY <1>1, <1>2 DEF At
<1>8. OwnFiles'
  <2>1. \A u \in Threads : \A g \in Fd : fds[g] \in {Sock(u), Dialing(u)} => fds'[g] = fds[g]
    BY <1>3, <1>4, FileKinds
  <2>2. thread[t].sock # NoFd => thread[t].sock \in Fd /\ fds[thread[t].sock] = Sock(t)
    BY RecordTypes DEF ThreadType, LInv, OwnFiles
  <2>3. thread'[t].sock # NoFd => fds'[thread'[t].sock] = Sock(t)
    BY <1>2, <2>1, <2>2 DEF KeepsSock
  <2>4. QED
    BY <1>2, <1>7, <2>1, <2>3, OwnFilesStep DEF LInv
<1>9. CallersServed'
  <2>1. \A c \in Callers : ~Excused(t, c)
    BY <1>1 DEF Excused, Building, Replacing, At
  <2>2. \A c \in Callers : c = v => Excused(t, c)'
    BY <1>2 DEF Excused, Building, Replacing, At, KeepsLine
  <2>3. \A c \in Callers : Served(c) => Served(c)' \/ Excused(t, c)'
    BY <1>5, <2>2
  <2>4. QED
    BY <1>1, <1>2, <2>1, <2>3, CallersServedStep DEF LInv
<1>10. Redialled'
  <2>1. ASSUME NEW u \in Threads \ {t}, At(u, "dial"), Served(thread[u].v)
        PROVE  Served(thread[u].v)'
    <3>1. thread'[u].v = thread[u].v /\ thread[u].v \in Callers
      BY <1>2, RecordTypes DEF Others
    <3>2. thread[u].v # v
      BY <1>3, <2>1 DEF Replacing, Building, At
    <3>3. QED
      BY <1>5, <2>1, <3>1, <3>2
  <2>2. QED
    BY <1>2, <2>1, RedialledStep DEF LInv
<1>11. OneCall'
  <2>1. \A c \in Callers : Served(c)' => Served(c) /\ Its(c)' = Its(c) /\ SameCalls(Its(c)[2])
    BY <1>5, <1>6
  <2>2. QED
    BY <1>2, <1>7, <2>1, OneCallStep DEF LInv
<1>12. QED
  BY <1>8, <1>9, <1>10, <1>11 DEF LInv

\* The callee, and the program around the proxy.
LEMMA OutsideL ==
  ASSUME TInv, LInv, UNCHANGED << fds, callee, pool, thread >>,
         \A m \in 1..Len(conn) : conn'[m].owner = conn[m].owner,
         \A m \in 1..Len(conn) : /\ Quiet(m) => Quiet(m)'
                                 /\ \A msg : Under(m, msg) => Quiet(m)' \/ Under(m, msg)'
  PROVE  LInv'
<1>1. \A c \in Callers : Its(c)' = Its(c) /\ Served(c)' = Served(c)
  BY ServedSame
<1>2. OwnFiles'
  BY DEF LInv, OwnFiles, At
<1>3. CallersServed'
  BY <1>1 DEF LInv, CallersServed, Excused, Building, Replacing, At
<1>4. Redialled'
  <2>1. \A u \in Threads : Served(thread[u].v) => Served(thread[u].v)'
    BY <1>1, RecordTypes
  <2>2. QED
    BY <2>1 DEF LInv, Redialled, At
<1>5. OneCall'
  <2> SUFFICES ASSUME NEW c \in Callers, Served(c)', ~Quiet(Its(c)[2])'
               PROVE  \E u \in Threads : /\ At(u, "read")' /\ thread'[u].v = c
                                         /\ Under(Its(c)[2], << u, thread[u].round >>)'
    BY DEF OneCall
  <2>1. PICK m \in 1..Len(conn) : m = Its(c)[2] /\ Served(c)
    BY <1>1, ServedLine
  <2>2. ~Quiet(m)' /\ ~Quiet(m)
    BY <1>1, <2>1 DEF Quiet, Bare
  <2>3. PICK u \in Threads : /\ At(u, "read") /\ thread[u].v = c
                             /\ Under(m, << u, thread[u].round >>)
    BY <2>1, <2>2 DEF LInv, OneCall
  <2>4. Under(m, << u, thread[u].round >>)'
    BY <2>2, <2>3
  <2>5. Under(Its(c)[2], << u, thread[u].round >>)'
    BY <1>1, <2>1, <2>4 DEF Under
  <2>6. QED
    BY <2>3, <2>5 DEF At
<1>6. QED
  BY <1>2, <1>3, <1>4, <1>5 DEF LInv

\* What a step of the callee leaves of a connection.
LEMMA CalleeStep ==
  ASSUME TInv, NEW n \in 1..Len(conn), CalleeAnswers(n) \/ CalleeBreaks(n)
  PROVE  /\ Len(conn') = Len(conn)
         /\ \A m \in 1..Len(conn) : conn'[m].owner = conn[m].owner /\ conn'[m].torn = conn[m].torn
         /\ conn'[n].got \in {conn[n].got, 0}
         /\ \A m \in 1..Len(conn) \ {n} : conn'[m] = conn[m]
         /\ \/ /\ conn[n].up /\ conn'[n].up /\ conn[n].asked # << >>
               /\ conn'[n].asked = Tail(conn[n].asked)
               /\ conn'[n].answered = Append(conn[n].answered, Head(conn[n].asked))
            \/ conn'[n].asked = << >> /\ conn'[n].answered \in {conn[n].answered, << >>}
<1>1. n \in DOMAIN conn /\ DOMAIN conn = 1..Len(conn) /\ conn[n] \in ConnType
  BY OtherTypes, LenProperties, ConnRecord
<1>2. CASE CalleeAnswers(n)
  <2>1. conn' = [conn EXCEPT ![n] = [conn[n] EXCEPT
                  !.asked = Tail(conn[n].asked),
                  !.answered = Append(conn[n].answered, Head(conn[n].asked))]]
    BY <1>2 DEF CalleeAnswers
  <2>2. conn[n].up /\ conn[n].asked # << >>
    BY <1>2 DEF CalleeAnswers
  <2>3. QED
    BY <1>1, <2>1, <2>2 DEF ConnType
<1>3. CASE CalleeBreaks(n)
  <2>1. PICK rest \in {conn[n].answered, << >>} :
          conn' = [conn EXCEPT ![n].up = FALSE, ![n].asked = << >>, ![n].answered = rest,
                               ![n].got = IF rest = << >> THEN 0 ELSE @]
    BY <1>3 DEF CalleeBreaks
  <2> DEFINE g == IF rest = << >> THEN 0 ELSE conn[n].got
  <2>2. conn' = [conn EXCEPT ![n] = [conn[n] EXCEPT !.up = FALSE, !.asked = << >>,
                                                    !.answered = rest, !.got = g]]
    BY <2>1
  <2>3. g \in {conn[n].got, 0}
    OBVIOUS
  <2> HIDE DEF g
  <2>4. QED
    BY <1>1, <2>1, <2>2, <2>3 DEF ConnType
<1>4. Len(conn') = Len(conn)
  <2>1. PICK k : conn' = [conn EXCEPT ![n] = k]
    BY <1>2, <1>3 DEF CalleeAnswers, CalleeBreaks
  <2>2. conn \in Seq(ConnType)
    BY OtherTypes
  <2>3. QED
    BY <1>1, <2>1, <2>2, LenProperties
<1>5. QED
  BY <1>2, <1>3, <1>4

LEMMA CalleeL ==
  ASSUME TInv, LInv, NEW n \in 1..Len(conn), CalleeAnswers(n) \/ CalleeBreaks(n)
  PROVE  LInv'
<1>1. UNCHANGED << fds, callee, pool, thread >>
  BY DEF CalleeAnswers, CalleeBreaks
<1>2. ASSUME NEW m \in 1..Len(conn), Quiet(m) PROVE Quiet(m)'
  BY <1>2, CalleeStep DEF Quiet, Bare
<1>3. ASSUME NEW m \in 1..Len(conn), NEW msg, Under(m, msg) PROVE Quiet(m)' \/ Under(m, msg)'
  <2>1. CASE m # n
    BY <1>3, <2>1, CalleeStep DEF Under
  <2>2. CASE m = n
    <3>1. Tail(<< msg >>) = << >> /\ Append(<< >>, Head(<< msg >>)) = << msg >>
      OBVIOUS
    <3>2. CASE conn[n].asked = << msg >> /\ conn[n].answered = << >>
      BY <2>2, <3>1, <3>2, CalleeStep DEF Under, Quiet, Bare
    <3>3. CASE conn[n].asked = << >> /\ conn[n].answered = << msg >>
      BY <2>2, <3>3, CalleeStep DEF Under, Quiet, Bare
    <3>4. QED
      BY <1>3, <2>2, <3>2, <3>3 DEF Under
  <2>3. QED
    BY <2>1, <2>2
<1>4. QED
  BY <1>1, <1>2, <1>3, CalleeStep, OutsideL

-----------------------------------------------------------------------------
(* The connections of every reachable state.                               *)

\* Every step keeps what is true of each connection by itself.
LEMMA NextConns ==
  ASSUME TInv, GoneIsDeaf, WholeReads, [Next]_vars
  PROVE  GoneIsDeaf' /\ WholeReads'
<1> DEFINE Deaf(n)  == ~conn[n].up => conn[n].asked = << >>
           Whole(n) == conn[n].torn \/ conn[n].got = 0
<1>1. conn \in Seq(ConnType) /\ DOMAIN conn = 1..Len(conn) /\ Len(conn) \in Nat
  BY OtherTypes, LenProperties
<1>2. CASE UNCHANGED conn
  BY <1>2 DEF GoneIsDeaf, WholeReads
<1>3. ASSUME NEW n \in 1..Len(conn), Len(conn') = Len(conn), Deaf(n)', Whole(n)',
             \A m \in 1..Len(conn) \ {n} : conn'[m] = conn[m]
      PROVE  GoneIsDeaf' /\ WholeReads'
  <2>1. ASSUME NEW m \in 1..Len(conn) PROVE Deaf(m)' /\ Whole(m)'
    <3>1. CASE m = n
      BY <1>3, <3>1
    <3>2. CASE m # n
      BY <1>3, <3>2 DEF GoneIsDeaf, WholeReads
    <3>3. QED
      BY <3>1, <3>2
  <2>2. QED
    BY <1>3, <2>1 DEF GoneIsDeaf, WholeReads
<1>4. ASSUME NEW n \in 1..Len(conn), CalleeAnswers(n) \/ CalleeBreaks(n)
      PROVE  GoneIsDeaf' /\ WholeReads'
  <2>1. Deaf(n)'
    BY <1>4, CalleeStep
  <2>2. Whole(n)'
    BY <1>4, CalleeStep DEF WholeReads
  <2>3. QED
    BY <1>3, <1>4, <2>1, <2>2, CalleeStep
<1>5. ASSUME NEW t \in Threads, Connected(t) PROVE GoneIsDeaf' /\ WholeReads'
  <2>1. conn' = Append(conn, NewConn(thread[t].v)) /\ NewConn(thread[t].v) \in ConnType
    BY <1>5, RecordTypes, ConstantTypes DEF Connected, NewConn, ConnType
  <2>2. /\ Len(conn') = Len(conn) + 1 /\ conn'[Len(conn) + 1] = NewConn(thread[t].v)
        /\ \A m \in 1..Len(conn) : conn'[m] = conn[m]
    BY <1>1, <2>1, AppendProperties
  <2>3. ASSUME NEW m \in 1..Len(conn') PROVE Deaf(m)' /\ Whole(m)'
    <3>1. m \in 1..Len(conn) \/ m = Len(conn) + 1
      BY <1>1, <2>2
    <3>2. QED
      BY <2>2, <3>1 DEF GoneIsDeaf, WholeReads, NewConn
  <2>4. QED
    BY <2>3 DEF GoneIsDeaf, WholeReads
<1>6. ASSUME NEW t \in Threads, SendRequest(t) PROVE GoneIsDeaf' /\ WholeReads'
  <2>1. CASE conn' = conn
    BY <1>2, <2>1
  <2>2. CASE conn' # conn
    <3>1. PICK n \in 1..Len(conn) : /\ n = Line(t)[2] /\ conn[n].up /\ conn[n] \in ConnType
                                    /\ conn' = [conn EXCEPT ![n].asked = Append(@, << t, thread[t].round >>)]
      BY <1>6, <2>2, LineType, ConnRecord DEF SendRequest, Broken
    <3>2. /\ Len(conn') = Len(conn) /\ conn'[n].up
          /\ conn'[n].torn = conn[n].torn /\ conn'[n].got = conn[n].got
          /\ \A m \in 1..Len(conn) \ {n} : conn'[m] = conn[m]
      BY <1>1, <3>1, LenProperties DEF ConnType
    <3>3. Deaf(n)' /\ Whole(n)'
      BY <3>2 DEF WholeReads
    <3>4. QED
      BY <1>3, <3>2, <3>3
  <2>3. QED
    BY <2>1, <2>2
<1>7. ASSUME NEW t \in Threads, ReadAnswer(t) PROVE GoneIsDeaf' /\ WholeReads'
  <2>1. CASE conn' = conn
    BY <1>2, <2>1
  <2>2. ASSUME NEW n \in 1..Len(conn), NEW k \in 1..AnswerSize, ReadBytes(t, n, k)
        PROVE  GoneIsDeaf' /\ WholeReads'
    <3>1. Deaf(n)'
      BY <2>2, ReadBytesEffect DEF GoneIsDeaf
    <3>2. Whole(n)'
      BY <2>2, ReadBytesEffect DEF WholeReads
    <3>3. QED
      BY <1>3, <2>2, <3>1, <3>2, ReadBytesEffect
  <2>3. QED
    BY <1>7, <2>1, <2>2, LineType DEF ReadAnswer
<1>8. CASE SetCallee \/ UNCHANGED vars
  BY <1>2, <1>8 DEF SetCallee, vars
<1>9. ASSUME NEW t \in Threads, OpenSocket(t) \/ OpenSocketFails(t) \/ Proceed(t),
             ~Connected(t), ~SendRequest(t), ~ReadAnswer(t)
      PROVE  UNCHANGED conn
  BY <1>9 DEF OpenSocket, OpenSocketFails, Proceed, GetInstance, Construct, Pick, Count, Load,
              Store, Dial, ConnectRefused, Dialed, CallProtect, Enter, SendFails, ReadFails,
              HangUp, CloseSocket
<1>10. QED
  BY <1>2, <1>4, <1>5, <1>6, <1>7, <1>8, <1>9 DEF Next

\* A caller that is without a connection once is counted as lost for good.
LEMMA LostStays ==
  ASSUME TInv, [Next]_vars, ~lost'
  PROVE  ~lost
<1>1. ASSUME NEW t \in Threads, OpenSocket(t) \/ OpenSocketFails(t) \/ Proceed(t) PROVE ~lost
  BY <1>1 DEF OpenSocket, OpenSocketFails, Proceed, GetInstance, Construct, Pick, Count, Load,
              Store, Dial, Connected, ConnectRefused, Dialed, CallProtect, Enter, SendRequest,
              SendFails, ReadAnswer, ReadFails, HangUp, CloseSocket
<1>2. CASE UNCHANGED lost
  BY <1>2
<1>3. QED
  BY <1>1, <1>2 DEF Next, SetCallee, CalleeAnswers, CalleeBreaks, vars

LEMMA NextPInv == PInv /\ [Next]_vars => PInv'
<1> SUFFICES ASSUME PInv, [Next]_vars PROVE PInv'
  OBVIOUS
<1>1. /\ TInv /\ SInv /\ GoneIsDeaf /\ WholeReads
      /\ TInv' /\ SInv' /\ GoneIsDeaf' /\ WholeReads'
  BY NextTInv, NextSInv, NextConns DEF PInv
<1>2. ASSUME ~lost' PROVE LInv'
  <2>1. LInv
    BY <1>1, <1>2, LostStays DEF PInv
  <2>2. CASE UNCHANGED vars \/ SetCallee
    <3>1. UNCHANGED << fds, callee, pool, thread, conn >>
      BY <2>2 DEF vars, SetCallee
    <3>2. QED
      BY <1>1, <2>1, <3>1, OutsideL DEF Quiet, Bare, Under
  <2>3. ASSUME NEW n \in 1..Len(conn), CalleeAnswers(n) \/ CalleeBreaks(n) PROVE LInv'
    BY <1>1, <2>1, <2>3, CalleeL
  <2>4. ASSUME NEW t \in Threads, OpenSocket(t) \/ OpenSocketFails(t) \/ Proceed(t) PROVE LInv'
    BY <1>1, <1>2, <2>1, <2>4, SocketL, AsideL, GetInstanceL, ConstructL, DialL, ConnectedL,
       ConnectRefusedL, DialedL, EnterL, SendRequestL, ReadFailsL, ReadAnswerL, HangUpL
       DEF Proceed
  <2>5. QED
    BY <2>2, <2>3, <2>4 DEF Next
<1>3. QED
  BY <1>1, <1>2 DEF PInv

LEMMA InitPInv == Init => PInv
<1> SUFFICES ASSUME Init PROVE PInv
  OBVIOUS
<1>1. \A t \in Threads : /\ thread[t].pc = "idle" /\ thread[t].sock = NoFd
  BY DEF Init
<1>2. OwnFiles /\ Redialled
  BY <1>1 DEF OwnFiles, Redialled, At
<1>3. CallersServed
  BY DEF Init, CallersServed
<1>4. \A c \in Callers : ~Served(c)
  BY ConstantTypes, FileKinds DEF Init, Served, Its
<1>5. OneCall /\ GoneIsDeaf /\ WholeReads
  BY <1>4 DEF Init, OneCall, GoneIsDeaf, WholeReads
<1>6. QED
  BY <1>2, <1>3, <1>5, InitTInv, InitSInv DEF PInv, LInv

LEMMA PInvAlways == Spec => []PInv
  BY InitPInv, NextPInv, PTL DEF Spec

\* A caller sends to, reads from and closes its own connection, though the number
\* of one it has closed may already be another session's socket, as long as every
\* attempt to find or to replace a connection has left it one; for any number of
\* sessions, callers, descriptors and broken connections (clientcaller.cpp 41-107).
THEOREM ConnectionIsOwn == Spec => []OwnConnection
<1>1. PInv => OwnConnection
  <2> SUFFICES ASSUME PInv, ~lost, NEW t \in Threads, Talking(t)
               PROVE  IsConn(Line(t)) /\ conn[Line(t)[2]].owner = thread[t].v
    BY DEF OwnConnection
  <2>1. QED
    BY TalkingServed DEF PInv, LInv, Served
<1>2. QED
  BY <1>1, PInvAlways, PTL

-----------------------------------------------------------------------------
(* Who waits, and for whom.                                                *)

\* A pool that is not ready has its builder; a mutex has a holder that is at work
\* on that caller.
Manned ==
  /\ pool = "building" => \E t \in Threads : Building(t)
  /\ \A c \in Callers : lock[c] # NoThread =>
       /\ thread[lock[c]].v = c
       /\ Talking(lock[c]) \/ Replacing(lock[c])

\* Where a thread reads there is something to read, or to come.
Awaited == \A t \in Threads : At(t, "read") =>
             ~conn[Line(t)[2]].up \/ ~Bare(Line(t)[2])

WInv == PInv /\ Manned /\ (~lost => Awaited)

\* What thread t's step has to show.
LEMMA MannedStep ==
  ASSUME TInv, Manned, NEW t \in Threads, Others(t),
         pool' = "building" => Building(t)' \/ (pool = "building" /\ ~Building(t)),
         \A c \in Callers : lock'[c] \in {lock[c], NoThread, t},
         \A c \in Callers : lock'[c] = t => thread'[t].v = c /\ (Talking(t)' \/ Replacing(t)')
  PROVE  Manned'
<1>1. ASSUME NEW u \in Threads \ {t}
      PROVE  /\ thread'[u] = thread[u] /\ Building(u)' = Building(u)
             /\ Replacing(u)' = Replacing(u) /\ Talking(u)' = Talking(u)
  BY DEF Others, At, Building, Replacing, Talking
<1>2. pool' = "building" => \E u \in Threads : Building(u)'
  BY <1>1 DEF Manned
<1>3. ASSUME NEW c \in Callers, lock'[c] # NoThread
      PROVE  /\ thread'[lock'[c]].v = c
             /\ Talking(lock[c])' \/ Replacing(lock[c])'
  <2>1. PICK u : u = lock'[c]
    OBVIOUS
  <2>2. CASE u = t
    <3>1. thread'[u].v = c /\ (Talking(u)' \/ Replacing(u)')
      BY <2>1, <2>2
    <3>2. QED
      BY <2>1, <3>1 DEF Talking, Replacing
  <2>3. CASE u # t
    <3>1. u = lock[c] /\ u \in Threads \ {t}
      BY <1>3, <2>1, <2>3, OtherTypes
    <3>2. thread[u].v = c /\ (Talking(u) \/ Replacing(u))
      BY <1>3, <2>1, <3>1 DEF Manned
    <3>3. thread'[u].v = c /\ (Talking(u)' \/ Replacing(u)')
      BY <1>1, <3>1, <3>2
    <3>4. QED
      BY <2>1, <3>3 DEF Talking, Replacing
  <2>4. QED
    BY <2>2, <2>3
<1>4. QED
  BY <1>2, <1>3 DEF Manned

\* A thread that neither talks nor replaces holds no mutex.
LEMMA HoldsNone ==
  ASSUME TInv, Manned, NEW t \in Threads, ~Talking(t), ~Replacing(t)
  PROVE  \A c \in Callers : lock[c] # t
  BY ConstantTypes DEF Manned

\* A step that takes and frees no mutex.
LEMMA MannedQuiet ==
  ASSUME TInv, Manned, NEW t \in Threads, Others(t), UNCHANGED lock,
         pool' = "building" => Building(t)' \/ (pool = "building" /\ ~Building(t)),
         Talking(t) \/ Replacing(t) => thread'[t].v = thread[t].v /\ (Talking(t)' \/ Replacing(t)')
  PROVE  Manned'
<1>1. \A c \in Callers : lock[c] = t =>
        thread[t].v = c /\ (Talking(t) \/ Replacing(t))
  BY ConstantTypes DEF Manned
<1>2. \A c \in Callers : lock'[c] = t => thread'[t].v = c /\ (Talking(t)' \/ Replacing(t)')
  BY <1>1
<1>3. QED
  BY <1>2, MannedStep

LEMMA ReturnManned ==
  ASSUME TInv, Manned, NEW t \in Threads, NEW r, Talking(t) \/ Replacing(t), Return(t, r),
         UNCHANGED pool
  PROVE  Manned'
<1>1. Others(t)
  BY ReturnEffect
<1>2. ~Building(t)
  BY DEF Building, Talking, Replacing, At
<1>3. lock' = [lock EXCEPT ![thread[t].v] = NoThread] /\ lock \in [Callers -> Threads \cup {NoThread}]
  BY OtherTypes DEF Return
<1>4. \A c \in Callers : lock'[c] \in {lock[c], NoThread, t}
  BY <1>3
<1>5. \A c \in Callers : lock'[c] # t
  <2> SUFFICES ASSUME NEW c \in Callers, lock'[c] = t PROVE FALSE
    OBVIOUS
  <2>1. t # NoThread
    BY ConstantTypes
  <2>2. lock[c] = t /\ c # thread[t].v
    BY <1>3, <2>1
  <2>3. QED
    BY <2>1, <2>2 DEF Manned
<1>6. QED
  BY <1>1, <1>2, <1>4, <1>5, MannedStep

LEMMA ConstructedManned ==
  ASSUME TInv, Manned, NEW t \in Threads, Building(t), Constructed(t), UNCHANGED lock
  PROVE  Manned'
<1>1. ~Talking(t) /\ ~Replacing(t)
  BY DEF Building, Talking, Replacing, At
<1>2. CASE thread[t].v + 1 \in Callers
  <2>1. Others(t) /\ thread'[t].pc = "build"
    BY <1>2, BuildEffect DEF Constructed
  <2>2. Building(t)'
    BY <2>1 DEF Building, At
  <2>3. QED
    BY <1>1, <2>1, <2>2, MannedQuiet
<1>3. CASE ~(thread[t].v + 1 \in Callers)
  <2>1. Others(t) /\ pool' = "ready"
    BY <1>3, GotoEffect DEF Constructed
  <2>2. QED
    BY <1>1, <2>1, MannedQuiet
<1>4. QED
  BY <1>2, <1>3

LEMMA AsideManned ==
  ASSUME TInv, Manned, NEW t \in Threads,
         \/ OpenSocket(t) \/ OpenSocketFails(t) \/ Pick(t) \/ Count(t) \/ CallProtect(t)
         \/ CloseSocket(t)
  PROVE  Manned'
<1>1. UNCHANGED << pool, lock >> /\ ~Talking(t) /\ ~Replacing(t) /\ ~Building(t)
  BY DEF OpenSocket, OpenSocketFails, Pick, Count, Load, Store, CallProtect, CloseSocket,
         Talking, Replacing, Building, At
<1>2. Others(t)
  <2>1. CASE OpenSocket(t) \/ OpenSocketFails(t) \/ Pick(t) \/ CloseSocket(t)
    BY <2>1, OpenSocketEffect, OpenSocketFailsEffect, PickEffect, CloseSocketEffect
  <2>2. CASE Count(t)
    BY <2>2, LoadEffect, StoreEffect DEF Count
  <2>3. CASE CallProtect(t)
    BY <2>3, GotoEffect DEF CallProtect
  <2>4. QED
    BY <2>1, <2>2, <2>3
<1>3. QED
  BY <1>1, <1>2, MannedQuiet

LEMMA GetInstanceManned ==
  ASSUME TInv, Manned, NEW t \in Threads, GetInstance(t)
  PROVE  Manned'
<1>1. thread[t].pc = "instance" /\ lock' = lock /\ ~Talking(t) /\ ~Replacing(t)
  BY DEF GetInstance, At, Talking, Replacing
<1>2. CASE pool = "ready" /\ Goto(t, "pick") /\ UNCHANGED pool
  BY <1>1, <1>2, GotoEffect, MannedQuiet
<1>3. CASE thread' = [thread EXCEPT ![t].pc = "build", ![t].v = 0]
  <2>1. Others(t) /\ Building(t)'
    BY <1>3, BuildEffect DEF Building, At
  <2>2. QED
    BY <1>1, <2>1, MannedQuiet
<1>4. QED
  BY <1>2, <1>3 DEF GetInstance

LEMMA ConstructManned ==
  ASSUME TInv, Manned, NEW t \in Threads, Construct(t)
  PROVE  Manned'
<1>1. thread[t].pc = "build" /\ lock' = lock /\ ~Talking(t) /\ ~Replacing(t) /\ Building(t)
  BY DEF Construct, At, Talking, Replacing, Building
<1>2. CASE configured
  <2>1. Others(t) /\ Building(t)'
    BY <1>2, ToDialEffect DEF Construct, Building, At
  <2>2. QED
    BY <1>1, <2>1, MannedQuiet
<1>3. CASE ~configured
  BY <1>1, <1>3, ConstructedManned DEF Construct
<1>4. QED
  BY <1>2, <1>3

LEMMA DialManned ==
  ASSUME TInv, Manned, NEW t \in Threads, Dial(t) \/ Connected(t) \/ ConnectRefused(t)
  PROVE  Manned'
<1>1. /\ thread[t].pc \in {"dial", "connect"} /\ UNCHANGED << pool, lock >>
      /\ Others(t) /\ KeepsLine(t) /\ thread'[t].after = thread[t].after
      /\ thread'[t].pc \in {"dial", "connect"}
  <2>1. CASE Dial(t)
    BY <2>1, DialEffect DEF Dial, At
  <2>2. CASE Connected(t)
    BY <2>2, ConnectedEffect DEF Connected, At
  <2>3. CASE ConnectRefused(t)
    <3>1. thread[t].pc = "connect" /\ UNCHANGED << pool, lock >>
      BY ConstantTypes, <2>3 DEF ConnectRefused, At
    <3>2. QED
      BY <2>3, <3>1, ConnectRefusedEffect
  <2>4. QED
    BY <2>1, <2>2, <2>3
<1>2. Building(t)' = Building(t) /\ Replacing(t)' = Replacing(t) /\ ~Talking(t)
  BY <1>1 DEF Building, Replacing, Talking, At
<1>3. QED
  BY <1>1, <1>2, MannedQuiet DEF KeepsLine

LEMMA DialedManned ==
  ASSUME TInv, Manned, NEW t \in Threads, Dialed(t)
  PROVE  Manned'
<1>1. thread[t].pc = "dial"
  BY DEF Dialed, At
<1>2. CASE thread[t].after = "build"
  <2>1. Building(t) /\ Constructed(t) /\ lock' = lock
    BY <1>1, <1>2 DEF Building, Dialed
  <2>2. QED
    BY <2>1, ConstructedManned
<1>3. CASE thread[t].after # "build"
  <2>1. Replacing(t) /\ ~Building(t) /\ pool' = pool
    BY <1>1, <1>3 DEF Replacing, Building, At, Dialed
  <2>2. CASE \E r : Return(t, r)
    BY <2>1, <2>2, ReturnManned
  <2>3. CASE Goto(t, "send") /\ UNCHANGED lock
    <3>1. Others(t) /\ KeepsLine(t) /\ Talking(t)'
      BY <2>3, GotoEffect DEF Talking
    <3>2. QED
      BY <2>1, <2>3, <3>1, MannedQuiet DEF KeepsLine
  <2>4. QED
    BY <1>3, <2>2, <2>3 DEF Dialed
<1>4. QED
  BY <1>2, <1>3

LEMMA EnterManned ==
  ASSUME TInv, Manned, NEW t \in Threads, Enter(t)
  PROVE  Manned'
<1> DEFINE c == thread[t].v
<1>1. /\ thread[t].pc = "lock" /\ c \in Callers /\ lock' = [lock EXCEPT ![c] = t] /\ pool' = pool
      /\ lock \in [Callers -> Threads \cup {NoThread}]
  BY RecordTypes, OtherTypes DEF Enter, At
<1>2. ~Building(t) /\ \A d \in Callers : lock[d] # t
  BY <1>1, HoldsNone DEF Building, Talking, Replacing, At
<1>3. Others(t) /\ KeepsLine(t) /\ (Talking(t)' \/ Replacing(t)')
  <2>1. CASE ToDial(t, "first")
    BY <2>1, ToDialEffect DEF Replacing
  <2>2. CASE Goto(t, "send")
    BY <2>2, GotoEffect DEF Talking
  <2>3. QED
    BY <2>1, <2>2 DEF Enter
<1>4. \A d \in Callers : lock'[d] \in {lock[d], NoThread, t} /\ (lock'[d] = t => d = c)
  BY <1>1, <1>2
<1>5. \A d \in Callers : lock'[d] = t => thread'[t].v = d /\ (Talking(t)' \/ Replacing(t)')
  BY <1>3, <1>4 DEF KeepsLine
<1>6. QED
  BY <1>1, <1>2, <1>3, <1>4, <1>5, MannedStep

LEMMA TalkManned ==
  ASSUME TInv, Manned, NEW t \in Threads,
         SendRequest(t) \/ SendFails(t) \/ ReadFails(t) \/ HangUp(t) \/ ReadAnswer(t)
  PROVE  Manned'
<1>1. Talking(t) /\ ~Building(t) /\ pool' = pool
  BY DEF SendRequest, SendFails, ReadFails, HangUp, ReadAnswer, Talking, Building, At
<1>2. CASE SendRequest(t) \/ SendFails(t) \/ ReadFails(t)
  <2>1. lock' = lock
    BY <1>2 DEF SendRequest, SendFails, ReadFails
  <2>2. Others(t) /\ KeepsLine(t) /\ Talking(t)'
    BY <1>2, GotoEffect DEF SendRequest, SendFails, ReadFails, Talking
  <2>3. QED
    BY <1>1, <2>1, <2>2, MannedQuiet DEF KeepsLine
<1>3. CASE HangUp(t)
  <2>1. lock' = lock /\ Others(t) /\ KeepsLine(t) /\ Replacing(t)'
    BY <1>3, ToDialEffect DEF HangUp, Replacing
  <2>2. QED
    BY <1>1, <2>1, MannedQuiet DEF KeepsLine
<1>4. CASE ReadAnswer(t)
  <2>1. \E r : Return(t, r)
    BY <1>4 DEF ReadAnswer, ReadBytes
  <2>2. QED
    BY <1>1, <2>1, ReturnManned
<1>5. QED
  BY <1>2, <1>3, <1>4

LEMMA NextManned ==
  ASSUME TInv, Manned, [Next]_vars
  PROVE  Manned'
<1>1. CASE UNCHANGED << pool, lock, thread >>
  BY <1>1 DEF Manned, Building, Replacing, Talking, At
<1>2. CASE UNCHANGED vars \/ SetCallee \/ \E n \in 1..Len(conn) : CalleeAnswers(n) \/ CalleeBreaks(n)
  <2>1. UNCHANGED << pool, lock, thread >>
    BY <1>2 DEF vars, SetCallee, CalleeAnswers, CalleeBreaks
  <2>2. QED
    BY <1>1, <2>1
<1>3. ASSUME NEW t \in Threads, OpenSocket(t) \/ OpenSocketFails(t) \/ Proceed(t) PROVE Manned'
  BY <1>3, AsideManned, GetInstanceManned, ConstructManned, DialManned, DialedManned,
     EnterManned, TalkManned DEF Proceed
<1>4. QED
  BY <1>2, <1>3 DEF Next

\* No other thread's connection to read from is touched by thread t's step.
KeepsReads(t) ==
  \A u \in Threads \ {t} : At(u, "read") =>
    Line(u)' = Line(u) /\ conn'[Line(u)[2]] = conn[Line(u)[2]]

LEMMA AwaitedStep ==
  ASSUME Awaited, NEW t \in Threads, Others(t), KeepsReads(t),
         At(t, "read")' => ~conn'[Line(t)'[2]].up \/ ~Bare(Line(t)[2])'
  PROVE  Awaited'
<1> SUFFICES ASSUME NEW u \in Threads \ {t}, At(u, "read")'
             PROVE  ~conn'[Line(u)'[2]].up \/ ~Bare(Line(u)[2])'
  BY DEF Awaited
<1>1. At(u, "read")
  BY DEF Others, At
<1>2. /\ ~conn[Line(u)[2]].up \/ ~Bare(Line(u)[2])
      /\ Line(u)' = Line(u) /\ conn'[Line(u)[2]] = conn[Line(u)[2]]
  BY <1>1 DEF Awaited, KeepsReads
<1>3. QED
  BY <1>2 DEF Bare

\* What is known of a thread that reads.
LEMMA Reading ==
  ASSUME TInv, SInv, LInv, NEW u \in Threads, At(u, "read")
  PROVE  /\ Talking(u) /\ thread[u].v \in Callers /\ Served(thread[u].v)
         /\ Line(u) = Its(thread[u].v) /\ Line(u)[2] \in 1..Len(conn)
         /\ Line(u) = Conn(Line(u)[2]) /\ IsConn(Line(u))
         /\ callee[thread[u].v] \in Fd /\ Line(u) = fds[callee[thread[u].v]]
         /\ \A t \in Threads \ {u} :
              ~Building(t) /\ (Talking(t) \/ Replacing(t) => thread[t].v # thread[u].v)
<1>1. Talking(u)
  BY DEF At, Talking
<1>2. QED
  BY <1>1, TalkingServed, TalkingFacts, ServedLine DEF LInv, Line, Served

\* Only files that are no connections are opened, closed or replaced.
LEMMA KeepsReadsFiles ==
  ASSUME TInv, SInv, LInv, NEW t \in Threads, Others(t), UNCHANGED conn,
         \A c \in Callers : callee'[c] = callee[c],
         \A f \in Fd : IsConn(fds[f]) => fds'[f] = fds[f]
  PROVE  KeepsReads(t)
<1> SUFFICES ASSUME NEW u \in Threads \ {t}, At(u, "read")
             PROVE  Line(u)' = Line(u)
  BY DEF KeepsReads
<1>1. thread'[u].v = thread[u].v
  BY DEF Others
<1>2. QED
  BY <1>1, Reading DEF Line

LEMMA ConnPlace ==
  ASSUME TInv, NEW n \in 1..Len(conn)
  PROVE  n \in DOMAIN conn /\ DOMAIN conn = 1..Len(conn) /\ conn[n] \in ConnType
<1>1. conn \in Seq(ConnType)
  BY OtherTypes
<1>2. DOMAIN conn = 1..Len(conn)
  BY <1>1, LenProperties
<1>3. QED
  BY <1>2, ConnRecord

LEMMA KeepsReadsTalk ==
  ASSUME TInv, SInv, LInv, NEW t \in Threads, Others(t), UNCHANGED << fds, callee >>, Talking(t),
         \A m \in 1..Len(conn) : m # Line(t)[2] => conn'[m] = conn[m]
  PROVE  KeepsReads(t)
<1> SUFFICES ASSUME NEW u \in Threads \ {t}, At(u, "read")
             PROVE  Line(u)' = Line(u) /\ conn'[Line(u)[2]] = conn[Line(u)[2]]
  BY DEF KeepsReads
<1>1. thread'[u].v = thread[u].v
  BY DEF Others
<1>2. Served(thread[t].v) /\ Line(t) = Its(thread[t].v)
  BY TalkingServed DEF LInv
<1>3. Line(u)[2] # Line(t)[2]
  BY <1>2, Reading, LineOwners
<1>4. QED
  BY <1>1, <1>3, Reading DEF Line

LEMMA AsideAwaited ==
  ASSUME TInv, SInv, LInv, Awaited, NEW t \in Threads,
         \/ Pick(t) \/ Count(t) \/ CallProtect(t) \/ GetInstance(t) \/ Construct(t)
         \/ Enter(t) \/ SendFails(t) \/ ReadFails(t)
  PROVE  Awaited'
<1>1. UNCHANGED << fds, callee, conn >>
  BY DEF Pick, Count, Load, Store, CallProtect, GetInstance, Construct, Enter, SendFails,
         ReadFails
<1>2. Others(t) /\ thread'[t].pc # "read"
  <2>1. CASE Pick(t)
    BY <2>1, PickEffect
  <2>2. CASE Count(t)
    BY <2>2, LoadEffect, StoreEffect DEF Count
  <2>3. CASE CallProtect(t) \/ SendFails(t) \/ ReadFails(t)
    BY <2>3, GotoEffect DEF CallProtect, SendFails, ReadFails
  <2>4. CASE GetInstance(t)
    BY <2>4, GotoEffect, BuildEffect DEF GetInstance
  <2>5. CASE Construct(t)
    BY <2>5, GotoEffect, BuildEffect, ToDialEffect DEF Construct, Constructed
  <2>6. CASE Enter(t)
    BY <2>6, GotoEffect, ToDialEffect DEF Enter
  <2>7. QED
    BY <2>1, <2>2, <2>3, <2>4, <2>5, <2>6
<1>3. KeepsReads(t)
  BY <1>1, <1>2, KeepsReadsFiles
<1>4. QED
  BY <1>2, <1>3, AwaitedStep DEF At

\* A session's own socket, or one that is being connected, comes or goes.
LEMMA FilesAwaited ==
  ASSUME TInv, SInv, LInv, Awaited, NEW t \in Threads,
         \/ OpenSocket(t) \/ OpenSocketFails(t) \/ CloseSocket(t) \/ Dial(t) \/ ConnectRefused(t)
  PROVE  Awaited'
<1>1. UNCHANGED << callee, conn >>
  BY DEF OpenSocket, OpenSocketFails, CloseSocket, Dial, ConnectRefused
<1>2. Others(t) /\ thread'[t].pc # "read"
  BY OpenSocketEffect, OpenSocketFailsEffect, CloseSocketEffect, DialEffect, ConnectRefusedEffect
<1>3. \A f \in Fd : IsConn(fds[f]) => fds'[f] = fds[f]
  <2>1. fds \in [Fd -> Files]
    BY OtherTypes
  <2>2. ASSUME NEW file, FreeFds # {}, fds' = Opened(file) PROVE \A f \in Fd : IsConn(fds[f]) => fds'[f] = fds[f]
    BY <2>1, <2>2, LowestIsFree, FileKinds DEF Opened
  <2>3. ASSUME NEW g, fds' = Closed(g), g \in Fd => ~IsConn(fds[g])
        PROVE  \A f \in Fd : IsConn(fds[f]) => fds'[f] = fds[f]
    BY <2>3 DEF Closed
  <2>4. CASE OpenSocket(t)
    BY <2>2, <2>4 DEF OpenSocket
  <2>5. CASE OpenSocketFails(t)
    BY <2>5 DEF OpenSocketFails
  <2>6. CASE CloseSocket(t)
    <3>1. thread[t].sock \in Fd => ~IsConn(fds[thread[t].sock])
      BY ConstantTypes, FileKinds DEF LInv, OwnFiles
    <3>2. QED
      BY <2>3, <2>6, <3>1 DEF CloseSocket
  <2>7. CASE Dial(t)
    BY <2>2, <2>7 DEF Dial
  <2>8. CASE ConnectRefused(t)
    <3>1. At(t, "connect") /\ fds' = Closed(thread[t].new)
      BY ConstantTypes, <2>8 DEF ConnectRefused
    <3>2. ~IsConn(fds[thread[t].new])
      BY <3>1, FileKinds DEF LInv, OwnFiles
    <3>3. QED
      BY <2>3, <3>1, <3>2
  <2>9. QED
    BY <2>4, <2>5, <2>6, <2>7, <2>8
<1>4. KeepsReads(t)
  BY <1>1, <1>2, <1>3, KeepsReadsFiles
<1>5. QED
  BY <1>2, <1>4, AwaitedStep DEF At

LEMMA DialedAwaited ==
  ASSUME TInv, SInv, LInv, Awaited, NEW t \in Threads, Dialed(t)
  PROVE  Awaited'
<1>1. thread[t].after # "first"
  BY DEF LInv, Redialled, Dialed, At
<1>2. UNCHANGED << fds, callee, conn >> /\ (Constructed(t) \/ Return(t, Failed))
  BY <1>1 DEF Dialed
<1>3. Others(t) /\ thread'[t].pc # "read"
  BY <1>2, GotoEffect, BuildEffect, ReturnEffect DEF Constructed
<1>4. KeepsReads(t)
  BY <1>2, <1>3, KeepsReadsFiles
<1>5. QED
  BY <1>3, <1>4, AwaitedStep DEF At

\* The new connection takes the number of a socket that was being connected.
LEMMA ConnectedAwaited ==
  ASSUME TInv, SInv, LInv, Awaited, NEW t \in Threads, Connected(t)
  PROVE  Awaited'
<1>1. Others(t) /\ thread'[t].pc # "read"
  BY ConnectedEffect
<1>2. /\ At(t, "connect") /\ (Building(t) \/ Replacing(t))
      /\ fds[thread[t].new] = Dialing(t) /\ thread[t].new \in Fd
  BY DEF Connected, At, Building, Replacing, LInv, OwnFiles, TInv, Dialled
<1>3. /\ fds' = [fds EXCEPT ![thread[t].new] = Conn(Len(conn) + 1)]
      /\ conn' = Append(conn, NewConn(thread[t].v))
      /\ callee' = callee \/ callee' = [callee EXCEPT ![thread[t].v] = thread[t].new]
  BY DEF Connected, NewConn
<1>4. KeepsReads(t)
  <2> SUFFICES ASSUME NEW u \in Threads \ {t}, At(u, "read")
               PROVE  Line(u)' = Line(u) /\ conn'[Line(u)[2]] = conn[Line(u)[2]]
    BY DEF KeepsReads
  <2>1. thread'[u].v = thread[u].v /\ thread[t].v # thread[u].v
    BY <1>1, <1>2, Reading DEF Others
  <2>2. callee'[thread[u].v] = callee[thread[u].v] /\ callee[thread[u].v] # thread[t].new
    BY <1>2, <1>3, <2>1, Reading, OtherTypes, FileKinds
  <2>3. Line(u)' = Line(u)
    BY <1>3, <2>1, <2>2, Reading, OtherTypes DEF Line
  <2>4. conn'[Line(u)[2]] = conn[Line(u)[2]]
    <3>1. NewConn(thread[t].v) \in ConnType
      BY RecordTypes, ConstantTypes DEF NewConn, ConnType
    <3>2. QED
      BY <1>3, <3>1, Reading, OtherTypes, AppendProperties
  <2>5. QED
    BY <2>3, <2>4
<1>5. QED
  BY <1>1, <1>4, AwaitedStep DEF At

\* No two callers have the same connection.
LEMMA HangUpAwaited ==
  ASSUME TInv, SInv, LInv, Awaited, NEW t \in Threads, HangUp(t)
  PROVE  Awaited'
<1>1. /\ UNCHANGED << callee, conn >> /\ Talking(t) /\ ToDial(t, "fail")
      /\ fds' = Closed(callee[thread[t].v])
  BY DEF HangUp, Talking, At
<1>2. Others(t) /\ thread'[t].pc # "read"
  BY <1>1, ToDialEffect
<1>3. Served(thread[t].v)
  BY <1>1, TalkingServed DEF LInv
<1>4. KeepsReads(t)
  <2> SUFFICES ASSUME NEW u \in Threads \ {t}, At(u, "read")
               PROVE  Line(u)' = Line(u)
    BY <1>1 DEF KeepsReads
  <2>1. thread'[u].v = thread[u].v /\ thread[t].v # thread[u].v
    BY <1>1, <1>2, Reading DEF Others
  <2>2. callee[thread[u].v] # callee[thread[t].v]
    BY <1>3, <2>1, Reading, LineOwners DEF Its
  <2>3. QED
    BY <1>1, <2>1, <2>2, Reading DEF Line, Closed
  <1>5. QED
    BY <1>2, <1>4, AwaitedStep DEF At

\* Once the request is out there is something on the line.
LEMMA SendRequestAwaited ==
  ASSUME TInv, SInv, LInv, Awaited, NEW t \in Threads, SendRequest(t)
  PROVE  Awaited'
<1> DEFINE n == Line(t)[2]
           msg == << t, thread[t].round >>
<1>1. UNCHANGED << fds, callee >> /\ Talking(t) /\ At(t, "send") /\ Goto(t, "read")
  BY DEF SendRequest, Talking, At
<1>2. Others(t) /\ thread'[t].v = thread[t].v
  BY <1>1, GotoEffect DEF KeepsLine
<1>3. /\ Line(t) = Its(thread[t].v) /\ n \in 1..Len(conn)
      /\ Served(thread[t].v) /\ IsConn(Line(t))
  BY <1>1, TalkingServed, TalkingFacts, ServedLine DEF LInv, Served
<1>4. Line(t)' = Line(t)
  BY <1>1, <1>2 DEF Line
<1> HIDE DEF n
<1>5. CASE conn' = conn /\ Broken(Line(t))
  <2>1. ~conn[n].up
    BY <1>3, <1>5 DEF Broken, n
  <2>2. KeepsReads(t)
    BY <1>1, <1>2, <1>5, KeepsReadsTalk
  <2>3. QED
    BY <1>2, <1>4, <1>5, <2>1, <2>2, AwaitedStep DEF n
<1>6. CASE conn' = [conn EXCEPT ![n].asked = Append(@, msg)]
  <2>1. n \in DOMAIN conn /\ DOMAIN conn = 1..Len(conn) /\ conn[n] \in ConnType
    BY <1>3, ConnPlace
  <2>2. /\ conn'[n].asked = Append(conn[n].asked, msg)
        /\ \A m \in 1..Len(conn) : m # n => conn'[m] = conn[m]
    BY <1>6, <2>1 DEF ConnType
  <2>3. conn'[n].asked # << >>
    <3>1. conn[n].asked \in Seq(Calls) /\ msg \in Calls
      BY <1>1, <1>3, ConnRecord, CallType DEF At
    <3>2. Len(conn'[n].asked) = Len(conn[n].asked) + 1 /\ Len(conn[n].asked) \in Nat
      BY <2>2, <3>1, SeqFacts
    <3>3. QED
      BY <3>2
  <2>4. KeepsReads(t)
    BY <1>1, <1>2, <2>2, KeepsReadsTalk DEF n
  <2>5. ~Bare(Line(t)[2])'
    BY <1>4, <2>3 DEF Bare, n
  <2>6. QED
    BY <1>2, <2>4, <2>5, AwaitedStep
<1>7. QED
  BY <1>5, <1>6 DEF SendRequest, n

LEMMA ReadAnswerAwaited ==
  ASSUME TInv, SInv, LInv, Awaited, NEW t \in Threads, ReadAnswer(t)
  PROVE  Awaited'
<1> DEFINE n == Line(t)[2]
<1>1. UNCHANGED << fds, callee >> /\ Talking(t) /\ At(t, "read") /\ \E r : Return(t, r)
  BY DEF ReadAnswer, ReadBytes, Talking, At
<1>2. Others(t) /\ thread'[t].pc # "read"
  BY <1>1, ReturnEffect
<1>3. n \in 1..Len(conn)
  BY <1>1, Reading
<1>4. PICK k \in 1..AnswerSize : ReadBytes(t, n, k)
  BY <1>1, Reading, FileKinds DEF ReadAnswer, Conn
<1>5. \A m \in 1..Len(conn) : m # n => conn'[m] = conn[m]
  BY <1>3, <1>4, ReadBytesEffect
<1>6. KeepsReads(t)
  BY <1>1, <1>2, <1>5, KeepsReadsTalk
<1>7. QED
  BY <1>2, <1>6, AwaitedStep DEF At

\* The callee answers what it was asked, or breaks the connection.
LEMMA CalleeAwaited ==
  ASSUME TInv, SInv, LInv, Awaited, NEW n \in 1..Len(conn), CalleeAnswers(n) \/ CalleeBreaks(n)
  PROVE  Awaited'
<1>1. UNCHANGED << fds, callee, thread >>
  BY DEF CalleeAnswers, CalleeBreaks
<1> SUFFICES ASSUME NEW u \in Threads, At(u, "read")'
             PROVE  ~conn'[Line(u)'[2]].up \/ ~Bare(Line(u)[2])'
  BY DEF Awaited
<1>2. At(u, "read") /\ Line(u)' = Line(u) /\ Line(u)[2] \in 1..Len(conn)
  BY <1>1, Reading DEF At, Line
<1>3. PICK m : m = Line(u)[2]
  OBVIOUS
<1>4. ~conn'[m].up \/ ~Bare(m)'
  <2>1. CASE m # n
    BY <1>2, <1>3, <2>1, CalleeStep DEF Awaited, Bare
  <2>2. CASE m = n /\ CalleeAnswers(n)
    <3>1. n \in DOMAIN conn /\ DOMAIN conn = 1..Len(conn) /\ conn[n] \in ConnType
      BY ConnPlace
    <3>2. /\ conn[n].asked # << >> /\ conn[n].asked \in Seq(Calls)
          /\ conn[n].answered \in Seq(Calls)
      BY <2>2, <3>1 DEF CalleeAnswers, ConnType
    <3>3. conn'[n].answered = Append(conn[n].answered, Head(conn[n].asked))
      BY <2>2, <3>1 DEF CalleeAnswers, ConnType
    <3>4. Len(conn'[n].answered) = Len(conn[n].answered) + 1 /\ Len(conn[n].answered) \in Nat
      BY <3>2, <3>3, SeqFacts
    <3>5. conn'[n].answered # << >>
      BY <3>4
    <3>6. QED
      BY <2>2, <3>5 DEF Bare
  <2>3. CASE m = n /\ CalleeBreaks(n)
    <3>1. n \in DOMAIN conn /\ DOMAIN conn = 1..Len(conn) /\ conn[n] \in ConnType
      BY ConnPlace
    <3>2. ~conn'[n].up
      BY <2>3, <3>1 DEF CalleeBreaks, ConnType
    <3>3. QED
      BY <2>3, <3>2
  <2>4. QED
    BY <2>1, <2>2, <2>3
<1>5. QED
  BY <1>2, <1>3, <1>4 DEF Bare

LEMMA NextWInv == WInv /\ [Next]_vars => WInv'
<1> SUFFICES ASSUME WInv, [Next]_vars PROVE WInv'
  OBVIOUS
<1>1. TInv /\ SInv /\ PInv' /\ Manned'
  BY NextPInv, NextManned DEF WInv, PInv
<1>2. ASSUME ~lost' PROVE Awaited'
  <2>1. LInv /\ Awaited
    BY <1>1, <1>2, LostStays DEF WInv, PInv
  <2>2. CASE UNCHANGED vars \/ SetCallee
    <3>1. UNCHANGED << fds, callee, thread, conn >>
      BY <2>2 DEF vars, SetCallee
    <3>2. QED
      BY <2>1, <3>1 DEF Awaited, Bare, Line, At
  <2>3. ASSUME NEW n \in 1..Len(conn), CalleeAnswers(n) \/ CalleeBreaks(n) PROVE Awaited'
    BY <1>1, <2>1, <2>3, CalleeAwaited
  <2>4. ASSUME NEW t \in Threads, OpenSocket(t) \/ OpenSocketFails(t) \/ Proceed(t) PROVE Awaited'
    BY <1>1, <2>1, <2>4, AsideAwaited, FilesAwaited, DialedAwaited, ConnectedAwaited,
       HangUpAwaited, SendRequestAwaited, ReadAnswerAwaited DEF Proceed
  <2>5. QED
    BY <2>2, <2>3, <2>4 DEF Next
<1>3. QED
  BY <1>1, <1>2 DEF WInv

LEMMA InitWInv == Init => WInv
<1> SUFFICES ASSUME Init PROVE WInv
  OBVIOUS
<1>1. Manned /\ Awaited
  BY DEF Init, Manned, Awaited, At
<1>2. QED
  BY <1>1, InitPInv DEF WInv

LEMMA WInvAlways == Spec => []WInv
  BY InitWInv, NextWInv, PTL DEF Spec

\* Nobody waits for one who waits in vain: a pool under construction has its builder,
\* a mutex is held by a thread inside a call on that caller; and, as long as callers
\* have connections of their own, a thread that reads has its request or its answer,
\* and nothing else, on a line that works, or a line that has broken, or one on which
\* answers were not read whole, and then something is still on it; for any number of
\* sessions, callers, connections and faults (callerpool.cpp 7-28, clientcaller.cpp
\* 71-107).
THEOREM NobodyWaitsInVain == Spec => []WaitsEnd
<1>1. WInv => WaitsEnd
  <2> SUFFICES ASSUME WInv PROVE WaitsEnd
    OBVIOUS
  <2>1. ASSUME ~lost, NEW u \in Threads, At(u, "read"), conn[Line(u)[2]].up
        PROVE  \/ Under(Line(u)[2], << u, thread[u].round >>)
               \/ /\ conn[Line(u)[2]].torn
                  /\ conn[Line(u)[2]].asked \o conn[Line(u)[2]].answered # << >>
    <3>1. TInv /\ SInv /\ LInv /\ ~Bare(Line(u)[2])
      BY <2>1 DEF WInv, PInv, Awaited
    <3>2. PICK n \in 1..Len(conn) : n = Line(u)[2] /\ n = Its(thread[u].v)[2]
      BY <2>1, <3>1, Reading
    <3>3. CASE conn[n].torn
      <4>1. /\ conn[n].asked \in Seq(Calls) /\ conn[n].answered \in Seq(Calls)
            /\ conn[n].asked # << >> \/ conn[n].answered # << >>
        BY <3>1, <3>2, ConnRecord DEF Bare
      <4>2. conn[n].asked \o conn[n].answered # << >>
        <5>1. Len(conn[n].asked \o conn[n].answered) = Len(conn[n].asked) + Len(conn[n].answered)
          BY <4>1, ConcatProperties
        <5>2. /\ Len(conn[n].asked) \in Nat /\ Len(conn[n].answered) \in Nat
              /\ Len(conn[n].asked) > 0 \/ Len(conn[n].answered) > 0
          BY <4>1, SeqFacts
        <5>3. Len(<< >>) = 0
          OBVIOUS
        <5>4. QED
          BY <5>1, <5>2, <5>3
      <4>3. QED
        BY <3>2, <3>3, <4>2
    <3>4. CASE ~conn[n].torn
      <4>1. ~Quiet(n)
        BY <3>1, <3>2, <3>4 DEF Quiet
      <4>2. PICK w \in Threads : /\ At(w, "read") /\ thread[w].v = thread[u].v
                                 /\ Under(n, << w, thread[w].round >>)
        BY <2>1, <3>1, <3>2, <4>1, Reading DEF LInv, OneCall
      <4>3. w = u
        BY <2>1, <3>1, <4>2, Reading DEF Talking, At
      <4>4. QED
        BY <3>2, <4>2, <4>3
    <3>5. QED
      BY <3>3, <3>4
  <2>2. QED
    BY <2>1 DEF WInv, Manned, WaitsEnd
<1>2. QED
  BY <1>1, WInvAlways, PTL


-----------------------------------------------------------------------------
(* A call comes to its end.                                                *)

\* What StepsLeft is, place by place.
Counted(t) ==
  /\ thread[t].pc = "instance" => StepsLeft(t) = 26 + 8 * NCallers
  /\ thread[t].pc = "build" => StepsLeft(t) = 25 + 8 * (NCallers - thread[t].v)
  /\ thread[t].pc \in {"dial", "connect"} =>
       /\ thread[t].after = "build" => StepsLeft(t) = 17 + 8 * (NCallers - thread[t].v) + Attempts(t)
       /\ thread[t].after = "first" => StepsLeft(t) = 11 + Attempts(t)
       /\ thread[t].after = "fail"  => StepsLeft(t) = 1 + Attempts(t)
       /\ thread[t].pc = "dial"    => Attempts(t) = 2 * (3 - thread[t].tries) + 1
       /\ thread[t].pc = "connect" => Attempts(t) = 2 * (3 - thread[t].tries)
  /\ thread[t].pc \notin {"instance", "build", "dial", "connect"} =>
       StepsLeft(t) = Ahead[thread[t].pc]

AllCounted == \A t \in Threads : /\ Counted(t) /\ StepsLeft(t) \in Int
                                 /\ thread[t].v \in Callers /\ thread[t].tries \in 0..3

LEMMA CountedPlace ==
  ASSUME TInv, NEW t \in Threads
  PROVE  Counted(t)
<1>1. /\ thread[t].v \in 0..(NCallers - 1) /\ NCallers \in Nat /\ thread[t].tries \in 0..3
      /\ thread[t].after \in {"build", "first", "fail"}
  BY RecordTypes, ConstantTypes DEF ThreadType
<1>2. /\ thread[t].pc = "dial"    => Attempts(t) = 2 * (3 - thread[t].tries) + 1
      /\ thread[t].pc = "connect" => Attempts(t) = 2 * (3 - thread[t].tries)
  BY <1>1 DEF Attempts, At
<1>3. CASE thread[t].pc = "instance"
  BY <1>1, <1>3 DEF Counted, StepsLeft, At
<1>4. CASE thread[t].pc = "build"
  <2>1. StepsLeft(t) = 25 + 8 * (NCallers - thread[t].v)
    BY <1>4 DEF StepsLeft, At
  <2>2. QED
    BY <1>4, <2>1 DEF Counted
<1>5. CASE thread[t].pc \in {"dial", "connect"}
  <2>1. StepsLeft(t) = Rest(t) + Attempts(t)
    BY <1>5 DEF StepsLeft, At
  <2>2. /\ thread[t].after = "build" => Rest(t) = 17 + 8 * (NCallers - thread[t].v)
        /\ thread[t].after = "first" => Rest(t) = 11
        /\ thread[t].after = "fail"  => Rest(t) = 1
    BY DEF Rest
  <2>3. QED
    BY <1>2, <1>5, <2>1, <2>2 DEF Counted
<1>6. CASE thread[t].pc \notin {"instance", "build", "dial", "connect"}
  BY <1>6 DEF Counted, StepsLeft, At
<1>7. QED
  BY <1>3, <1>4, <1>5, <1>6

LEMMA LeftIsNumber ==
  ASSUME NEW t \in Threads, TInv, Counted(t)
  PROVE  StepsLeft(t) \in Int
<1>1. /\ NCallers \in Nat /\ thread[t].v \in Nat /\ thread[t].tries \in 0..3
      /\ thread[t].pc \in Places /\ thread[t].after \in {"build", "first", "fail"}
  BY RecordTypes, ConstantTypes DEF ThreadType
<1>2. CASE thread[t].pc \in {"instance", "build"}
  BY <1>1, <1>2 DEF Counted
<1>3. CASE thread[t].pc \in {"dial", "connect"}
  BY <1>1, <1>3 DEF Counted
<1>4. CASE thread[t].pc \notin {"instance", "build", "dial", "connect"}
  BY <1>1, <1>4 DEF Counted, Ahead, Places
<1>5. QED
  BY <1>2, <1>3, <1>4

LEMMA CountedAlways == TInv => AllCounted
  BY CountedPlace, LeftIsNumber, RecordTypes DEF AllCounted

\* The numbers a step of thread t starts from and ends with.
LEMMA StepNumbers ==
  ASSUME TInv, TInv', NEW t \in Threads
  PROVE  /\ Counted(t) /\ Counted(t)' /\ StepsLeft(t) \in Int /\ StepsLeft(t)' \in Int
         /\ NCallers \in Nat
         /\ thread[t].v \in 0..(NCallers - 1) /\ thread'[t].v \in 0..(NCallers - 1)
         /\ thread[t].tries \in 0..3 /\ thread'[t].tries \in 0..3
         /\ thread[t].after \in {"build", "first", "fail"}
<1>1. (TInv => AllCounted)'
  BY CountedAlways, PTL
<1>2. thread[t].after \in {"build", "first", "fail"}
  BY RecordTypes DEF ThreadType
<1>3. QED
  BY <1>1, <1>2, CountedAlways, ConstantTypes DEF AllCounted

LEMMA ToDialNumbers ==
  ASSUME TInv, NEW t \in Threads, NEW after, ToDial(t, after)
  PROVE  thread'[t].tries = 0
  BY TypeParts DEF TInv, ToDial, ThreadType

LEMMA DialNumbers ==
  ASSUME TInv, NEW t \in Threads, Dial(t) \/ Connected(t) \/ ConnectRefused(t)
  PROVE  /\ thread[t].tries < 3 /\ thread'[t].v = thread[t].v
         /\ thread'[t].after = thread[t].after
         /\ \/ /\ thread[t].pc = "dial" /\ thread'[t].pc = "dial"
               /\ thread'[t].tries = thread[t].tries + 1
            \/ /\ thread[t].pc = "dial" /\ thread'[t].pc = "connect"
               /\ thread'[t].tries = thread[t].tries
            \/ /\ thread[t].pc = "connect" /\ thread'[t].pc = "dial"
               /\ thread'[t].tries \in {3, thread[t].tries + 1}
<1>1. thread \in [Threads -> ThreadType] /\ thread[t] \in ThreadType
  BY TypeParts DEF TInv
<1>2. CASE Dial(t)
  <2>1. thread[t].pc = "dial" /\ thread[t].tries < 3
    BY <1>2 DEF Dial, At
  <2>2. CASE FreeFds = {}
    <3>1. thread' = [thread EXCEPT ![t].tries = @ + 1]
      BY <1>2, <2>2 DEF Dial
    <3>2. thread'[t].tries = thread[t].tries + 1
      BY <1>1, <3>1 DEF ThreadType
    <3>3. QED
      BY <1>2, <2>1, <2>2, <3>2, DialEffect DEF KeepsLine
  <2>3. CASE FreeFds # {}
    <3>1. thread' = [thread EXCEPT ![t].pc = "connect", ![t].new = Lowest]
      BY <1>2, <2>3 DEF Dial
    <3>2. thread'[t].tries = thread[t].tries
      BY <1>1, <3>1 DEF ThreadType
    <3>3. QED
      BY <1>2, <2>1, <2>3, <3>2, DialEffect DEF KeepsLine
  <2>4. QED
    BY <2>2, <2>3
<1>3. CASE Connected(t)
  <2>1. thread[t].pc = "connect" /\ thread[t].tries < 3
    BY <1>3 DEF Connected, At, TInv, Dialled
  <2>2. PICK m \in {3, thread[t].tries + 1} :
          thread' = [thread EXCEPT ![t].pc = "dial", ![t].tries = m]
    <3>1. thread' = [thread EXCEPT ![t].pc = "dial",
                       ![t].tries = IF thread[t].new > 0 THEN 3 ELSE thread[t].tries + 1]
      BY <1>1, <1>3 DEF Connected, ThreadType
    <3>2. QED
      BY <3>1
  <2>3. thread'[t].tries = m
    BY <1>1, <2>2 DEF ThreadType
  <2>4. QED
    BY <1>3, <2>1, <2>3, ConnectedEffect DEF KeepsLine
<1>4. CASE ConnectRefused(t)
  <2>1. thread[t].pc = "connect" /\ thread[t].tries < 3
    BY ConstantTypes, <1>4 DEF ConnectRefused, At, TInv, Dialled
  <2>2. thread'[t].tries = thread[t].tries + 1
    <3>1. thread' = [thread EXCEPT ![t].pc = "dial", ![t].tries = thread[t].tries + 1, ![t].new = NoFd]
      BY <1>1, <1>4 DEF ConnectRefused, ThreadType
    <3>2. QED
      BY <1>1, <3>1 DEF ThreadType
  <2>3. QED
    BY <1>4, <2>1, <2>2, ConnectRefusedEffect DEF KeepsLine
<1>5. QED
  BY <1>2, <1>3, <1>4

\* A step on the straight way from one place to a nearer one.
LEMMA NearerPlace ==
  ASSUME TInv, TInv', NEW t \in Threads,
         thread[t].pc \notin {"instance", "build", "dial", "connect"},
         thread'[t].pc \notin {"instance", "build", "dial", "connect"},
         Ahead[thread'[t].pc] < Ahead[thread[t].pc]
  PROVE  StepsLeft(t)' < StepsLeft(t)
  BY StepNumbers DEF Counted

LEMMA ConstructedLeft ==
  ASSUME TInv, TInv', NEW t \in Threads, Constructed(t),
         \/ thread[t].pc = "build"
         \/ thread[t].pc = "dial" /\ thread[t].after = "build" /\ thread[t].tries = 3
  PROVE  StepsLeft(t)' < StepsLeft(t)
<1> DEFINE v == thread[t].v
<1>1. NCallers \in Nat /\ v \in 0..(NCallers - 1) /\ Counted(t) /\ Counted(t)'
  BY StepNumbers
<1>2. \/ StepsLeft(t) = 25 + 8 * (NCallers - v)
      \/ StepsLeft(t) = 17 + 8 * (NCallers - v) + 1
  BY <1>1 DEF Counted
<1>3. \/ thread'[t].pc = "build" /\ thread'[t].v = v + 1
      \/ thread'[t].pc = "pick"
  BY BuildEffect, GotoEffect DEF Constructed
<1>4. \/ StepsLeft(t)' = 25 + 8 * (NCallers - (v + 1))
      \/ StepsLeft(t)' = 25
  BY <1>1, <1>3 DEF Counted, Ahead
<1> HIDE DEF v
<1>5. QED
  BY <1>1, <1>2, <1>4

LEMMA WayLeft ==
  ASSUME TInv, TInv', NEW t \in Threads,
         \/ GetInstance(t) \/ Construct(t) \/ Pick(t) \/ Count(t) \/ CallProtect(t) \/ CloseSocket(t)
  PROVE  StepsLeft(t)' < StepsLeft(t)
<1>1. CASE GetInstance(t)
  <2>1. thread[t].pc = "instance"
    BY <1>1 DEF GetInstance, At
  <2>2. thread'[t].pc = "pick" \/ (thread'[t].pc = "build" /\ thread'[t].v = 0)
    BY <1>1, GotoEffect, BuildEffect DEF GetInstance
  <2>3. StepsLeft(t) = 26 + 8 * NCallers /\ NCallers \in Nat
    BY <2>1, StepNumbers DEF Counted
  <2>4. StepsLeft(t)' = 25 \/ StepsLeft(t)' = 25 + 8 * (NCallers - 0)
    BY <2>2, StepNumbers DEF Counted, Ahead
  <2>5. QED
    BY <2>3, <2>4
<1>2. CASE Construct(t)
  <2>1. thread[t].pc = "build"
    BY <1>2 DEF Construct, At
  <2>2. CASE configured
    <3>1. /\ thread'[t].pc = "dial" /\ thread'[t].after = "build" /\ thread'[t].tries = 0
          /\ thread'[t].v = thread[t].v
      BY <1>2, <2>2, ToDialEffect, ToDialNumbers DEF Construct, KeepsLine
    <3>2. /\ StepsLeft(t) = 25 + 8 * (NCallers - thread[t].v)
          /\ StepsLeft(t)' = 17 + 8 * (NCallers - thread[t].v) + 7
      BY <2>1, <3>1, StepNumbers DEF Counted
    <3>3. QED
      BY <3>2, StepNumbers
  <2>3. CASE ~configured
    BY <1>2, <2>1, <2>3, ConstructedLeft DEF Construct
  <2>4. QED
    BY <2>2, <2>3
<1>3. CASE Pick(t)
  <2>1. thread[t].pc = "pick" /\ thread'[t].pc = "load"
    BY <1>3, PickEffect DEF Pick, At
  <2>2. QED
    BY <2>1, NearerPlace DEF Ahead
<1>4. CASE Count(t)
  <2>1. \/ thread[t].pc = "load" /\ thread'[t].pc = "store"
        \/ thread[t].pc = "store" /\ thread'[t].pc = "reload"
        \/ thread[t].pc = "reload" /\ thread'[t].pc = "reduce"
        \/ thread[t].pc = "reduce" /\ thread'[t].pc = "call"
    <3>1. CASE Load(t, "load", "store") \/ Load(t, "reload", "reduce")
      BY <3>1, LoadEffect DEF Load, At
    <3>2. ASSUME NEW pc, NEW n, NEW next, Store(t, pc, n, next)
          PROVE  thread[t].pc = pc /\ thread'[t].pc = next
      BY <3>2, StoreEffect DEF Store, At
    <3>3. QED
      BY <1>4, <3>1, <3>2 DEF Count
  <2>2. QED
    BY <2>1, NearerPlace DEF Ahead
<1>5. CASE CallProtect(t)
  BY <1>5, GotoEffect, NearerPlace DEF CallProtect, At, Ahead
<1>6. CASE CloseSocket(t)
  <2>1. thread[t].pc = "use" /\ thread'[t].pc = "idle"
    BY <1>6, CloseSocketEffect DEF CloseSocket, At
  <2>2. QED
    BY <2>1, NearerPlace DEF Ahead
<1>7. QED
  BY <1>1, <1>2, <1>3, <1>4, <1>5, <1>6

LEMMA DialLeft ==
  ASSUME TInv, TInv', NEW t \in Threads, Dial(t) \/ Connected(t) \/ ConnectRefused(t)
  PROVE  StepsLeft(t)' < StepsLeft(t)
<1>1. /\ Attempts(t) \in Nat /\ Attempts(t)' \in Nat /\ Attempts(t)' < Attempts(t)
  <2>1. /\ thread[t].tries \in 0..3 /\ thread'[t].tries \in 0..3 /\ thread[t].tries < 3
        /\ thread[t].pc = "dial" => Attempts(t) = 2 * (3 - thread[t].tries) + 1
        /\ thread[t].pc = "connect" => Attempts(t) = 2 * (3 - thread[t].tries)
        /\ thread'[t].pc = "dial" => Attempts(t)' = 2 * (3 - thread'[t].tries) + 1
        /\ thread'[t].pc = "connect" => Attempts(t)' = 2 * (3 - thread'[t].tries)
    BY DialNumbers, StepNumbers DEF Counted
  <2>2. CASE /\ thread[t].pc = "dial" /\ thread'[t].pc = "dial"
             /\ thread'[t].tries = thread[t].tries + 1
    <3>1. \A a, b \in 0..3 : b = a + 1 => /\ 2 * (3 - a) + 1 \in Nat /\ 2 * (3 - b) + 1 \in Nat
                                          /\ 2 * (3 - b) + 1 < 2 * (3 - a) + 1
      OBVIOUS
    <3>2. QED
      BY <2>1, <2>2, <3>1
  <2>3. CASE /\ thread[t].pc = "dial" /\ thread'[t].pc = "connect"
             /\ thread'[t].tries = thread[t].tries
    BY <2>1, <2>3
  <2>4. CASE /\ thread[t].pc = "connect" /\ thread'[t].pc = "dial"
             /\ thread'[t].tries \in {3, thread[t].tries + 1}
    BY <2>1, <2>4
  <2>5. QED
    BY <2>2, <2>3, <2>4, DialNumbers
<1>2. /\ thread[t].pc \in {"dial", "connect"} /\ thread'[t].pc \in {"dial", "connect"}
      /\ thread'[t].v = thread[t].v /\ thread'[t].after = thread[t].after
  BY DialNumbers
<1>3. \E x \in Int : StepsLeft(t) = x + Attempts(t) /\ StepsLeft(t)' = x + Attempts(t)'
  <2>1. 17 + 8 * (NCallers - thread[t].v) \in Int
    BY StepNumbers
  <2>2. QED
    BY <1>2, <2>1, StepNumbers DEF Counted
<1>4. QED
  BY <1>1, <1>3

LEMMA DialedLeft ==
  ASSUME TInv, TInv', NEW t \in Threads, Dialed(t)
  PROVE  StepsLeft(t)' < StepsLeft(t)
<1>1. thread[t].pc = "dial" /\ thread[t].tries = 3
  BY DEF Dialed, At
<1>2. CASE thread[t].after = "build"
  BY <1>1, <1>2, ConstructedLeft DEF Dialed
<1>3. CASE thread[t].after = "first"
  <2>1. thread'[t].pc \in {"send", "use"}
    BY <1>3, GotoEffect, ReturnEffect DEF Dialed
  <2>2. StepsLeft(t)' \in {1, 11} /\ StepsLeft(t) = 12
    BY <1>1, <1>3, <2>1, StepNumbers DEF Counted, Ahead
  <2>3. QED
    BY <2>2
<1>4. CASE thread[t].after = "fail"
  <2>1. thread'[t].pc = "use"
    BY <1>4, ReturnEffect DEF Dialed
  <2>2. StepsLeft(t)' = 1 /\ StepsLeft(t) = 2
    BY <1>1, <1>4, <2>1, StepNumbers DEF Counted, Ahead
  <2>3. QED
    BY <2>2
<1>5. QED
  BY <1>2, <1>3, <1>4, StepNumbers

LEMMA TalkLeft ==
  ASSUME TInv, TInv', NEW t \in Threads,
         \/ Enter(t) \/ SendRequest(t) \/ SendFails(t) \/ ReadAnswer(t) \/ ReadFails(t) \/ HangUp(t)
  PROVE  StepsLeft(t)' < StepsLeft(t)
<1>1. CASE Goto(t, "send") /\ thread[t].pc = "lock"
  BY <1>1, GotoEffect, NearerPlace DEF Ahead
<1>2. ASSUME NEW after \in {"first", "fail"}, ToDial(t, after),
             thread[t].pc = IF after = "first" THEN "lock" ELSE "hangup"
      PROVE  StepsLeft(t)' < StepsLeft(t)
  <2>1. thread'[t].pc = "dial" /\ thread'[t].after = after /\ thread'[t].tries = 0
    BY <1>2, ToDialEffect, ToDialNumbers
  <2>2. \/ StepsLeft(t)' = 18 /\ StepsLeft(t) = 19
        \/ StepsLeft(t)' = 8 /\ StepsLeft(t) = 9
    BY <1>2, <2>1, StepNumbers DEF Counted, Ahead
  <2>3. QED
    BY <2>2
<1>3. CASE SendRequest(t)
  BY <1>3, GotoEffect, NearerPlace DEF SendRequest, At, Ahead
<1>4. CASE SendFails(t) \/ ReadFails(t)
  BY <1>4, GotoEffect, NearerPlace DEF SendFails, ReadFails, At, Ahead
<1>5. CASE ReadAnswer(t)
  <2>1. thread[t].pc = "read" /\ \E r : Return(t, r)
    BY <1>5 DEF ReadAnswer, ReadBytes, At
  <2>2. thread'[t].pc = "use"
    BY <2>1, ReturnEffect
  <2>3. QED
    BY <2>1, <2>2, NearerPlace DEF Ahead
<1>6. CASE Enter(t)
  BY <1>1, <1>2, <1>6 DEF Enter, At
<1>7. CASE HangUp(t)
  BY <1>2, <1>7 DEF HangUp, At
<1>8. QED
  BY <1>3, <1>4, <1>5, <1>6, <1>7

LEMMA ProceedLeft ==
  ASSUME TInv, TInv', NEW t \in Threads, Proceed(t)
  PROVE  StepsLeft(t)' < StepsLeft(t)
  BY WayLeft, DialLeft, DialedLeft, TalkLeft DEF Proceed

LEMMA ProceedOthers ==
  ASSUME TInv, NEW t \in Threads, OpenSocket(t) \/ OpenSocketFails(t) \/ Proceed(t)
  PROVE  Others(t)
<1>1. \A pc : Goto(t, pc) => Others(t)
  BY GotoEffect
<1>2. \A after : ToDial(t, after) => Others(t)
  BY ToDialEffect
<1>3. \A r : Return(t, r) => Others(t)
  BY ReturnEffect
<1>4. Constructed(t) => Others(t)
  BY <1>1, BuildEffect DEF Constructed
<1>5. CASE OpenSocket(t) \/ OpenSocketFails(t) \/ CloseSocket(t) \/ Pick(t)
  BY <1>5, OpenSocketEffect, OpenSocketFailsEffect, CloseSocketEffect, PickEffect
<1>6. CASE Dial(t) \/ Connected(t) \/ ConnectRefused(t)
  BY <1>6, DialEffect, ConnectedEffect, ConnectRefusedEffect
<1>7. CASE Count(t)
  BY <1>7, LoadEffect, StoreEffect DEF Count
<1>8. CASE GetInstance(t) \/ Construct(t) \/ Dialed(t)
  <2>1. GetInstance(t) => Others(t)
    BY <1>1, BuildEffect DEF GetInstance
  <2>2. Construct(t) => Others(t)
    BY <1>2, <1>4 DEF Construct
  <2>3. Dialed(t) => Others(t)
    BY <1>1, <1>3, <1>4 DEF Dialed
  <2>4. QED
    BY <1>8, <2>1, <2>2, <2>3
<1>9. CASE CallProtect(t) \/ Enter(t) \/ SendRequest(t) \/ SendFails(t) \/ ReadFails(t) \/ HangUp(t)
  BY <1>1, <1>2, <1>9 DEF CallProtect, Enter, SendRequest, SendFails, ReadFails, HangUp
<1>10. CASE ReadAnswer(t)
  BY <1>3, <1>10 DEF ReadAnswer, ReadBytes
<1>11. QED
  BY <1>5, <1>6, <1>7, <1>8, <1>9, <1>10 DEF Proceed

\* The counter that no lock guards may lose steps and leave 0..NCallers - 1; as soon
\* as no thread is between its increment and its reduction, it is the number of a
\* caller, for any number of threads and of callers (callerpool.cpp 30-41).
THEOREM CounterIsSettled == Spec => []CounterSettles
<1> DEFINE Within(t) == thread[t].pc \in {"reload", "reduce"}
<1>1. Init => CounterSettles
  BY ConstantTypes DEF Init, CounterSettles
<1>2. TInv /\ CounterSettles /\ [Next]_vars => CounterSettles'
  <2> SUFFICES ASSUME TInv, CounterSettles, [Next]_vars, \A t \in Threads : ~Within(t)'
               PROVE  count' \in Callers
    BY DEF CounterSettles
  <2>1. CASE count' = count /\ \A t \in Threads : ~Within(t)
    BY <2>1 DEF CounterSettles
  <2>2. ASSUME NEW t \in Threads, OpenSocket(t) \/ OpenSocketFails(t) \/ Proceed(t)
        PROVE  count' \in Callers
    <3>1. \A u \in Threads \ {t} : ~Within(u)
      BY <2>2, ProceedOthers DEF Others
    <3>2. CASE Count(t)
      <4>1. CASE Load(t, "load", "store")
        BY <2>1, <3>1, <4>1 DEF Load, At
      <4>2. CASE Load(t, "reload", "reduce")
        BY <4>2, LoadEffect
      <4>3. CASE Store(t, "store", thread[t].reg + 1, "reload")
        BY <4>3, StoreEffect
      <4>4. CASE Store(t, "reduce", thread[t].reg % NCallers, "call")
        BY <4>4, Reduced, RecordTypes DEF Store
      <4>5. QED
        BY <3>2, <4>1, <4>2, <4>3, <4>4 DEF Count
    <3>3. CASE ~Count(t)
      <4>1. ~Within(t) /\ count' = count
        BY <2>2, <3>3 DEF Proceed, At, OpenSocket, OpenSocketFails, GetInstance, Construct, Pick,
           Dial, Connected, ConnectRefused, Dialed, CallProtect, Enter, SendRequest, SendFails,
           ReadAnswer, ReadFails, HangUp, CloseSocket
      <4>2. QED
        BY <2>1, <3>1, <4>1
    <3>4. QED
      BY <3>2, <3>3
  <2>3. CASE UNCHANGED << count, thread >>
    BY <2>1, <2>3
  <2>4. QED
    BY <2>2, <2>3 DEF Next, SetCallee, CalleeAnswers, CalleeBreaks, vars
<1>3. QED
  BY <1>1, <1>2, TInvAlways, PTL DEF Spec

\* Under the same condition a read gives a call the callee's answer to that very call,
\* never that to another session's call through the same caller or to an earlier one
\* that broke off; unless a read on that connection, this one or one before, has
\* returned less than a whole answer (clientcaller.cpp 71-107).
THEOREM ResultIsOwn == Spec => AnswerIsOwn
<1>1. PInv /\ PInv' /\ [Next]_vars =>
        [\A t \in Threads : ~lost /\ At(t, "read") /\ At(t, "use")' =>
           \/ thread'[t].result = << t, thread[t].round >>
           \/ conn'[Line(t)[2]].torn]_vars
  <2> SUFFICES ASSUME PInv, Next, NEW t \in Threads, ~lost, At(t, "read"), At(t, "use")',
                      ~conn'[Line(t)[2]].torn
               PROVE  thread'[t].result = << t, thread[t].round >>
    OBVIOUS
  <2>1. TInv /\ SInv /\ WholeReads /\ LInv
    BY DEF PInv
  <2>2. ASSUME thread'[t] = thread[t] PROVE FALSE
    BY <2>2 DEF At
  <2>3. ~SetCallee /\ \A n : ~CalleeAnswers(n) /\ ~CalleeBreaks(n)
    BY <2>2 DEF SetCallee, CalleeAnswers, CalleeBreaks
  <2>4. PICK u \in Threads : OpenSocket(u) \/ OpenSocketFails(u) \/ Proceed(u)
    BY <2>3 DEF Next
  <2>5. u = t
    BY <2>1, <2>2, <2>4, ProceedOthers DEF Others
  <2>6. ReadAnswer(t)
    <3>1. ReadAnswer(t) \/ ReadFails(t)
      BY <2>4, <2>5 DEF Proceed, At, OpenSocket, OpenSocketFails, GetInstance, Construct, Pick,
         Count, Load, Store, Dial, Connected, ConnectRefused, Dialed, CallProtect, Enter,
         SendRequest, SendFails, HangUp, CloseSocket
    <3>2. ReadFails(t) => thread'[t].pc = "hangup"
      BY <2>1, GotoEffect DEF ReadFails
    <3>3. QED
      BY <3>1, <3>2 DEF At
  <2>7. PICK n \in 1..Len(conn) : /\ n = Line(t)[2] /\ n = Its(thread[t].v)[2]
                                  /\ Line(t) = Conn(n)
    BY <2>1, Reading
  <2>8. PICK k \in 1..AnswerSize : ReadBytes(t, n, k)
    BY <2>6, <2>7, FileKinds DEF ReadAnswer, Conn
  <2>9. /\ ~conn[n].torn /\ conn[n].got = 0 /\ conn[n].answered # << >>
        /\ Return(t, Head(conn[n].answered))
    BY <2>1, <2>7, <2>8, ReadBytesEffect DEF WholeReads
  <2>10. conn[n].answered = << << t, thread[t].round >> >>
    BY <2>1, <2>7, <2>9, WholeCall
  <2>11. Head(<< << t, thread[t].round >> >>) = << t, thread[t].round >>
    OBVIOUS
  <2>12. QED
    BY <2>1, <2>9, <2>10, <2>11, ReturnEffect
<1>2. QED
  BY <1>1, PInvAlways, PTL DEF Spec, AnswerIsOwn

\* Every step of a call brings its end nearer, by a measure that starts below
\* 27 + 8 * NCallers; nothing another session, the callee or the network does sets it
\* back: no failure leads to a loop, no request is sent again (callerpool.cpp 15-41,
\* clientcaller.cpp 41-107).
THEOREM CallsAdvanceAlways == Spec => CallsAdvance
<1>1. TInv /\ TInv' /\ [Next]_vars =>
        [\A t \in Threads : /\ Proceed(t) => StepsLeft(t)' < StepsLeft(t)
                            /\ StepsLeft(t)' <= StepsLeft(t) \/ At(t, "idle")]_vars
  <2> SUFFICES ASSUME TInv, TInv', Next, NEW t \in Threads
               PROVE  /\ Proceed(t) => StepsLeft(t)' < StepsLeft(t)
                      /\ StepsLeft(t)' <= StepsLeft(t) \/ At(t, "idle")
    OBVIOUS
  <2>1. StepsLeft(t) \in Int /\ StepsLeft(t)' \in Int
    BY StepNumbers
  <2>2. Proceed(t) => StepsLeft(t)' < StepsLeft(t)
    BY ProceedLeft
  <2>3. CASE thread'[t] = thread[t]
    <3>1. StepsLeft(t)' = StepsLeft(t)
      BY <2>3 DEF StepsLeft, Rest, Attempts, At
    <3>2. QED
      BY <2>1, <2>2, <3>1
  <2>4. CASE Proceed(t)
    BY <2>1, <2>2, <2>4
  <2>5. CASE OpenSocket(t) \/ OpenSocketFails(t)
    BY <2>2, <2>5 DEF OpenSocket, OpenSocketFails
  <2>6. ASSUME NEW u \in Threads \ {t}, OpenSocket(u) \/ OpenSocketFails(u) \/ Proceed(u)
        PROVE  thread'[t] = thread[t]
    BY <2>6, ProceedOthers DEF Others
  <2>7. CASE SetCallee \/ \E n \in 1..Len(conn) : CalleeAnswers(n) \/ CalleeBreaks(n)
    <3>1. SetCallee => thread' = thread
      BY DEF SetCallee
    <3>2. \A n : CalleeAnswers(n) \/ CalleeBreaks(n) => thread' = thread
      BY DEF CalleeAnswers, CalleeBreaks
    <3>3. QED
      BY <2>3, <2>7, <3>1, <3>2
  <2>8. QED
    BY <2>3, <2>4, <2>5, <2>6, <2>7 DEF Next
<1>2. QED
  BY <1>1, TInvAlways, PTL DEF Spec, CallsAdvance
=============================================================================
