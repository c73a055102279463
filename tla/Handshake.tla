----------------------------- MODULE Handshake -----------------------------
(***************************************************************************)
(* From an accepted connection to an established session: sayHello and     *)
(* doConnect of src/core/socks5server.cpp on the client's stream, with     *)
(* build_stream of src/core/socks5peer.cpp on the upstream stream inside.  *)
(*                                                                         *)
(* Every message is taken from one recv.  TCP keeps no message boundaries, *)
(* so a recv returns any part of what was sent; of some clients it is said *)
(* that their messages arrive whole.  The client and the far proxy follow  *)
(* the protocol, wait for answers, read whole messages, and may go away at *)
(* any time.  A message of the handshake fits an empty send buffer, so a   *)
(* Write succeeds as a whole or fails.                                     *)
(***************************************************************************)
EXTENDS Address, Privacy

CONSTANTS
  Commands,    \* commands clients give: records cmd (1 is CONNECT), target, and
               \* whether the client's messages arrive whole
  Hellos,      \* greetings of clients
  Bounds,      \* addresses the far proxy may be bound to
  FarObjects,  \* ciphers, with their vectors, the far proxy may choose
  Aes,         \* the local processor can do AES-GCM
  TimeoutSet   \* the sockets have timeouts

AddressType == [type : {"unknown", "ipv4", "domain", "ipv6"}, host : Seq(Byte), port : UInt16]

\* An address of the protocol has as many bytes as its type says.
Sized(a) == /\ a \in AddressType
            /\ IF a.type = "domain" THEN Len(a.host) \in 1..255
               ELSE Len(a.host) = IF a.type = "ipv6" THEN 16 ELSE 4

ASSUME FlagAssumption     == {TimeoutSet, Aes} \subseteq BOOLEAN
ASSUME CommandsAssumption == \A c \in Commands : /\ c \in [cmd : Byte, target : AddressType, whole : BOOLEAN]
                                                 /\ Sized(c.target)
\* A greeting is read into 20 bytes.
ASSUME HellosAssumption   == \A hello \in Hellos : hello \in Seq(Byte) /\ Len(hello) \in 1..20
ASSUME BoundsAssumption   == \A b \in Bounds : Sized(b)
\* The greeting of the far proxy can hold a method of up to 250 bytes.
ASSUME ObjectsAssumption  == \A o \in FarObjects : /\ o \in [name : Methods, iv : Seq(Byte)]
                                                   /\ Len(o.iv) \in 12..247

VARIABLES
  client,   \* the client: pc, the command it gives, the answer it got (-1: none)
  far,      \* the far proxy: pc, the cipher it chooses, the target it was asked for
  toPeer,   \* bytes and messages the session has written: to the client, to the far proxy
  inq,      \* bytes that reached the two sockets and that the session has not received
  session,  \* the session's thread: pc, cipher (a set of at most one), target, bound
            \* address, code of a refusal
  open      \* sockets the session has not closed

vars == << client, far, toPeer, inq, session, open >>

NoAddr == Unknown

-----------------------------------------------------------------------------
(* Messages.                                                               *)

Code(type) == CASE type = "ipv4"   -> 1
                [] type = "domain" -> 3
                [] type = "ipv6"   -> 4
                [] OTHER           -> 0

\* A host in a message of the protocol; a name follows its length.
Hosted(a) == (IF a.type = "domain" THEN << Len(a.host) >> ELSE <<>>) \o a.host

\* What the client sends for a command.
Command(c) == << 5, c.cmd, 0, Code(c.target.type) >> \o Hosted(c.target) \o U16ToBytes(c.target.port)

Refusal(code) == << 5, code, 0, 1, 0, 0, 0, 0, 0, 0 >>

FarHello(o) == << 5, 2, Len(MethodBytes(o)) >> \o MethodBytes(o)

\* Mutated: the length byte of a domain name is sent along.
AsksWithLength(a, o) ==
  {[head |-> << 5, 1, bytes[3], bytes[4] >>,
    size |-> (Len(bytes) - 4 + Tag(o)) % 256,
    plain |-> SubSeq(bytes, 5, Len(bytes))] : bytes \in PackSocks5Address(a) \ {<<>>}}

\* Mutated: the length is not cut down to the byte it is stored in.
AsksUnwrapped(a, o) ==
  {[head |-> << 5, 1, bytes[3], bytes[4] >>,
    size |-> Len(bytes) - from + 1 + Tag(o),
    plain |-> SubSeq(bytes, from, Len(bytes))]
     : bytes \in PackSocks5Address(a) \ {<<>>}, from \in {IF a.type = "domain" THEN 6 ELSE 5}}

\* The connect message of Socks5Peer::doConnect: a head, the length of the
\* ciphertext in one byte, the ciphertext of host and port.  None when the
\* packed address is empty: bytes[1] is then written through a null pointer.
Asks(a, o) ==
  {[head |-> << 5, 1, bytes[3], bytes[4] >>,
    size |-> (Len(bytes) - from + 1 + Tag(o)) % 256,
    plain |-> SubSeq(bytes, from, Len(bytes))]
     : bytes \in PackSocks5Address(a) \ {<<>>}, from \in {IF a.type = "domain" THEN 6 ELSE 5}}

\* What the far proxy makes of it.
Readable(ask)  == ask.size = Len(ask.plain) + Tag(far.method)
FarTarget(ask) ==
  LET n == Len(ask.plain)
  IN  [type |-> CASE ask.head[4] = 1 -> "ipv4" [] ask.head[4] = 3 -> "domain" [] OTHER -> "ipv6",
       host |-> SubSeq(ask.plain, 1, n - 2),
       port |-> ToShort(SubSeq(ask.plain, n - 1, n))]

\* The far proxy's answer.
FarBound(b) == << 5, 0, 0, Code(b.type) >> \o Hosted(b) \o U16ToBytes(b.port)

-----------------------------------------------------------------------------
Gone(s) == IF s = "client" THEN client.pc = "gone" ELSE far.pc = "gone"
Cut(s)  == s = "far" \/ ~client.command.whole

Lesser(a, b) == IF a < b THEN a ELSE b

\* How many bytes a recv of at most size bytes may return.
Sizes(s, size) == LET most == Lesser(size, Len(inq[s]))
                  IN  IF most = 0 THEN {} ELSE IF Cut(s) THEN 1..most ELSE {most}

Got(s, k) == SubSeq(inq[s], 1, k)

Receive(s, k) == inq' = [inq EXCEPT ![s] = SubSeq(@, k + 1, Len(@))]

\* Mutated: a socket has no timeout.
RecvFailsGone(s) == inq[s] = <<>> /\ Gone(s)

\* recv fails: the peer is gone, or the socket's timeout expires.
RecvFails(s) == inq[s] = <<>> /\ (Gone(s) \/ TimeoutSet)

Send(s, m) == toPeer' = [toPeer EXCEPT ![s] = Append(@, m)]

Init ==
  /\ client \in [pc : {"start"}, command : Commands, answer : {-1}]
  /\ far \in [pc : {"hello"}, method : FarObjects, target : {NoAddr}]
  /\ toPeer = [s \in {"client", "far"} |-> <<>>]
  /\ inq = [s \in {"client", "far"} |-> <<>>]
  /\ session = [pc |-> "hello", method |-> {}, target |-> NoAddr, bound |-> NoAddr, code |-> 0]
  /\ open = {"client"}

-----------------------------------------------------------------------------
(* The client's side.                                                      *)

\* Returning from doServeOnOne without a word to the client.
Drop == session' = [session EXCEPT !.pc = "ended"] /\ open' = {}

\* Mutated: the buffer for the greeting has three bytes.
SayHelloShort(k) ==
  /\ session.pc = "hello"
  /\ k \in Sizes("client", 3)
  /\ Receive("client", k)
  /\ IF k >= 3 /\ Got("client", k)[1] = 5
     THEN session' = [session EXCEPT !.pc = "greet"] /\ UNCHANGED open
     ELSE Drop
  /\ UNCHANGED << client, far, toPeer >>

SayHello(k) ==
  /\ session.pc = "hello"
  /\ k \in Sizes("client", 20)
  /\ Receive("client", k)
  /\ IF k >= 3 /\ Got("client", k)[1] = 5
     THEN session' = [session EXCEPT !.pc = "greet"] /\ UNCHANGED open
     ELSE Drop
  /\ UNCHANGED << client, far, toPeer >>

Greet ==
  /\ session.pc = "greet"
  /\ Send("client", << 5, 0 >>)
  /\ session' = [session EXCEPT !.pc = "command"]
  /\ UNCHANGED << client, far, inq, open >>

\* The client's command: anything but a CONNECT is refused with code 10.
ReadCommand(k) ==
  /\ session.pc = "command"
  /\ k \in Sizes("client", 256)
  /\ Receive("client", k)
  /\ LET out == Got("client", k)
     IN  IF k < 4 \/ out[1] # 5 \/ out[2] # 1
         THEN /\ session' = [session EXCEPT !.pc = "refuse", !.code = 10]
              /\ UNCHANGED open
         ELSE LET targets == FromSocks5CommandStream(SubSeq(out, 4, k))
              IN  IF targets = {}
                  THEN session' = [session EXCEPT !.pc = "crashed"] /\ open' = {}
                  ELSE /\ \E t \in targets :
                            session' = [session EXCEPT !.pc = "connect", !.target = t]
                       /\ UNCHANGED open
  /\ UNCHANGED << client, far, toPeer >>

\* A read of the client's fails, or a write of the greeting or of the answer.
ClientFails ==
  /\ \/ session.pc \in {"hello", "command"} /\ RecvFails("client")
     \/ session.pc \in {"greet", "answer"} /\ Gone("client")
  /\ Drop
  /\ UNCHANGED << client, far, toPeer, inq >>

-----------------------------------------------------------------------------
(* Socks5Peer::build_stream.  When a step of it fails its stream is closed *)
(* and the client's command is refused with code 11.                       *)

UpFailed == /\ session' = [session EXCEPT !.pc = "refuse", !.code = 11]
            /\ open' = open \ {"far"}

\* The new socket is connected.
Connect ==
  /\ session.pc = "connect"
  /\ ~Gone("far")
  /\ open' = open \cup {"far"}
  /\ session' = [session EXCEPT !.pc = "upGreet"]
  /\ UNCHANGED << client, far, toPeer, inq >>

UpGreet ==
  /\ session.pc = "upGreet"
  /\ Send("far", [kind |-> "hello"])
  /\ session' = [session EXCEPT !.pc = "upHello"]
  /\ UNCHANGED << client, far, inq, open >>

\* Only an answer that is exactly as long as it says is accepted.  Of one of
\* fewer than three bytes the code looks at bytes the request has left behind;
\* that length test refuses it in any case.
UpHello(k) ==
  /\ session.pc = "upHello"
  /\ k \in Sizes("far", 300)
  /\ Receive("far", k)
  /\ LET out == Got("far", k)
     IN  IF /\ k >= 3 /\ out[1] = 5 /\ out[2] = 2
            /\ out[3] <= 250 /\ out[3] + 3 = k
            /\ BuildFromBytes(SubSeq(out, 4, k)) # {}
         THEN /\ session' = [session EXCEPT !.pc = "upLogin",
                                            !.method = BuildFromBytes(SubSeq(out, 4, k))]
              /\ UNCHANGED open
         ELSE UpFailed
  /\ UNCHANGED << client, far, toPeer >>

\* Compress refuses the password: the vector has the wrong length for the cipher,
\* or the processor cannot do it.
Unusable == \E o \in session.method : Precheck(o, 32, Aes) # 0

UpLogin ==
  /\ session.pc = "upLogin"
  /\ ~Unusable
  /\ Send("far", [kind |-> "login"])
  /\ session' = [session EXCEPT !.pc = "upVerify"]
  /\ UNCHANGED << client, far, inq, open >>

\* The buffer is as long as the login message, hence longer than the answer.
VerifyAuth(k) ==
  /\ session.pc = "upVerify"
  /\ k \in Sizes("far", 300)
  /\ Receive("far", k)
  /\ LET tmp == Got("far", k)
     IN  IF k >= 2 /\ tmp[1] = 5 /\ tmp[2] = 0
         THEN session' = [session EXCEPT !.pc = "upAsk"] /\ UNCHANGED open
         ELSE UpFailed
  /\ UNCHANGED << client, far, toPeer >>

UpAsk ==
  /\ session.pc = "upAsk"
  /\ LET asks == UNION {Asks(session.target, o) : o \in session.method}
     IN  IF asks = {}
         THEN session' = [session EXCEPT !.pc = "crashed"] /\ open' = {} /\ UNCHANGED toPeer
         ELSE /\ \E ask \in asks : Send("far", [kind |-> "connect", ask |-> ask])
              /\ session' = [session EXCEPT !.pc = "upBound"]
              /\ UNCHANGED open
  /\ UNCHANGED << client, far, inq >>

\* Mutated: the status byte of the answer is not looked at.
UpBoundAnyStatus(k) ==
  /\ session.pc = "upBound"
  /\ k \in Sizes("far", 300)
  /\ Receive("far", k)
  /\ LET tmp == Got("far", k)
     IN  IF tmp[1] = 5 /\ k >= 10
         THEN /\ \E b \in FromSocks5CommandStream(SubSeq(tmp, 4, k)) :
                   session' = [session EXCEPT !.pc = "answer", !.bound = b]
              /\ UNCHANGED open
         ELSE UpFailed
  /\ UNCHANGED << client, far, toPeer >>

\* Mutated: the length of the answer is not checked.
UpBoundUnsized(k) ==
  /\ session.pc = "upBound"
  /\ k \in Sizes("far", 300)
  /\ Receive("far", k)
  /\ LET tmp == Got("far", k)
     IN  IF k >= 4 /\ tmp[1] = 5 /\ tmp[2] = 0
         THEN LET bounds == FromSocks5CommandStream(SubSeq(tmp, 4, k))
              IN  IF bounds = {}
                  THEN session' = [session EXCEPT !.pc = "crashed"] /\ open' = {}
                  ELSE /\ \E b \in bounds : session' = [session EXCEPT !.pc = "answer", !.bound = b]
                       /\ UNCHANGED open
         ELSE UpFailed
  /\ UNCHANGED << client, far, toPeer >>

UpBound(k) ==
  /\ session.pc = "upBound"
  /\ k \in Sizes("far", 300)
  /\ Receive("far", k)
  /\ LET tmp == Got("far", k)
     IN  IF tmp[1] = 5 /\ k >= 10 /\ tmp[2] = 0
         THEN /\ \E b \in FromSocks5CommandStream(SubSeq(tmp, 4, k)) :
                   session' = [session EXCEPT !.pc = "answer", !.bound = b]
              /\ UNCHANGED open
         ELSE UpFailed
  /\ UNCHANGED << client, far, toPeer >>

\* The connect fails, a read fails, a write to a far proxy that is gone, or the
\* cipher; one that encrypted the password does not refuse the target.
UpFails ==
  /\ \/ session.pc = "connect"
     \/ session.pc \in {"upHello", "upVerify", "upBound"} /\ RecvFails("far")
     \/ session.pc \in {"upGreet", "upLogin", "upAsk"} /\ Gone("far")
     \/ session.pc = "upLogin" /\ Unusable
  /\ UpFailed
  /\ UNCHANGED << client, far, toPeer, inq >>

-----------------------------------------------------------------------------
(* The answer to the client.                                               *)

\* The bound address is packed: success, and the pumps start.
Answer ==
  /\ session.pc = "answer"
  /\ session.bound.type # "unknown"
  /\ \E ss \in PackSocks5Address(session.bound) : Send("client", ss)
  /\ session' = [session EXCEPT !.pc = "established"]
  /\ UNCHANGED << client, far, inq, open >>

AnswerUnpackable ==
  /\ session.pc = "answer"
  /\ session.bound.type = "unknown"
  /\ session' = [session EXCEPT !.pc = "refuse", !.code = 12]
  /\ UNCHANGED << client, far, toPeer, inq, open >>

\* The refusal is written, whether or not the client is still there, and all
\* streams are closed.
Refuse ==
  /\ session.pc = "refuse"
  /\ Send("client", Refusal(session.code))
  /\ Drop
  /\ UNCHANGED << client, far, inq >>

-----------------------------------------------------------------------------
(* The client and the far proxy.                                           *)

ClientSays(m) == inq' = [inq EXCEPT !["client"] = @ \o m]
FarSays(m)    == inq' = [inq EXCEPT !["far"] = @ \o m]
Heard(s)      == toPeer' = [toPeer EXCEPT ![s] = Tail(@)]

ClientHello ==
  /\ client.pc = "start"
  /\ \E hello \in Hellos : ClientSays(hello)
  /\ client' = [client EXCEPT !.pc = "greeted"]
  /\ UNCHANGED << far, toPeer, session, open >>

\* Greeted with method 0, the client gives its command.
ClientCommand ==
  /\ client.pc = "greeted"
  /\ toPeer["client"] # <<>>
  /\ Heard("client")
  /\ ClientSays(Command(client.command))
  /\ client' = [client EXCEPT !.pc = "asked"]
  /\ UNCHANGED << far, session, open >>

ClientHears ==
  /\ client.pc = "asked"
  /\ toPeer["client"] # <<>>
  /\ Heard("client")
  /\ client' = [client EXCEPT !.pc = "answered", !.answer = Head(toPeer["client"])[2]]
  /\ UNCHANGED << far, inq, session, open >>

ClientLeaves ==
  /\ client.pc # "gone"
  /\ client' = [client EXCEPT !.pc = "gone"]
  /\ UNCHANGED << far, toPeer, inq, session, open >>

FarHears(kind) == toPeer["far"] # <<>> /\ Head(toPeer["far"]).kind = kind /\ Heard("far")

\* It names the method it will use.
FarGreets ==
  /\ far.pc = "hello"
  /\ FarHears("hello")
  /\ FarSays(FarHello(far.method))
  /\ far' = [far EXCEPT !.pc = "login"]
  /\ UNCHANGED << client, session, open >>

FarVerifies ==
  /\ far.pc = "login"
  /\ FarHears("login")
  /\ \/ FarSays(<< 5, 0 >>) /\ far' = [far EXCEPT !.pc = "ask"]
     \/ FarSays(<< 5, 1 >>) /\ far' = [far EXCEPT !.pc = "refused"]
  /\ UNCHANGED << client, session, open >>

\* It reaches the target and says where it is bound, or it refuses.
FarConnects ==
  /\ far.pc = "ask"
  /\ FarHears("connect")
  /\ LET ask == Head(toPeer["far"]).ask
     IN  \/ /\ Readable(ask)
            /\ \E b \in Bounds : FarSays(FarBound(b))
            /\ far' = [far EXCEPT !.pc = "serving", !.target = FarTarget(ask)]
         \/ /\ FarSays(Refusal(1))
            /\ far' = [far EXCEPT !.pc = "refused"]
  /\ UNCHANGED << client, session, open >>

FarLeaves ==
  /\ far.pc # "gone"
  /\ far' = [far EXCEPT !.pc = "gone"]
  /\ UNCHANGED << client, toPeer, inq, session, open >>

-----------------------------------------------------------------------------
ServeOnOne == \/ \E k \in 1..20 : SayHello(k)
              \/ \E k \in 1..256 : ReadCommand(k)
              \/ \E k \in 1..300 : UpHello(k) \/ VerifyAuth(k) \/ UpBound(k)
              \/ Greet \/ ClientFails
              \/ Connect \/ UpGreet \/ UpLogin \/ UpAsk \/ UpFails
              \/ Answer \/ AnswerUnpackable \/ Refuse

Peers == \/ ClientHello \/ ClientCommand \/ ClientHears \/ ClientLeaves
         \/ FarGreets \/ FarVerifies \/ FarConnects \/ FarLeaves

Next == ServeOnOne \/ Peers

\* The session's thread is scheduled and its calls return, on a timeout at the
\* latest.  The peers need not do anything.
Spec == Init /\ [][Next]_vars /\ WF_vars(ServeOnOne)

-----------------------------------------------------------------------------
(* Properties.                                                             *)

AskType     == [head : Seq(Byte), size : Byte, plain : Seq(Byte)]

\* Every byte is a byte, the one that holds the length of the target included.
TypeOK ==
  /\ client \in [pc : {"start", "greeted", "asked", "answered", "gone"},
                 command : [cmd : Byte, target : AddressType, whole : BOOLEAN], answer : -1..255]
  /\ far \in [pc : {"hello", "login", "ask", "refused", "serving", "gone"},
              method : FarObjects, target : AddressType]
  /\ toPeer["client"] \in Seq(Seq(Byte))
  /\ \A i \in 1..Len(toPeer["far"]) :
       \/ toPeer["far"][i].kind \in {"hello", "login"}
       \/ toPeer["far"][i].kind = "connect" /\ toPeer["far"][i].ask \in AskType
  /\ inq \in [{"client", "far"} -> Seq(Byte)]
  /\ session \in [pc : {"hello", "greet", "command", "connect", "upGreet", "upHello", "upLogin",
                        "upVerify", "upAsk", "upBound", "answer", "refuse", "established",
                        "ended", "crashed"},
                  method : SUBSET FarObjects, target : AddressType, bound : AddressType, code : {0, 10, 11, 12}]
  /\ open \subseteq {"client", "far"}

\* A client whose messages arrive whole and that is told of success is connected to
\* the target it named: parsing its command, packing the target for the far proxy
\* and leaving out the length of a name on the way have not changed it
\* (socks5server.cpp 90-139, socks5peer.cpp 132-158).
SuccessIsTrue ==
  client.command.whole /\ client.answer = 0 => far.target = client.command.target

\* Whoever is told of success, the client by its answer or the pumps by being
\* started, the far proxy has reached a target; a far proxy that refused, or an
\* answer of which only a part has come, is not taken for success
\* (socks5peer.cpp 160-175).
SuccessIsBacked == (client.answer = 0 \/ session.pc = "established") => far.target # NoAddr

\* Code 10 is the answer to a command that is not CONNECT, and to a client whose
\* messages arrive whole only to that: no byte of the greeting is left over and
\* taken for the command (socks5server.cpp 24-107).
RefusalIsTrue == client.command.whole /\ client.answer = 10 => client.command.cmd # 1

\* When the pumps start, no byte of the handshake is left in either socket; the
\* downstream pump would take it for the length of a frame.  The client's messages
\* arrive whole, those of the far proxy need not; but its answer has the ten bytes
\* of an IPv4 address, as of a longer one ten would do (socks5peer.cpp 160-175).
EstablishedAligned ==
  /\ session.pc = "established"
  /\ client.command.whole
  /\ session.bound.type = "ipv4"
  => inq = [s \in {"client", "far"} |-> <<>>]

\* A crash of one session ends the process and with it every other session.  Only
\* the client's own command can bring it about, one of an unknown type or one of
\* which only a part has come, and only as long as no target has been understood:
\* an answer of the far proxy is never too short for its parser, however TCP cuts
\* it, and what was understood can be packed (address.cpp 230-272, socks5peer.cpp
\* 132-175).
CrashOnlyByCommand ==
  session.pc = "crashed" =>
    /\ session.target = NoAddr
    /\ client.command.target.type = "unknown" \/ ~client.command.whole

\* Whatever the peers do or leave undone, the handshake comes to an end, if only
\* with the process (socks5server.cpp 234-250).
HandshakeEnds == <>(session.pc \in {"established", "ended", "crashed"})

\* An address without the host of an IPv6 one, which does not survive the session
\* (IPv6TargetKept).
Essence(a) == IF a.type = "ipv6" THEN [a EXCEPT !.host = <<>>] ELSE a

\* The abstract session: the far proxy reaches what the session has understood, or
\* nothing, and the client is told once (socks5server.cpp 62-139, socks5peer.cpp
\* 132-176).
Told == CASE session.pc = "established"                  -> "success"
          [] session.pc = "ended" /\ session.code # 0    -> "refusal"
          [] session.pc = "ended" /\ session.code = 0    -> "silence"
          [] session.pc = "crashed"                      -> "silence"
          [] OTHER                                       -> "nothing"

Abstract == INSTANCE Session WITH
  Targets <- AddressType \ {NoAddr}, NoTarget <- NoAddr,
  target <- Essence(session.target), reached <- Essence(far.target), told <- Told

SessionRefined == Abstract!Spec

\* "Return bytes representation of IPv6 address" (include/core/address.h): the
\* bytes of an IPv6 target that reach the far proxy are those the client gave.
IPv6TargetKept == far.target.type = "ipv6" => far.target.host = client.command.target.host
=============================================================================
