-------------------------- MODULE HandshakeProofs --------------------------
(***************************************************************************)
(* The safety of Handshake for any commands, greetings, bound addresses,   *)
(* ciphers and memory contents the assumptions allow, whether or not the   *)
(* sockets have timeouts and however TCP cuts the messages.                *)
(***************************************************************************)
EXTENDS Handshake, FunsProofs

-----------------------------------------------------------------------------
(* The inductive invariant.                                                *)

Sockets == {"client", "far"}

PCs == {"hello", "greet", "command", "connect", "upGreet", "upHello", "upLogin", "upVerify",
        "upAsk", "upBound", "answer", "refuse", "established", "ended", "crashed"}

Codes == {0, 10, 11, 12}

ClientType == [pc : {"start", "greeted", "asked", "answered", "gone"},
               command : Commands, answer : -1..255]

FarType == [pc : {"hello", "login", "ask", "refused", "serving", "gone"},
            method : FarObjects, target : AddressType]

SessionType == [pc : PCs, method : SUBSET FarObjects, target : AddressType,
                bound : AddressType, code : Codes]

FarMessages == {[kind |-> "hello"], [kind |-> "login"]}
               \cup [kind : {"connect"}, ask : {a \in AskType : Len(a.plain) >= 2}]

\* What is on its way to the far proxy is something it can take apart.
WellTyped ==
  /\ client \in ClientType
  /\ far \in FarType
  /\ DOMAIN toPeer = Sockets
  /\ toPeer["client"] \in Seq(Seq(Byte))
  /\ toPeer["far"] \in Seq(FarMessages)
  /\ inq \in [Sockets -> Seq(Byte)]
  /\ session \in SessionType
  /\ open \subseteq {"client", "far"}

\* What the session may write to the client in the end.
Final(m, reached, c) ==
  /\ Len(m) >= 2
  /\ m[2] = 0 => reached # NoAddr
  /\ m[2] = 10 /\ c.whole => c.cmd # 1

\* The client hears the answer to its greeting first and the last word next.
ClientSide ==
  /\ session.pc \in {"hello", "greet"} =>
       toPeer["client"] = << >> /\ client.pc \in {"start", "greeted", "gone"}
  /\ client.pc = "start" => inq["client"] = << >>
  /\ \A i \in 1..Len(toPeer["client"]) :
       \/ Final(toPeer["client"][i], far.target, client.command)
       \/ i = 1 /\ client.pc # "asked" /\ toPeer["client"][i] = << 5, 0 >>
  /\ client.answer = 0 => far.target # NoAddr
  /\ client.answer = 10 /\ client.command.whole => client.command.cmd # 1
  /\ session.code = 10 /\ client.command.whole => client.command.cmd # 1
  /\ session.pc = "refuse" => session.code # 0

\* A command that is read as a whole.
Fits(c) == Len(Command(c)) <= 256

AfterCommand == {"connect", "upGreet", "upHello", "upLogin", "upVerify", "upAsk", "upBound",
                 "answer", "refuse", "established"}

\* What a client whose messages arrive whole has sent and the session not read.
WholeMessages ==
  client.command.whole =>
    /\ session.pc = "hello" => inq["client"] \in {<< >>} \cup Hellos
    /\ session.pc = "greet" => inq["client"] = << >> /\ client.pc \in {"greeted", "gone"}
    /\ session.pc = "command" => /\ client.pc # "start"
                                 /\ inq["client"] \in {<< >>, Command(client.command)}
                                 /\ client.pc = "greeted" => inq["client"] = << >>
    /\ session.pc \in AfterCommand => /\ client.pc \notin {"start", "greeted"}
                                      /\ Fits(client.command) => inq["client"] = << >>
    /\ /\ Fits(client.command) /\ client.command.target.type \in {"ipv4", "domain"}
       /\ session.target # NoAddr
       => session.target = client.command.target

BeforeAsk == {"hello", "greet", "command", "connect", "upGreet", "upLogin", "upAsk"}

Asked(kind) == Len(toPeer["far"]) = 1 /\ toPeer["far"][1].kind = kind /\ inq["far"] = << >>

\* The far proxy has one message to answer or has answered it.
Upstream ==
  /\ session.pc \in BeforeAsk => toPeer["far"] = << >> /\ inq["far"] = << >>
  /\ session.pc = "upHello" =>
       \/ Asked("hello")
       \/ toPeer["far"] = << >> /\ inq["far"] = FarHello(far.method)
  /\ session.pc = "upVerify" =>
       \/ Asked("login")
       \/ toPeer["far"] = << >> /\ inq["far"] \in {<< 5, 0 >>, << 5, 1 >>}
  /\ session.pc = "upBound" =>
       \/ Asked("connect")
       \/ /\ toPeer["far"] = << >>
          /\ \/ inq["far"] = Refusal(1)
             \/ far.target # NoAddr /\ inq["far"] \in {FarBound(b) : b \in Bounds}
  /\ session.pc \in {"answer", "established"} =>
       /\ toPeer["far"] = << >>
       /\ far.target # NoAddr
       /\ session.bound.type = "ipv4" => inq["far"] = << >>
  /\ session.pc \in {"upLogin", "upVerify", "upAsk"} => session.method = {far.method}

\* A request to connect to an address; only the host of an IPv6 one may be another.
WellAsked(ask, a) ==
  /\ ask \in AskType /\ Len(ask.plain) >= 2
  /\ a.type # "unknown"
  /\ ask.head[4] = Code(a.type)
  /\ \E raw \in Seq(Byte) : /\ a.type # "ipv6" => raw = a.host
                            /\ ask.plain = raw \o U16ToBytes(a.port)

\* What the far proxy reaches, or is asked to reach, is what the session understood.
Reached ==
  /\ session.pc \in {"hello", "greet", "command"} => far.target = NoAddr
  /\ \A i \in 1..Len(toPeer["far"]) :
       toPeer["far"][i].kind = "connect" => WellAsked(toPeer["far"][i].ask, session.target)
  /\ far.target # NoAddr => Essence(far.target) = Essence(session.target)

IInv == WellTyped /\ ClientSide /\ WholeMessages /\ Upstream /\ Reached

-----------------------------------------------------------------------------
(* Bytes and addresses.                                                    *)

LEMMA Numbers ==
  /\ \A n \in 0..255 : n \in Byte
  /\ \A b \in Byte : b \in Nat /\ b < 256
  /\ \A n \in Nat : n % 256 \in Byte
  /\ \A b \in Stray : b \in Byte
  /\ Stray # {}
  BY StrayAssumption, SMT DEF Byte

LEMMA PortBytes ==
  ASSUME NEW p \in UInt16
  PROVE  U16ToBytes(p) \in Seq(Byte) /\ Len(U16ToBytes(p)) = 2 /\ ToShort(U16ToBytes(p)) = p
<1>1. p \in Nat
  BY SMT DEF UInt16
<1>2. (p \div 256) % 256 \in Byte /\ p % 256 \in Byte
  BY <1>1, SMT DEF Byte
<1>3. QED
  BY <1>2, ShortRoundTrip, SMT DEF U16ToBytes

LEMMA ToShortType ==
  ASSUME NEW f, f[1] \in Byte, f[2] \in Byte
  PROVE  ToShort(f) \in UInt16
<1>1. ASSUME NEW x \in Byte, NEW y \in Byte
      PROVE  x * 256 + y \in UInt16
  <2>1. x \in Nat /\ x < 256 /\ y \in Nat /\ y < 256
    BY ByteRange
  <2>2. x * 256 + y \in Nat /\ x * 256 + y < 65536
    BY <2>1, SMT
  <2>3. QED
    BY <2>2 DEF UInt16
<1>2. QED
  BY <1>1 DEF ToShort

LEMMA AddressFields ==
  ASSUME NEW a \in AddressType
  PROVE  /\ a.type \in {"unknown", "ipv4", "domain", "ipv6"}
         /\ a.host \in Seq(Byte) /\ Len(a.host) \in Nat
         /\ a.port \in UInt16
         /\ U16ToBytes(a.port) \in Seq(Byte) /\ Len(U16ToBytes(a.port)) = 2
  BY PortBytes, LenProperties, SMTT(30) DEF AddressType

LEMMA SizedFields ==
  ASSUME NEW a, Sized(a)
  PROVE  /\ a \in AddressType
         /\ Len(a.host) \in 1..255
         /\ a.type # "domain" /\ a.type # "ipv6" => Len(a.host) = 4
         /\ a.type = "ipv6" => Len(a.host) = 16
<1>1. CASE a.type = "domain"
  BY <1>1, SMTT(60) DEF Sized
<1>2. CASE a.type = "ipv6"
  BY <1>2, SMTT(60) DEF Sized
<1>3. CASE a.type # "domain" /\ a.type # "ipv6"
  BY <1>3, SMTT(60) DEF Sized
<1>4. QED
  BY <1>1, <1>2, <1>3

LEMMA UnknownAddress == NoAddr \in AddressType /\ NoAddr.type = "unknown"
  BY SMT DEF NoAddr, Unknown, AddressType, UInt16

\* What is left of an address without the host of an IPv6 one.
LEMMA EssenceFields ==
  ASSUME NEW a \in AddressType
  PROVE  /\ Essence(a) \in AddressType /\ Essence(a).type = a.type
         /\ a.type # "ipv6" => Essence(a) = a
         /\ Essence(a) = NoAddr <=> a = NoAddr
<1>1. CASE a.type = "ipv6"
  <2>1. << >> \in Seq(Byte)
    OBVIOUS
  <2>2. Essence(a) \in AddressType /\ Essence(a).type = a.type
    BY <1>1, <2>1 DEF Essence, AddressType
  <2>3. QED
    BY <1>1, <2>2, UnknownAddress
<1>2. CASE a.type # "ipv6"
  BY <1>2 DEF Essence
<1>3. QED
  BY <1>1, <1>2

LEMMA SameEssence ==
  ASSUME NEW a \in AddressType, NEW b \in AddressType,
         Essence(a) = Essence(b), b.type # "ipv6"
  PROVE  a = b
<1>1. a.type = b.type
  BY EssenceFields
<1>2. QED
  BY <1>1, EssenceFields

LEMMA Joined ==
  ASSUME NEW s \in Seq(Byte), NEW t \in Seq(Byte)
  PROVE  /\ s \o t \in Seq(Byte)
         /\ Len(s) \in Nat /\ Len(t) \in Nat /\ Len(s \o t) = Len(s) + Len(t)
  BY ConcatProperties, LenProperties

LEMMA JoinedAt ==
  ASSUME NEW s \in Seq(Byte), NEW t \in Seq(Byte)
  PROVE  /\ \A i \in 1..Len(s) : (s \o t)[i] = s[i]
         /\ \A i \in 1..Len(t) : (s \o t)[Len(s) + i] = t[i]
<1>1. ASSUME NEW i \in 1..Len(s)
      PROVE  (s \o t)[i] = s[i]
  BY SMT
<1>2. ASSUME NEW i \in 1..Len(t)
      PROVE  (s \o t)[Len(s) + i] = t[i]
  BY SMT
<1>3. QED
  BY <1>1, <1>2

LEMMA Regrouped ==
  ASSUME NEW s \in Seq(Byte), NEW t \in Seq(Byte), NEW u \in Seq(Byte)
  PROVE  (s \o t) \o u = s \o (t \o u)
  BY ConcatAssociative

LEMMA OneByte ==
  ASSUME NEW x \in Byte
  PROVE  << x >> \in Seq(Byte) /\ Len(<< x >>) = 1 /\ << x >>[1] = x
  BY SMT

LEMMA TwoBytes ==
  ASSUME NEW x \in Byte, NEW y \in Byte
  PROVE  << x, y >> \in Seq(Byte) /\ Len(<< x, y >>) = 2 /\ << x, y >>[1] = x
  BY SMT

LEMMA ThreeBytes ==
  ASSUME NEW x \in Byte, NEW y \in Byte, NEW z \in Byte
  PROVE  /\ << x, y, z >> \in Seq(Byte) /\ Len(<< x, y, z >>) = 3
         /\ << x, y, z >>[1] = x /\ << x, y, z >>[2] = y /\ << x, y, z >>[3] = z
  BY SMT

LEMMA SmallNumber ==
  ASSUME NEW n \in 0..255
  PROVE  n \in Byte
  BY DEF Byte

\* The end of a byte sequence is one, and begins where it begins.
LEMMA Slices ==
  ASSUME NEW s \in Seq(Byte), NEW from \in 1..Len(s) + 1, NEW to \in 0..Len(s)
  PROVE  /\ SubSeq(s, from, to) \in Seq(Byte)
         /\ Len(SubSeq(s, from, to)) = IF from <= to THEN to - from + 1 ELSE 0
         /\ \A i \in 1..(to - from + 1) : SubSeq(s, from, to)[i] = s[from + i - 1]
<1>1. \A i \in from..to : s[i] \in Byte
  BY ElementOfSeq, LenProperties
<1>2. QED
  BY <1>1, SubSeqProperties, LenProperties

\* What follows the first sequence of a concatenation.
LEMMA Rest ==
  ASSUME NEW s \in Seq(Byte), NEW t \in Seq(Byte), NEW from, from = Len(s) + 1
  PROVE  SubSeq(s \o t, from, Len(s \o t)) = t
<1>1. /\ s \o t \in Seq(Byte) /\ Len(s \o t) = Len(s) + Len(t)
      /\ Len(s) \in Nat /\ Len(t) \in Nat
  BY ConcatProperties, LenProperties
<1>2. CASE t = << >>
  <2>1. Len(t) = 0
    BY <1>2
  <2>2. QED
    BY <1>1, <1>2, <2>1, SubSeqEmpty
<1>3. CASE t # << >>
  <2>1. Len(t) \in Nat \ {0}
    BY <1>3, EmptySeq
  <2>2. SubSeq(s \o t, Len(s) + 1, Len(s) + Len(t)) = SubSeq(t, 1, Len(t))
    <3>1. Len(s) + 1 \in Len(s)+1 .. Len(s)+Len(t) /\ Len(s) + Len(t) \in Len(s)+1 .. Len(s)+Len(t)
      BY <1>1, <2>1
    <3>2. SubSeq(s \o t, Len(s) + 1, Len(s) + Len(t))
          = SubSeq(t, Len(s) + 1 - Len(s), Len(s) + Len(t) - Len(s))
      BY <3>1, SubSeqOfConcat2
    <3>3. Len(s) + 1 - Len(s) = 1 /\ Len(s) + Len(t) - Len(s) = Len(t)
      BY <1>1
    <3>4. QED
      BY <3>2, <3>3
  <2>3. QED
    BY <1>1, <2>2, SubSeqFull
<1>4. QED
  BY <1>2, <1>3

LEMMA Front ==
  ASSUME NEW s \in Seq(Byte), NEW t \in Seq(Byte)
  PROVE  SubSeq(s \o t, 1, Len(s)) = s
<1>1. Len(s) \in Nat
  BY LenProperties
<1>2. CASE s = << >>
  BY <1>2, SubSeqEmpty
<1>3. CASE s # << >>
  <2>1. Len(s) \in Nat \ {0}
    BY <1>3, EmptySeq
  <2>2. 1 \in 1..Len(s) /\ Len(s) \in 1..Len(s)
    BY <2>1
  <2>3. SubSeq(s \o t, 1, Len(s)) = SubSeq(s, 1, Len(s))
    BY <2>2, SubSeqOfConcat1
  <2>4. QED
    BY <2>3, SubSeqFull
<1>4. QED
  BY <1>2, <1>3

-----------------------------------------------------------------------------
(* The messages of the client and what the session makes of them.          *)

LEMMA HostedType ==
  ASSUME NEW a, Sized(a)
  PROVE  /\ Hosted(a) \in Seq(Byte)
         /\ Len(Hosted(a)) = Len(a.host) + (IF a.type = "domain" THEN 1 ELSE 0)
<1>1. a.host \in Seq(Byte) /\ Len(a.host) \in 1..255
  BY SizedFields, AddressFields
<1>2. CASE a.type = "domain"
  <2>1. << Len(a.host) >> \in Seq(Byte) /\ Len(<< Len(a.host) >>) = 1
    <3>1. Len(a.host) \in 0..255
      BY <1>1, SMTT(60)
    <3>2. QED
      BY <3>1, SmallNumber, OneByte
  <2>2. Hosted(a) = << Len(a.host) >> \o a.host
    BY <1>2 DEF Hosted
  <2>3. QED
    BY <1>1, <1>2, <2>1, <2>2, ConcatProperties, SMTT(60)
<1>3. CASE a.type # "domain"
  <2>1. Hosted(a) = a.host
    BY <1>1, <1>3, ConcatEmptySeq DEF Hosted
  <2>2. QED
    BY <1>1, <1>3, <2>1, SMTT(60)
<1>4. QED
  BY <1>2, <1>3

LEMMA CodeType ==
  ASSUME NEW t \in {"unknown", "ipv4", "domain", "ipv6"}
  PROVE  /\ Code(t) \in {0, 1, 3, 4} /\ Code(t) \in Byte
         /\ Code(t) = 1 <=> t = "ipv4"
         /\ Code(t) = 3 <=> t = "domain"
         /\ Code(t) = 4 <=> t = "ipv6"
  BY SMT DEF Code, Byte

\* Four bytes and what follows them.
LEMMA Headed ==
  ASSUME NEW s \in Seq(Byte), Len(s) = 4, NEW t \in Seq(Byte)
  PROVE  /\ s \o t \in Seq(Byte)
         /\ Len(t) \in Nat /\ Len(s \o t) = 4 + Len(t)
         /\ (s \o t)[1] = s[1] /\ (s \o t)[2] = s[2]
         /\ (s \o t)[3] = s[3] /\ (s \o t)[4] = s[4]
<1>1. 1 \in 1..Len(s) /\ 2 \in 1..Len(s) /\ 3 \in 1..Len(s) /\ 4 \in 1..Len(s)
  OBVIOUS
<1>2. \A i \in 1..Len(s) : (s \o t)[i] = s[i]
  BY JoinedAt
<1>3. (s \o t)[1] = s[1] /\ (s \o t)[2] = s[2] /\ (s \o t)[3] = s[3] /\ (s \o t)[4] = s[4]
  BY <1>1, <1>2, ZenonT(90)
<1>4. QED
  BY <1>3, Joined

\* A message of four bytes, a host and a port.
LEMMA Message ==
  ASSUME NEW a, Sized(a), NEW head \in Seq(Byte), Len(head) = 4
  PROVE  LET m == head \o Hosted(a) \o U16ToBytes(a.port)
         IN  /\ m = head \o (Hosted(a) \o U16ToBytes(a.port))
             /\ m \in Seq(Byte)
             /\ Len(m) = 6 + Len(Hosted(a))
             /\ m[1] = head[1] /\ m[2] = head[2] /\ m[3] = head[3] /\ m[4] = head[4]
<1> DEFINE h == Hosted(a)
           u == U16ToBytes(a.port)
<1>1. /\ u \in Seq(Byte) /\ Len(u) = 2
      /\ h \in Seq(Byte) /\ Len(h) \in Nat
  BY SizedFields, AddressFields, HostedType, LenProperties
<1> HIDE DEF h, u
<1> DEFINE r == h \o u
           m == (head \o h) \o u
<1>2. r \in Seq(Byte) /\ Len(r) = Len(h) + 2
  BY <1>1, Joined
<1>3. m = head \o r
  BY <1>1, Regrouped
<1> HIDE DEF r, m
<1>4. /\ m \in Seq(Byte) /\ Len(r) \in Nat /\ Len(m) = 4 + Len(r)
      /\ m[1] = head[1] /\ m[2] = head[2] /\ m[3] = head[3] /\ m[4] = head[4]
  BY <1>2, <1>3, Headed
<1>5. Len(m) = 6 + Len(h)
  BY <1>1, <1>2, <1>4
<1>6. QED
  BY <1>3, <1>4, <1>5 DEF r, m, h, u

-----------------------------------------------------------------------------
(* Parsing.                                                                *)

LEMMA ReadsType ==
  ASSUME NEW cmd \in Seq(Byte), NEW from \in Int, NEW to \in Int, NEW end \in 0..Len(cmd),
         NEW n \in Nat, n = to - from + 1,
         NEW r \in Reads(cmd, from, to, end)
  PROVE  r \in Seq(Byte) /\ Len(r) = n
<1>1. PICK stray \in [1..n -> Stray] :
             r = [i \in 1..n |-> IF from + i - 1 \in 1..end THEN cmd[from + i - 1] ELSE stray[i]]
  BY DEF Reads
<1>2. Len(cmd) \in Nat /\ \A i \in 1..Len(cmd) : cmd[i] \in Byte
  BY LenProperties, ElementOfSeq
<1>3. ASSUME NEW i \in 1..n
      PROVE  (IF from + i - 1 \in 1..end THEN cmd[from + i - 1] ELSE stray[i]) \in Byte
  <2>1. CASE from + i - 1 \in 1..end
    <3>1. from + i - 1 \in 1..Len(cmd)
      BY <1>2, <2>1
    <3>2. QED
      BY <1>2, <2>1, <3>1
  <2>2. CASE from + i - 1 \notin 1..end
    BY <1>1, <2>2, Numbers
  <2>3. QED
    BY <2>1, <2>2
<1>4. r \in [1..n -> Byte]
  BY <1>1, <1>3
<1>5. QED
  BY <1>4, SMT

LEMMA ReadsSome ==
  ASSUME NEW cmd, NEW from, NEW to, NEW end
  PROVE  Reads(cmd, from, to, end) # {}
<1>1. PICK s : s \in Stray
  BY Numbers
<1>2. [i \in 1..(to - from + 1) |-> s] \in [1..(to - from + 1) -> Stray]
  BY <1>1
<1>3. QED
  BY <1>2 DEF Reads

\* A read that stays inside the vector finds what is there.
LEMMA ReadsInside ==
  ASSUME NEW cmd, NEW from \in Nat \ {0}, NEW to \in Nat, NEW end \in Nat, to <= end,
         NEW r \in Reads(cmd, from, to, end)
  PROVE  r = [i \in 1..(to - from + 1) |-> cmd[from + i - 1]]
<1> DEFINE n == to - from + 1
<1>1. PICK stray \in [1..n -> Stray] :
             r = [i \in 1..n |-> IF from + i - 1 \in 1..end THEN cmd[from + i - 1] ELSE stray[i]]
  BY DEF Reads
<1>2. \A i \in 1..n : from + i - 1 \in 1..end
  OBVIOUS
<1>3. QED
  BY <1>1, <1>2

\* The four bytes after the first one.
LEMMA HostReads ==
  ASSUME NEW cmd \in Seq(Byte), NEW end \in 0..Len(cmd), NEW r \in Reads(cmd, 2, 5, end)
  PROVE  r \in Seq(Byte) /\ Len(r) = 4
<1> DEFINE from == 2
           to == 5
           n == 4
<1>1. /\ from \in Int /\ to \in Int /\ n \in Nat /\ n = to - from + 1
      /\ r \in Reads(cmd, from, to, end)
  OBVIOUS
<1> HIDE DEF from, to, n
<1>2. r \in Seq(Byte) /\ Len(r) = n
  BY <1>1, ReadsType
<1>3. QED
  BY <1>2 DEF n

LEMMA PortsType ==
  ASSUME NEW cmd \in Seq(Byte), NEW p \in Ports(cmd)
  PROVE  p \in UInt16
<1>1. Len(cmd) \in Nat
  BY LenProperties
<1>2. PICK two \in Reads(cmd, Len(cmd) - 1, Len(cmd), Len(cmd)) : p = ToShort(two)
  BY DEF Ports
<1>3. two \in Seq(Byte) /\ Len(two) = 2
  <2> DEFINE from == Len(cmd) - 1
             to == Len(cmd)
             end == Len(cmd)
             n == 2
  <2>1. /\ from \in Int /\ to \in Int /\ end \in 0..Len(cmd) /\ n \in Nat /\ n = to - from + 1
        /\ two \in Reads(cmd, from, to, end)
    BY <1>1
  <2> HIDE DEF from, to, end, n
  <2>2. two \in Seq(Byte) /\ Len(two) = n
    BY <2>1, ReadsType
  <2>3. QED
    BY <2>2 DEF n
<1>4. two[1] \in Byte /\ two[2] \in Byte
  BY <1>3, ElementOfSeq, 1 \in 1..2, 2 \in 1..2
<1>5. QED
  BY <1>2, <1>4, ToShortType

LEMMA NameType ==
  ASSUME NEW cmd \in Seq(Byte)
  PROVE  Name(cmd) \in Seq(Byte)
<1>1. Len(cmd) \in Nat
  BY LenProperties
<1>2. CASE Len(cmd) > 2 /\ cmd[2] + 2 < Len(cmd)
  <2>1. cmd[2] \in Byte
    BY <1>1, <1>2, ElementOfSeq, 2 \in 1..Len(cmd)
  <2>2. cmd[2] \in Nat
    BY <2>1, ByteRange
  <2>3. 3 \in 1..Len(cmd) + 1 /\ cmd[2] + 2 \in 0..Len(cmd)
    BY <1>1, <1>2, <2>2
  <2>4. QED
    BY <1>2, <2>3, Slices DEF Name
<1>3. CASE ~(Len(cmd) > 2 /\ cmd[2] + 2 < Len(cmd))
  BY <1>3, EmptySeq DEF Name
<1>4. QED
  BY <1>2, <1>3

LEMMA TypedMember ==
  ASSUME NEW t, NEW hosts, NEW ports, NEW a \in Typed(t, hosts, ports)
  PROVE  /\ a = [type |-> t, host |-> a.host, port |-> a.port]
         /\ a.type = t /\ a.host \in hosts /\ a.port \in ports
  BY DEF Typed

LEMMA TypedAddress ==
  ASSUME NEW t \in {"ipv4", "domain", "ipv6"}, NEW h \in Seq(Byte), NEW p \in UInt16
  PROVE  [type |-> t, host |-> h, port |-> p] \in AddressType
  BY DEF AddressType

\* Whatever the bytes are, an address comes out of them, of the type the first one says.
LEMMA ParsedType ==
  ASSUME NEW cmd \in Seq(Byte), Len(cmd) >= 1, NEW a \in FromSocks5CommandStream(cmd)
  PROVE  /\ a \in AddressType
         /\ a.type = "ipv4" => cmd[1] = 1
         /\ a.type = "unknown" => a = NoAddr /\ cmd[1] \notin {1, 3, 4}
         /\ a.type = "ipv6" => cmd[1] = 4
<1>1. Len(cmd) \in Nat
  BY LenProperties
<1>2. CASE cmd[1] = 1
  <2>1. a \in Typed("ipv4", Reads(cmd, 2, 5, Len(cmd)), Ports(cmd))
    BY <1>2 DEF FromSocks5CommandStream
  <2>2. a.host \in Seq(Byte)
    <3>1. Len(cmd) \in 0..Len(cmd)
      BY <1>1
    <3>2. a.host \in Reads(cmd, 2, 5, Len(cmd))
      BY <2>1, TypedMember
    <3>3. QED
      BY <3>1, <3>2, HostReads
  <2>3. a.port \in UInt16 /\ a = [type |-> "ipv4", host |-> a.host, port |-> a.port] /\ a.type = "ipv4"
    BY <2>1, TypedMember, PortsType
  <2>4. QED
    BY <1>2, <2>2, <2>3, TypedAddress
<1>3. CASE cmd[1] = 3
  <2>1. a \in Typed("domain", {Name(cmd)}, Ports(cmd))
    BY <1>3 DEF FromSocks5CommandStream
  <2>2. a.host \in Seq(Byte)
    BY <2>1, TypedMember, NameType
  <2>3. a.port \in UInt16 /\ a = [type |-> "domain", host |-> a.host, port |-> a.port] /\ a.type = "domain"
    BY <2>1, TypedMember, PortsType
  <2>4. QED
    BY <1>3, <2>2, <2>3, TypedAddress
<1>4. CASE cmd[1] = 4
  <2>1. Len(cmd) >= 4 /\ a \in Typed("ipv6", Reads(cmd, 2, 5, Len(cmd) - 2), Ports(cmd))
    BY <1>1, <1>4 DEF FromSocks5CommandStream
  <2>2. a.host \in Seq(Byte)
    <3>1. Len(cmd) - 2 \in 0..Len(cmd)
      BY <1>1, <2>1
    <3>2. a.host \in Reads(cmd, 2, 5, Len(cmd) - 2)
      BY <2>1, TypedMember
    <3>3. QED
      BY <3>1, <3>2, HostReads
  <2>3. a.port \in UInt16 /\ a = [type |-> "ipv6", host |-> a.host, port |-> a.port] /\ a.type = "ipv6"
    BY <2>1, TypedMember, PortsType
  <2>4. QED
    BY <1>4, <2>2, <2>3, TypedAddress
<1>5. CASE cmd[1] \notin {1, 3, 4}
  <2>1. a = Unknown
    BY <1>5 DEF FromSocks5CommandStream
  <2>2. QED
    BY <1>5, <2>1, UnknownAddress DEF NoAddr
<1>6. QED
  BY <1>2, <1>3, <1>4, <1>5

\* The bytes of an address as the parser is given them.
Offer(a) == << Code(a.type) >> \o (Hosted(a) \o U16ToBytes(a.port))

LEMMA Offered ==
  ASSUME NEW a, Sized(a), NEW cmd, cmd = Offer(a)
  PROVE  /\ cmd \in Seq(Byte)
         /\ Len(Hosted(a)) \in Nat /\ Len(cmd) = Len(Hosted(a)) + 3
         /\ cmd[1] = Code(a.type)
         /\ \A i \in 1..Len(Hosted(a)) : cmd[1 + i] = Hosted(a)[i]
         /\ \A i \in 1..2 : cmd[Len(cmd) - 2 + i] = U16ToBytes(a.port)[i]
<1> DEFINE k == << Code(a.type) >>
           h == Hosted(a)
           u == U16ToBytes(a.port)
           r == h \o u
<1>1. Code(a.type) \in Byte
  BY SizedFields, AddressFields, CodeType
<1>2. k \in Seq(Byte) /\ Len(k) = 1 /\ k[1] = Code(a.type)
  BY <1>1, OneByte
<1>3. /\ u \in Seq(Byte) /\ Len(u) = 2
      /\ h \in Seq(Byte) /\ Len(h) \in Nat
  BY SizedFields, AddressFields, HostedType, LenProperties
<1>4. cmd = k \o r
  BY DEF Offer
<1> HIDE DEF k, h, u
<1>5. /\ r \in Seq(Byte) /\ Len(r) = Len(h) + 2
      /\ \A i \in 1..Len(h) : r[i] = h[i]
      /\ \A i \in 1..Len(u) : r[Len(h) + i] = u[i]
  <2>1. r \in Seq(Byte) /\ Len(r) = Len(h) + 2
    BY <1>3, Joined
  <2>2. /\ \A i \in 1..Len(h) : (h \o u)[i] = h[i]
        /\ \A i \in 1..Len(u) : (h \o u)[Len(h) + i] = u[i]
    BY <1>3, JoinedAt, ZenonT(90)
  <2>3. QED
    BY <2>1, <2>2, ZenonT(90)
<1> HIDE DEF r
<1>6. /\ cmd \in Seq(Byte) /\ Len(cmd) = 1 + Len(r)
      /\ \A i \in 1..Len(k) : cmd[i] = k[i]
      /\ \A i \in 1..Len(r) : cmd[Len(k) + i] = r[i]
  <2>1. k \o r \in Seq(Byte) /\ Len(k \o r) = 1 + Len(r)
    BY <1>2, <1>5, Joined
  <2>2. /\ \A i \in 1..Len(k) : (k \o r)[i] = k[i]
        /\ \A i \in 1..Len(r) : (k \o r)[Len(k) + i] = r[i]
    BY <1>2, <1>5, JoinedAt, ZenonT(90)
  <2>3. QED
    BY <1>4, <2>1, <2>2, ZenonT(90)
<1>7. cmd[1] = k[1]
  BY <1>2, <1>6, 1 \in 1..1
<1>8. ASSUME NEW i \in 1..Len(h)
      PROVE  cmd[1 + i] = h[i]
  <2>1. i \in 1..Len(r)
    BY <1>3, <1>5
  <2>2. cmd[Len(k) + i] = r[i] /\ r[i] = h[i]
    BY <1>5, <1>6, <2>1
  <2>3. QED
    BY <1>2, <2>2
<1>9. ASSUME NEW i \in 1..2
      PROVE  cmd[Len(cmd) - 2 + i] = u[i]
  <2>1. Len(h) + i \in 1..Len(r) /\ i \in 1..Len(u)
    BY <1>3, <1>5
  <2>2. cmd[Len(k) + (Len(h) + i)] = r[Len(h) + i] /\ r[Len(h) + i] = u[i]
    BY <1>5, <1>6, <2>1
  <2>3. Len(k) + (Len(h) + i) = Len(cmd) - 2 + i
    BY <1>2, <1>3, <1>5, <1>6
  <2>4. QED
    BY <2>2, <2>3
<1>10. QED
  BY <1>2, <1>3, <1>5, <1>6, <1>7, <1>8, <1>9 DEF h, u

LEMMA SameSeq ==
  ASSUME NEW s, NEW t \in Seq(Byte), NEW n \in Nat, Len(t) = n,
         s = [i \in 1..n |-> s[i]], \A i \in 1..n : s[i] = t[i]
  PROVE  s = t
<1>1. t = [i \in 1..n |-> t[i]]
  BY SMT
<1>2. QED
  BY <1>1

\* A command for an IPv4 address or a name is understood as it was meant.
LEMMA ParsedBack ==
  ASSUME NEW a, Sized(a), a.type \in {"ipv4", "domain"},
         NEW cmd, cmd = Offer(a),
         NEW t \in FromSocks5CommandStream(cmd)
  PROVE  t = a
<1>1. /\ a = [type |-> a.type, host |-> a.host, port |-> a.port]
      /\ a.host \in Seq(Byte) /\ Len(a.host) \in 1..255 /\ a.port \in UInt16
      /\ a.type = "ipv4" => Len(a.host) = 4
      /\ U16ToBytes(a.port) \in Seq(Byte) /\ Len(U16ToBytes(a.port)) = 2
      /\ ToShort(U16ToBytes(a.port)) = a.port
  BY SizedFields, AddressFields, PortBytes, SMTT(60) DEF AddressType
<1>2. /\ cmd \in Seq(Byte) /\ cmd[1] = Code(a.type)
      /\ Len(Hosted(a)) \in Nat /\ Len(cmd) = Len(Hosted(a)) + 3
      /\ \A i \in 1..Len(Hosted(a)) : cmd[1 + i] = Hosted(a)[i]
      /\ \A i \in 1..2 : cmd[Len(cmd) - 2 + i] = U16ToBytes(a.port)[i]
  BY Offered
<1>3. ASSUME NEW p \in Ports(cmd)
      PROVE  p = a.port
  <2> DEFINE from == Len(cmd) - 1
  <2>1. PICK two \in Reads(cmd, from, Len(cmd), Len(cmd)) : p = ToShort(two)
    BY DEF Ports
  <2>2. from \in Nat \ {0} /\ Len(cmd) \in Nat /\ Len(cmd) <= Len(cmd) /\ Len(cmd) - from + 1 = 2
    BY <1>2
  <2>3. \A i \in 1..2 : from + i - 1 = Len(cmd) - 2 + i
    BY <1>2
  <2> HIDE DEF from
  <2>4. two = [i \in 1..(Len(cmd) - from + 1) |-> cmd[from + i - 1]]
    BY <2>2, ReadsInside
  <2>5. \A i \in 1..2 : two[i] = U16ToBytes(a.port)[i]
    BY <1>2, <2>2, <2>3, <2>4
  <2>6. two[1] = U16ToBytes(a.port)[1] /\ two[2] = U16ToBytes(a.port)[2]
    BY <2>5, 1 \in 1..2, 2 \in 1..2
  <2>7. QED
    BY <1>1, <2>1, <2>6 DEF ToShort
<1>4. CASE a.type = "ipv4"
  <2>1. cmd[1] = 1
    BY <1>2, <1>4, CodeType
  <2>2. t \in Typed("ipv4", Reads(cmd, 2, 5, Len(cmd)), Ports(cmd))
    BY <2>1 DEF FromSocks5CommandStream
  <2>3. Len(Hosted(a)) = 4 /\ Hosted(a) = a.host
    BY <1>1, <1>4, HostedType, ConcatEmptySeq DEF Hosted
  <2>4. t.host = [i \in 1..(5 - 2 + 1) |-> cmd[2 + i - 1]]
    <3>1. 2 \in Nat \ {0} /\ 5 \in Nat /\ Len(cmd) \in Nat /\ 5 <= Len(cmd)
      BY <1>2, <2>3
    <3>2. t.host \in Reads(cmd, 2, 5, Len(cmd))
      BY <2>2, TypedMember
    <3>3. QED
      BY <3>1, <3>2, ReadsInside
  <2>5. t.host = a.host
    <3>1. t.host = [i \in 1..4 |-> t.host[i]] /\ \A i \in 1..4 : t.host[i] = cmd[1 + i]
      <4>1. 5 - 2 + 1 = 4 /\ \A i \in 1..4 : 2 + i - 1 = 1 + i
        OBVIOUS
      <4>2. t.host = [i \in 1..4 |-> cmd[1 + i]]
        BY <2>4, <4>1
      <4>3. QED
        BY <4>2
    <3>2. \A i \in 1..4 : t.host[i] = a.host[i]
      BY <1>2, <2>3, <3>1
    <3>3. QED
      BY <1>1, <1>4, <3>1, <3>2, SameSeq
  <2>6. QED
    BY <1>1, <1>3, <1>4, <2>2, <2>5, TypedMember, SMTT(60)
<1>5. CASE a.type = "domain"
  <2>1. cmd[1] = 3
    BY <1>2, <1>5, CodeType
  <2>2. t \in Typed("domain", {Name(cmd)}, Ports(cmd))
    BY <2>1 DEF FromSocks5CommandStream
  <2>3. Hosted(a) = << Len(a.host) >> \o a.host /\ Len(Hosted(a)) = Len(a.host) + 1
    BY <1>1, <1>5, HostedType DEF Hosted
  <2>4. /\ << Len(a.host) >> \in Seq(Byte) /\ Len(<< Len(a.host) >>) = 1
        /\ << Len(a.host) >>[1] = Len(a.host)
    <3>1. Len(a.host) \in 0..255
      BY <1>1, SMTT(60)
    <3>2. QED
      BY <3>1, SmallNumber, OneByte
  <2>5. Hosted(a)[1] = Len(a.host) /\ \A i \in 1..Len(a.host) : Hosted(a)[1 + i] = a.host[i]
    <3> DEFINE k == << Len(a.host) >>
    <3>1. k \in Seq(Byte) /\ Len(k) = 1 /\ k[1] = Len(a.host) /\ Hosted(a) = k \o a.host
      BY <2>3, <2>4
    <3> HIDE DEF k
    <3>2. /\ \A i \in 1..Len(k) : (k \o a.host)[i] = k[i]
          /\ \A i \in 1..Len(a.host) : (k \o a.host)[Len(k) + i] = a.host[i]
      BY <1>1, <3>1, JoinedAt, ZenonT(90)
    <3>3. QED
      BY <3>1, <3>2, 1 \in 1..1
  <2>6. cmd[2] = Len(a.host)
    <3>1. 1 \in 1..Len(Hosted(a)) /\ 1 + 1 = 2
      BY <1>1, <2>3, SMTT(60)
    <3>2. cmd[1 + 1] = Hosted(a)[1]
      BY <1>2, <3>1, ZenonT(90)
    <3>3. QED
      BY <2>5, <3>1, <3>2
  <2>7. Name(cmd) = SubSeq(cmd, 3, Len(a.host) + 2)
    <3>1. Len(cmd) > 2 /\ cmd[2] + 2 < Len(cmd) /\ cmd[2] + 2 = Len(a.host) + 2
      BY <1>1, <1>2, <2>3, <2>6, SMTT(60)
    <3>2. QED
      BY <3>1, <2>6 DEF Name
  <2>8. /\ SubSeq(cmd, 3, Len(a.host) + 2) \in Seq(Byte)
        /\ Len(SubSeq(cmd, 3, Len(a.host) + 2)) = Len(a.host)
        /\ \A i \in 1..Len(a.host) : SubSeq(cmd, 3, Len(a.host) + 2)[i] = cmd[2 + i]
    <3> DEFINE to == Len(a.host) + 2
    <3>1. 3 \in 1..Len(cmd) + 1 /\ to \in 0..Len(cmd) /\ 3 <= to /\ to - 3 + 1 = Len(a.host)
      <4> DEFINE h == Len(a.host)
                 l == Len(cmd)
                 n == Len(Hosted(a))
      <4> HIDE DEF h, l, n
      <4>1. h \in Nat /\ h >= 1 /\ l \in Nat /\ h + 2 < l
        <5>1. h \in 1..255
          BY <1>1 DEF h
        <5>2. n \in Nat /\ l = n + 3
          BY <1>2 DEF l, n
        <5>3. n = h + 1
          BY <2>3 DEF h, n
        <5>4. QED
          BY <5>1, <5>2, <5>3
      <4>2. 3 \in 1..l + 1 /\ h + 2 \in 0..l /\ 3 <= h + 2 /\ h + 2 - 3 + 1 = h
        BY <4>1
      <4>3. QED
        BY <4>2 DEF h, l
    <3>2. \A i \in 1..Len(a.host) : 3 + i - 1 = 2 + i
      BY <1>1
    <3> HIDE DEF to
    <3>3. /\ SubSeq(cmd, 3, to) \in Seq(Byte)
          /\ Len(SubSeq(cmd, 3, to)) = to - 3 + 1
          /\ \A i \in 1..(to - 3 + 1) : SubSeq(cmd, 3, to)[i] = cmd[3 + i - 1]
      BY <1>2, <3>1, Slices
    <3>4. QED
      BY <3>1, <3>2, <3>3 DEF to
  <2>9. ASSUME NEW i \in 1..Len(a.host)
        PROVE  Name(cmd)[i] = a.host[i]
    <3>1. 1 + i \in 1..Len(Hosted(a)) /\ 1 + (1 + i) = 2 + i
      BY <1>1, <2>3, SMTT(60)
    <3>2. cmd[1 + (1 + i)] = Hosted(a)[1 + i]
      BY <1>2, <3>1
    <3>3. QED
      BY <2>5, <2>7, <2>8, <3>1, <3>2
  <2>10. Name(cmd) = a.host
    <3> DEFINE n == Name(cmd)
               h == a.host
    <3>1. n \in Seq(Byte) /\ h \in Seq(Byte) /\ Len(n) = Len(h) /\ \A i \in 1..Len(n) : n[i] = h[i]
      BY <1>1, <2>7, <2>8, <2>9
    <3> HIDE DEF n, h
    <3>2. n = h
      BY <3>1, SeqEqual
    <3>3. QED
      BY <3>2 DEF n, h
  <2>11. QED
    BY <1>1, <1>3, <1>5, <2>2, <2>10, TypedMember, SMTT(60)
<1>6. QED
  BY <1>4, <1>5

\* Nothing comes out of the bytes of an IPv6 address only if they are too few.
LEMMA ParsedSome ==
  ASSUME NEW cmd \in Seq(Byte), cmd[1] = 4 => Len(cmd) >= 4
  PROVE  FromSocks5CommandStream(cmd) # {}
<1>1. ASSUME NEW t, NEW hosts, NEW ports, hosts # {}, ports # {}
      PROVE  Typed(t, hosts, ports) # {}
  <2>1. PICK h \in hosts, p \in ports : TRUE
    BY <1>1
  <2>2. [type |-> t, host |-> h, port |-> p] \in Typed(t, hosts, ports)
    BY <2>1 DEF Typed
  <2>3. QED
    BY <2>2
<1>2. Ports(cmd) # {}
  BY ReadsSome DEF Ports
<1>3. /\ Typed("ipv4", Reads(cmd, 2, 5, Len(cmd)), Ports(cmd)) # {}
      /\ Typed("domain", {Name(cmd)}, Ports(cmd)) # {}
      /\ Typed("ipv6", Reads(cmd, 2, 5, Len(cmd) - 2), Ports(cmd)) # {}
  BY <1>1, <1>2, ReadsSome
<1>4. ~(Len(cmd) < 4) \/ cmd[1] # 4
  BY LenProperties
<1>5. CASE cmd[1] = 1
  BY <1>3, <1>5 DEF FromSocks5CommandStream
<1>6. CASE cmd[1] = 3
  <2>1. FromSocks5CommandStream(cmd) = Typed("domain", {Name(cmd)}, Ports(cmd))
    BY <1>6 DEF FromSocks5CommandStream
  <2>2. QED
    BY <1>3, <2>1
<1>7. CASE cmd[1] = 4
  BY <1>3, <1>4, <1>7 DEF FromSocks5CommandStream
<1>8. CASE cmd[1] \notin {1, 3, 4}
  BY <1>8 DEF FromSocks5CommandStream
<1>9. QED
  BY <1>5, <1>6, <1>7, <1>8

\* The bytes of such a message are what the parser is given of it.
Worded(x, y, z, a) == << x, y, z, Code(a.type) >> \o Hosted(a) \o U16ToBytes(a.port)

WellWorded(m, x, y, a) ==
  /\ m \in Seq(Byte)
  /\ Len(m) = 6 + Len(Hosted(a)) /\ Len(Hosted(a)) \in Nat
  /\ m[1] = x /\ m[2] = y /\ m[4] = Code(a.type)
  /\ SubSeq(m, 4, Len(m)) = Offer(a)

LEMMA MessageOffers ==
  ASSUME NEW a, Sized(a), NEW x \in Byte, NEW y \in Byte, NEW z \in Byte
  PROVE  WellWorded(Worded(x, y, z, a), x, y, a)
<1> DEFINE m == Worded(x, y, z, a)
           head == << x, y, z, Code(a.type) >>
           three == << x, y, z >>
           k == << Code(a.type) >>
           r == Hosted(a) \o U16ToBytes(a.port)
<1>1. Code(a.type) \in Byte
  BY SizedFields, AddressFields, CodeType
<1>2. /\ head \in Seq(Byte) /\ Len(head) = 4
      /\ head[1] = x /\ head[2] = y /\ head[4] = Code(a.type)
      /\ three \in Seq(Byte) /\ Len(three) = 3
      /\ k \in Seq(Byte)
  BY <1>1, SMT
<1>3. head = three \o k
  BY <1>1, SMT
<1>4. r \in Seq(Byte) /\ Len(Hosted(a)) \in Nat
  BY SizedFields, AddressFields, HostedType, Joined
<1>5. m = head \o Hosted(a) \o U16ToBytes(a.port) /\ Offer(a) = k \o r
  BY DEF Offer, Worded
<1> HIDE DEF m, head, three, k
<1>6. /\ m = head \o r
      /\ m \in Seq(Byte) /\ Len(m) = 6 + Len(Hosted(a))
      /\ m[1] = head[1] /\ m[2] = head[2] /\ m[4] = head[4]
  BY <1>2, <1>5, Message, ZenonT(90)
<1> HIDE DEF r
<1>7. Offer(a) \in Seq(Byte)
  BY <1>2, <1>4, <1>5, Joined
<1>8. m = three \o Offer(a)
  <2>1. (three \o k) \o r = three \o (k \o r)
    BY <1>2, <1>4, Regrouped
  <2>2. QED
    BY <1>3, <1>5, <1>6, <2>1, ZenonT(90)
<1>9. SubSeq(m, 4, Len(m)) = Offer(a)
  <2>1. 4 = Len(three) + 1
    BY <1>2
  <2>2. SubSeq(three \o Offer(a), 4, Len(three \o Offer(a))) = Offer(a)
    BY <1>2, <1>7, <2>1, Rest
  <2>3. QED
    BY <1>8, <2>2
<1>10. QED
  BY <1>2, <1>4, <1>6, <1>9 DEF m, WellWorded

LEMMA CommandBytes ==
  ASSUME NEW c \in Commands
  PROVE  /\ Command(c) \in Seq(Byte)
         /\ Len(Command(c)) \in Nat /\ Len(Command(c)) >= 7
         /\ Command(c)[1] = 5 /\ Command(c)[2] = c.cmd /\ Command(c)[4] = Code(c.target.type)
         /\ SubSeq(Command(c), 4, Len(Command(c))) = Offer(c.target)
<1>1. Sized(c.target) /\ c.cmd \in Byte
  BY CommandsAssumption
<1>2. 5 \in Byte /\ 0 \in Byte
  BY SMT DEF Byte
<1>3. Len(Hosted(c.target)) \in Nat /\ Len(Hosted(c.target)) >= 1
  <2> DEFINE n == Len(c.target.host)
             h == Len(Hosted(c.target))
  <2>1. n \in 1..255
    BY <1>1, SizedFields
  <2>2. h = n + 1 \/ h = n + 0
    BY <1>1, HostedType
  <2> HIDE DEF n, h
  <2>3. h \in Nat /\ h >= 1
    BY <2>1, <2>2
  <2>4. QED
    BY <2>3 DEF h
<1>4. Command(c) = Worded(5, c.cmd, 0, c.target)
  BY DEF Command, Worded
<1>5. /\ Command(c) \in Seq(Byte)
      /\ Len(Command(c)) = 6 + Len(Hosted(c.target))
      /\ Command(c)[1] = 5 /\ Command(c)[2] = c.cmd /\ Command(c)[4] = Code(c.target.type)
      /\ SubSeq(Command(c), 4, Len(Command(c))) = Offer(c.target)
  <2>1. WellWorded(Command(c), 5, c.cmd, c.target)
    BY <1>1, <1>2, <1>4, MessageOffers
  <2>2. QED
    BY <2>1 DEF WellWorded
<1>6. QED
  BY <1>3, <1>5

LEMMA BoundBytes ==
  ASSUME NEW b \in Bounds
  PROVE  /\ FarBound(b) \in Seq(Byte)
         /\ Len(FarBound(b)) \in Nat
         /\ FarBound(b)[4] = 1 => Len(FarBound(b)) = 10
<1>1. Sized(b)
  BY BoundsAssumption
<1>2. 5 \in Byte /\ 0 \in Byte
  BY SMT DEF Byte
<1>3. FarBound(b) = Worded(5, 0, 0, b)
  BY DEF FarBound, Worded
<1>4. /\ FarBound(b) \in Seq(Byte)
      /\ Len(FarBound(b)) = 6 + Len(Hosted(b)) /\ Len(Hosted(b)) \in Nat
      /\ FarBound(b)[4] = Code(b.type)
  <2>1. WellWorded(FarBound(b), 5, 0, b)
    BY <1>1, <1>2, <1>3, MessageOffers
  <2>2. QED
    BY <2>1 DEF WellWorded
<1>5. ASSUME FarBound(b)[4] = 1
      PROVE  Len(FarBound(b)) = 10
  <2>1. b.type = "ipv4"
    BY <1>1, <1>4, <1>5, SizedFields, AddressFields, CodeType
  <2>2. Len(b.host) = 4 /\ Len(Hosted(b)) = Len(b.host) + 0
    BY <1>1, <2>1, SizedFields, HostedType
  <2>3. QED
    BY <1>4, <2>2
<1>6. QED
  BY <1>4, <1>5

LEMMA RefusalBytes ==
  ASSUME NEW code \in Byte
  PROVE  /\ Refusal(code) \in Seq(Byte) /\ Len(Refusal(code)) = 10
         /\ Refusal(code)[2] = code
<1>1. 0 \in Byte /\ 1 \in Byte /\ 5 \in Byte
  BY SMT DEF Byte
<1>2. QED
  BY <1>1, SMT DEF Refusal

-----------------------------------------------------------------------------
(* Packing.                                                                *)

\* Three bytes, a kind and possibly a length, a host, a port.
Packed(k, raw, u) == << 5, 0, 0 >> \o (k \o raw) \o u

WellPacked(ss, k, raw, u) ==
  /\ ss \in Seq(Byte)
  /\ Len(ss) = 3 + Len(k) + Len(raw) + 2 /\ Len(raw) \in Nat
  /\ ss[2] = 0 /\ ss[3] = 0 /\ ss[4] = k[1]
  /\ SubSeq(ss, 4 + Len(k), Len(ss)) = raw \o u

LEMMA PackedForm ==
  ASSUME NEW k \in Seq(Byte), Len(k) \in {1, 2}, NEW raw \in Seq(Byte),
         NEW u \in Seq(Byte), Len(u) = 2
  PROVE  WellPacked(Packed(k, raw, u), k, raw, u)
<1> DEFINE three == << 5, 0, 0 >>
           ss == Packed(k, raw, u)
           head == three \o k
           r == raw \o u
           kr == k \o raw
<1>1. three \in Seq(Byte) /\ Len(three) = 3 /\ three[2] = 0 /\ three[3] = 0
  <2>1. 0 \in Byte /\ 5 \in Byte
    BY SMT DEF Byte
  <2>2. QED
    BY <2>1, SMT
<1>2. ss = (three \o (k \o raw)) \o u
  BY DEF Packed
<1> HIDE DEF three, ss
<1>3. three \o (k \o raw) = head \o raw
  BY <1>1, Regrouped
<1>4. head \in Seq(Byte) /\ Len(head) = 3 + Len(k)
  BY <1>1, Joined
<1>5. head[2] = 0 /\ head[3] = 0 /\ head[4] = k[1]
  <2>1. /\ \A i \in 1..Len(three) : (three \o k)[i] = three[i]
        /\ \A i \in 1..Len(k) : (three \o k)[Len(three) + i] = k[i]
    BY <1>1, JoinedAt, ZenonT(90)
  <2>2. 2 \in 1..Len(three) /\ 3 \in 1..Len(three) /\ 1 \in 1..Len(k) /\ Len(three) + 1 = 4
    <3> DEFINE x == Len(three)
               y == Len(k)
    <3>1. x = 3 /\ (y = 1 \/ y = 2)
      BY <1>1
    <3> HIDE DEF x, y
    <3>2. 2 \in 1..x /\ 3 \in 1..x /\ 1 \in 1..y /\ x + 1 = 4
      BY <3>1
    <3>3. QED
      BY <3>2 DEF x, y
  <2>3. head[2] = three[2] /\ head[3] = three[3]
    BY <2>1, <2>2, ZenonT(90)
  <2>4. head[Len(three) + 1] = k[1]
    BY <2>1, <2>2, ZenonT(90)
  <2>5. QED
    BY <1>1, <2>2, <2>3, <2>4
<1>6. ss = (head \o raw) \o u
  BY <1>2, <1>3
<1> HIDE DEF head
<1>7. ss = head \o r
  BY <1>4, <1>6, Regrouped
<1>8. r \in Seq(Byte) /\ Len(r) = Len(raw) + 2 /\ Len(raw) \in Nat
  BY Joined, ZenonT(90)
<1> HIDE DEF r
<1>9. ss \in Seq(Byte) /\ Len(ss) = Len(head) + Len(r)
  BY <1>4, <1>7, <1>8, Joined
<1>10. ss[2] = 0 /\ ss[3] = 0 /\ ss[4] = k[1]
  <2>1. \A i \in 1..Len(head) : (head \o r)[i] = head[i]
    BY <1>4, <1>8, JoinedAt, ZenonT(90)
  <2>2. 2 \in 1..Len(head) /\ 3 \in 1..Len(head) /\ 4 \in 1..Len(head)
    <3> DEFINE x == Len(head)
    <3>1. x = 4 \/ x = 5
      <4> DEFINE y == Len(k)
      <4>1. x = 3 + y /\ (y = 1 \/ y = 2)
        BY <1>4
      <4> HIDE DEF x, y
      <4>2. QED
        BY <4>1
    <3> HIDE DEF x
    <3>2. 2 \in 1..x /\ 3 \in 1..x /\ 4 \in 1..x
      BY <3>1
    <3>3. QED
      BY <3>2 DEF x
  <2>3. ss[2] = head[2] /\ ss[3] = head[3] /\ ss[4] = head[4]
    BY <1>7, <2>1, <2>2, ZenonT(90)
  <2>4. QED
    BY <1>5, <2>3, ZenonT(90)
<1>11. SubSeq(ss, 4 + Len(k), Len(ss)) = r
  <2>1. 4 + Len(k) = Len(head) + 1
    BY <1>4
  <2>2. SubSeq(head \o r, Len(head) + 1, Len(head \o r)) = r
    BY <1>4, <1>8, Rest
  <2>3. QED
    BY <1>7, <2>1, <2>2
<1>12. Len(ss) = 3 + Len(k) + Len(raw) + 2
  BY <1>4, <1>8, <1>9
<1>13. QED
  BY <1>8, <1>9, <1>10, <1>11, <1>12 DEF WellPacked, ss, r

LEMMA RawType ==
  ASSUME NEW a \in AddressType, NEW raw \in ToRawIPv6(a)
  PROVE  raw \in Seq(Byte)
<1>1. CASE Len(a.host) = 16
  BY <1>1, AddressFields DEF ToRawIPv6
<1>2. CASE Len(a.host) # 16
  <2>1. PICK s \in Stray : raw = [i \in 1..16 |-> s]
    BY <1>2 DEF ToRawIPv6
  <2>2. s \in Byte
    BY Numbers
  <2>3. QED
    BY <2>1, <2>2, SMT
<1>3. QED
  BY <1>1, <1>2

\* The kind of a host in a packed address, with the length of a name.
Kind(a) == CASE a.type = "ipv4"   -> << 1 >>
             [] a.type = "domain" -> << 3, Len(a.host) % 256 >>
             [] OTHER             -> << 4 >>

LEMMA KindType ==
  ASSUME NEW a \in AddressType, a.type # "unknown"
  PROVE  /\ Kind(a) \in Seq(Byte)
         /\ Len(Kind(a)) = IF a.type = "domain" THEN 2 ELSE 1
         /\ Kind(a)[1] = Code(a.type)
<1>1. 1 \in Byte /\ 3 \in Byte /\ 4 \in Byte /\ Len(a.host) % 256 \in Byte
  <2>1. 1 \in Byte /\ 3 \in Byte /\ 4 \in Byte
    BY SMT DEF Byte
  <2>2. Len(a.host) % 256 \in Byte
    BY AddressFields, Numbers
  <2>3. QED
    BY <2>1, <2>2
<1>2. CASE a.type = "ipv4"
  BY <1>1, <1>2, OneByte DEF Kind, Code
<1>3. CASE a.type = "ipv6"
  BY <1>1, <1>3, OneByte DEF Kind, Code
<1>4. CASE a.type = "domain"
  <2>1. Kind(a) = << 3, Len(a.host) % 256 >>
    BY <1>4 DEF Kind
  <2>2. Code(a.type) = 3
    BY <1>4 DEF Code
  <2> DEFINE x == 3
             y == Len(a.host) % 256
  <2>3. x \in Byte /\ y \in Byte /\ Kind(a) = << x, y >>
    BY <1>1, <2>1
  <2> HIDE DEF x, y
  <2>4. Kind(a) \in Seq(Byte) /\ Len(Kind(a)) = 2 /\ Kind(a)[1] = x
    BY <2>3, TwoBytes
  <2>5. QED
    BY <1>4, <2>2, <2>4 DEF x
<1>5. QED
  BY <1>2, <1>3, <1>4, AddressFields

\* What an address is packed into; only the host of an IPv6 one may be another.
LEMMA PackedAddress ==
  ASSUME NEW a \in AddressType, NEW ss \in PackSocks5Address(a)
  PROVE  /\ a.type = "unknown" => ss = << >>
         /\ a.type # "unknown" =>
              \E raw \in Seq(Byte) :
                /\ a.type # "ipv6" => raw = a.host
                /\ WellPacked(ss, Kind(a), raw, U16ToBytes(a.port))
<1>1. CASE a.type = "unknown"
  BY <1>1 DEF PackSocks5Address
<1>2. CASE a.type # "unknown"
  <2>1. \E raw \in Seq(Byte) : /\ a.type # "ipv6" => raw = a.host
                               /\ ss = Packed(Kind(a), raw, U16ToBytes(a.port))
    <3>1. CASE a.type = "ipv4"
      <4>1. ss = << 5, 0, 0 >> \o (<< 1 >> \o a.host) \o U16ToBytes(a.port)
        BY <3>1 DEF PackSocks5Address
      <4>2. Kind(a) = << 1 >>
        BY <3>1 DEF Kind
      <4>3. QED
        BY <4>1, <4>2, AddressFields DEF Packed
    <3>2. CASE a.type = "domain"
      <4>1. ss = << 5, 0, 0 >> \o (<< 3, Len(a.host) % 256 >> \o a.host) \o U16ToBytes(a.port)
        BY <3>2 DEF PackSocks5Address
      <4>2. Kind(a) = << 3, Len(a.host) % 256 >>
        BY <3>2 DEF Kind
      <4>3. QED
        BY <4>1, <4>2, AddressFields DEF Packed
    <3>3. CASE a.type = "ipv6"
      <4>1. PICK raw \in ToRawIPv6(a) : ss = << 5, 0, 0 >> \o (<< 4 >> \o raw) \o U16ToBytes(a.port)
        BY <3>3 DEF PackSocks5Address
      <4>2. Kind(a) = << 4 >>
        BY <3>3 DEF Kind
      <4>3. QED
        BY <3>3, <4>1, <4>2, RawType DEF Packed
    <3>4. QED
      BY <1>2, <3>1, <3>2, <3>3, AddressFields
  <2>2. PICK raw \in Seq(Byte) : /\ a.type # "ipv6" => raw = a.host
                                 /\ ss = Packed(Kind(a), raw, U16ToBytes(a.port))
    BY <2>1
  <2>3. Kind(a) \in Seq(Byte) /\ Len(Kind(a)) \in {1, 2}
    BY <1>2, KindType
  <2>4. U16ToBytes(a.port) \in Seq(Byte) /\ Len(U16ToBytes(a.port)) = 2
    BY AddressFields
  <2>5. WellPacked(ss, Kind(a), raw, U16ToBytes(a.port))
    BY <2>2, <2>3, <2>4, PackedForm
  <2>6. QED
    BY <1>2, <2>2, <2>5
<1>3. QED
  BY <1>1, <1>2

LEMMA PackedSome ==
  ASSUME NEW a \in AddressType
  PROVE  PackSocks5Address(a) # {}
<1>1. PICK s : s \in Stray
  BY Numbers
<1>2. ToRawIPv6(a) # {}
  BY <1>1 DEF ToRawIPv6
<1>3. QED
  BY <1>2, AddressFields DEF PackSocks5Address

\* A read inside the vector has one result, whatever the memory beside it holds.
LEMMA ReadsAlike ==
  ASSUME NEW cmd, NEW from \in Nat \ {0}, NEW to \in Nat, NEW end \in Nat, to <= end,
         NEW x \in Reads(cmd, from, to, end), NEW y \in Reads(cmd, from, to, end)
  PROVE  x = y
<1>1. x = [i \in 1..(to - from + 1) |-> cmd[from + i - 1]]
  BY ReadsInside
<1>2. y = [i \in 1..(to - from + 1) |-> cmd[from + i - 1]]
  BY ReadsInside
<1>3. QED
  BY <1>1, <1>2

LEMMA HostReadsAlike ==
  ASSUME NEW cmd, NEW end \in Nat, 5 <= end,
         NEW x \in Reads(cmd, 2, 5, end), NEW y \in Reads(cmd, 2, 5, end)
  PROVE  x = y
<1> DEFINE from == 2
           to == 5
<1>1. /\ from \in Nat \ {0} /\ to \in Nat /\ to <= end
      /\ x \in Reads(cmd, from, to, end) /\ y \in Reads(cmd, from, to, end)
  OBVIOUS
<1> HIDE DEF from, to
<1>2. QED
  BY <1>1, ReadsAlike

LEMMA PortsAlike ==
  ASSUME NEW cmd \in Seq(Byte), Len(cmd) >= 7, NEW p \in Ports(cmd), NEW q \in Ports(cmd)
  PROVE  p = q
<1> DEFINE to == Len(cmd)
           from == to - 1
<1>1. PICK x : x \in Reads(cmd, from, to, to) /\ p = ToShort(x)
  BY DEF Ports
<1>2. PICK y : y \in Reads(cmd, from, to, to) /\ q = ToShort(y)
  BY DEF Ports
<1>3. to \in Nat /\ to >= 7
  BY LenProperties
<1> HIDE DEF to
<1>4. from \in Nat \ {0} /\ to <= to
  BY <1>3
<1> HIDE DEF from
<1>5. x = y
  BY <1>1, <1>2, <1>3, <1>4, ReadsAlike
<1>6. QED
  BY <1>1, <1>2, <1>5

LEMMA TypedAlike ==
  ASSUME NEW t, NEW hosts, NEW ports, NEW a \in Typed(t, hosts, ports), NEW b \in Typed(t, hosts, ports),
         \A x, y \in hosts : x = y, \A p, q \in ports : p = q
  PROVE  a = b
<1>1. a = [type |-> t, host |-> a.host, port |-> a.port] /\ a.host \in hosts /\ a.port \in ports
  BY TypedMember
<1>2. b = [type |-> t, host |-> b.host, port |-> b.port] /\ b.host \in hosts /\ b.port \in ports
  BY TypedMember
<1>3. a.host = b.host /\ a.port = b.port
  BY <1>1, <1>2
<1>4. QED
  BY <1>1, <1>2, <1>3

\* A message of seven bytes and more is understood in one way only: the parser reads
\* no byte from outside it, whatever its kind byte and the length byte of its name say
\* (FromSocks5CommandStream, address.cpp 230-280).
THEOREM MessageSuffices ==
  ASSUME NEW cmd \in Seq(Byte), Len(cmd) >= 7
  PROVE  \E a \in AddressType : FromSocks5CommandStream(cmd) = {a}
<1>1. Len(cmd) \in Nat /\ Len(cmd) - 2 \in Nat /\ 5 <= Len(cmd) /\ 5 <= Len(cmd) - 2 /\ ~(Len(cmd) < 4)
  <2> DEFINE n == Len(cmd)
  <2>1. n \in Nat /\ n >= 7
    BY LenProperties
  <2> HIDE DEF n
  <2>2. n - 2 \in Nat /\ 5 <= n /\ 5 <= n - 2 /\ ~(n < 4)
    BY <2>1
  <2>3. QED
    BY <2>1, <2>2 DEF n
<1>2. \A p, q \in Ports(cmd) : p = q
  BY PortsAlike
<1>3. \A x, y \in Reads(cmd, 2, 5, Len(cmd)) : x = y
  BY <1>1, HostReadsAlike
<1>4. \A x, y \in Reads(cmd, 2, 5, Len(cmd) - 2) : x = y
  <2> DEFINE end == Len(cmd) - 2
  <2>1. end \in Nat /\ 5 <= end
    BY <1>1
  <2> HIDE DEF end
  <2>2. \A x, y \in Reads(cmd, 2, 5, end) : x = y
    BY <2>1, HostReadsAlike
  <2>3. QED
    BY <2>2 DEF end
<1>5. ASSUME NEW a \in FromSocks5CommandStream(cmd), NEW b \in FromSocks5CommandStream(cmd)
      PROVE  a = b
  <2>1. CASE cmd[1] = 1
    <3>1. FromSocks5CommandStream(cmd) = Typed("ipv4", Reads(cmd, 2, 5, Len(cmd)), Ports(cmd))
      BY <2>1 DEF FromSocks5CommandStream
    <3>2. QED
      BY <1>2, <1>3, <3>1, TypedAlike
  <2>2. CASE cmd[1] = 3
    <3>1. FromSocks5CommandStream(cmd) = Typed("domain", {Name(cmd)}, Ports(cmd))
      BY <2>2 DEF FromSocks5CommandStream
    <3>2. \A x, y \in {Name(cmd)} : x = y
      OBVIOUS
    <3>3. QED
      BY <1>2, <3>1, <3>2, TypedAlike
  <2>3. CASE cmd[1] = 4
    <3>1. FromSocks5CommandStream(cmd) = Typed("ipv6", Reads(cmd, 2, 5, Len(cmd) - 2), Ports(cmd))
      BY <1>1, <2>3 DEF FromSocks5CommandStream
    <3>2. QED
      BY <1>2, <1>4, <3>1, TypedAlike
  <2>4. CASE cmd[1] \notin {1, 3, 4}
    BY <2>4 DEF FromSocks5CommandStream
  <2>5. QED
    BY <2>1, <2>2, <2>3, <2>4
<1>6. PICK a : a \in FromSocks5CommandStream(cmd)
  <2>1. Len(cmd) >= 4
    BY <1>1
  <2>2. QED
    BY <2>1, ParsedSome
<1>7. FromSocks5CommandStream(cmd) = {a}
  BY <1>5, <1>6
<1>8. a \in AddressType
  <2>1. Len(cmd) >= 1
    BY <1>1
  <2>2. QED
    BY <1>6, <2>1, ParsedType
<1>9. QED
  BY <1>7, <1>8

LEMMA TwoOfOne ==
  ASSUME NEW x \in Byte, NEW y \in Byte
  PROVE  << x, y >> = << x >> \o << y >>
<1> DEFINE s == << x >>
           t == << y >>
           two == << x, y >>
<1>1. s \in Seq(Byte) /\ t \in Seq(Byte) /\ Len(s) = 1 /\ Len(t) = 1
  BY OneByte
<1>2. s[1] = x /\ t[1] = y
  OBVIOUS
<1>3. /\ two \in Seq(Byte) /\ Len(two) = 2
      /\ two[1] = x /\ two[2] = y
  BY SMT
<1> HIDE DEF s, t, two
<1>4. s \o t \in Seq(Byte) /\ Len(s \o t) = 2
  <2>1. s \in Seq(Byte) /\ t \in Seq(Byte)
    BY <1>1
  <2>2. s \o t \in Seq(Byte) /\ Len(s \o t) = Len(s) + Len(t)
    BY <2>1, Joined
  <2>3. QED
    BY <1>1, <2>2
<1>5. /\ \A i \in 1..Len(s) : (s \o t)[i] = s[i]
      /\ \A i \in 1..Len(t) : (s \o t)[Len(s) + i] = t[i]
  BY <1>1, JoinedAt, ZenonT(90)
<1>6. (s \o t)[1] = x /\ (s \o t)[2] = y
  <2>1. 1 \in 1..Len(s) /\ 1 \in 1..Len(t) /\ Len(s) + 1 = 2
    BY <1>1
  <2>2. (s \o t)[1] = s[1] /\ (s \o t)[Len(s) + 1] = t[1]
    BY <1>5, <2>1, ZenonT(90)
  <2>3. QED
    BY <1>2, <2>1, <2>2
<1>7. \A i \in 1..Len(two) : (s \o t)[i] = two[i]
  <2>1. \A i \in 1..Len(two) : i = 1 \/ i = 2
    BY <1>3
  <2>2. (s \o t)[1] = two[1] /\ (s \o t)[2] = two[2]
    BY <1>3, <1>6
  <2>3. QED
    BY <2>1, <2>2, ZenonT(90)
<1>8. s \o t = two
  BY <1>3, <1>4, <1>7, SeqEqual
<1>9. QED
  BY <1>8 DEF s, t, two

\* The kind, the length of a name and the host are what the parser is given of them.
LEMMA KindHosted ==
  ASSUME NEW a, Sized(a), a.type \in {"ipv4", "domain"}
  PROVE  Kind(a) \o a.host = << Code(a.type) >> \o Hosted(a)
<1>1. a.host \in Seq(Byte) /\ Len(a.host) \in 1..255
  BY SizedFields, AddressFields
<1>2. CASE a.type = "ipv4"
  <2>1. Hosted(a) = << >> \o a.host
    BY <1>2 DEF Hosted
  <2>2. << >> \o a.host = a.host
    BY <1>1, ConcatEmptySeq
  <2>3. Kind(a) = << 1 >> /\ Code(a.type) = 1
    BY <1>2 DEF Kind, Code
  <2>4. QED
    BY <2>1, <2>2, <2>3
<1>3. CASE a.type = "domain"
  <2> DEFINE n == Len(a.host)
             x == 3
             d == << x >>
             l == << n >>
             h == a.host
  <2>1. n \in 1..255 /\ h \in Seq(Byte)
    BY <1>1
  <2>2. Kind(a) = << x, n % 256 >> /\ Code(a.type) = x
    BY <1>3 DEF Kind, Code
  <2>3. Hosted(a) = l \o h
    BY <1>3 DEF Hosted
  <2>4. x \in Byte
    BY SMT DEF Byte
  <2> HIDE DEF n, x, h
  <2>5. n % 256 = n /\ n \in Byte
    BY <2>1, SMT DEF Byte
  <2>6. Kind(a) = d \o l
    BY <2>2, <2>4, <2>5, TwoOfOne
  <2>7. d \in Seq(Byte) /\ l \in Seq(Byte)
    BY <2>4, <2>5, OneByte
  <2> HIDE DEF d, l
  <2>8. (d \o l) \o h = d \o (l \o h)
    BY <2>1, <2>7, Regrouped
  <2>9. Kind(a) \o h = d \o Hosted(a)
    BY <2>3, <2>6, <2>8
  <2>10. QED
    BY <2>2, <2>9 DEF d, h
<1>4. QED
  BY <1>2, <1>3

\* What PackSocks5Address writes behind its first three bytes is understood by
\* FromSocks5CommandStream as the address it came from: an IPv4 one, or a name of up to
\* 255 bytes (address.cpp 230-325).  IPv6 is the exception, see IPv6TargetKept.
THEOREM PackedIsUnderstood ==
  ASSUME NEW a, Sized(a), a.type \in {"ipv4", "domain"}, NEW ss \in PackSocks5Address(a)
  PROVE  FromSocks5CommandStream(SubSeq(ss, 4, Len(ss))) = {a}
<1> DEFINE three == << 5, 0, 0 >>
           k == << Code(a.type) >>
           h == Hosted(a)
           u == U16ToBytes(a.port)
           cmd == SubSeq(ss, 4, Len(ss))
<1>1. h \in Seq(Byte) /\ u \in Seq(Byte) /\ a \in AddressType
  BY SizedFields, AddressFields, HostedType
<1>2. k \in Seq(Byte)
  BY <1>1, AddressFields, CodeType, OneByte
<1>3. three \in Seq(Byte) /\ Len(three) = 3
  <2>1. 0 \in Byte /\ 5 \in Byte
    BY SMT DEF Byte
  <2>2. QED
    BY <2>1, ThreeBytes
<1>4. ss = (three \o (k \o h)) \o u
  <2>1. Kind(a) \o a.host = k \o h
    BY KindHosted
  <2>2. ss = (three \o (Kind(a) \o a.host)) \o u
    <3>1. CASE a.type = "ipv4"
      BY <3>1 DEF PackSocks5Address, Kind
    <3>2. CASE a.type = "domain"
      BY <3>2 DEF PackSocks5Address, Kind
    <3>3. QED
      BY <3>1, <3>2
  <2>3. QED
    BY <2>1, <2>2
<1>5. Offer(a) = k \o (h \o u)
  BY DEF Offer
<1> HIDE DEF three, k, h, u
<1>6. k \o h \in Seq(Byte) /\ h \o u \in Seq(Byte)
  BY <1>1, <1>2, Joined
<1>7. (k \o h) \o u = k \o (h \o u)
  BY <1>1, <1>2, Regrouped
<1>8. (three \o (k \o h)) \o u = three \o ((k \o h) \o u)
  BY <1>1, <1>3, <1>6, Regrouped
<1>9. Offer(a) \in Seq(Byte)
  BY Offered
<1>10. ss = three \o Offer(a)
  BY <1>4, <1>5, <1>7, <1>8
<1>11. cmd = Offer(a)
  <2>1. 4 = Len(three) + 1
    BY <1>3
  <2>2. SubSeq(three \o Offer(a), 4, Len(three \o Offer(a))) = Offer(a)
    BY <1>3, <1>9, <2>1, Rest
  <2>3. QED
    BY <1>10, <2>2
<1> HIDE DEF cmd
<1>12. \A t \in FromSocks5CommandStream(cmd) : t = a
  BY <1>11, ParsedBack
<1>13. FromSocks5CommandStream(cmd) # {}
  <2>1. cmd[1] = Code(a.type)
    BY <1>11, Offered
  <2>2. Code(a.type) # 4
    BY DEF Code
  <2>3. QED
    BY <1>9, <1>11, <2>1, <2>2, ParsedSome
<1>14. QED
  BY <1>12, <1>13 DEF cmd

-----------------------------------------------------------------------------
(* The request of the far proxy and what it makes of it.                   *)

LEMMA AskForm ==
  ASSUME NEW a \in AddressType, NEW o \in FarObjects, NEW ask \in Asks(a, o)
  PROVE  WellAsked(ask, a)
<1> DEFINE from == IF a.type = "domain" THEN 6 ELSE 5
           u == U16ToBytes(a.port)
<1>1. PICK bytes \in PackSocks5Address(a) \ {<< >>} :
             ask = [head  |-> << 5, 1, bytes[3], bytes[4] >>,
                    size  |-> (Len(bytes) - from + 1 + Tag(o)) % 256,
                    plain |-> SubSeq(bytes, from, Len(bytes))]
  BY DEF Asks
<1>2. a.type # "unknown"
  BY <1>1, PackedAddress
<1>3. PICK raw \in Seq(Byte) : /\ a.type # "ipv6" => raw = a.host
                              /\ WellPacked(bytes, Kind(a), raw, u)
  BY <1>1, <1>2, PackedAddress
<1>4. /\ bytes \in Seq(Byte) /\ Len(raw) \in Nat
      /\ Len(bytes) = 3 + Len(Kind(a)) + Len(raw) + 2
      /\ bytes[3] = 0 /\ bytes[4] = Kind(a)[1]
      /\ SubSeq(bytes, 4 + Len(Kind(a)), Len(bytes)) = raw \o u
  BY <1>3 DEF WellPacked
<1>5. /\ from = 4 + Len(Kind(a)) /\ Len(Kind(a)) \in {1, 2}
      /\ Kind(a)[1] = Code(a.type) /\ Code(a.type) \in Byte
  <2>1. Kind(a)[1] = Code(a.type) /\ Code(a.type) \in Byte
    BY <1>2, KindType, CodeType, AddressFields
  <2>2. CASE a.type = "domain"
    <3>1. Len(Kind(a)) = 2 /\ from = 6
      BY <1>2, <2>2, KindType
    <3>2. from = 4 + Len(Kind(a))
      BY <3>1
    <3>3. QED
      BY <2>1, <3>1, <3>2
  <2>3. CASE a.type # "domain"
    <3>1. Len(Kind(a)) = 1 /\ from = 5
      BY <1>2, <2>3, KindType
    <3>2. from = 4 + Len(Kind(a))
      BY <3>1
    <3>3. QED
      BY <2>1, <3>1, <3>2
  <2>4. QED
    BY <2>2, <2>3
<1>6. ask.plain = raw \o u
  BY <1>1, <1>4, <1>5
<1>7. ask.plain \in Seq(Byte) /\ Len(ask.plain) >= 2
  <2>1. u \in Seq(Byte) /\ Len(u) = 2
    BY AddressFields
  <2> HIDE DEF u
  <2>2. raw \o u \in Seq(Byte) /\ Len(raw \o u) = Len(raw) + 2
    BY <2>1, Joined
  <2>3. Len(raw \o u) >= 2
    BY <1>4, <2>2
  <2>4. QED
    BY <1>6, <2>2, <2>3
<1>8. ask.head = << 5, 1, 0, Code(a.type) >>
  BY <1>1, <1>4, <1>5
<1>9. ask.head \in Seq(Byte) /\ ask.head[4] = Code(a.type)
  <2>1. 5 \in Byte /\ 1 \in Byte /\ 0 \in Byte
    BY SMT DEF Byte
  <2>2. ASSUME NEW w \in Byte, NEW x \in Byte, NEW y \in Byte, NEW z \in Byte
        PROVE  << w, x, y, z >> \in Seq(Byte) /\ << w, x, y, z >>[4] = z
    BY SMT
  <2>3. QED
    BY <1>5, <1>8, <2>1, <2>2
<1>10. ask.size \in Byte
  <2> DEFINE n == Len(bytes) - from + 1 + Tag(o)
  <2>1. n \in Nat
    <3> DEFINE k == Len(Kind(a))
               l == Len(raw)
    <3>1. /\ Len(bytes) = 3 + k + l + 2 /\ from = 4 + k /\ l \in Nat
          /\ (k = 1 \/ k = 2)
      BY <1>4, <1>5
    <3>2. Tag(o) = 0 \/ Tag(o) = 16
      BY DEF Tag
    <3> HIDE DEF k, l, from
    <3>3. QED
      BY <3>1, <3>2, SMTT(60)
  <2>2. ask.size = n % 256
    BY <1>1
  <2> HIDE DEF n
  <2>3. QED
    BY <2>1, <2>2, Numbers
<1>11. ask = [head |-> ask.head, size |-> ask.size, plain |-> ask.plain]
  BY <1>1
<1>12. ask \in AskType
  BY <1>7, <1>9, <1>10, <1>11 DEF AskType
<1>13. QED
  BY <1>2, <1>3, <1>6, <1>7, <1>9, <1>12 DEF WellAsked

\* The far proxy reaches what it was asked for, but for the host of an IPv6 target.
LEMMA FarReaches ==
  ASSUME NEW ask, ask \in AskType, Len(ask.plain) >= 2
  PROVE  /\ FarTarget(ask) \in AddressType /\ FarTarget(ask) # NoAddr
         /\ \A a \in AddressType : WellAsked(ask, a) => Essence(FarTarget(ask)) = Essence(a)
<1> DEFINE p == ask.plain
           n == Len(p)
           two == SubSeq(p, n - 1, n)
           h == SubSeq(p, 1, n - 2)
           t == CASE ask.head[4] = 1 -> "ipv4" [] ask.head[4] = 3 -> "domain" [] OTHER -> "ipv6"
<1>1. FarTarget(ask) = [type |-> t, host |-> h, port |-> ToShort(two)]
  BY DEF FarTarget
<1>2. p \in Seq(Byte) /\ n \in Nat /\ n >= 2
  BY LenProperties DEF AskType
<1>3. t \in {"ipv4", "domain", "ipv6"}
  OBVIOUS
<1>4. h \in Seq(Byte)
  <2>1. 1 \in 1..n + 1 /\ n - 2 \in 0..n
    BY <1>2
  <2>2. QED
    BY <1>2, <2>1, Slices
<1>5. two \in Seq(Byte) /\ two[1] \in Byte /\ two[2] \in Byte
  <2> DEFINE from == n - 1
  <2>1. from \in 1..n + 1 /\ n \in 0..n /\ n - from + 1 = 2 /\ from <= n
    BY <1>2
  <2> HIDE DEF from
  <2>2. SubSeq(p, from, n) \in Seq(Byte) /\ Len(SubSeq(p, from, n)) = n - from + 1
    BY <1>2, <2>1, Slices
  <2>3. two \in Seq(Byte) /\ Len(two) = 2
    BY <2>1, <2>2 DEF from
  <2>4. QED
    BY <2>3, ElementOfSeq, 1 \in 1..2, 2 \in 1..2
<1>6. FarTarget(ask) \in AddressType /\ FarTarget(ask).type # "unknown"
  <2>1. ToShort(two) \in UInt16
    BY <1>5, ToShortType
  <2> HIDE DEF t, h, two
  <2>2. [type |-> t, host |-> h, port |-> ToShort(two)] \in AddressType
    BY <1>3, <1>4, <2>1, TypedAddress
  <2>3. FarTarget(ask).type = t
    BY <1>1
  <2>4. t # "unknown"
    BY <1>3
  <2>5. QED
    BY <1>1, <2>2, <2>3, <2>4
<1>7. ASSUME NEW a \in AddressType, WellAsked(ask, a)
      PROVE  Essence(FarTarget(ask)) = Essence(a)
  <2> DEFINE u == U16ToBytes(a.port)
  <2>1. PICK s \in Seq(Byte) : /\ a.type # "ipv6" => s = a.host
                               /\ p = s \o u
    BY <1>7 DEF WellAsked
  <2>2. ask.head[4] = Code(a.type) /\ a.type \in {"ipv4", "domain", "ipv6"}
    BY <1>7, AddressFields DEF WellAsked
  <2>3. u \in Seq(Byte) /\ Len(u) = 2 /\ Len(s) \in Nat /\ ToShort(u) = a.port
    BY AddressFields, PortBytes
  <2>4. Len(s \o u) = Len(s) + 2
    BY <2>3, Joined
  <2>5. h = s
    <3>1. SubSeq(s \o u, 1, Len(s)) = s
      BY <2>3, Front
    <3>2. n - 2 = Len(s)
      BY <2>1, <2>3, <2>4
    <3>3. QED
      BY <2>1, <3>1, <3>2
  <2>6. two = u
    <3>1. SubSeq(s \o u, Len(s) + 1, Len(s \o u)) = u
      BY <2>3, Rest
    <3>2. n - 1 = Len(s) + 1
      BY <2>1, <2>3, <2>4
    <3>3. QED
      BY <2>1, <3>1, <3>2
  <2>7. t = a.type
    BY <2>2, CodeType
  <2>8. a = [type |-> a.type, host |-> a.host, port |-> a.port]
    BY DEF AddressType
  <2>9. FarTarget(ask) = [type |-> a.type, host |-> s, port |-> a.port]
    BY <1>1, <2>3, <2>5, <2>6, <2>7
  <2> HIDE DEF p, n, two, h, t, u
  <2>10. CASE a.type = "ipv6"
    <3>1. [FarTarget(ask) EXCEPT !.host = << >>] = [type |-> a.type, host |-> << >>, port |-> a.port]
      BY <2>9
    <3>2. [a EXCEPT !.host = << >>] = [type |-> a.type, host |-> << >>, port |-> a.port]
      BY <2>8
    <3>3. FarTarget(ask).type = "ipv6"
      BY <2>9, <2>10
    <3>4. QED
      BY <2>10, <3>1, <3>2, <3>3 DEF Essence
  <2>11. CASE a.type # "ipv6"
    BY <2>1, <2>8, <2>9, <2>11
  <2>12. QED
    BY <2>10, <2>11
<1>8. QED
  BY <1>6, <1>7, UnknownAddress

-----------------------------------------------------------------------------
(* The method the far proxy names.                                         *)

LEMMA MethodRead ==
  ASSUME NEW o \in FarObjects
  PROVE  /\ MethodBytes(o) \in Seq(Byte) /\ Len(MethodBytes(o)) \in 15..250
         /\ BuildFromBytes(MethodBytes(o)) = {o}
<1>1. /\ o = [name |-> o.name, iv |-> o.iv] /\ o.name \in Methods /\ o.iv \in Seq(Byte)
      /\ Len(o.iv) \in 12..247
  BY ObjectsAssumption
<1> DEFINE head == << 18, Mask(o.name), Len(o.iv) % 256 >>
           s == o.iv
           m == MethodBytes(o)
<1>2. \A n \in Methods : Mask(n) \in {52, 53, 54, 55} /\ ByMask(Mask(n)) = {n}
  BY SMT DEF Methods, Mask, ByMask
<1>3. 18 \in Byte /\ Mask(o.name) \in Byte /\ Len(o.iv) % 256 \in Byte /\ Len(o.iv) % 256 = Len(o.iv)
  <2>1. 18 \in Byte
    BY SMT DEF Byte
  <2>2. Mask(o.name) \in Byte
    BY <1>1, <1>2, SMTT(60) DEF Byte
  <2>3. ASSUME NEW n \in 12..247
        PROVE  n % 256 \in Byte /\ n % 256 = n
    BY SMT DEF Byte
  <2>4. QED
    BY <1>1, <2>1, <2>2, <2>3
<1>4. /\ head \in Seq(Byte) /\ Len(head) = 3
      /\ head[1] = 18 /\ head[2] = Mask(o.name) /\ head[3] = Len(s)
  <2> DEFINE x == 18
             y == Mask(o.name)
             z == Len(o.iv) % 256
  <2>1. x \in Byte /\ y \in Byte /\ z \in Byte /\ head = << x, y, z >> /\ z = Len(s)
    BY <1>3
  <2> HIDE DEF x, y, z, head, s
  <2>2. /\ head \in Seq(Byte) /\ Len(head) = 3
        /\ head[1] = x /\ head[2] = y /\ head[3] = z
    BY <2>1, ThreeBytes
  <2>3. QED
    BY <2>1, <2>2 DEF x, y
<1>5. m = head \o s /\ s \in Seq(Byte) /\ Len(s) \in 12..247
  BY <1>1 DEF MethodBytes
<1> HIDE DEF head, s, m
<1>6. m \in Seq(Byte) /\ Len(m) = 3 + Len(s)
  BY <1>4, <1>5, Joined
<1>7. m[1] = 18 /\ m[2] = Mask(o.name) /\ m[3] = Len(s)
  <2>1. \A i \in 1..Len(head) : (head \o s)[i] = head[i]
    BY <1>4, <1>5, JoinedAt, ZenonT(90)
  <2>2. 1 \in 1..Len(head) /\ 2 \in 1..Len(head) /\ 3 \in 1..Len(head)
    BY <1>4
  <2>3. m[1] = head[1] /\ m[2] = head[2] /\ m[3] = head[3]
    BY <1>5, <2>1, <2>2, ZenonT(90)
  <2>4. QED
    BY <1>4, <2>3
<1>8. SubSeq(m, 4, Len(m)) = o.iv
  <2>1. 4 = Len(head) + 1
    BY <1>4
  <2>2. SubSeq(head \o s, 4, Len(head \o s)) = s
    BY <1>4, <1>5, <2>1, Rest, ZenonT(30)
  <2>3. QED
    BY <1>5, <2>2, SMTT(60) DEF s
<1>9. Len(m) >= 15 /\ Len(m) \in 15..250 /\ 3 + m[3] = Len(m)
  <2> DEFINE l == Len(m)
             k == Len(s)
  <2>1. k \in 12..247 /\ l = 3 + k /\ m[3] = k
    BY <1>5, <1>6, <1>7
  <2> HIDE DEF l, k
  <2>2. l >= 15 /\ l \in 15..250 /\ 3 + k = l
    BY <2>1
  <2>3. QED
    BY <2>1, <2>2 DEF l
<1>10. {n \in Methods : /\ Len(m) >= 15
                         /\ m[1] = 18 /\ n \in ByMask(m[2])
                         /\ 3 + m[3] = Len(m)} = {o.name}
  BY <1>1, <1>2, <1>7, <1>9, SMTT(60)
<1>11. BuildFromBytes(m) = {[name |-> n, iv |-> SubSeq(m, 4, Len(m))] : n \in {o.name}}
  BY <1>10 DEF BuildFromBytes
<1>12. BuildFromBytes(m) = {o}
  BY <1>1, <1>8, <1>11
<1>13. QED
  BY <1>6, <1>9, <1>12 DEF m

LEMMA FarHelloBytes ==
  ASSUME NEW o \in FarObjects
  PROVE  /\ FarHello(o) \in Seq(Byte) /\ Len(FarHello(o)) \in Nat
         /\ Len(FarHello(o)) = 3 + FarHello(o)[3]
         /\ SubSeq(FarHello(o), 4, Len(FarHello(o))) = MethodBytes(o)
<1> DEFINE s == MethodBytes(o)
           x == 5
           y == 2
           z == Len(s)
           head == << x, y, z >>
           m == FarHello(o)
<1>1. x \in Byte /\ y \in Byte /\ z \in Byte
  <2>1. 5 \in Byte /\ 2 \in Byte
    BY SMT DEF Byte
  <2>2. z \in 15..250
    BY MethodRead
  <2>3. z \in 0..255
    BY <2>2, SMTT(60)
  <2>4. QED
    BY <2>1, <2>3, SmallNumber
<1>2. m = head \o s /\ s \in Seq(Byte) /\ z = Len(s)
  BY MethodRead DEF FarHello
<1> HIDE DEF x, y, z
<1>3. head \in Seq(Byte) /\ Len(head) = 3 /\ head[3] = z
  BY <1>1, ThreeBytes
<1> HIDE DEF head, s, m
<1>4. m \in Seq(Byte) /\ Len(m) = 3 + z /\ Len(m) \in Nat
  BY <1>2, <1>3, Joined, LenProperties
<1>5. m[3] = z
  <2>1. \A i \in 1..Len(head) : (head \o s)[i] = head[i]
    BY <1>2, <1>3, JoinedAt, ZenonT(90)
  <2>2. 3 \in 1..Len(head)
    BY <1>3
  <2>3. QED
    BY <1>2, <1>3, <2>1, <2>2, ZenonT(90)
<1>6. SubSeq(m, 4, Len(m)) = s
  <2>1. 4 = Len(head) + 1
    BY <1>3
  <2>2. SubSeq(head \o s, 4, Len(head \o s)) = s
    BY <1>2, <1>3, <2>1, Rest
  <2>3. QED
    BY <1>2, <2>2
<1>7. QED
  BY <1>4, <1>5, <1>6 DEF m, s

-----------------------------------------------------------------------------
(* Reading, writing and the record of the session.                         *)

LEMMA Others == \A s \in Sockets : s = "client" \/ s = "far"
  BY DEF Sockets

LEMMA EditPc ==
  ASSUME NEW s \in SessionType, NEW p \in PCs, NEW t, t = [s EXCEPT !.pc = p]
  PROVE  /\ t \in SessionType
         /\ t.pc = p /\ t.method = s.method /\ t.target = s.target /\ t.bound = s.bound /\ t.code = s.code
  BY SMT DEF SessionType

WithMethod(s, p, x) == [s EXCEPT !.pc = p, !.method = x]

LEMMA EditMethod ==
  ASSUME NEW s \in SessionType, NEW p \in PCs, NEW x \in SUBSET FarObjects, NEW t,
         t = WithMethod(s, p, x)
  PROVE  /\ t \in SessionType
         /\ t.pc = p /\ t.method = x /\ t.target = s.target /\ t.bound = s.bound /\ t.code = s.code
<1>1. ASSUME NEW q \in SessionType
      PROVE  [q EXCEPT !.method = x] \in SessionType
  BY SMT DEF SessionType
<1>2. [s EXCEPT !.pc = p] \in SessionType
  BY SMT DEF SessionType
<1>3. t = [[s EXCEPT !.pc = p] EXCEPT !.method = x]
  BY ZenonT(90) DEF WithMethod
<1>4. /\ t.pc = p /\ t.method = x /\ t.target = s.target /\ t.bound = s.bound /\ t.code = s.code
  BY SMT DEF SessionType, WithMethod
<1>5. QED
  BY <1>1, <1>2, <1>3, <1>4

WithTarget(s, p, x) == [s EXCEPT !.pc = p, !.target = x]

LEMMA EditTarget ==
  ASSUME NEW s \in SessionType, NEW p \in PCs, NEW x \in AddressType, NEW t,
         t = WithTarget(s, p, x)
  PROVE  /\ t \in SessionType
         /\ t.pc = p /\ t.method = s.method /\ t.target = x /\ t.bound = s.bound /\ t.code = s.code
<1>1. ASSUME NEW q \in SessionType
      PROVE  [q EXCEPT !.target = x] \in SessionType
  BY SMT DEF SessionType
<1>2. [s EXCEPT !.pc = p] \in SessionType
  BY SMT DEF SessionType
<1>3. t = [[s EXCEPT !.pc = p] EXCEPT !.target = x]
  BY ZenonT(90) DEF WithTarget
<1>4. /\ t.pc = p /\ t.method = s.method /\ t.target = x /\ t.bound = s.bound /\ t.code = s.code
  BY SMT DEF SessionType, WithTarget
<1>5. QED
  BY <1>1, <1>2, <1>3, <1>4

WithBound(s, p, x) == [s EXCEPT !.pc = p, !.bound = x]

LEMMA EditBound ==
  ASSUME NEW s \in SessionType, NEW p \in PCs, NEW x \in AddressType, NEW t,
         t = WithBound(s, p, x)
  PROVE  /\ t \in SessionType
         /\ t.pc = p /\ t.method = s.method /\ t.target = s.target /\ t.bound = x /\ t.code = s.code
<1>1. ASSUME NEW q \in SessionType
      PROVE  [q EXCEPT !.bound = x] \in SessionType
  BY SMT DEF SessionType
<1>2. [s EXCEPT !.pc = p] \in SessionType
  BY SMT DEF SessionType
<1>3. t = [[s EXCEPT !.pc = p] EXCEPT !.bound = x]
  BY ZenonT(90) DEF WithBound
<1>4. /\ t.pc = p /\ t.method = s.method /\ t.target = s.target /\ t.bound = x /\ t.code = s.code
  BY SMT DEF SessionType, WithBound
<1>5. QED
  BY <1>1, <1>2, <1>3, <1>4

WithCode(s, p, x) == [s EXCEPT !.pc = p, !.code = x]

LEMMA EditCode ==
  ASSUME NEW s \in SessionType, NEW p \in PCs, NEW x \in Codes, NEW t,
         t = WithCode(s, p, x)
  PROVE  /\ t \in SessionType
         /\ t.pc = p /\ t.method = s.method /\ t.target = s.target /\ t.bound = s.bound /\ t.code = x
<1>1. ASSUME NEW q \in SessionType
      PROVE  [q EXCEPT !.code = x] \in SessionType
  BY SMT DEF SessionType
<1>2. [s EXCEPT !.pc = p] \in SessionType
  BY SMT DEF SessionType
<1>3. t = [[s EXCEPT !.pc = p] EXCEPT !.code = x]
  BY ZenonT(90) DEF WithCode
<1>4. /\ t.pc = p /\ t.method = s.method /\ t.target = s.target /\ t.bound = s.bound /\ t.code = x
  BY SMT DEF SessionType, WithCode
<1>5. QED
  BY <1>1, <1>2, <1>3, <1>4

LEMMA SendEffect ==
  ASSUME WellTyped, NEW s \in Sockets, NEW m, Send(s, m)
  PROVE  /\ DOMAIN toPeer' = Sockets
         /\ toPeer'[s] = Append(toPeer[s], m)
         /\ \A q \in Sockets \ {s} : toPeer'[q] = toPeer[q]
<1>1. DOMAIN toPeer = Sockets
  BY DEF WellTyped
<1>2. toPeer' = [q \in Sockets |-> IF q = s THEN Append(toPeer[s], m) ELSE toPeer[q]]
  BY <1>1 DEF Send
<1>3. QED
  BY <1>2

LEMMA HeardEffect ==
  ASSUME WellTyped, NEW s \in Sockets, Heard(s)
  PROVE  /\ DOMAIN toPeer' = Sockets
         /\ toPeer'[s] = Tail(toPeer[s])
         /\ \A q \in Sockets \ {s} : toPeer'[q] = toPeer[q]
<1>1. DOMAIN toPeer = Sockets
  BY DEF WellTyped
<1>2. toPeer' = [q \in Sockets |-> IF q = s THEN Tail(toPeer[s]) ELSE toPeer[q]]
  BY <1>1 DEF Heard
<1>3. QED
  BY <1>2

LEMMA SaysEffect ==
  ASSUME WellTyped, NEW s \in Sockets, NEW m \in Seq(Byte), inq' = [inq EXCEPT ![s] = @ \o m]
  PROVE  /\ inq' \in [Sockets -> Seq(Byte)]
         /\ inq'[s] = inq[s] \o m
         /\ \A q \in Sockets \ {s} : inq'[q] = inq[q]
<1>1. inq \in [Sockets -> Seq(Byte)]
  BY DEF WellTyped
<1>2. inq[s] \o m \in Seq(Byte)
  BY <1>1, Joined
<1>3. inq' \in [Sockets -> Seq(Byte)]
  BY <1>1, <1>2
<1>4. QED
  BY <1>1, <1>3

LEMMA ReceiveEffect ==
  ASSUME WellTyped, NEW s \in Sockets, NEW size \in Nat, NEW k \in Sizes(s, size), Receive(s, k)
  PROVE  /\ k \in Nat /\ 1 <= k /\ k <= Len(inq[s]) /\ k <= size
         /\ inq[s] \in Seq(Byte) /\ Len(inq[s]) \in Nat
         /\ inq' \in [Sockets -> Seq(Byte)]
         /\ \A q \in Sockets \ {s} : inq'[q] = inq[q]
         /\ Got(s, k) \in Seq(Byte) /\ Len(Got(s, k)) = k
         /\ \A i \in 1..k : Got(s, k)[i] = inq[s][i]
         /\ k = Len(inq[s]) => Got(s, k) = inq[s] /\ inq'[s] = << >>
         /\ ~Cut(s) => k = Len(inq[s]) \/ k = size
         /\ ~Cut(s) /\ Len(inq[s]) <= size => k = Len(inq[s])
<1> DEFINE l == Len(inq[s])
           most == Lesser(size, l)
<1>1. inq \in [Sockets -> Seq(Byte)]
  BY DEF WellTyped
<1>2. inq[s] \in Seq(Byte) /\ l \in Nat
  BY <1>1, LenProperties
<1>3. /\ most # 0
      /\ k \in (IF Cut(s) THEN 1..most ELSE {most})
  BY DEF Sizes
<1> HIDE DEF l
<1>4. most \in Nat /\ most <= size /\ most <= l /\ (l <= size => most = l) /\ (most = l \/ most = size)
  BY <1>2 DEF Lesser
<1> HIDE DEF most
<1>5. k \in Nat /\ 1 <= k /\ k <= l /\ k <= size
      /\ (~Cut(s) => k = l \/ k = size) /\ (~Cut(s) /\ l <= size => k = l)
  BY <1>2, <1>3, <1>4
<1>6. /\ Got(s, k) \in Seq(Byte) /\ Len(Got(s, k)) = k
      /\ \A i \in 1..k : Got(s, k)[i] = inq[s][i]
  <2> DEFINE from == 1
  <2>1. /\ from \in 1..Len(inq[s]) + 1 /\ k \in 0..Len(inq[s]) /\ from <= k
        /\ k - from + 1 = k /\ \A i \in 1..k : from + i - 1 = i
    BY <1>2, <1>5 DEF l
  <2> HIDE DEF from
  <2>2. /\ SubSeq(inq[s], from, k) \in Seq(Byte)
        /\ Len(SubSeq(inq[s], from, k)) = k - from + 1
        /\ \A i \in 1..(k - from + 1) : SubSeq(inq[s], from, k)[i] = inq[s][from + i - 1]
    BY <1>2, <2>1, Slices
  <2>3. QED
    BY <2>1, <2>2 DEF Got, from
<1>7. inq' = [inq EXCEPT ![s] = SubSeq(inq[s], k + 1, Len(inq[s]))]
  BY DEF Receive
<1>8. SubSeq(inq[s], k + 1, Len(inq[s])) \in Seq(Byte)
  <2> DEFINE from == k + 1
             to == Len(inq[s])
  <2>1. from \in 1..Len(inq[s]) + 1 /\ to \in 0..Len(inq[s])
    BY <1>2, <1>5 DEF l
  <2> HIDE DEF from, to
  <2>2. SubSeq(inq[s], from, to) \in Seq(Byte)
    BY <1>2, <2>1, Slices
  <2>3. QED
    BY <2>2 DEF from, to
<1>9. inq' \in [Sockets -> Seq(Byte)] /\ \A q \in Sockets \ {s} : inq'[q] = inq[q]
  BY <1>1, <1>7, <1>8
<1>10. ASSUME k = l
       PROVE  Got(s, k) = inq[s] /\ inq'[s] = << >>
  <2>1. Got(s, k) = inq[s]
    BY <1>2, <1>10, SubSeqFull DEF Got, l
  <2>2. SubSeq(inq[s], k + 1, Len(inq[s])) = << >>
    BY <1>2, <1>10, SubSeqEmpty DEF l
  <2>3. QED
    BY <1>1, <1>7, <2>1, <2>2
<1>11. QED
  BY <1>2, <1>5, <1>6, <1>9, <1>10 DEF l

-----------------------------------------------------------------------------
(* What the steps of one side leave alone on the other.                    *)

\* A step of the upstream side.
LEMMA UpKeepsClientSide ==
  ASSUME ClientSide, WholeMessages,
         client' = client, toPeer'["client"] = toPeer["client"], inq'["client"] = inq["client"],
         session'.target = session.target, session'.code \in {session.code, 11, 12},
         \/ session'.pc = session.pc
         \/ /\ session'.pc \notin {"hello", "greet", "command"}
            /\ session'.pc \in AfterCommand => session.pc \in AfterCommand,
         session'.pc = "refuse" => session'.code # 0,
         far.target # NoAddr => far'.target # NoAddr
  PROVE  ClientSide' /\ WholeMessages'
<1>1. \A m : Final(m, far.target, client.command) => Final(m, far'.target, client.command)
  BY DEF Final
<1>2. /\ session'.pc \in {"hello", "greet"} =>
           toPeer'["client"] = << >> /\ client'.pc \in {"start", "greeted", "gone"}
      /\ client'.pc = "start" => inq'["client"] = << >>
      /\ client'.answer = 0 => far'.target # NoAddr
      /\ client'.answer = 10 /\ client'.command.whole => client'.command.cmd # 1
      /\ session'.pc = "refuse" => session'.code # 0
  BY DEF ClientSide
<1>3. session'.code = 10 /\ client'.command.whole => client'.command.cmd # 1
  BY DEF ClientSide
<1>4. \A i \in 1..Len(toPeer["client"]) :
        \/ Final(toPeer["client"][i], far'.target, client.command)
        \/ i = 1 /\ client.pc # "asked" /\ toPeer["client"][i] = << 5, 0 >>
  <2>1. \A i \in 1..Len(toPeer["client"]) :
          \/ Final(toPeer["client"][i], far.target, client.command)
          \/ i = 1 /\ client.pc # "asked" /\ toPeer["client"][i] = << 5, 0 >>
    BY DEF ClientSide
  <2>2. QED
    BY <1>1, <2>1, ZenonT(90)
<1>5. ClientSide'
  BY <1>2, <1>3, <1>4 DEF ClientSide
<1>6. WholeMessages'
  BY DEF WholeMessages, Fits
<1>7. QED
  BY <1>5, <1>6

\* A step of the client's side.
LEMMA ClientKeepsUpstream ==
  ASSUME Upstream, Reached,
         far' = far, toPeer'["far"] = toPeer["far"], inq'["far"] = inq["far"],
         session'.target = session.target, session'.bound = session.bound,
         session'.method = session.method,
         \/ session'.pc = session.pc
         \/ session'.pc \in {"refuse", "ended", "crashed"}
         \/ session'.pc \in {"greet", "command"} /\ session.pc \in {"hello", "greet", "command"}
         \/ session'.pc = "established" /\ session.pc = "answer"
  PROVE  Upstream' /\ Reached'
<1>1. Upstream'
  BY DEF Upstream, Asked, BeforeAsk
<1>2. Reached'
  BY DEF Reached
<1>3. QED
  BY <1>1, <1>2

\* What a sequence becomes when its head is taken, or an element is added.
LEMMA TailOf ==
  ASSUME NEW S, NEW s \in Seq(S), s # << >>
  PROVE  /\ Head(s) = s[1] /\ Head(s) \in S /\ Tail(s) \in Seq(S) /\ 1 \in 1..Len(s)
         /\ Len(s) = 1 => Tail(s) = << >>
         /\ \A i \in 1..Len(Tail(s)) : i + 1 \in 1..Len(s) /\ i + 1 # 1 /\ Tail(s)[i] = s[i + 1]
<1>1. /\ Head(s) \in S /\ Tail(s) \in Seq(S) /\ Len(Tail(s)) = Len(s) - 1
      /\ \A i \in 1..Len(Tail(s)) : Tail(s)[i] = s[i + 1]
  BY HeadTailProperties
<1>2. Len(s) \in Nat \ {0} /\ Len(Tail(s)) \in Nat
  BY <1>1, EmptySeq, LenProperties
<1>3. Head(s) = s[1]
  OBVIOUS
<1>4. Len(s) = 1 => Tail(s) = << >>
  <2>1. Tail(s) # << >> => Len(Tail(s)) \in Nat \ {0}
    BY <1>1, EmptySeq
  <2>2. QED
    BY <1>1, <1>2, <2>1
<1>5. \A i \in 1..Len(Tail(s)) : i + 1 \in 1..Len(s) /\ i + 1 # 1
  BY <1>1, <1>2
<1>6. QED
  BY <1>1, <1>2, <1>3, <1>4, <1>5

LEMMA AppendTo ==
  ASSUME NEW S, NEW s \in Seq(S), NEW e \in S
  PROVE  /\ Append(s, e) \in Seq(S)
         /\ \A i \in 1..Len(Append(s, e)) :
              \/ i \in 1..Len(s) /\ Append(s, e)[i] = s[i]
              \/ i = Len(s) + 1 /\ Append(s, e)[i] = e
         /\ s = << >> => Len(Append(s, e)) = 1 /\ Append(s, e)[1] = e
<1>1. /\ Append(s, e) \in Seq(S) /\ Len(Append(s, e)) = Len(s) + 1
      /\ \A i \in 1..Len(s) : Append(s, e)[i] = s[i]
      /\ Append(s, e)[Len(s) + 1] = e
  BY AppendProperties
<1>2. Len(s) \in Nat /\ (s = << >> => Len(s) = 0)
  BY LenProperties, EmptySeq
<1>3. \A i \in 1..Len(Append(s, e)) : i \in 1..Len(s) \/ i = Len(s) + 1
  BY <1>1, <1>2
<1>4. QED
  BY <1>1, <1>2, <1>3

LEMMA TypedFields ==
  ASSUME WellTyped
  PROVE  /\ session \in SessionType /\ session.pc \in PCs /\ session.code \in Codes
         /\ session.target \in AddressType /\ session.bound \in AddressType
         /\ session.method \subseteq FarObjects
         /\ far.target \in AddressType /\ far.method \in FarObjects
         /\ client.command \in Commands
         /\ inq["client"] \in Seq(Byte) /\ inq["far"] \in Seq(Byte)
         /\ "client" \in Sockets /\ "far" \in Sockets
  BY DEF WellTyped, SessionType, FarType, ClientType, Sockets

-----------------------------------------------------------------------------
(* The initial states, and steps that change nothing.                      *)

LEMMA InitIInv == Init => IInv
<1> SUFFICES ASSUME Init PROVE IInv
  OBVIOUS
<1>1. /\ client.pc = "start" /\ client.answer = -1 /\ client.command \in Commands
      /\ far.target = NoAddr
      /\ toPeer["client"] = << >> /\ toPeer["far"] = << >>
      /\ inq["client"] = << >> /\ inq["far"] = << >>
      /\ session.pc = "hello" /\ session.target = NoAddr /\ session.code = 0
  BY DEF Init
<1>2. WellTyped
  <2>1. client \in ClientType
    BY DEF Init, ClientType
  <2>2. far \in FarType
    BY UnknownAddress DEF Init, FarType
  <2>3. session \in SessionType
    BY UnknownAddress DEF Init, SessionType, PCs, Codes
  <2>4. DOMAIN toPeer = Sockets /\ inq \in [Sockets -> Seq(Byte)] /\ open \subseteq {"client", "far"}
    BY EmptySeq DEF Init, Sockets
  <2>5. toPeer["client"] \in Seq(Seq(Byte)) /\ toPeer["far"] \in Seq(FarMessages)
    BY <1>1, EmptySeq
  <2>6. QED
    BY <2>1, <2>2, <2>3, <2>4, <2>5 DEF WellTyped
<1>3. Len(toPeer["client"]) = 0 /\ Len(toPeer["far"]) = 0
  BY <1>1
<1>4. ClientSide
  BY <1>1, <1>3 DEF ClientSide
<1>5. WholeMessages
  BY <1>1 DEF WholeMessages, AfterCommand
<1>6. Upstream
  BY <1>1 DEF Upstream
<1>7. Reached
  BY <1>1, <1>3 DEF Reached
<1>8. QED
  BY <1>2, <1>4, <1>5, <1>6, <1>7 DEF IInv

LEMMA StutterIInv == IInv /\ UNCHANGED vars => IInv'
<1> SUFFICES ASSUME IInv, UNCHANGED vars PROVE IInv'
  OBVIOUS
<1>1. WellTyped'
  BY DEF IInv, vars, WellTyped
<1>2. ClientSide' /\ WholeMessages'
  BY UpKeepsClientSide DEF IInv, vars, ClientSide
<1>3. Upstream' /\ Reached'
  BY ClientKeepsUpstream DEF IInv, vars
<1>4. QED
  BY <1>1, <1>2, <1>3 DEF IInv

-----------------------------------------------------------------------------
(* The steps of the session on the client's side.                          *)

LEMMA SayHelloIInv ==
  ASSUME IInv, NEW k \in 1..20, SayHello(k)
  PROVE  IInv'
<1>1. WellTyped /\ ClientSide /\ WholeMessages /\ Upstream /\ Reached
  BY DEF IInv
<1>2. /\ session.pc = "hello" /\ k \in Sizes("client", 20) /\ Receive("client", k)
      /\ client' = client /\ far' = far /\ toPeer' = toPeer
      /\ \/ session' = [session EXCEPT !.pc = "greet"] /\ open' = open
         \/ session' = [session EXCEPT !.pc = "ended"] /\ open' = {}
  BY DEF SayHello, Drop
<1>3. /\ k \in Nat /\ 1 <= k /\ k <= Len(inq["client"])
      /\ inq' \in [Sockets -> Seq(Byte)] /\ inq'["far"] = inq["far"]
      /\ k = Len(inq["client"]) => inq'["client"] = << >>
      /\ ~Cut("client") /\ Len(inq["client"]) <= 20 => k = Len(inq["client"])
      /\ inq["client"] # << >>
  <2> DEFINE size == 20
  <2>1. size \in Nat /\ k \in Sizes("client", size) /\ "client" \in Sockets
    BY <1>2 DEF Sockets
  <2> HIDE DEF size
  <2>2. /\ k \in Nat /\ 1 <= k /\ k <= Len(inq["client"]) /\ Len(inq["client"]) \in Nat
        /\ inq' \in [Sockets -> Seq(Byte)]
        /\ \A q \in Sockets \ {"client"} : inq'[q] = inq[q]
        /\ k = Len(inq["client"]) => inq'["client"] = << >>
        /\ ~Cut("client") /\ Len(inq["client"]) <= size => k = Len(inq["client"])
    BY <1>1, <1>2, <2>1, ReceiveEffect
  <2>3. inq["client"] # << >>
    BY <2>2
  <2>4. "far" \in Sockets \ {"client"}
    BY DEF Sockets
  <2>5. QED
    BY <2>2, <2>3, <2>4 DEF size
<1>4. /\ session' \in SessionType /\ session'.pc \in {"greet", "ended"}
      /\ session'.target = session.target /\ session'.bound = session.bound
      /\ session'.method = session.method /\ session'.code = session.code
      /\ open' \subseteq {"client", "far"}
  <2>1. session \in SessionType /\ open \subseteq {"client", "far"}
    BY <1>1 DEF WellTyped
  <2>2. "greet" \in PCs /\ "ended" \in PCs
    BY DEF PCs
  <2>3. QED
    BY <1>2, <2>1, <2>2, EditPc
<1>5. WellTyped'
  BY <1>1, <1>2, <1>3, <1>4 DEF WellTyped
<1>6. Upstream' /\ Reached'
  BY <1>1, <1>2, <1>3, <1>4, ClientKeepsUpstream
<1>7. toPeer["client"] = << >> /\ client.pc \in {"greeted", "gone"}
  BY <1>1, <1>2, <1>3 DEF ClientSide
<1>8. ClientSide'
  <2>1. Len(toPeer'["client"]) = 0
    BY <1>2, <1>7
  <2>2. QED
    BY <1>1, <1>2, <1>4, <1>7, <2>1 DEF ClientSide
<1>9. WholeMessages'
  <2>1. ASSUME client.command.whole
        PROVE  inq'["client"] = << >>
    <3>1. inq["client"] \in Hellos
      BY <1>1, <1>2, <1>3, <2>1 DEF WholeMessages
    <3>2. Len(inq["client"]) <= 20
      <4>1. \A hello \in Hellos : Len(hello) \in 1..20
        BY HellosAssumption
      <4>2. Len(inq["client"]) \in 1..20
        BY <3>1, <4>1, ZenonT(90)
      <4>3. \A n \in 1..20 : n <= 20
        OBVIOUS
      <4>4. QED
        BY <4>2, <4>3, ZenonT(90)
      <3>3. QED
      BY <1>3, <2>1, <3>2 DEF Cut
  <2>2. QED
    BY <1>1, <1>2, <1>4, <1>7, <2>1 DEF WholeMessages, AfterCommand, Fits
<1>10. QED
  BY <1>5, <1>6, <1>8, <1>9 DEF IInv

LEMMA GreetIInv ==
  ASSUME IInv, Greet
  PROVE  IInv'
<1>1. WellTyped /\ ClientSide /\ WholeMessages /\ Upstream /\ Reached
  BY DEF IInv
<1>2. /\ session.pc = "greet" /\ Send("client", << 5, 0 >>)
      /\ client' = client /\ far' = far /\ inq' = inq /\ open' = open
      /\ session' = [session EXCEPT !.pc = "command"]
  BY DEF Greet
<1>3. toPeer["client"] = << >> /\ client.pc \in {"start", "greeted", "gone"}
  BY <1>1, <1>2 DEF ClientSide
<1>4. /\ DOMAIN toPeer' = Sockets
      /\ toPeer'["client"] = Append(toPeer["client"], << 5, 0 >>)
      /\ toPeer'["far"] = toPeer["far"]
  BY <1>1, <1>2, SendEffect DEF Sockets
<1>5. /\ toPeer'["client"] \in Seq(Seq(Byte)) /\ Len(toPeer'["client"]) = 1
      /\ toPeer'["client"][1] = << 5, 0 >>
  <2>1. << 5, 0 >> \in Seq(Byte)
    <3>1. 5 \in Byte /\ 0 \in Byte
      BY SMT DEF Byte
    <3>2. QED
      BY <3>1, TwoBytes
  <2>2. toPeer["client"] \in Seq(Seq(Byte))
    BY <1>1 DEF WellTyped
  <2>3. QED
    BY <1>3, <1>4, <2>1, <2>2, AppendTo
<1>6. /\ session' \in SessionType /\ session'.pc = "command"
      /\ session'.target = session.target /\ session'.bound = session.bound
      /\ session'.method = session.method /\ session'.code = session.code
  BY <1>1, <1>2, EditPc DEF WellTyped, PCs
<1>7. WellTyped'
  BY <1>1, <1>2, <1>4, <1>5, <1>6 DEF WellTyped
<1>8. Upstream' /\ Reached'
  BY <1>1, <1>2, <1>4, <1>6, ClientKeepsUpstream
<1>9. ClientSide'
  <2>1. \A i \in 1..Len(toPeer'["client"]) :
           i = 1 /\ client'.pc # "asked" /\ toPeer'["client"][i] = << 5, 0 >>
    BY <1>2, <1>3, <1>5
  <2>2. QED
    BY <1>1, <1>2, <1>6, <2>1 DEF ClientSide
<1>10. WholeMessages'
  BY <1>1, <1>2, <1>6 DEF WholeMessages, AfterCommand, Fits
<1>11. QED
  BY <1>7, <1>8, <1>9, <1>10 DEF IInv

LEMMA ClientFailsIInv ==
  ASSUME IInv, ClientFails
  PROVE  IInv'
<1>1. WellTyped /\ ClientSide /\ WholeMessages /\ Upstream /\ Reached
  BY DEF IInv
<1>2. /\ client' = client /\ far' = far /\ toPeer' = toPeer /\ inq' = inq /\ open' = {}
      /\ session' = [session EXCEPT !.pc = "ended"]
  BY DEF ClientFails, Drop
<1>3. /\ session' \in SessionType /\ session'.pc = "ended"
      /\ session'.target = session.target /\ session'.bound = session.bound
      /\ session'.method = session.method /\ session'.code = session.code
  BY <1>1, <1>2, EditPc DEF WellTyped, PCs
<1>4. WellTyped'
  BY <1>1, <1>2, <1>3 DEF WellTyped
<1>5. Upstream' /\ Reached'
  BY <1>1, <1>2, <1>3, ClientKeepsUpstream
<1>6. ClientSide' /\ WholeMessages'
  BY <1>1, <1>2, <1>3, UpKeepsClientSide DEF AfterCommand
<1>7. QED
  BY <1>4, <1>5, <1>6 DEF IInv

-----------------------------------------------------------------------------
(* The steps of the upstream side.                                         *)

Building == {"connect", "upGreet", "upHello", "upLogin", "upVerify", "upAsk", "upBound"}

LEMMA UpStep ==
  ASSUME IInv, client' = client, far' = far, open' \subseteq {"client", "far"},
         session.pc \in Building,
         session' \in SessionType, session'.pc \in Building \cup {"answer", "refuse", "crashed"},
         session'.target = session.target, session'.code \in {session.code, 11, 12},
         session'.pc = "refuse" => session'.code # 0,
         DOMAIN toPeer' = Sockets, toPeer'["client"] = toPeer["client"],
         toPeer'["far"] \in Seq(FarMessages),
         \A i \in 1..Len(toPeer'["far"]) :
           toPeer'["far"][i].kind = "connect" => WellAsked(toPeer'["far"][i].ask, session.target),
         inq' \in [Sockets -> Seq(Byte)], inq'["client"] = inq["client"],
         Upstream'
  PROVE  IInv'
<1>1. WellTyped /\ ClientSide /\ WholeMessages /\ Upstream /\ Reached
  BY DEF IInv
<1>2. WellTyped'
  BY <1>1 DEF WellTyped
<1>3. ClientSide' /\ WholeMessages'
  <2>1. session'.pc \notin {"hello", "greet", "command"} /\ session.pc \in AfterCommand
    BY DEF Building, AfterCommand
  <2>2. QED
    BY <1>1, <2>1, UpKeepsClientSide
<1>4. Reached'
  BY <1>1 DEF Reached, Building
<1>5. QED
  BY <1>2, <1>3, <1>4 DEF IInv

LEMMA UpReads ==
  ASSUME IInv, client' = client, far' = far, toPeer' = toPeer, open' \subseteq {"client", "far"},
         session.pc \in Building,
         session' \in SessionType, session'.pc \in Building \cup {"answer", "refuse", "crashed"},
         session'.target = session.target, session'.code \in {session.code, 11, 12},
         session'.pc = "refuse" => session'.code # 0,
         inq' \in [Sockets -> Seq(Byte)], inq'["client"] = inq["client"],
         Upstream'
  PROVE  IInv'
<1>1. /\ DOMAIN toPeer' = Sockets /\ toPeer'["client"] = toPeer["client"]
      /\ toPeer'["far"] \in Seq(FarMessages)
  BY DEF IInv, WellTyped
<1>2. \A i \in 1..Len(toPeer'["far"]) :
        toPeer'["far"][i].kind = "connect" => WellAsked(toPeer'["far"][i].ask, session.target)
  BY DEF IInv, Reached
<1>3. QED
  BY <1>1, <1>2, UpStep

\* However a step fails, the refusal is all that is left to do.
LEMMA UpFailedIInv ==
  ASSUME IInv, client' = client, far' = far, toPeer' = toPeer, UpFailed,
         session.pc \in Building,
         inq' \in [Sockets -> Seq(Byte)], inq'["client"] = inq["client"]
  PROVE  IInv'
<1>1. session' = [session EXCEPT !.pc = "refuse", !.code = 11] /\ open' = open \ {"far"}
  BY DEF UpFailed
<1>2. session \in SessionType /\ open \subseteq {"client", "far"}
  BY DEF IInv, WellTyped
<1>3. "refuse" \in PCs /\ 11 \in Codes
  BY DEF PCs, Codes
<1>4. /\ session' \in SessionType /\ session'.pc = "refuse" /\ session'.code = 11
      /\ session'.target = session.target
  <2> DEFINE c == 11
  <2>1. session' = WithCode(session, "refuse", c) /\ c \in Codes
    BY <1>1, <1>3, ZenonT(90) DEF WithCode
  <2> HIDE DEF c
  <2>2. /\ session' \in SessionType /\ session'.pc = "refuse" /\ session'.code = c
        /\ session'.target = session.target
    BY <1>2, <1>3, <2>1, EditCode
  <2>3. QED
    BY <2>2 DEF c
<1>5. Upstream'
  BY <1>4 DEF Upstream, BeforeAsk
<1>6. QED
  BY <1>1, <1>2, <1>4, <1>5, UpReads

LEMMA ConnectIInv ==
  ASSUME IInv, Connect
  PROVE  IInv'
<1>1. /\ session.pc = "connect" /\ session' = [session EXCEPT !.pc = "upGreet"]
      /\ open' = open \cup {"far"}
      /\ client' = client /\ far' = far /\ toPeer' = toPeer /\ inq' = inq
  BY DEF Connect
<1>2. /\ session \in SessionType /\ open \subseteq {"client", "far"} /\ Upstream
      /\ inq \in [Sockets -> Seq(Byte)]
  BY DEF IInv, WellTyped
<1>3. /\ session' \in SessionType /\ session'.pc = "upGreet"
      /\ session'.target = session.target /\ session'.code = session.code
  BY <1>1, <1>2, EditPc DEF PCs
<1>4. Upstream'
  BY <1>1, <1>2, <1>3 DEF Upstream, BeforeAsk
<1>5. session.pc \in Building /\ session'.pc \in Building
  BY <1>1, <1>3 DEF Building
<1>6. QED
  BY <1>1, <1>2, <1>3, <1>4, <1>5, UpReads

\* A message to the far proxy that is the only one on its way.
LEMMA SendsOne ==
  ASSUME WellTyped, toPeer["far"] = << >>, NEW m \in FarMessages, Send("far", m)
  PROVE  /\ DOMAIN toPeer' = Sockets /\ toPeer'["client"] = toPeer["client"]
         /\ toPeer'["far"] \in Seq(FarMessages) /\ Len(toPeer'["far"]) = 1
         /\ toPeer'["far"][1] = m
<1>1. /\ DOMAIN toPeer' = Sockets /\ toPeer'["client"] = toPeer["client"]
      /\ toPeer'["far"] = Append(toPeer["far"], m)
  BY SendEffect DEF Sockets
<1>2. toPeer["far"] \in Seq(FarMessages)
  BY DEF WellTyped
<1>3. QED
  BY <1>1, <1>2, AppendTo

LEMMA UpGreetIInv ==
  ASSUME IInv, UpGreet
  PROVE  IInv'
<1>1. /\ session.pc = "upGreet" /\ session' = [session EXCEPT !.pc = "upHello"]
      /\ Send("far", [kind |-> "hello"])
      /\ client' = client /\ far' = far /\ inq' = inq /\ open' = open
  BY DEF UpGreet
<1>2. /\ session \in SessionType /\ open \subseteq {"client", "far"} /\ Upstream /\ WellTyped
      /\ inq \in [Sockets -> Seq(Byte)]
  BY DEF IInv, WellTyped
<1>3. /\ session' \in SessionType /\ session'.pc = "upHello"
      /\ session'.target = session.target /\ session'.code = session.code
  BY <1>1, <1>2, EditPc DEF PCs
<1>4. toPeer["far"] = << >> /\ inq["far"] = << >>
  BY <1>1, <1>2 DEF Upstream, BeforeAsk
<1> DEFINE m == [kind |-> "hello"]
<1>5. m \in FarMessages /\ m.kind = "hello"
  BY DEF FarMessages
<1>6. /\ DOMAIN toPeer' = Sockets /\ toPeer'["client"] = toPeer["client"]
      /\ toPeer'["far"] \in Seq(FarMessages) /\ Len(toPeer'["far"]) = 1
      /\ toPeer'["far"][1] = m
  BY <1>1, <1>2, <1>4, <1>5, SendsOne
<1> HIDE DEF m
<1>7. Asked("hello")'
  BY <1>1, <1>4, <1>5, <1>6 DEF Asked
<1>8. Upstream'
  BY <1>3, <1>7 DEF Upstream, BeforeAsk
<1>9. \A i \in 1..Len(toPeer'["far"]) : toPeer'["far"][i].kind # "connect"
  BY <1>5, <1>6
<1>10. session.pc \in Building /\ session'.pc \in Building
  BY <1>1, <1>3 DEF Building
<1>11. QED
  BY <1>1, <1>2, <1>3, <1>6, <1>8, <1>9, <1>10, UpStep

LEMMA UpLoginIInv ==
  ASSUME IInv, UpLogin
  PROVE  IInv'
<1>1. /\ session.pc = "upLogin" /\ session' = [session EXCEPT !.pc = "upVerify"]
      /\ Send("far", [kind |-> "login"])
      /\ client' = client /\ far' = far /\ inq' = inq /\ open' = open
  BY DEF UpLogin
<1>2. /\ session \in SessionType /\ open \subseteq {"client", "far"} /\ Upstream /\ WellTyped
      /\ inq \in [Sockets -> Seq(Byte)]
  BY DEF IInv, WellTyped
<1>3. /\ session' \in SessionType /\ session'.pc = "upVerify" /\ session'.method = session.method
      /\ session'.target = session.target /\ session'.code = session.code
  BY <1>1, <1>2, EditPc DEF PCs
<1>4. toPeer["far"] = << >> /\ inq["far"] = << >> /\ session.method = {far.method}
  BY <1>1, <1>2 DEF Upstream, BeforeAsk
<1> DEFINE m == [kind |-> "login"]
<1>5. m \in FarMessages /\ m.kind = "login"
  BY DEF FarMessages
<1>6. /\ DOMAIN toPeer' = Sockets /\ toPeer'["client"] = toPeer["client"]
      /\ toPeer'["far"] \in Seq(FarMessages) /\ Len(toPeer'["far"]) = 1
      /\ toPeer'["far"][1] = m
  BY <1>1, <1>2, <1>4, <1>5, SendsOne
<1> HIDE DEF m
<1>7. Asked("login")'
  BY <1>1, <1>4, <1>5, <1>6 DEF Asked
<1>8. Upstream'
  BY <1>1, <1>3, <1>4, <1>7 DEF Upstream, BeforeAsk
<1>9. \A i \in 1..Len(toPeer'["far"]) : toPeer'["far"][i].kind # "connect"
  BY <1>5, <1>6
<1>10. session.pc \in Building /\ session'.pc \in Building
  BY <1>1, <1>3 DEF Building
<1>11. QED
  BY <1>1, <1>2, <1>3, <1>6, <1>8, <1>9, <1>10, UpStep

LEMMA UpFailsIInv ==
  ASSUME IInv, UpFails
  PROVE  IInv'
<1>1. /\ client' = client /\ far' = far /\ toPeer' = toPeer /\ inq' = inq /\ UpFailed
      /\ session.pc \in Building
  BY DEF UpFails, Building
<1>2. inq \in [Sockets -> Seq(Byte)]
  BY DEF IInv, WellTyped
<1>3. QED
  BY <1>1, <1>2, UpFailedIInv

\* What a recv on the upstream stream returns.
LEMMA FarReceives ==
  ASSUME WellTyped, NEW k \in Sizes("far", 300), Receive("far", k)
  PROVE  /\ k \in Nat /\ 1 <= k /\ k <= Len(inq["far"]) /\ Len(inq["far"]) \in Nat
         /\ inq["far"] \in Seq(Byte) /\ inq["far"] # << >>
         /\ inq' \in [Sockets -> Seq(Byte)] /\ inq'["client"] = inq["client"]
         /\ Got("far", k) \in Seq(Byte) /\ Len(Got("far", k)) = k
         /\ \A i \in 1..k : Got("far", k)[i] = inq["far"][i]
         /\ k = Len(inq["far"]) => Got("far", k) = inq["far"] /\ inq'["far"] = << >>
<1> DEFINE size == 300
<1>1. size \in Nat /\ k \in Sizes("far", size) /\ "far" \in Sockets
  BY DEF Sockets
<1> HIDE DEF size
<1>2. /\ k \in Nat /\ 1 <= k /\ k <= Len(inq["far"])
      /\ inq["far"] \in Seq(Byte) /\ Len(inq["far"]) \in Nat
      /\ inq' \in [Sockets -> Seq(Byte)]
      /\ \A q \in Sockets \ {"far"} : inq'[q] = inq[q]
      /\ Got("far", k) \in Seq(Byte) /\ Len(Got("far", k)) = k
      /\ \A i \in 1..k : Got("far", k)[i] = inq["far"][i]
      /\ k = Len(inq["far"]) => Got("far", k) = inq["far"] /\ inq'["far"] = << >>
  BY <1>1, ReceiveEffect
<1>3. inq["far"] # << >>
  BY <1>2
<1>4. inq'["client"] = inq["client"]
  BY <1>2 DEF Sockets
<1>5. QED
  BY <1>2, <1>3, <1>4

\* The greeting is taken for a whole one only when it is, and then the ciphers agree.
LEMMA UpHelloIInv ==
  ASSUME IInv, NEW k, UpHello(k)
  PROVE  IInv'
<1>1. /\ session.pc = "upHello" /\ k \in Sizes("far", 300) /\ Receive("far", k)
      /\ client' = client /\ far' = far /\ toPeer' = toPeer
  BY DEF UpHello
<1>2. /\ WellTyped /\ Upstream
      /\ session \in SessionType /\ open \subseteq {"client", "far"} /\ far.method \in FarObjects
  BY TypedFields DEF IInv, WellTyped
<1> DEFINE out == Got("far", k)
<1>3. /\ k \in Nat /\ 1 <= k /\ k <= Len(inq["far"]) /\ Len(inq["far"]) \in Nat
      /\ inq["far"] # << >>
      /\ inq' \in [Sockets -> Seq(Byte)] /\ inq'["client"] = inq["client"]
      /\ \A i \in 1..k : out[i] = inq["far"][i]
      /\ k = Len(inq["far"]) => out = inq["far"] /\ inq'["far"] = << >>
  BY <1>1, <1>2, FarReceives
<1>4. \/ /\ k >= 3 /\ out[3] + 3 = k
         /\ session' = [session EXCEPT !.pc = "upLogin",
                                       !.method = BuildFromBytes(SubSeq(out, 4, k))]
         /\ open' = open
      \/ UpFailed
  BY DEF UpHello
<1> HIDE DEF out
<1>5. session.pc \in Building
  BY <1>1 DEF Building
<1>6. CASE UpFailed
  BY <1>1, <1>3, <1>5, <1>6, UpFailedIInv
<1>7. CASE /\ k >= 3 /\ out[3] + 3 = k
           /\ session' = [session EXCEPT !.pc = "upLogin",
                                         !.method = BuildFromBytes(SubSeq(out, 4, k))]
           /\ open' = open
  <2>1. toPeer["far"] = << >> /\ inq["far"] = FarHello(far.method)
    BY <1>1, <1>2, <1>3 DEF Upstream, Asked
  <2> DEFINE hello == FarHello(far.method)
  <2>2. /\ Len(hello) = 3 + hello[3]
        /\ SubSeq(hello, 4, Len(hello)) = MethodBytes(far.method)
    BY <1>2, FarHelloBytes
  <2> HIDE DEF hello
  <2>3. out[3] = hello[3]
    <3>1. 3 \in 1..k
      BY <1>3, <1>7
    <3>2. out[3] = inq["far"][3]
      BY <1>3, <3>1
    <3>3. QED
      BY <2>1, <3>2 DEF hello
  <2>4. k = Len(inq["far"])
    <3>1. Len(inq["far"]) = 3 + hello[3] /\ Len(inq["far"]) \in Nat
      BY <1>3, <2>1, <2>2 DEF hello
    <3>2. 3 + hello[3] = hello[3] + 3
      <4>1. hello[3] \in Byte
        <5>1. hello \in Seq(Byte) /\ 3 \in 1..Len(hello)
          BY <1>2, <1>3, <1>7, <2>1, FarHelloBytes DEF hello
        <5>2. QED
          BY <5>1, ElementOfSeq
      <4>2. QED
        BY <4>1, SMT DEF Byte
    <3>3. hello[3] + 3 = k
      BY <1>7, <2>3
    <3>4. QED
      BY <3>1, <3>2, <3>3
  <2>5. SubSeq(out, 4, k) = MethodBytes(far.method) /\ inq'["far"] = << >>
    BY <1>3, <2>1, <2>2, <2>4 DEF hello
  <2>6. BuildFromBytes(SubSeq(out, 4, k)) = {far.method}
    BY <1>2, <2>5, MethodRead
  <2> DEFINE x == {far.method}
  <2>7. session' = WithMethod(session, "upLogin", x) /\ x \in SUBSET FarObjects
    BY <1>2, <1>7, <2>6, ZenonT(90) DEF WithMethod
  <2>8. "upLogin" \in PCs
    BY DEF PCs
  <2> HIDE DEF x
  <2>9. /\ session' \in SessionType /\ session'.pc = "upLogin" /\ session'.method = x
        /\ session'.target = session.target /\ session'.code = session.code
    BY <1>2, <2>7, <2>8, EditMethod
  <2>10. Upstream'
    BY <1>1, <2>1, <2>5, <2>9 DEF Upstream, BeforeAsk, x
  <2>11. session'.pc \in Building
    BY <2>9 DEF Building
  <2>12. QED
    BY <1>1, <1>2, <1>3, <1>5, <1>7, <2>9, <2>10, <2>11, UpReads
<1>8. QED
  BY <1>4, <1>6, <1>7

LEMMA VerifyAuthIInv ==
  ASSUME IInv, NEW k, VerifyAuth(k)
  PROVE  IInv'
<1>1. /\ session.pc = "upVerify" /\ k \in Sizes("far", 300) /\ Receive("far", k)
      /\ client' = client /\ far' = far /\ toPeer' = toPeer
      /\ \/ k >= 2 /\ session' = [session EXCEPT !.pc = "upAsk"] /\ open' = open
         \/ UpFailed
  BY DEF VerifyAuth
<1>2. /\ WellTyped /\ Upstream
      /\ session \in SessionType /\ open \subseteq {"client", "far"}
  BY DEF IInv, WellTyped
<1>3. /\ k \in Nat /\ 1 <= k /\ k <= Len(inq["far"]) /\ Len(inq["far"]) \in Nat
      /\ inq["far"] # << >>
      /\ inq' \in [Sockets -> Seq(Byte)] /\ inq'["client"] = inq["client"]
      /\ k = Len(inq["far"]) => inq'["far"] = << >>
  BY <1>1, <1>2, FarReceives
<1>4. session.pc \in Building
  BY <1>1 DEF Building
<1>5. CASE UpFailed
  BY <1>1, <1>3, <1>4, <1>5, UpFailedIInv
<1>6. CASE k >= 2 /\ session' = [session EXCEPT !.pc = "upAsk"] /\ open' = open
  <2>1. /\ toPeer["far"] = << >> /\ inq["far"] \in {<< 5, 0 >>, << 5, 1 >>}
        /\ session.method = {far.method}
    BY <1>1, <1>2, <1>3 DEF Upstream, Asked
  <2>2. Len(inq["far"]) = 2
    BY <2>1
  <2>3. inq'["far"] = << >>
    BY <1>3, <1>6, <2>2
  <2>4. /\ session' \in SessionType /\ session'.pc = "upAsk" /\ session'.method = session.method
        /\ session'.target = session.target /\ session'.code = session.code
    BY <1>2, <1>6, EditPc DEF PCs
  <2>5. Upstream'
    BY <1>1, <2>1, <2>3, <2>4 DEF Upstream, BeforeAsk
  <2>6. session'.pc \in Building
    BY <2>4 DEF Building
  <2>7. QED
    BY <1>1, <1>2, <1>3, <1>4, <1>6, <2>4, <2>5, <2>6, UpReads
<1>7. QED
  BY <1>1, <1>5, <1>6

\* The request names the target the session understood.
LEMMA UpAskIInv ==
  ASSUME IInv, UpAsk
  PROVE  IInv'
<1>1. /\ session.pc = "upAsk" /\ client' = client /\ far' = far /\ inq' = inq
  BY DEF UpAsk
<1>2. /\ WellTyped /\ Upstream /\ session.target \in AddressType /\ session.method \subseteq FarObjects
      /\ session \in SessionType /\ open \subseteq {"client", "far"}
      /\ inq \in [Sockets -> Seq(Byte)]
  BY TypedFields DEF IInv, WellTyped
<1>3. toPeer["far"] = << >> /\ inq["far"] = << >>
  BY <1>1, <1>2 DEF Upstream, BeforeAsk
<1>4. \/ session' = [session EXCEPT !.pc = "crashed"] /\ open' = {} /\ toPeer' = toPeer
      \/ /\ \E o \in session.method : \E ask \in Asks(session.target, o) :
              Send("far", [kind |-> "connect", ask |-> ask])
         /\ session' = [session EXCEPT !.pc = "upBound"] /\ open' = open
  <2> DEFINE asks == UNION {Asks(session.target, o) : o \in session.method}
  <2>1. \/ session' = [session EXCEPT !.pc = "crashed"] /\ open' = {} /\ toPeer' = toPeer
        \/ /\ \E ask \in asks : Send("far", [kind |-> "connect", ask |-> ask])
           /\ session' = [session EXCEPT !.pc = "upBound"] /\ open' = open
    BY DEF UpAsk
  <2>2. \A ask \in asks : \E o \in session.method : ask \in Asks(session.target, o)
    OBVIOUS
  <2> HIDE DEF asks
  <2>3. QED
    BY <2>1, <2>2, ZenonT(90)
<1>5. session.pc \in Building
  BY <1>1 DEF Building
<1>6. CASE session' = [session EXCEPT !.pc = "crashed"] /\ open' = {} /\ toPeer' = toPeer
  <2>1. /\ session' \in SessionType /\ session'.pc = "crashed"
        /\ session'.target = session.target /\ session'.code = session.code
    BY <1>2, <1>6, EditPc DEF PCs
  <2>2. Upstream'
    BY <2>1 DEF Upstream, BeforeAsk
  <2>3. QED
    BY <1>1, <1>2, <1>5, <1>6, <2>1, <2>2, UpReads
<1>7. CASE /\ \E o \in session.method : \E ask \in Asks(session.target, o) :
                Send("far", [kind |-> "connect", ask |-> ask])
           /\ session' = [session EXCEPT !.pc = "upBound"] /\ open' = open
  <2>1. PICK o \in session.method : \E ask \in Asks(session.target, o) :
               Send("far", [kind |-> "connect", ask |-> ask])
    BY <1>7
  <2>2. PICK ask \in Asks(session.target, o) : Send("far", [kind |-> "connect", ask |-> ask])
    BY <2>1
  <2>3. WellAsked(ask, session.target)
    BY <1>2, AskForm
  <2> DEFINE m == [kind |-> "connect", ask |-> ask]
  <2>4. m \in FarMessages /\ m.kind = "connect" /\ m.ask = ask
    <3>1. ask \in {a \in AskType : Len(a.plain) >= 2}
      BY <2>3 DEF WellAsked
    <3>2. QED
      BY <3>1 DEF FarMessages
  <2>5. /\ DOMAIN toPeer' = Sockets /\ toPeer'["client"] = toPeer["client"]
        /\ toPeer'["far"] \in Seq(FarMessages) /\ Len(toPeer'["far"]) = 1
        /\ toPeer'["far"][1] = m
    BY <1>2, <1>3, <2>2, <2>4, SendsOne
  <2> HIDE DEF m
  <2>6. /\ session' \in SessionType /\ session'.pc = "upBound"
        /\ session'.target = session.target /\ session'.code = session.code
    BY <1>2, <1>7, EditPc DEF PCs
  <2>7. Asked("connect")'
    BY <1>1, <1>3, <2>4, <2>5 DEF Asked
  <2>8. Upstream'
    BY <2>6, <2>7 DEF Upstream, BeforeAsk
  <2>9. \A i \in 1..Len(toPeer'["far"]) :
          toPeer'["far"][i].kind = "connect" => WellAsked(toPeer'["far"][i].ask, session.target)
    BY <2>3, <2>4, <2>5
  <2>10. session'.pc \in Building
    BY <2>6 DEF Building
  <2>11. QED
    BY <1>1, <1>2, <1>5, <1>7, <2>5, <2>6, <2>8, <2>9, <2>10, UpStep
<1>8. QED
  BY <1>4, <1>6, <1>7

\* Ten bytes of an answer that reports success are all of it if they hold an IPv4
\* address, and the far proxy has reached the target.
LEMMA UpBoundIInv ==
  ASSUME IInv, NEW k, UpBound(k)
  PROVE  IInv'
<1>1. /\ session.pc = "upBound" /\ k \in Sizes("far", 300) /\ Receive("far", k)
      /\ client' = client /\ far' = far /\ toPeer' = toPeer
  BY ZenonT(90) DEF UpBound
<1>2. /\ WellTyped /\ Upstream
      /\ session \in SessionType /\ open \subseteq {"client", "far"}
  BY DEF IInv, WellTyped
<1> DEFINE tmp == Got("far", k)
<1>3. /\ k \in Nat /\ 1 <= k /\ k <= Len(inq["far"]) /\ Len(inq["far"]) \in Nat
      /\ inq["far"] # << >>
      /\ inq' \in [Sockets -> Seq(Byte)] /\ inq'["client"] = inq["client"]
      /\ tmp \in Seq(Byte) /\ Len(tmp) = k
      /\ \A i \in 1..k : tmp[i] = inq["far"][i]
      /\ k = Len(inq["far"]) => inq'["far"] = << >>
  BY <1>1, <1>2, FarReceives
<1>4. \/ /\ k >= 10 /\ tmp[2] = 0
         /\ \E b \in FromSocks5CommandStream(SubSeq(tmp, 4, k)) :
              session' = [session EXCEPT !.pc = "answer", !.bound = b]
         /\ open' = open
      \/ UpFailed
  BY ZenonT(90) DEF UpBound
<1> HIDE DEF tmp
<1>5. session.pc \in Building
  BY <1>1 DEF Building
<1>6. CASE UpFailed
  BY <1>1, <1>3, <1>5, <1>6, UpFailedIInv
<1>7. ASSUME k >= 10, tmp[2] = 0, open' = open,
             NEW b \in FromSocks5CommandStream(SubSeq(tmp, 4, k)),
             session' = [session EXCEPT !.pc = "answer", !.bound = b]
      PROVE  IInv'
  <2>1. inq["far"][2] = 0 /\ inq["far"][4] = tmp[4]
    <3>1. 2 \in 1..k /\ 4 \in 1..k
      BY <1>3, <1>7
    <3>2. tmp[2] = inq["far"][2] /\ tmp[4] = inq["far"][4]
      BY <1>3, <3>1
    <3>3. QED
      BY <1>7, <3>2
  <2>2. inq["far"] # Refusal(1)
    <3>1. Refusal(1)[2] = 1
      BY DEF Refusal
    <3>2. QED
      BY <2>1, <3>1
  <2>3. /\ toPeer["far"] = << >> /\ far.target # NoAddr
        /\ \E bound \in Bounds : inq["far"] = FarBound(bound)
    BY <1>1, <1>2, <1>3, <2>2 DEF Upstream, Asked
  <2> DEFINE cmd == SubSeq(tmp, 4, k)
             from == 4
  <2>4. cmd \in Seq(Byte) /\ Len(cmd) >= 1 /\ cmd[1] = tmp[4]
    <3>1. /\ from \in 1..Len(tmp) + 1 /\ k \in 0..Len(tmp) /\ from <= k
          /\ k - from + 1 \in Nat /\ 1 <= k - from + 1 /\ 1 \in 1..(k - from + 1)
          /\ from + 1 - 1 = 4
      BY <1>3, <1>7
    <3> HIDE DEF from
    <3>2. /\ SubSeq(tmp, from, k) \in Seq(Byte)
          /\ Len(SubSeq(tmp, from, k)) = k - from + 1
          /\ \A i \in 1..(k - from + 1) : SubSeq(tmp, from, k)[i] = tmp[from + i - 1]
      BY <1>3, <3>1, Slices
    <3>3. SubSeq(tmp, from, k)[1] = tmp[from + 1 - 1]
      BY <3>1, <3>2
    <3>4. cmd = SubSeq(tmp, from, k)
      BY DEF from
    <3> HIDE DEF cmd
    <3>5. QED
      BY <3>1, <3>2, <3>3, <3>4
  <2> HIDE DEF cmd, from
  <2>5. b \in AddressType /\ (b.type = "ipv4" => cmd[1] = 1)
    BY <1>7, <2>4, ParsedType DEF cmd
  <2>6. b.type = "ipv4" => inq'["far"] = << >>
    <3>1. SUFFICES ASSUME b.type = "ipv4" PROVE k = Len(inq["far"])
      BY <1>3
    <3>2. PICK bound \in Bounds : inq["far"] = FarBound(bound)
      BY <2>3
    <3>3. FarBound(bound)[4] = 1
      BY <2>1, <2>4, <2>5, <3>1, <3>2
    <3>4. Len(FarBound(bound)) = 10
      BY <3>3, BoundBytes
    <3>5. QED
      BY <1>3, <1>7, <3>2, <3>4
  <2>7. /\ session' \in SessionType /\ session'.pc = "answer" /\ session'.bound = b
        /\ session'.target = session.target /\ session'.code = session.code
    <3>1. "answer" \in PCs
      BY DEF PCs
    <3>2. session' = WithBound(session, "answer", b)
      BY <1>7, ZenonT(90) DEF WithBound
    <3>3. QED
      BY <1>2, <2>5, <3>1, <3>2, EditBound
  <2>8. Upstream'
    BY <1>1, <2>3, <2>6, <2>7 DEF Upstream, BeforeAsk
  <2>9. QED
    BY <1>1, <1>2, <1>3, <1>5, <1>7, <2>7, <2>8, UpReads
<1>8. QED
  BY <1>4, <1>6, <1>7, ZenonT(90)

-----------------------------------------------------------------------------
(* The command and the last word to the client.                            *)

\* A command that arrives whole is refused only if it is no CONNECT, and one that
\* fits the buffer is understood as it was meant.
LEMMA ReadCommandIInv ==
  ASSUME IInv, NEW k, ReadCommand(k)
  PROVE  IInv'
<1> DEFINE out == Got("client", k)
           cmd == SubSeq(out, 4, k)
           said == Command(client.command)
<1>1. WellTyped /\ ClientSide /\ WholeMessages /\ Upstream /\ Reached
  BY DEF IInv
<1>2. /\ session.pc = "command" /\ k \in Sizes("client", 256) /\ Receive("client", k)
      /\ client' = client /\ far' = far /\ toPeer' = toPeer
  BY ZenonT(90) DEF ReadCommand
<1>3. \/ /\ k < 4 \/ out[1] # 5 \/ out[2] # 1
         /\ session' = [session EXCEPT !.pc = "refuse", !.code = 10]
         /\ open' = open
      \/ /\ ~(k < 4)
         /\ session' = [session EXCEPT !.pc = "crashed"] /\ open' = {}
      \/ /\ ~(k < 4)
         /\ \E t \in FromSocks5CommandStream(cmd) :
              session' = [session EXCEPT !.pc = "connect", !.target = t]
         /\ open' = open
  BY ZenonT(90) DEF ReadCommand
<1>4. /\ session \in SessionType /\ open \subseteq {"client", "far"}
      /\ client.command \in Commands
  BY <1>1, TypedFields DEF WellTyped
<1>5. /\ k \in Nat /\ 1 <= k /\ k <= Len(inq["client"]) /\ Len(inq["client"]) \in Nat
      /\ inq' \in [Sockets -> Seq(Byte)] /\ inq'["far"] = inq["far"]
      /\ out \in Seq(Byte) /\ Len(out) = k
      /\ \A i \in 1..k : out[i] = inq["client"][i]
      /\ k = Len(inq["client"]) => out = inq["client"] /\ inq'["client"] = << >>
      /\ ~Cut("client") => k = Len(inq["client"]) \/ k = 256
      /\ ~Cut("client") /\ Len(inq["client"]) <= 256 => k = Len(inq["client"])
      /\ inq["client"] # << >>
  <2> DEFINE size == 256
  <2>1. size \in Nat /\ k \in Sizes("client", size) /\ "client" \in Sockets
    BY <1>2 DEF Sockets
  <2> HIDE DEF size
  <2>2. /\ k \in Nat /\ 1 <= k /\ k <= Len(inq["client"]) /\ Len(inq["client"]) \in Nat
        /\ inq' \in [Sockets -> Seq(Byte)]
        /\ \A q \in Sockets \ {"client"} : inq'[q] = inq[q]
        /\ out \in Seq(Byte) /\ Len(out) = k
        /\ \A i \in 1..k : out[i] = inq["client"][i]
        /\ k = Len(inq["client"]) => out = inq["client"] /\ inq'["client"] = << >>
        /\ ~Cut("client") => k = Len(inq["client"]) \/ k = size
        /\ ~Cut("client") /\ Len(inq["client"]) <= size => k = Len(inq["client"])
    BY <1>1, <1>2, <2>1, ReceiveEffect
  <2>3. inq["client"] # << >>
    BY <2>2
  <2>4. inq'["far"] = inq["far"]
    BY <2>2 DEF Sockets
  <2> HIDE DEF out
  <2>5. QED
    BY <2>2, <2>3, <2>4 DEF size
<1>6. /\ said \in Seq(Byte) /\ Len(said) \in Nat /\ Len(said) >= 7
      /\ said[1] = 5 /\ said[2] = client.command.cmd
      /\ SubSeq(said, 4, Len(said)) = Offer(client.command.target)
  BY <1>4, CommandBytes
<1> HIDE DEF out, said
<1>7. ASSUME client.command.whole
      PROVE  /\ inq["client"] = said /\ client.pc \notin {"start", "greeted"} /\ k >= 4
             /\ Fits(client.command) => k = Len(said) /\ out = said /\ inq'["client"] = << >>
  <2>1. inq["client"] = said /\ client.pc \notin {"start", "greeted"}
    BY <1>1, <1>2, <1>5, <1>7 DEF WholeMessages, said
  <2>2. k >= 4
    BY <1>5, <1>6, <1>7, <2>1 DEF Cut
  <2>3. Fits(client.command) => k = Len(said)
    BY <1>5, <1>7, <2>1 DEF Fits, said, Cut
  <2>4. QED
    BY <1>5, <2>1, <2>2, <2>3
<1>8. toPeer["far"] = << >> /\ inq["far"] = << >> /\ far.target = NoAddr
  BY <1>1, <1>2 DEF Upstream, BeforeAsk, Reached
<1>9. client.pc # "start" \/ ~client.command.whole
  BY <1>7
<1>10. CASE /\ k < 4 \/ out[1] # 5 \/ out[2] # 1
            /\ session' = [session EXCEPT !.pc = "refuse", !.code = 10]
            /\ open' = open
  <2> DEFINE c == 10
  <2>1. "refuse" \in PCs /\ c \in Codes /\ session' = WithCode(session, "refuse", c)
    <3>1. "refuse" \in PCs /\ c \in Codes
      BY DEF PCs, Codes
    <3>2. session' = WithCode(session, "refuse", c)
      BY <1>10, ZenonT(90) DEF WithCode
    <3>3. QED
      BY <3>1, <3>2
  <2> HIDE DEF c
  <2>2. /\ session' \in SessionType /\ session'.pc = "refuse" /\ session'.code = c
        /\ session'.target = session.target /\ session'.bound = session.bound
        /\ session'.method = session.method
    BY <1>4, <2>1, EditCode
  <2>3. client.command.whole => client.command.cmd # 1
    <3> SUFFICES ASSUME client.command.whole PROVE said[2] # 1
      BY <1>6
    <3>1. inq["client"] = said /\ k >= 4
      BY <1>7
    <3>2. 1 \in 1..k /\ 2 \in 1..k
      BY <1>5, <3>1
    <3>3. out[1] = said[1] /\ out[2] = said[2]
      BY <1>5, <3>1, <3>2
    <3>4. ~(k < 4)
      BY <1>5, <3>1
    <3>5. QED
      BY <1>6, <1>10, <3>3, <3>4
  <2>4. WellTyped'
    BY <1>1, <1>2, <1>5, <1>10, <2>2 DEF WellTyped
  <2>5. Upstream' /\ Reached'
    BY <1>1, <1>2, <1>5, <2>2, ClientKeepsUpstream
  <2>6. session'.code # 0
    BY <2>2 DEF c
  <2>7. client.pc = "start" => inq'["client"] = << >>
    BY <1>1, <1>5 DEF ClientSide
  <2>8. ClientSide'
    BY <1>1, <1>2, <2>2, <2>3, <2>6, <2>7 DEF ClientSide
  <2>9. WholeMessages'
    BY <1>1, <1>2, <1>7, <2>2 DEF WholeMessages, AfterCommand, Fits
  <2>10. QED
    BY <2>4, <2>5, <2>8, <2>9 DEF IInv
<1>11. CASE session' = [session EXCEPT !.pc = "crashed"] /\ open' = {}
  <2>1. /\ session' \in SessionType /\ session'.pc = "crashed" /\ session'.code = session.code
        /\ session'.target = session.target /\ session'.bound = session.bound
        /\ session'.method = session.method
    BY <1>4, <1>11, EditPc DEF PCs
  <2>2. WellTyped'
    BY <1>1, <1>2, <1>5, <1>11, <2>1 DEF WellTyped
  <2>3. Upstream' /\ Reached'
    BY <1>1, <1>2, <1>5, <2>1, ClientKeepsUpstream
  <2>4. client.pc = "start" => inq'["client"] = << >>
    BY <1>1, <1>5 DEF ClientSide
  <2>5. ClientSide'
    BY <1>1, <1>2, <2>1, <2>4 DEF ClientSide
  <2>6. WholeMessages'
    BY <1>1, <1>2, <2>1 DEF WholeMessages, AfterCommand, Fits
  <2>7. QED
    BY <2>2, <2>3, <2>5, <2>6 DEF IInv
<1>12. ASSUME ~(k < 4), open' = open,
              NEW t \in FromSocks5CommandStream(cmd),
              session' = [session EXCEPT !.pc = "connect", !.target = t]
       PROVE  IInv'
  <2>1. t \in AddressType
    <3> DEFINE from == 4
    <3>1. /\ from \in 1..Len(out) + 1 /\ k \in 0..Len(out) /\ from <= k
          /\ k - from + 1 \in Nat /\ 1 <= k - from + 1
      BY <1>5, <1>12
    <3> HIDE DEF from
    <3>2. SubSeq(out, from, k) \in Seq(Byte) /\ Len(SubSeq(out, from, k)) = k - from + 1
      BY <1>5, <3>1, Slices
    <3>3. cmd \in Seq(Byte) /\ Len(cmd) >= 1
      BY <3>1, <3>2 DEF from
    <3> HIDE DEF cmd
    <3>4. QED
      BY <1>12, <3>3, ParsedType DEF cmd
  <2>2. /\ client.command.whole /\ Fits(client.command)
        /\ client.command.target.type \in {"ipv4", "domain"}
        => t = client.command.target
    <3> DEFINE a == client.command.target
    <3> SUFFICES ASSUME client.command.whole, Fits(client.command), a.type \in {"ipv4", "domain"}
                 PROVE  t = a
      OBVIOUS
    <3>1. cmd = Offer(a)
      BY <1>6, <1>7
    <3>2. Sized(a)
      BY <1>4, CommandsAssumption
    <3> HIDE DEF a, cmd
    <3>3. QED
      BY <1>12, <3>1, <3>2, ParsedBack
  <2>3. session' = WithTarget(session, "connect", t)
    BY <1>12, ZenonT(90) DEF WithTarget
  <2>4. /\ session' \in SessionType /\ session'.pc = "connect" /\ session'.code = session.code
        /\ session'.target = t /\ session'.bound = session.bound
        /\ session'.method = session.method
    <3>1. "connect" \in PCs
      BY DEF PCs
    <3>2. QED
      BY <1>4, <2>1, <2>3, <3>1, EditTarget
  <2>5. WellTyped'
    BY <1>1, <1>2, <1>5, <1>12, <2>4 DEF WellTyped
  <2>6. Upstream'
    BY <1>2, <1>5, <1>8, <2>4 DEF Upstream, BeforeAsk
  <2>7. Reached'
    <3>1. toPeer'["far"] = << >> /\ far'.target = NoAddr
      BY <1>2, <1>8
    <3>2. Len(toPeer'["far"]) = 0
      BY <3>1
    <3>3. QED
      BY <2>4, <3>1, <3>2 DEF Reached
  <2>8. client.pc = "start" => inq'["client"] = << >>
    BY <1>1, <1>5 DEF ClientSide
  <2>9. ClientSide'
    BY <1>1, <1>2, <2>4, <2>8 DEF ClientSide
  <2>10. WholeMessages'
    BY <1>1, <1>2, <1>7, <2>2, <2>4 DEF WholeMessages, AfterCommand, Fits
  <2>11. QED
    BY <2>5, <2>6, <2>7, <2>9, <2>10 DEF IInv
<1>13. QED
  BY <1>3, <1>10, <1>11, <1>12, ZenonT(90)

\* The last word to the client.
LEMMA SaysLast ==
  ASSUME IInv, client' = client, far' = far, inq' = inq, open' \subseteq {"client", "far"},
         NEW m \in Seq(Byte), Send("client", m), Final(m, far.target, client.command),
         session' \in SessionType, session.pc \in {"answer", "refuse"},
         \/ session'.pc = "established" /\ session.pc = "answer"
         \/ session'.pc = "ended",
         session'.target = session.target, session'.bound = session.bound,
         session'.method = session.method, session'.code = session.code
  PROVE  IInv'
<1>1. WellTyped /\ ClientSide /\ WholeMessages /\ Upstream /\ Reached
  BY DEF IInv
<1>2. /\ DOMAIN toPeer' = Sockets /\ toPeer'["far"] = toPeer["far"]
      /\ toPeer'["client"] = Append(toPeer["client"], m)
  BY <1>1, SendEffect DEF Sockets
<1>3. /\ toPeer'["client"] \in Seq(Seq(Byte))
      /\ \A i \in 1..Len(toPeer'["client"]) :
           \/ i \in 1..Len(toPeer["client"]) /\ toPeer'["client"][i] = toPeer["client"][i]
           \/ toPeer'["client"][i] = m
  BY <1>1, <1>2, AppendTo DEF WellTyped
<1>4. WellTyped'
  BY <1>1, <1>2, <1>3 DEF WellTyped
<1>5. Upstream' /\ Reached'
  BY <1>1, <1>2, ClientKeepsUpstream
<1>6. \A i \in 1..Len(toPeer'["client"]) :
        \/ Final(toPeer'["client"][i], far.target, client.command)
        \/ i = 1 /\ client.pc # "asked" /\ toPeer'["client"][i] = << 5, 0 >>
  <2>1. \A i \in 1..Len(toPeer["client"]) :
          \/ Final(toPeer["client"][i], far.target, client.command)
          \/ i = 1 /\ client.pc # "asked" /\ toPeer["client"][i] = << 5, 0 >>
    BY <1>1 DEF ClientSide
  <2>2. QED
    BY <1>3, <2>1, ZenonT(90)
<1>7. ClientSide'
  BY <1>1, <1>6 DEF ClientSide
<1>8. WholeMessages'
  BY <1>1 DEF WholeMessages, AfterCommand, Fits
<1>9. QED
  BY <1>4, <1>5, <1>7, <1>8 DEF IInv

LEMMA AnswerIInv ==
  ASSUME IInv, Answer
  PROVE  IInv'
<1>1. /\ session.pc = "answer" /\ session.bound.type # "unknown"
      /\ session' = [session EXCEPT !.pc = "established"]
      /\ client' = client /\ far' = far /\ inq' = inq /\ open' = open
  BY DEF Answer
<1>2. PICK ss \in PackSocks5Address(session.bound) : Send("client", ss)
  BY DEF Answer
<1>3. /\ session \in SessionType /\ session.bound \in AddressType /\ open \subseteq {"client", "far"}
      /\ Upstream
  BY TypedFields DEF IInv, WellTyped
<1>4. PICK raw \in Seq(Byte) : WellPacked(ss, Kind(session.bound), raw, U16ToBytes(session.bound.port))
  BY <1>1, <1>2, <1>3, PackedAddress
<1>5. Len(Kind(session.bound)) \in {1, 2}
  BY <1>1, <1>3, KindType
<1>6. ss \in Seq(Byte) /\ Len(ss) >= 2 /\ ss[2] = 0
  BY <1>4, <1>5 DEF WellPacked
<1>7. far.target # NoAddr
  BY <1>1, <1>3 DEF Upstream
<1>8. Final(ss, far.target, client.command)
  BY <1>6, <1>7 DEF Final
<1>9. /\ session' \in SessionType /\ session'.pc = "established" /\ session'.code = session.code
      /\ session'.target = session.target /\ session'.bound = session.bound
      /\ session'.method = session.method
  BY <1>1, <1>3, EditPc DEF PCs
<1>10. QED
  BY <1>1, <1>2, <1>3, <1>6, <1>8, <1>9, SaysLast

LEMMA RefuseIInv ==
  ASSUME IInv, Refuse
  PROVE  IInv'
<1>1. /\ session.pc = "refuse" /\ Send("client", Refusal(session.code))
      /\ session' = [session EXCEPT !.pc = "ended"] /\ open' = {}
      /\ client' = client /\ far' = far /\ inq' = inq
  BY DEF Refuse, Drop
<1>2. session \in SessionType /\ session.code \in Codes /\ ClientSide
  BY TypedFields DEF IInv
<1> DEFINE m == Refusal(session.code)
<1>3. session.code \in Byte
  BY <1>2 DEF Codes, Byte
<1>4. m \in Seq(Byte) /\ Len(m) = 10 /\ m[2] = session.code
  BY <1>3, RefusalBytes
<1> HIDE DEF m
<1>5. Final(m, far.target, client.command)
  BY <1>1, <1>2, <1>4 DEF Final, ClientSide
<1>6. /\ session' \in SessionType /\ session'.pc = "ended" /\ session'.code = session.code
      /\ session'.target = session.target /\ session'.bound = session.bound
      /\ session'.method = session.method
  BY <1>1, <1>2, EditPc DEF PCs
<1>7. Send("client", m)
  BY <1>1 DEF m
<1>8. QED
  BY <1>1, <1>4, <1>5, <1>6, <1>7, SaysLast

LEMMA AnswerUnpackableIInv ==
  ASSUME IInv, AnswerUnpackable
  PROVE  IInv'
<1>1. /\ session.pc = "answer" /\ session' = [session EXCEPT !.pc = "refuse", !.code = 12]
      /\ client' = client /\ far' = far /\ toPeer' = toPeer /\ inq' = inq /\ open' = open
  BY DEF AnswerUnpackable
<1>2. /\ session \in SessionType /\ WellTyped /\ ClientSide /\ WholeMessages /\ Upstream /\ Reached
  BY TypedFields DEF IInv
<1> DEFINE c == 12
<1>3. session' = WithCode(session, "refuse", c)
  BY <1>1, ZenonT(90) DEF WithCode
<1>4. "refuse" \in PCs /\ c \in Codes
  BY DEF PCs, Codes
<1> HIDE DEF c
<1>5. /\ session' \in SessionType /\ session'.pc = "refuse" /\ session'.code = c
      /\ session'.target = session.target /\ session'.bound = session.bound
      /\ session'.method = session.method
  BY <1>2, <1>3, <1>4, EditCode
<1>6. session'.code # 0 /\ session'.code \in {session.code, 11, 12}
  BY <1>5 DEF c
<1>7. WellTyped'
  BY <1>1, <1>2, <1>5 DEF WellTyped
<1>8. Upstream' /\ Reached'
  BY <1>1, <1>2, <1>5, ClientKeepsUpstream
<1>9. ClientSide' /\ WholeMessages'
  BY <1>1, <1>2, <1>5, <1>6, UpKeepsClientSide DEF AfterCommand
<1>10. QED
  BY <1>7, <1>8, <1>9 DEF IInv

-----------------------------------------------------------------------------
(* The steps of the client.                                                *)

\* A step in which the client says something, hears something or goes away.
LEMMA ClientStep ==
  ASSUME IInv, far' = far, session' = session, open' = open,
         client' \in ClientType, client'.command = client.command,
         DOMAIN toPeer' = Sockets, toPeer'["far"] = toPeer["far"],
         toPeer'["client"] \in Seq(Seq(Byte)),
         inq' \in [Sockets -> Seq(Byte)], inq'["far"] = inq["far"],
         ClientSide', WholeMessages'
  PROVE  IInv'
<1>1. WellTyped /\ Upstream /\ Reached
  BY DEF IInv
<1>2. WellTyped'
  BY <1>1 DEF WellTyped
<1>3. Upstream' /\ Reached'
  BY <1>1, ClientKeepsUpstream
<1>4. QED
  BY <1>2, <1>3 DEF IInv

LEMMA ClientHelloIInv ==
  ASSUME IInv, ClientHello
  PROVE  IInv'
<1>1. WellTyped /\ ClientSide /\ WholeMessages
  BY DEF IInv
<1>2. PICK hello \in Hellos : ClientSays(hello)
  BY DEF ClientHello
<1>3. /\ client.pc = "start" /\ client' = [client EXCEPT !.pc = "greeted"]
      /\ far' = far /\ toPeer' = toPeer /\ session' = session /\ open' = open
  BY DEF ClientHello
<1>4. /\ client' \in ClientType /\ client'.pc = "greeted"
      /\ client'.command = client.command /\ client'.answer = client.answer
  BY <1>1, <1>3 DEF WellTyped, ClientType
<1>5. hello \in Seq(Byte)
  BY HellosAssumption
<1>6. /\ inq' \in [Sockets -> Seq(Byte)] /\ inq'["far"] = inq["far"]
      /\ inq'["client"] = inq["client"] \o hello
  <2>1. inq' = [inq EXCEPT !["client"] = @ \o hello]
    BY <1>2 DEF ClientSays
  <2>2. "client" \in Sockets /\ "far" \in Sockets \ {"client"}
    BY DEF Sockets
  <2>3. QED
    BY <1>1, <1>5, <2>1, <2>2, SaysEffect
<1>7. inq'["client"] = hello
  <2>1. inq["client"] = << >>
    BY <1>1, <1>3 DEF ClientSide
  <2>2. QED
    BY <1>5, <1>6, <2>1, ConcatEmptySeq
<1>8. ClientSide'
  BY <1>1, <1>3, <1>4 DEF ClientSide
<1>9. WholeMessages'
  BY <1>1, <1>3, <1>4, <1>7 DEF WholeMessages, AfterCommand, Fits
<1>10. QED
  BY <1>1, <1>3, <1>4, <1>6, <1>8, <1>9, ClientStep DEF WellTyped

\* What hearing a message leaves behind.
LEMMA ClientHeard ==
  ASSUME WellTyped, ClientSide, toPeer["client"] # << >>, Heard("client")
  PROVE  /\ DOMAIN toPeer' = Sockets /\ toPeer'["far"] = toPeer["far"]
         /\ toPeer'["client"] \in Seq(Seq(Byte))
         /\ \A i \in 1..Len(toPeer'["client"]) :
              Final(toPeer'["client"][i], far.target, client.command)
         /\ Head(toPeer["client"]) \in Seq(Byte)
         /\ client.pc = "asked" => Final(Head(toPeer["client"]), far.target, client.command)
<1>1. /\ DOMAIN toPeer' = Sockets /\ toPeer'["far"] = toPeer["far"]
      /\ toPeer'["client"] = Tail(toPeer["client"])
  BY HeardEffect DEF Sockets
<1> DEFINE s == toPeer["client"]
           S == Seq(Byte)
<1>2. s \in Seq(S) /\ s # << >>
  BY DEF WellTyped
<1>3. \A i \in 1..Len(s) :
        \/ Final(s[i], far.target, client.command)
        \/ i = 1 /\ client.pc # "asked" /\ s[i] = << 5, 0 >>
  BY DEF ClientSide
<1> HIDE DEF s, S
<1>4. /\ Head(s) = s[1] /\ Head(s) \in S /\ Tail(s) \in Seq(S) /\ 1 \in 1..Len(s)
      /\ \A i \in 1..Len(Tail(s)) : i + 1 \in 1..Len(s) /\ i + 1 # 1 /\ Tail(s)[i] = s[i + 1]
  BY <1>2, TailOf
<1>5. \A i \in 1..Len(Tail(s)) : Final(Tail(s)[i], far.target, client.command)
  <2> TAKE i \in 1..Len(Tail(s))
  <2> DEFINE j == i + 1
  <2>1. j \in 1..Len(s) /\ j # 1 /\ Tail(s)[i] = s[j]
    BY <1>4
  <2> HIDE DEF j
  <2>2. QED
    BY <1>3, <2>1
<1>6. client.pc = "asked" => Final(Head(s), far.target, client.command)
  BY <1>3, <1>4
<1>7. QED
  BY <1>1, <1>4, <1>5, <1>6 DEF s, S

LEMMA ClientCommandIInv ==
  ASSUME IInv, ClientCommand
  PROVE  IInv'
<1>1. WellTyped /\ ClientSide /\ WholeMessages
  BY DEF IInv
<1>2. /\ client.pc = "greeted" /\ client' = [client EXCEPT !.pc = "asked"]
      /\ toPeer["client"] # << >> /\ Heard("client") /\ ClientSays(Command(client.command))
      /\ far' = far /\ session' = session /\ open' = open
  BY DEF ClientCommand
<1>3. /\ client' \in ClientType /\ client'.pc = "asked"
      /\ client'.command = client.command /\ client'.answer = client.answer
      /\ client.command \in Commands
  BY <1>1, <1>2 DEF WellTyped, ClientType
<1>4. /\ DOMAIN toPeer' = Sockets /\ toPeer'["far"] = toPeer["far"]
      /\ toPeer'["client"] \in Seq(Seq(Byte))
      /\ \A i \in 1..Len(toPeer'["client"]) :
           Final(toPeer'["client"][i], far.target, client.command)
  BY <1>1, <1>2, ClientHeard
<1> DEFINE m == Command(client.command)
<1>5. m \in Seq(Byte)
  BY <1>3, CommandBytes
<1>6. inq' = [inq EXCEPT !["client"] = @ \o m]
  BY <1>2 DEF ClientSays
<1> HIDE DEF m
<1>7. /\ inq' \in [Sockets -> Seq(Byte)] /\ inq'["far"] = inq["far"]
      /\ inq'["client"] = inq["client"] \o m
  <2>1. "client" \in Sockets /\ "far" \in Sockets \ {"client"}
    BY DEF Sockets
  <2>2. QED
    BY <1>1, <1>5, <1>6, <2>1, SaysEffect
<1>8. inq["client"] = << >> => inq'["client"] = m
  BY <1>5, <1>7, ConcatEmptySeq
<1>9. session.pc \notin {"hello", "greet"}
  BY <1>1, <1>2 DEF ClientSide
<1>10. ClientSide'
  BY <1>1, <1>2, <1>3, <1>4, <1>9 DEF ClientSide
<1>11. WholeMessages'
  BY <1>1, <1>2, <1>3, <1>8, <1>9 DEF WholeMessages, AfterCommand, Fits, m
<1>12. QED
  BY <1>1, <1>2, <1>3, <1>4, <1>7, <1>10, <1>11, ClientStep

LEMMA ClientHearsIInv ==
  ASSUME IInv, ClientHears
  PROVE  IInv'
<1>1. WellTyped /\ ClientSide /\ WholeMessages
  BY DEF IInv
<1> DEFINE word == Head(toPeer["client"])
<1>2. /\ client.pc = "asked" /\ client' = [client EXCEPT !.pc = "answered", !.answer = word[2]]
      /\ toPeer["client"] # << >> /\ Heard("client")
      /\ far' = far /\ inq' = inq /\ session' = session /\ open' = open
  BY DEF ClientHears
<1>3. /\ DOMAIN toPeer' = Sockets /\ toPeer'["far"] = toPeer["far"]
      /\ toPeer'["client"] \in Seq(Seq(Byte))
      /\ \A i \in 1..Len(toPeer'["client"]) :
           Final(toPeer'["client"][i], far.target, client.command)
      /\ word \in Seq(Byte)
      /\ Final(word, far.target, client.command)
  BY <1>1, <1>2, ClientHeard
<1> HIDE DEF word
<1> DEFINE n == word[2]
<1>4. n \in -1..255
  <2>1. 2 \in 1..Len(word)
    BY <1>3, LenProperties DEF Final
  <2>2. word[2] \in Byte
    BY <1>3, <2>1, ElementOfSeq
  <2>3. QED
    BY <2>2 DEF Byte
<1>5. /\ n = 0 => far.target # NoAddr
      /\ n = 10 /\ client.command.whole => client.command.cmd # 1
  BY <1>3 DEF Final
<1>6. client' = [client EXCEPT !.pc = "answered", !.answer = n]
  BY <1>2
<1> HIDE DEF n
<1>7. /\ client' \in ClientType /\ client'.pc = "answered"
      /\ client'.command = client.command /\ client'.answer = n
  <2>1. client \in ClientType
    BY <1>1 DEF WellTyped
  <2>2. ASSUME NEW c \in ClientType
        PROVE  [c EXCEPT !.answer = n] \in ClientType
    BY <1>4 DEF ClientType
  <2>3. [client EXCEPT !.pc = "answered"] \in ClientType
    BY <2>1 DEF ClientType
  <2>4. client' = [[client EXCEPT !.pc = "answered"] EXCEPT !.answer = n]
    BY <1>6, ZenonT(90)
  <2>5. client' \in ClientType
    BY <2>2, <2>3, <2>4
  <2>6. client'.pc = "answered" /\ client'.command = client.command /\ client'.answer = n
    BY <1>6, <2>1 DEF ClientType
  <2>7. QED
    BY <2>5, <2>6
<1>8. ClientSide'
  BY <1>1, <1>2, <1>3, <1>5, <1>7 DEF ClientSide
<1>9. WholeMessages'
  BY <1>1, <1>2, <1>7 DEF WholeMessages, AfterCommand, Fits
<1>10. inq' \in [Sockets -> Seq(Byte)] /\ inq'["far"] = inq["far"]
  BY <1>1, <1>2 DEF WellTyped
<1>11. QED
  BY <1>2, <1>3, <1>7, <1>8, <1>9, <1>10, ClientStep

LEMMA ClientLeavesIInv ==
  ASSUME IInv, ClientLeaves
  PROVE  IInv'
<1>1. WellTyped /\ ClientSide /\ WholeMessages
  BY DEF IInv
<1>2. /\ client.pc # "gone" /\ client' = [client EXCEPT !.pc = "gone"]
      /\ far' = far /\ toPeer' = toPeer /\ inq' = inq /\ session' = session /\ open' = open
  BY DEF ClientLeaves
<1>3. /\ client' \in ClientType /\ client'.pc = "gone"
      /\ client'.command = client.command /\ client'.answer = client.answer
  BY <1>1, <1>2 DEF WellTyped, ClientType
<1>4. ClientSide'
  BY <1>1, <1>2, <1>3 DEF ClientSide
<1>5. WholeMessages'
  BY <1>1, <1>2, <1>3 DEF WholeMessages, AfterCommand, Fits
<1>6. QED
  BY <1>1, <1>2, <1>3, <1>4, <1>5, ClientStep DEF WellTyped

-----------------------------------------------------------------------------
(* The steps of the far proxy.                                             *)

\* The one message on its way is of the kind the session has sent last.
LEMMA FarHeard ==
  ASSUME IInv, NEW kind, FarHears(kind), NEW m \in Seq(Byte), FarSays(m)
  PROVE  /\ DOMAIN toPeer' = Sockets /\ toPeer'["client"] = toPeer["client"]
         /\ toPeer'["far"] \in Seq(FarMessages)
         /\ inq' \in [Sockets -> Seq(Byte)] /\ inq'["client"] = inq["client"]
         /\ \A i \in 1..Len(toPeer'["far"]) :
              toPeer'["far"][i].kind = "connect" => WellAsked(toPeer'["far"][i].ask, session.target)
         /\ Head(toPeer["far"]) \in FarMessages
         /\ kind = "connect" => WellAsked(Head(toPeer["far"]).ask, session.target)
         /\ session.pc \in {"upHello", "upVerify", "upBound", "refuse", "ended", "crashed"}
         /\ session.pc = "upHello" => kind = "hello"
         /\ session.pc = "upVerify" => kind = "login"
         /\ session.pc = "upBound" => kind = "connect"
         /\ session.pc \in {"upHello", "upVerify", "upBound"} =>
              toPeer'["far"] = << >> /\ inq'["far"] = m
<1>1. WellTyped /\ Upstream /\ Reached /\ session.pc \in PCs
  BY TypedFields DEF IInv
<1>2. toPeer["far"] # << >> /\ Head(toPeer["far"]).kind = kind /\ Heard("far")
  BY DEF FarHears
<1>3. /\ DOMAIN toPeer' = Sockets /\ toPeer'["client"] = toPeer["client"]
      /\ toPeer'["far"] = Tail(toPeer["far"])
  BY <1>1, <1>2, HeardEffect DEF Sockets
<1>4. /\ inq' \in [Sockets -> Seq(Byte)] /\ inq'["client"] = inq["client"]
      /\ inq'["far"] = inq["far"] \o m
  <2>1. inq' = [inq EXCEPT !["far"] = @ \o m]
    BY DEF FarSays
  <2>2. "far" \in Sockets /\ "client" \in Sockets \ {"far"}
    BY DEF Sockets
  <2>3. QED
    BY <1>1, <2>1, <2>2, SaysEffect
<1> DEFINE s == toPeer["far"]
<1>5. s \in Seq(FarMessages) /\ s # << >>
  BY <1>1, <1>2 DEF WellTyped
<1>6. \A i \in 1..Len(s) : s[i].kind = "connect" => WellAsked(s[i].ask, session.target)
  BY <1>1 DEF Reached
<1> HIDE DEF s
<1>7. /\ Head(s) = s[1] /\ Head(s) \in FarMessages /\ Tail(s) \in Seq(FarMessages)
      /\ 1 \in 1..Len(s)
      /\ Len(s) = 1 => Tail(s) = << >>
      /\ \A i \in 1..Len(Tail(s)) : i + 1 \in 1..Len(s) /\ i + 1 # 1 /\ Tail(s)[i] = s[i + 1]
  BY <1>5, TailOf
<1>8. \A i \in 1..Len(Tail(s)) :
        Tail(s)[i].kind = "connect" => WellAsked(Tail(s)[i].ask, session.target)
  <2> TAKE i \in 1..Len(Tail(s))
  <2> DEFINE j == i + 1
  <2>1. j \in 1..Len(s) /\ Tail(s)[i] = s[j]
    BY <1>7
  <2> HIDE DEF j
  <2>2. QED
    BY <1>6, <2>1
<1>9. kind = "connect" => WellAsked(Head(s).ask, session.target)
  BY <1>2, <1>6, <1>7 DEF s
<1>10. session.pc \in {"upHello", "upVerify", "upBound", "refuse", "ended", "crashed"}
  BY <1>1, <1>2 DEF Upstream, BeforeAsk, PCs
<1>11. /\ session.pc = "upHello" => Asked("hello")
       /\ session.pc = "upVerify" => Asked("login")
       /\ session.pc = "upBound" => Asked("connect")
  BY <1>1, <1>2 DEF Upstream
<1>12. ASSUME NEW other, Asked(other)
       PROVE  kind = other /\ toPeer'["far"] = << >> /\ inq'["far"] = m
  <2>1. Len(s) = 1 /\ s[1].kind = other /\ inq["far"] = << >>
    BY <1>12 DEF Asked, s
  <2>2. toPeer'["far"] = << >> /\ kind = other
    BY <1>2, <1>3, <1>7, <2>1 DEF s
  <2>3. inq'["far"] = m
    BY <1>4, <2>1, ConcatEmptySeq
  <2>4. QED
    BY <2>2, <2>3
<1>13. QED
  BY <1>3, <1>4, <1>7, <1>8, <1>9, <1>10, <1>11, <1>12 DEF s

LEMMA FarStep ==
  ASSUME IInv, client' = client, session' = session, open' = open,
         far' \in FarType,
         DOMAIN toPeer' = Sockets, toPeer'["client"] = toPeer["client"],
         toPeer'["far"] \in Seq(FarMessages),
         inq' \in [Sockets -> Seq(Byte)], inq'["client"] = inq["client"],
         \A i \in 1..Len(toPeer'["far"]) :
           toPeer'["far"][i].kind = "connect" => WellAsked(toPeer'["far"][i].ask, session.target),
         \/ far'.target = far.target
         \/ /\ session.pc \notin {"hello", "greet", "command"}
            /\ far'.target # NoAddr
            /\ Essence(far'.target) = Essence(session.target),
         Upstream'
  PROVE  IInv'
<1>1. WellTyped /\ ClientSide /\ WholeMessages /\ Reached
  BY DEF IInv
<1>2. WellTyped'
  BY <1>1 DEF WellTyped
<1>3. far.target # NoAddr => far'.target # NoAddr
  OBVIOUS
<1>4. session.pc = "refuse" => session.code # 0
  BY <1>1 DEF ClientSide
<1>5. ClientSide' /\ WholeMessages'
  BY <1>1, <1>3, <1>4, UpKeepsClientSide
<1>6. Reached'
  BY <1>1 DEF Reached
<1>7. QED
  BY <1>2, <1>5, <1>6 DEF IInv

LEMMA FarGreetsIInv ==
  ASSUME IInv, FarGreets
  PROVE  IInv'
<1>1. /\ far.pc = "hello" /\ FarHears("hello") /\ FarSays(FarHello(far.method))
      /\ far' = [far EXCEPT !.pc = "login"]
      /\ client' = client /\ session' = session /\ open' = open
  BY DEF FarGreets
<1>2. far \in FarType /\ far.method \in FarObjects /\ Upstream
  BY TypedFields DEF IInv, WellTyped
<1>3. /\ far' \in FarType /\ far'.method = far.method /\ far'.target = far.target
  BY <1>1, <1>2 DEF FarType
<1> DEFINE m == FarHello(far.method)
<1>4. m \in Seq(Byte)
  BY <1>2, FarHelloBytes
<1>5. FarSays(m)
  BY <1>1
<1> HIDE DEF m
<1>6. /\ DOMAIN toPeer' = Sockets /\ toPeer'["client"] = toPeer["client"]
      /\ toPeer'["far"] \in Seq(FarMessages)
      /\ inq' \in [Sockets -> Seq(Byte)] /\ inq'["client"] = inq["client"]
      /\ \A i \in 1..Len(toPeer'["far"]) :
           toPeer'["far"][i].kind = "connect" => WellAsked(toPeer'["far"][i].ask, session.target)
      /\ session.pc \in {"upHello", "refuse", "ended", "crashed"}
      /\ session.pc = "upHello" => toPeer'["far"] = << >> /\ inq'["far"] = m
  BY <1>1, <1>4, <1>5, FarHeard
<1>7. Upstream'
  BY <1>1, <1>3, <1>6 DEF Upstream, BeforeAsk, m
<1>8. QED
  BY <1>1, <1>3, <1>6, <1>7, FarStep

LEMMA FarVerifiesIInv ==
  ASSUME IInv, FarVerifies
  PROVE  IInv'
<1>1. /\ far.pc = "login" /\ FarHears("login")
      /\ \/ FarSays(<< 5, 0 >>) /\ far' = [far EXCEPT !.pc = "ask"]
         \/ FarSays(<< 5, 1 >>) /\ far' = [far EXCEPT !.pc = "refused"]
      /\ client' = client /\ session' = session /\ open' = open
  BY DEF FarVerifies
<1>2. far \in FarType /\ Upstream
  BY DEF IInv, WellTyped
<1>3. PICK m \in {<< 5, 0 >>, << 5, 1 >>} : FarSays(m)
  BY <1>1
<1>4. /\ far' \in FarType /\ far'.method = far.method /\ far'.target = far.target
  BY <1>1, <1>2 DEF FarType
<1>5. m \in Seq(Byte)
  <2>1. 5 \in Byte /\ 0 \in Byte /\ 1 \in Byte
    BY SMT DEF Byte
  <2>2. QED
    BY <1>3, <2>1, TwoBytes
<1>6. /\ DOMAIN toPeer' = Sockets /\ toPeer'["client"] = toPeer["client"]
      /\ toPeer'["far"] \in Seq(FarMessages)
      /\ inq' \in [Sockets -> Seq(Byte)] /\ inq'["client"] = inq["client"]
      /\ \A i \in 1..Len(toPeer'["far"]) :
           toPeer'["far"][i].kind = "connect" => WellAsked(toPeer'["far"][i].ask, session.target)
      /\ session.pc \in {"upVerify", "refuse", "ended", "crashed"}
      /\ session.pc = "upVerify" => toPeer'["far"] = << >> /\ inq'["far"] = m
  BY <1>1, <1>3, <1>5, FarHeard
<1>7. Upstream'
  BY <1>1, <1>2, <1>3, <1>4, <1>6 DEF Upstream, BeforeAsk
<1>8. QED
  BY <1>1, <1>4, <1>6, <1>7, FarStep

\* It says it has reached what it was asked for, or refuses.
LEMMA FarConnectsIInv ==
  ASSUME IInv, FarConnects
  PROVE  IInv'
<1> DEFINE ask == Head(toPeer["far"]).ask
<1>1. /\ far.pc = "ask" /\ FarHears("connect")
      /\ \/ /\ \E b \in Bounds : FarSays(FarBound(b))
            /\ far' = [far EXCEPT !.pc = "serving", !.target = FarTarget(ask)]
         \/ /\ FarSays(Refusal(1))
            /\ far' = [far EXCEPT !.pc = "refused"]
      /\ client' = client /\ session' = session /\ open' = open
  BY DEF FarConnects
<1>2. far \in FarType /\ Upstream /\ session.target \in AddressType
  BY TypedFields DEF IInv, WellTyped
<1> HIDE DEF ask
<1>3. ASSUME NEW b \in Bounds, FarSays(FarBound(b)),
             far' = [far EXCEPT !.pc = "serving", !.target = FarTarget(ask)]
      PROVE  IInv'
  <2> DEFINE m == FarBound(b)
             t == FarTarget(ask)
  <2>1. m \in Seq(Byte)
    BY BoundBytes
  <2>2. FarSays(m) /\ m \in {FarBound(x) : x \in Bounds}
    BY <1>3
  <2>3. far' = [far EXCEPT !.pc = "serving", !.target = t]
    BY <1>3
  <2> HIDE DEF m
  <2>4. /\ DOMAIN toPeer' = Sockets /\ toPeer'["client"] = toPeer["client"]
        /\ toPeer'["far"] \in Seq(FarMessages)
        /\ inq' \in [Sockets -> Seq(Byte)] /\ inq'["client"] = inq["client"]
        /\ \A i \in 1..Len(toPeer'["far"]) :
             toPeer'["far"][i].kind = "connect" => WellAsked(toPeer'["far"][i].ask, session.target)
        /\ WellAsked(Head(toPeer["far"]).ask, session.target)
        /\ session.pc \in {"upBound", "refuse", "ended", "crashed"}
        /\ session.pc = "upBound" => toPeer'["far"] = << >> /\ inq'["far"] = m
    BY <1>1, <2>1, <2>2, FarHeard
  <2>5. WellAsked(ask, session.target)
    BY <2>4 DEF ask
  <2>6. /\ t \in AddressType /\ t # NoAddr
        /\ Essence(t) = Essence(session.target)
    <3>1. ask \in AskType /\ Len(ask.plain) >= 2
      BY <2>5 DEF WellAsked
    <3>2. QED
      BY <1>2, <2>5, <3>1, FarReaches
  <2> HIDE DEF t
  <2>7. far' \in FarType /\ far'.method = far.method /\ far'.target = t
    <3>1. ASSUME NEW f \in FarType
          PROVE  [f EXCEPT !.target = t] \in FarType
      BY <2>6 DEF FarType
    <3>2. [far EXCEPT !.pc = "serving"] \in FarType
      BY <1>2 DEF FarType
    <3>3. far' = [[far EXCEPT !.pc = "serving"] EXCEPT !.target = t]
      BY <2>3, ZenonT(90)
    <3>4. far' \in FarType
      BY <3>1, <3>2, <3>3
    <3>5. far'.method = far.method /\ far'.target = t
      BY <1>2, <2>3 DEF FarType
    <3>6. QED
      BY <3>4, <3>5
  <2>8. Upstream'
    BY <1>1, <2>2, <2>4, <2>6, <2>7 DEF Upstream, BeforeAsk
  <2>9. session.pc \notin {"hello", "greet", "command"}
    BY <2>4
  <2>10. QED
    BY <1>1, <2>4, <2>6, <2>7, <2>8, <2>9, FarStep
<1>4. ASSUME FarSays(Refusal(1)), far' = [far EXCEPT !.pc = "refused"]
      PROVE  IInv'
  <2> DEFINE m == Refusal(1)
  <2>1. m \in Seq(Byte)
    <3>1. 1 \in Byte
      BY DEF Byte
    <3>2. QED
      BY <3>1, RefusalBytes
  <2>2. FarSays(m)
    BY <1>4
  <2>3. far' \in FarType /\ far'.method = far.method /\ far'.target = far.target
    BY <1>2, <1>4 DEF FarType
  <2> HIDE DEF m
  <2>4. /\ DOMAIN toPeer' = Sockets /\ toPeer'["client"] = toPeer["client"]
        /\ toPeer'["far"] \in Seq(FarMessages)
        /\ inq' \in [Sockets -> Seq(Byte)] /\ inq'["client"] = inq["client"]
        /\ \A i \in 1..Len(toPeer'["far"]) :
             toPeer'["far"][i].kind = "connect" => WellAsked(toPeer'["far"][i].ask, session.target)
        /\ session.pc \in {"upBound", "refuse", "ended", "crashed"}
        /\ session.pc = "upBound" => toPeer'["far"] = << >> /\ inq'["far"] = m
    BY <1>1, <2>1, <2>2, FarHeard
  <2>5. Upstream'
    BY <1>1, <2>3, <2>4 DEF Upstream, BeforeAsk, m
  <2>6. QED
    BY <1>1, <2>3, <2>4, <2>5, FarStep
<1>5. QED
  BY <1>1, <1>3, <1>4

LEMMA FarLeavesIInv ==
  ASSUME IInv, FarLeaves
  PROVE  IInv'
<1>1. /\ far' = [far EXCEPT !.pc = "gone"]
      /\ client' = client /\ toPeer' = toPeer /\ inq' = inq /\ session' = session /\ open' = open
  BY DEF FarLeaves
<1>2. /\ far \in FarType /\ DOMAIN toPeer = Sockets /\ toPeer["far"] \in Seq(FarMessages)
      /\ inq \in [Sockets -> Seq(Byte)] /\ Upstream /\ Reached
  BY DEF IInv, WellTyped
<1>3. /\ far' \in FarType /\ far'.method = far.method /\ far'.target = far.target
  BY <1>1, <1>2 DEF FarType
<1>4. Upstream'
  BY <1>1, <1>2, <1>3 DEF Upstream, Asked
<1>5. \A i \in 1..Len(toPeer'["far"]) :
        toPeer'["far"][i].kind = "connect" => WellAsked(toPeer'["far"][i].ask, session.target)
  BY <1>1, <1>2 DEF Reached
<1>6. QED
  BY <1>1, <1>2, <1>3, <1>4, <1>5, FarStep

-----------------------------------------------------------------------------
(* The theorems.                                                           *)

LEMMA NextIInv == IInv /\ [Next]_vars => IInv'
<1> SUFFICES ASSUME IInv, [Next]_vars PROVE IInv'
  OBVIOUS
<1>1. CASE UNCHANGED vars
  BY <1>1, StutterIInv
<1>2. CASE ServeOnOne
  <2>1. ASSUME NEW k \in 1..20, SayHello(k) PROVE IInv'
    BY <2>1, SayHelloIInv
  <2>2. ASSUME NEW k \in 1..256, ReadCommand(k) PROVE IInv'
    BY <2>2, ReadCommandIInv
  <2>3. ASSUME NEW k \in 1..300, UpHello(k) \/ VerifyAuth(k) \/ UpBound(k) PROVE IInv'
    BY <2>3, UpHelloIInv, VerifyAuthIInv, UpBoundIInv
  <2>4. CASE Greet \/ ClientFails
    BY <2>4, GreetIInv, ClientFailsIInv
  <2>5. CASE Connect \/ UpGreet \/ UpLogin \/ UpAsk \/ UpFails
    BY <2>5, ConnectIInv, UpGreetIInv, UpLoginIInv, UpAskIInv, UpFailsIInv
  <2>6. CASE Answer \/ AnswerUnpackable \/ Refuse
    BY <2>6, AnswerIInv, AnswerUnpackableIInv, RefuseIInv
  <2>7. QED
    BY <1>2, <2>1, <2>2, <2>3, <2>4, <2>5, <2>6, ZenonT(90) DEF ServeOnOne
<1>3. CASE Peers
  <2>1. CASE ClientHello \/ ClientCommand \/ ClientHears \/ ClientLeaves
    BY <2>1, ClientHelloIInv, ClientCommandIInv, ClientHearsIInv, ClientLeavesIInv
  <2>2. CASE FarGreets \/ FarVerifies \/ FarConnects \/ FarLeaves
    BY <2>2, FarGreetsIInv, FarVerifiesIInv, FarConnectsIInv, FarLeavesIInv
  <2>3. QED
    BY <1>3, <2>1, <2>2 DEF Peers
<1>4. QED
  BY <1>1, <1>2, <1>3 DEF Next

\* The invariant the theorems below follow from holds in every reachable state of
\* the handshake (socks5server.cpp 24-139, socks5peer.cpp 40-176).
THEOREM Invariance == Spec => []IInv
<1>1. QED
  BY InitIInv, NextIInv, PTL DEF Spec

\* Every field of every state has its type, the byte that holds the length of the
\* encrypted target included, whatever the clients and the far proxy send and
\* wherever TCP cuts it (socks5server.cpp 24-139, socks5peer.cpp 66-176).
THEOREM TypeCorrect == Spec => []TypeOK
<1>1. IInv => TypeOK
  <2> SUFFICES ASSUME IInv PROVE TypeOK
    OBVIOUS
  <2>1. WellTyped
    BY DEF IInv
  <2>2. client \in [pc : {"start", "greeted", "asked", "answered", "gone"},
                    command : [cmd : Byte, target : AddressType, whole : BOOLEAN], answer : -1..255]
    <3>1. client \in ClientType
      BY <2>1 DEF WellTyped
    <3>2. Commands \subseteq [cmd : Byte, target : AddressType, whole : BOOLEAN]
      BY CommandsAssumption, ZenonT(90)
    <3>3. QED
      BY <3>1, <3>2 DEF ClientType
  <2>3. \A i \in 1..Len(toPeer["far"]) :
          \/ toPeer["far"][i].kind \in {"hello", "login"}
          \/ toPeer["far"][i].kind = "connect" /\ toPeer["far"][i].ask \in AskType
    <3>1. toPeer["far"] \in Seq(FarMessages)
      BY <2>1 DEF WellTyped
    <3>2. \A m \in FarMessages : \/ m.kind \in {"hello", "login"}
                                 \/ m.kind = "connect" /\ m.ask \in AskType
      BY DEF FarMessages
    <3>3. \A i \in 1..Len(toPeer["far"]) : toPeer["far"][i] \in FarMessages
      BY <3>1, ElementOfSeq
    <3>4. QED
      BY <3>2, <3>3, ZenonT(90)
  <2>4. QED
    BY <2>1, <2>2, <2>3
    DEF TypeOK, WellTyped, FarType, SessionType, PCs, Codes, Sockets
<1>2. QED
  BY <1>1, Invariance, PTL

\* Neither the client nor the pumps are told of a success that the far proxy has not
\* answered with: a partial answer, a refusal or an answer to something else is
\* never taken for it (socks5peer.cpp 160-175).
THEOREM SuccessBacked == Spec => []SuccessIsBacked
<1>1. IInv => SuccessIsBacked
  BY DEF IInv, ClientSide, Upstream, SuccessIsBacked
<1>2. QED
  BY <1>1, Invariance, PTL

\* No CONNECT that arrives whole is refused as an unknown command
\* (socks5server.cpp 24-107).
THEOREM RefusalTrue == Spec => []RefusalIsTrue
<1>1. IInv => RefusalIsTrue
  BY DEF IInv, ClientSide, RefusalIsTrue
<1>2. QED
  BY <1>1, Invariance, PTL

\* The pumps start on two empty streams, for every command of at most 256 bytes: a
\* longer one leaves its port in the client's stream (socks5server.cpp 90-98).
THEOREM Aligned == Spec => [](Fits(client.command) => EstablishedAligned)
<1>1. IInv => (Fits(client.command) => EstablishedAligned)
  <2> SUFFICES ASSUME IInv, Fits(client.command), session.pc = "established",
                      client.command.whole, session.bound.type = "ipv4"
               PROVE  inq = [s \in {"client", "far"} |-> <<>>]
    BY DEF EstablishedAligned
  <2>1. inq["client"] = << >>
    BY DEF IInv, WholeMessages, AfterCommand
  <2>2. inq["far"] = << >>
    BY DEF IInv, Upstream
  <2>3. inq \in [{"client", "far"} -> Seq(Byte)]
    BY DEF IInv, WellTyped, Sockets
  <2>4. QED
    BY <2>1, <2>2, <2>3
<1>2. QED
  BY <1>1, Invariance, PTL

\* A client that is told of success is connected to the target it named, for every
\* IPv4 target and every name whose command fits the buffer of 256 bytes
\* (socks5server.cpp 90-139, socks5peer.cpp 132-158).
THEOREM SuccessTrue ==
  Spec => [](/\ Fits(client.command)
             /\ client.command.target.type \in {"ipv4", "domain"}
             => SuccessIsTrue)
<1>1. IInv => (/\ Fits(client.command)
               /\ client.command.target.type \in {"ipv4", "domain"}
               => SuccessIsTrue)
  <2> SUFFICES ASSUME IInv, Fits(client.command),
                      client.command.target.type \in {"ipv4", "domain"},
                      client.command.whole, client.answer = 0
               PROVE  far.target = client.command.target
    BY DEF SuccessIsTrue
  <2>1. far.target # NoAddr
    BY DEF IInv, ClientSide
  <2>2. session.target # NoAddr => session.target = client.command.target
    BY DEF IInv, WholeMessages
  <2>3. session.target.type # "ipv6"
    BY <2>2, UnknownAddress
  <2>4. far.target = session.target
    <3>1. far.target \in AddressType /\ session.target \in AddressType
      BY DEF IInv, WellTyped, FarType, SessionType
    <3>2. Essence(far.target) = Essence(session.target)
      BY <2>1 DEF IInv, Reached
    <3>3. QED
      BY <2>3, <3>1, <3>2, SameEssence
  <2>5. QED
    BY <2>1, <2>2, <2>4
<1>2. QED
  BY <1>1, Invariance, PTL

-----------------------------------------------------------------------------
(* The process survives.                                                   *)

Sound(c) == c.whole /\ c.target.type # "unknown"

\* Parsing never fails, and what it returns can be packed.
Survives == Sound(client.command) =>
              /\ session.pc # "crashed"
              /\ session.pc \in Building => session.target.type # "unknown"

LEMMA InitSurvives == Init => Survives
  BY DEF Init, Survives, Building

LEMMA ReadCommandSurvives ==
  ASSUME IInv, NEW k, ReadCommand(k), Sound(client.command)
  PROVE  /\ session'.pc # "crashed"
         /\ session'.pc = "connect" => session'.target.type # "unknown"
<1> DEFINE out == Got("client", k)
           cmd == SubSeq(out, 4, k)
           said == Command(client.command)
<1>1. WellTyped /\ WholeMessages /\ client.command \in Commands /\ session \in SessionType
  BY TypedFields DEF IInv
<1>2. session.pc = "command" /\ k \in Sizes("client", 256) /\ Receive("client", k)
  BY ZenonT(90) DEF ReadCommand
<1>3. \/ session' = [session EXCEPT !.pc = "refuse", !.code = 10]
      \/ /\ ~(k < 4) /\ FromSocks5CommandStream(cmd) = {}
         /\ session' = [session EXCEPT !.pc = "crashed"]
      \/ /\ ~(k < 4)
         /\ \E t \in FromSocks5CommandStream(cmd) :
              session' = [session EXCEPT !.pc = "connect", !.target = t]
  BY ZenonT(90) DEF ReadCommand
<1>4. /\ k \in Nat /\ 1 <= k /\ Len(inq["client"]) \in Nat
      /\ out \in Seq(Byte) /\ Len(out) = k
      /\ \A i \in 1..k : out[i] = inq["client"][i]
      /\ ~Cut("client") => k = Len(inq["client"]) \/ k = 256
      /\ inq["client"] # << >>
  <2> DEFINE size == 256
  <2>1. size \in Nat /\ k \in Sizes("client", size) /\ "client" \in Sockets
    BY <1>2 DEF Sockets
  <2> HIDE DEF size
  <2>2. /\ k \in Nat /\ 1 <= k /\ k <= Len(inq["client"]) /\ Len(inq["client"]) \in Nat
        /\ out \in Seq(Byte) /\ Len(out) = k
        /\ \A i \in 1..k : out[i] = inq["client"][i]
        /\ ~Cut("client") => k = Len(inq["client"]) \/ k = size
    BY <1>1, <1>2, <2>1, ReceiveEffect
  <2>3. inq["client"] # << >>
    BY <2>2
  <2> HIDE DEF out
  <2>4. QED
    BY <2>2, <2>3 DEF size
<1>5. /\ said \in Seq(Byte) /\ Len(said) \in Nat /\ Len(said) >= 7
      /\ said[4] = Code(client.command.target.type)
  BY <1>1, CommandBytes
<1> HIDE DEF out, said
<1>6. inq["client"] = said
  BY <1>1, <1>2, <1>4 DEF WholeMessages, said, Sound
<1>7. k >= 7
  BY <1>4, <1>5, <1>6 DEF Cut, Sound
<1>8. /\ cmd \in Seq(Byte) /\ Len(cmd) >= 4
      /\ cmd[1] = Code(client.command.target.type)
  <2> DEFINE from == 4
  <2>1. /\ from \in 1..Len(out) + 1 /\ k \in 0..Len(out) /\ from <= k
        /\ k - from + 1 \in Nat /\ 4 <= k - from + 1 /\ 1 \in 1..(k - from + 1)
        /\ from + 1 - 1 = 4 /\ 4 \in 1..k
    BY <1>4, <1>7
  <2> HIDE DEF from
  <2>2. /\ SubSeq(out, from, k) \in Seq(Byte)
        /\ Len(SubSeq(out, from, k)) = k - from + 1
        /\ \A i \in 1..(k - from + 1) : SubSeq(out, from, k)[i] = out[from + i - 1]
    BY <1>4, <2>1, Slices
  <2>3. SubSeq(out, from, k)[1] = out[from + 1 - 1]
    BY <2>1, <2>2
  <2>4. out[4] = said[4]
    BY <1>4, <1>6, <2>1
  <2>5. cmd = SubSeq(out, from, k)
    BY DEF from
  <2> HIDE DEF cmd
  <2>6. QED
    BY <1>5, <2>1, <2>2, <2>3, <2>4, <2>5
<1> HIDE DEF cmd
<1>9. FromSocks5CommandStream(cmd) # {}
  BY <1>8, ParsedSome
<1>10. cmd[1] \in {1, 3, 4}
  <2>1. /\ client.command.target \in AddressType
        /\ client.command.target.type # "unknown"
    BY <1>1, CommandsAssumption DEF Sized, Sound
  <2>2. client.command.target.type \in {"ipv4", "domain", "ipv6"}
    BY <2>1, AddressFields
  <2>3. QED
    BY <1>8, <2>2, CodeType, SMTT(30)
<1>11. CASE session' = [session EXCEPT !.pc = "refuse", !.code = 10]
  <2>1. session'.pc = "refuse"
    BY <1>1, <1>11 DEF SessionType
  <2>2. QED
    BY <2>1
<1>12. ASSUME NEW t \in FromSocks5CommandStream(cmd),
              session' = [session EXCEPT !.pc = "connect", !.target = t]
       PROVE  session'.pc # "crashed" /\ session'.target.type # "unknown"
  <2>1. session'.pc = "connect" /\ session'.target = t
    BY <1>1, <1>12 DEF SessionType
  <2>2. t.type # "unknown"
    BY <1>8, <1>10, <1>12, ParsedType
  <2>3. QED
    BY <2>1, <2>2
<1>13. QED
  BY <1>3, <1>9, <1>11, <1>12, ZenonT(90)

LEMMA UpAskSurvives ==
  ASSUME IInv, UpAsk, session.target.type # "unknown"
  PROVE  session'.pc # "crashed"
<1>1. /\ session.pc = "upAsk" /\ Upstream /\ session \in SessionType
      /\ session.target \in AddressType
  BY TypedFields DEF IInv, UpAsk
<1>2. session.method = {far.method}
  BY <1>1 DEF Upstream
<1> DEFINE asks == UNION {Asks(session.target, o) : o \in session.method}
<1>3. PICK bytes \in PackSocks5Address(session.target) : TRUE
  BY <1>1, PackedSome
<1>4. bytes # << >>
  <2>1. PICK raw \in Seq(Byte) :
          WellPacked(bytes, Kind(session.target), raw, U16ToBytes(session.target.port))
    BY <1>1, <1>3, PackedAddress
  <2>2. Len(Kind(session.target)) \in {1, 2}
    BY <1>1, KindType
  <2>3. Len(bytes) >= 1
    BY <2>1, <2>2 DEF WellPacked
  <2>4. QED
    BY <2>3
<1>5. asks # {}
  <2>1. bytes \in PackSocks5Address(session.target) \ {<< >>}
    BY <1>3, <1>4
  <2>2. Asks(session.target, far.method) # {}
    <3> DEFINE Ask(b, from) == [head  |-> << 5, 1, b[3], b[4] >>,
                                size  |-> (Len(b) - from + 1 + Tag(far.method)) % 256,
                                plain |-> SubSeq(b, from, Len(b))]
               packed == PackSocks5Address(session.target) \ {<< >>}
               froms  == {IF session.target.type = "domain" THEN 6 ELSE 5}
    <3>1. Asks(session.target, far.method) = {Ask(b, from) : b \in packed, from \in froms}
      BY DEF Asks
    <3>2. PICK from \in froms : TRUE
      OBVIOUS
    <3>3. bytes \in packed
      BY <2>1
    <3> HIDE DEF Ask, packed, froms
    <3>4. Ask(bytes, from) \in {Ask(b, f) : b \in packed, f \in froms}
      BY <3>2, <3>3
    <3>5. QED
      BY <3>1, <3>4
  <2>3. QED
    BY <1>2, <2>2
<1>6. asks = {} \/ session' = [session EXCEPT !.pc = "upBound"]
  BY DEF UpAsk
<1> HIDE DEF asks
<1>7. session'.pc = "upBound"
  BY <1>1, <1>5, <1>6 DEF SessionType
<1>8. QED
  BY <1>7

LEMMA NextSurvives == IInv /\ Survives /\ [Next]_vars => Survives'
<1> SUFFICES ASSUME IInv, Survives, [Next]_vars, Sound(client'.command)
             PROVE  /\ session'.pc # "crashed"
                    /\ session'.pc \in Building => session'.target.type # "unknown"
  BY DEF Survives
<1>1. session \in SessionType /\ client \in ClientType
  BY DEF IInv, WellTyped
<1>2. client'.command = client.command
  <2>1. \/ client' = client
        \/ \E p \in {"greeted", "asked", "gone"} : client' = [client EXCEPT !.pc = p]
        \/ \E n : client' = [client EXCEPT !.pc = "answered", !.answer = n]
    BY ZenonT(90) DEF Next, ServeOnOne, Peers, vars, SayHello, ReadCommand, UpHello, VerifyAuth, UpBound,
                 Greet, ClientFails, Connect, UpGreet, UpLogin, UpAsk, UpFails, Answer,
                 AnswerUnpackable, Refuse, ClientHello, ClientCommand, ClientHears, ClientLeaves,
                 FarGreets, FarVerifies, FarConnects, FarLeaves
  <2>2. ASSUME NEW p, client' = [client EXCEPT !.pc = p]
        PROVE  client'.command = client.command
    BY <1>1, <2>2 DEF ClientType
  <2>3. ASSUME NEW n, client' = [client EXCEPT !.pc = "answered", !.answer = n]
        PROVE  client'.command = client.command
    BY <1>1, <2>3 DEF ClientType
  <2>4. QED
    BY <2>1, <2>2, <2>3, ZenonT(90)
<1>3. /\ Sound(client.command) /\ session.pc # "crashed"
      /\ session.pc \in Building => session.target.type # "unknown"
  BY <1>2 DEF Survives
<1>4. ASSUME NEW k, ReadCommand(k)
      PROVE  /\ session'.pc # "crashed"
             /\ session'.pc \in Building => session'.target.type # "unknown"
  <2>1. /\ session'.pc # "crashed"
        /\ session'.pc = "connect" => session'.target.type # "unknown"
    BY <1>3, <1>4, ReadCommandSurvives
  <2>2. session'.pc \in Building => session'.pc = "connect"
    <3>1. \/ session' = [session EXCEPT !.pc = "refuse", !.code = 10]
          \/ session' = [session EXCEPT !.pc = "crashed"]
          \/ \E t : session' = [session EXCEPT !.pc = "connect", !.target = t]
      BY <1>4, ZenonT(90) DEF ReadCommand
    <3>2. ASSUME NEW t, session' = [session EXCEPT !.pc = "connect", !.target = t]
          PROVE  session'.pc = "connect"
      BY <1>1, <3>2 DEF SessionType
    <3>3. \/ session'.pc \in {"refuse", "crashed"}
          \/ session'.pc = "connect"
      <4>1. session' = [session EXCEPT !.pc = "refuse", !.code = 10] => session'.pc = "refuse"
        BY <1>1 DEF SessionType
      <4>2. session' = [session EXCEPT !.pc = "crashed"] => session'.pc = "crashed"
        BY <1>1 DEF SessionType
      <4>3. QED
        BY <3>1, <3>2, <4>1, <4>2, ZenonT(90)
    <3>4. QED
      BY <3>3 DEF Building
  <2>3. QED
    BY <2>1, <2>2
<1>5. ASSUME UpAsk
      PROVE  /\ session'.pc # "crashed"
             /\ session'.pc \in Building => session'.target.type # "unknown"
  <2>1. session.pc = "upAsk"
    BY <1>5 DEF UpAsk
  <2>2. session.target.type # "unknown"
    BY <1>3, <2>1 DEF Building
  <2>3. session'.pc # "crashed"
    BY <1>5, <2>2, UpAskSurvives
  <2>4. session'.target = session.target
    <3>1. \E p \in {"crashed", "upBound"} : session' = [session EXCEPT !.pc = p]
      BY <1>5 DEF UpAsk
    <3>2. QED
      BY <1>1, <3>1 DEF SessionType
  <2>5. QED
    BY <2>2, <2>3, <2>4
<1>6. ASSUME NEW p \in {"hello", "greet", "command", "refuse", "established", "ended"},
             session'.pc = p
      PROVE  /\ session'.pc # "crashed"
             /\ session'.pc \in Building => session'.target.type # "unknown"
  BY <1>6 DEF Building
<1>7. ASSUME session'.target = session.target, session.pc \in Building,
             session'.pc \in Building \cup {"answer", "refuse"}
      PROVE  /\ session'.pc # "crashed"
             /\ session'.pc \in Building => session'.target.type # "unknown"
  BY <1>3, <1>7 DEF Building
<1>8. CASE session' = session
  BY <1>3, <1>8
<1>9. CASE (\E k \in 1..20 : SayHello(k)) \/ Greet \/ ClientFails \/ Answer \/ AnswerUnpackable \/ Refuse
  <2>1. \/ \E p \in {"greet", "command", "established", "ended"} : session' = [session EXCEPT !.pc = p]
        \/ session' = [session EXCEPT !.pc = "refuse", !.code = 12]
    BY <1>9, ZenonT(90) DEF SayHello, Greet, ClientFails, Answer, AnswerUnpackable, Refuse, Drop
  <2>2. session'.pc \in {"greet", "command", "refuse", "established", "ended"}
    BY <1>1, <2>1 DEF SessionType
  <2>3. QED
    BY <1>6, <2>2
<1>10. CASE \/ \E k \in 1..300 : UpHello(k) \/ VerifyAuth(k) \/ UpBound(k)
            \/ Connect \/ UpGreet \/ UpLogin \/ UpFails
  <2>1. session.pc \in Building
    BY <1>10, ZenonT(90) DEF UpHello, VerifyAuth, UpBound, Connect, UpGreet, UpLogin, UpFails, Building
  <2>2. \/ \E p \in {"upGreet", "upHello", "upVerify", "upAsk"} : session' = [session EXCEPT !.pc = p]
        \/ session' = [session EXCEPT !.pc = "refuse", !.code = 11]
        \/ \E x : session' = [session EXCEPT !.pc = "upLogin", !.method = x]
        \/ \E x : session' = [session EXCEPT !.pc = "answer", !.bound = x]
    BY <1>10, ZenonT(90) DEF UpHello, VerifyAuth, UpBound, Connect, UpGreet, UpLogin, UpFails, UpFailed
  <2>3. session'.target = session.target /\ session'.pc \in Building \cup {"answer", "refuse"}
    <3> DEFINE Kept == /\ session'.target = session.target
                       /\ session'.pc \in Building \cup {"answer", "refuse"}
    <3>1. ASSUME NEW p \in {"upGreet", "upHello", "upVerify", "upAsk"},
                 session' = [session EXCEPT !.pc = p]
          PROVE  Kept
      BY <1>1, <3>1 DEF SessionType, Building
    <3>2. ASSUME session' = [session EXCEPT !.pc = "refuse", !.code = 11]
          PROVE  Kept
      BY <1>1, <3>2 DEF SessionType
    <3>3. ASSUME NEW x, session' = [session EXCEPT !.pc = "upLogin", !.method = x]
          PROVE  Kept
      BY <1>1, <3>3 DEF SessionType, Building
    <3>4. ASSUME NEW x, session' = [session EXCEPT !.pc = "answer", !.bound = x]
          PROVE  Kept
      BY <1>1, <3>4 DEF SessionType
    <3> HIDE DEF Kept
    <3>5. Kept
      BY <2>2, <3>1, <3>2, <3>3, <3>4, ZenonT(90)
    <3>6. QED
      BY <3>5 DEF Kept
  <2>4. QED
    BY <1>7, <2>1, <2>3
<1>11. CASE Peers \/ UNCHANGED vars
  <2>1. session' = session
    BY <1>11, ZenonT(90) DEF Peers, vars, ClientHello, ClientCommand, ClientHears, ClientLeaves,
                        FarGreets, FarVerifies, FarConnects, FarLeaves
  <2>2. QED
    BY <1>8, <2>1
<1>12. QED
  BY <1>4, <1>5, <1>9, <1>10, <1>11, ZenonT(90) DEF Next, ServeOnOne

-----------------------------------------------------------------------------
(* The handshake implements Session.                                       *)

\* What is still to come has not happened.
Pending ==
  /\ session.pc \in {"hello", "greet", "command"} => session.target = NoAddr
  /\ far.pc \in {"hello", "login", "ask"} => far.target = NoAddr

LEMMA SessionMoves ==
  ASSUME IInv, ServeOnOne, \A k : ~ReadCommand(k)
  PROVE  /\ far' = far
         /\ session.pc \notin {"established", "ended", "crashed"}
         /\ session'.target = session.target
         /\ session'.pc = "established" => session.pc = "answer"
         /\ session'.pc \in {"hello", "greet", "command"} =>
              session.pc \in {"hello", "greet", "command"}
<1>1. session \in SessionType
  BY DEF IInv, WellTyped
<1>2. /\ far' = far
      /\ session.pc \notin {"established", "ended", "crashed"}
  BY ZenonT(90) DEF ServeOnOne, SayHello, Greet, ClientFails, Connect, UpGreet, UpHello, UpLogin,
               VerifyAuth, UpAsk, UpBound, UpFails, Answer, AnswerUnpackable, Refuse
<1>3. \/ \E p \in PCs \ {"hello", "greet", "command", "established"} :
           session' = [session EXCEPT !.pc = p]
      \/ /\ session.pc \in {"hello", "greet"}
         /\ \E p \in {"greet", "command"} : session' = [session EXCEPT !.pc = p]
      \/ session.pc = "answer" /\ session' = [session EXCEPT !.pc = "established"]
      \/ \E c : session' = [session EXCEPT !.pc = "refuse", !.code = c]
      \/ \E x : session' = [session EXCEPT !.pc = "upLogin", !.method = x]
      \/ \E x : session' = [session EXCEPT !.pc = "answer", !.bound = x]
  <2>1. /\ {"upGreet", "upHello", "upVerify", "upAsk", "upBound", "ended", "crashed"}
             \subseteq PCs \ {"hello", "greet", "command", "established"}
        /\ "hello" \in {"hello", "greet"} /\ "greet" \in {"hello", "greet"}
    BY DEF PCs
  <2>2. QED
    BY <2>1, ZenonT(40) DEF ServeOnOne, SayHello, Greet, ClientFails, Connect, UpGreet, UpHello, UpLogin,
                 VerifyAuth, UpAsk, UpBound, UpFails, Answer, AnswerUnpackable, Refuse, Drop, UpFailed
<1> DEFINE Kept == /\ session'.target = session.target
                   /\ session'.pc = "established" => session.pc = "answer"
                   /\ session'.pc \in {"hello", "greet", "command"} =>
                        session.pc \in {"hello", "greet", "command"}
<1>4. ASSUME NEW p \in PCs \ {"hello", "greet", "command", "established"},
             session' = [session EXCEPT !.pc = p]
      PROVE  Kept
  BY <1>1, <1>4 DEF SessionType
<1>5. ASSUME session.pc \in {"hello", "greet"}, NEW p \in {"greet", "command"},
             session' = [session EXCEPT !.pc = p]
      PROVE  Kept
  BY <1>1, <1>5 DEF SessionType
<1>6. ASSUME session.pc = "answer", session' = [session EXCEPT !.pc = "established"]
      PROVE  Kept
  BY <1>1, <1>6 DEF SessionType
<1>7. ASSUME NEW c, session' = [session EXCEPT !.pc = "refuse", !.code = c]
      PROVE  Kept
  BY <1>1, <1>7 DEF SessionType
<1>8. ASSUME NEW x, session' = [session EXCEPT !.pc = "upLogin", !.method = x]
      PROVE  Kept
  BY <1>1, <1>8 DEF SessionType
<1>9. ASSUME NEW x, session' = [session EXCEPT !.pc = "answer", !.bound = x]
      PROVE  Kept
  BY <1>1, <1>9 DEF SessionType
<1> HIDE DEF Kept
<1>10. Kept
  BY <1>3, <1>4, <1>5, <1>6, <1>7, <1>8, <1>9, ZenonT(90)
<1>11. QED
  BY <1>2, <1>10 DEF Kept

\* The peers' steps, except for the one in which the far proxy reaches its target.
Reaches == /\ FarHears("connect")
           /\ far' = [far EXCEPT !.pc = "serving", !.target = FarTarget(Head(toPeer["far"]).ask)]

LEMMA PeersMove ==
  ASSUME IInv, Peers
  PROVE  /\ session' = session
         /\ \/ /\ far'.target = far.target
               /\ far'.pc \in {"hello", "login", "ask"} => far.pc \in {"hello", "login", "ask"}
            \/ Reaches /\ far.pc = "ask"
<1>1. far \in FarType
  BY DEF IInv, WellTyped
<1>2. session' = session
  BY ZenonT(90) DEF Peers, ClientHello, ClientCommand, ClientHears, ClientLeaves,
               FarGreets, FarVerifies, FarConnects, FarLeaves
<1>3. \/ far' = far
      \/ /\ far.pc \in {"hello", "login", "ask"}
         /\ \E p : far' = [far EXCEPT !.pc = p]
      \/ far' = [far EXCEPT !.pc = "gone"]
      \/ Reaches /\ far.pc = "ask"
  <2>1. /\ "hello" \in {"hello", "login", "ask"} /\ "login" \in {"hello", "login", "ask"}
        /\ "ask" \in {"hello", "login", "ask"}
    OBVIOUS
  <2>2. QED
    BY <2>1, ZenonT(90) DEF Peers, ClientHello, ClientCommand, ClientHears, ClientLeaves,
                       FarGreets, FarVerifies, FarConnects, FarLeaves, Reaches
<1> DEFINE Kept == /\ far'.target = far.target
                   /\ far'.pc \in {"hello", "login", "ask"} => far.pc \in {"hello", "login", "ask"}
<1>4. far' = far => Kept
  OBVIOUS
<1>5. ASSUME far.pc \in {"hello", "login", "ask"}, NEW p, far' = [far EXCEPT !.pc = p]
      PROVE  Kept
  BY <1>1, <1>5 DEF FarType
<1>6. far' = [far EXCEPT !.pc = "gone"] => Kept
  BY <1>1 DEF FarType
<1> HIDE DEF Kept
<1>7. Kept \/ (Reaches /\ far.pc = "ask")
  BY <1>3, <1>4, <1>5, <1>6, ZenonT(90)
<1>8. QED
  BY <1>2, <1>7 DEF Kept

LEMMA ReadCommandMoves ==
  ASSUME IInv, NEW k, ReadCommand(k)
  PROVE  /\ far' = far /\ session.pc = "command"
         /\ \/ /\ session'.target = session.target
               /\ session'.pc \in {"refuse", "crashed"}
            \/ session'.pc = "connect"
<1>1. session \in SessionType
  BY DEF IInv, WellTyped
<1>2. /\ far' = far /\ session.pc = "command"
      /\ \/ session' = [session EXCEPT !.pc = "refuse", !.code = 10]
         \/ session' = [session EXCEPT !.pc = "crashed"]
         \/ \E t : session' = [session EXCEPT !.pc = "connect", !.target = t]
  BY ZenonT(90) DEF ReadCommand
<1>3. ASSUME NEW t, session' = [session EXCEPT !.pc = "connect", !.target = t]
      PROVE  session'.pc = "connect"
  BY <1>1, <1>3 DEF SessionType
<1>4. ASSUME session' = [session EXCEPT !.pc = "refuse", !.code = 10]
      PROVE  session'.target = session.target /\ session'.pc \in {"refuse", "crashed"}
  BY <1>1, <1>4 DEF SessionType
<1>5. ASSUME session' = [session EXCEPT !.pc = "crashed"]
      PROVE  session'.target = session.target /\ session'.pc \in {"refuse", "crashed"}
  BY <1>1, <1>5 DEF SessionType
<1>6. QED
  BY <1>2, <1>3, <1>4, <1>5, ZenonT(90)

\* The far proxy reaches the session's target, once, and not before it is asked; but
\* for the host of an IPv6 one.
LEMMA ReachesOnce ==
  ASSUME IInv, Pending, FarConnects, Reaches, far.pc = "ask"
  PROVE  /\ far.target = NoAddr /\ session.target # NoAddr
         /\ Essence(far'.target) = Essence(session.target)
         /\ far'.pc = "serving"
         /\ session.pc \in {"upBound", "refuse", "ended", "crashed"}
<1> DEFINE ask == Head(toPeer["far"]).ask
<1>1. PICK m \in Seq(Byte) : FarSays(m)
  <2>1. Refusal(1) \in Seq(Byte)
    <3>1. 1 \in Byte
      BY DEF Byte
    <3>2. QED
      BY <3>1, RefusalBytes
  <2>2. \A b \in Bounds : FarBound(b) \in Seq(Byte)
    BY BoundBytes
  <2>3. QED
    BY <2>1, <2>2 DEF FarConnects
<1>2. FarHears("connect")
  BY DEF Reaches
<1>3. /\ WellAsked(ask, session.target)
      /\ session.pc \in {"upBound", "refuse", "ended", "crashed"}
  BY <1>1, <1>2, FarHeard
<1>4. session.target \in AddressType /\ far \in FarType
  BY TypedFields DEF IInv, WellTyped
<1>5. far' = [far EXCEPT !.pc = "serving", !.target = FarTarget(ask)]
  BY DEF Reaches
<1> HIDE DEF ask
<1>6. ask \in AskType /\ Len(ask.plain) >= 2 /\ session.target.type # "unknown"
  BY <1>3 DEF WellAsked
<1>7. Essence(FarTarget(ask)) = Essence(session.target)
  BY <1>3, <1>4, <1>6, FarReaches
<1>8. far'.target = FarTarget(ask) /\ far'.pc = "serving"
  BY <1>4, <1>5 DEF FarType
<1>9. session.target # NoAddr
  BY <1>6, UnknownAddress
<1>10. QED
  BY <1>3, <1>7, <1>8, <1>9 DEF Pending

LEMMA NextPending == IInv /\ Pending /\ [Next]_vars => Pending'
<1> SUFFICES ASSUME IInv, Pending, [Next]_vars PROVE Pending'
  OBVIOUS
<1>1. CASE \E k : ReadCommand(k)
  <2>1. PICK k : ReadCommand(k)
    BY <1>1
  <2>2. far' = far /\ session'.pc \in {"refuse", "crashed", "connect"}
    BY <2>1, ReadCommandMoves
  <2>3. QED
    BY <2>2 DEF Pending
<1>2. CASE ServeOnOne /\ \A k : ~ReadCommand(k)
  BY <1>2, SessionMoves DEF Pending
<1>3. CASE Peers
  <2>1. far \in FarType
    BY DEF IInv, WellTyped
  <2>2. Reaches => far'.pc = "serving"
    BY <2>1 DEF Reaches, FarType
  <2>3. QED
    BY <1>3, <2>2, PeersMove DEF Pending
<1>4. CASE UNCHANGED vars
  BY <1>4 DEF vars, Pending
<1>5. QED
  BY <1>1, <1>2, <1>3, <1>4, ZenonT(40) DEF Next, ServeOnOne

\* What the client has been told follows from where the session is.
LEMMA ToldNow ==
  ASSUME session \in SessionType
  PROVE  /\ session.pc = "established" => Told = "success"
         /\ session.pc \in {"ended", "crashed"} => Told \in {"refusal", "silence"}
         /\ session.pc \notin {"established", "ended", "crashed"} => Told = "nothing"
  BY DEF Told, SessionType, Codes

LEMMA ToldNext ==
  ASSUME session' \in SessionType
  PROVE  /\ session'.pc = "established" => Told' = "success"
         /\ session'.pc \in {"ended", "crashed"} => Told' \in {"refusal", "silence"}
         /\ session'.pc \notin {"established", "ended", "crashed"} => Told' = "nothing"
  BY DEF Told, SessionType, Codes

\* Every step of the handshake is a step of Session or changes none of its
\* variables.
LEMMA StepRefines ==
  IInv /\ Pending /\ IInv' /\ [Next]_vars => [Abstract!Next]_(Abstract!vars)
<1> SUFFICES ASSUME IInv, Pending, IInv', [Next]_vars
             PROVE  Abstract!Next \/ UNCHANGED Abstract!vars
  OBVIOUS
<1>1. session \in SessionType /\ session' \in SessionType /\ session'.target \in AddressType
  BY DEF IInv, WellTyped, SessionType
<1>2. /\ session.target \in AddressType /\ far.target \in AddressType
      /\ far'.target \in AddressType
  BY DEF IInv, WellTyped, SessionType, FarType
<1>3. /\ Essence(session.target) = NoAddr <=> session.target = NoAddr
      /\ Essence(far.target) = NoAddr <=> far.target = NoAddr
      /\ Essence(session'.target) = NoAddr <=> session'.target = NoAddr
      /\ Essence(session'.target) \in AddressType
  BY <1>1, <1>2, EssenceFields
<1>4. CASE \E k : ReadCommand(k)
  <2>1. PICK k : ReadCommand(k)
    BY <1>4
  <2>2. /\ far' = far /\ session.pc = "command" /\ session.target = NoAddr
        /\ session'.pc \in {"refuse", "crashed", "connect"}
        /\ session'.pc = "crashed" => session'.target = session.target
    BY <2>1, ReadCommandMoves DEF Pending
  <2>3. /\ Told = "nothing"
        /\ session'.pc = "crashed" => Told' \in {"refusal", "silence"}
        /\ session'.pc # "crashed" => Told' = "nothing"
    BY <1>1, <2>2, ToldNow, ToldNext
  <2>4. CASE session'.pc = "crashed"
    BY <2>2, <2>3, <2>4 DEF Abstract!Next, Abstract!Fail
  <2>5. CASE session'.pc # "crashed" /\ session'.target # NoAddr
    BY <1>3, <2>2, <2>3, <2>5 DEF Abstract!Next, Abstract!Understand
  <2>6. CASE session'.pc # "crashed" /\ session'.target = NoAddr
    BY <2>2, <2>3, <2>6 DEF Abstract!vars
  <2>7. QED
    BY <2>4, <2>5, <2>6
<1>5. CASE ServeOnOne /\ \A k : ~ReadCommand(k)
  <2>1. /\ far' = far
        /\ session.pc \notin {"established", "ended", "crashed"}
        /\ session'.target = session.target
        /\ session'.pc = "established" => session.pc = "answer"
    BY <1>5, SessionMoves
  <2>2. Told = "nothing"
    BY <1>1, <2>1, ToldNow
  <2>3. CASE session'.pc = "established"
    <3>1. far.target # NoAddr /\ Told' = "success"
      BY <1>1, <2>1, <2>3, ToldNext DEF IInv, Upstream
    <3>2. QED
      BY <1>3, <2>1, <2>2, <3>1 DEF Abstract!Next, Abstract!Succeed
  <2>4. CASE session'.pc \in {"ended", "crashed"}
    <3>1. Told' \in {"refusal", "silence"}
      BY <1>1, <2>4, ToldNext
    <3>2. QED
      BY <2>1, <2>2, <3>1 DEF Abstract!Next, Abstract!Fail
  <2>5. CASE session'.pc \notin {"established", "ended", "crashed"}
    <3>1. Told' = "nothing"
      BY <1>1, <2>5, ToldNext
    <3>2. QED
      BY <2>1, <2>2, <3>1 DEF Abstract!vars
  <2>6. QED
    BY <2>3, <2>4, <2>5
<1>6. CASE Peers
  <2>1. session' = session
    BY <1>6, PeersMove
  <2>2. Told' = Told
    BY <2>1 DEF Told
  <2>3. CASE far'.target = far.target
    BY <2>1, <2>2, <2>3 DEF Abstract!vars
  <2>4. CASE Reaches /\ far.pc = "ask"
    <3>1. FarConnects
      <4>1. FarConnects \/ far'.pc # "serving" \/ far' = far
        <5>1. far \in FarType
          BY DEF IInv, WellTyped
        <5>2. \/ FarConnects \/ far' = far
              \/ \E p \in {"login", "ask", "refused", "gone"} : far' = [far EXCEPT !.pc = p]
          BY <1>6, ZenonT(90) DEF Peers, ClientHello, ClientCommand, ClientHears, ClientLeaves,
                             FarGreets, FarVerifies, FarLeaves
        <5>3. QED
          BY <5>1, <5>2 DEF FarType
      <4>2. far'.pc = "serving"
        BY <2>4 DEF Reaches, IInv, WellTyped, FarType
      <4>3. QED
        BY <2>4, <4>1, <4>2
    <3>2. /\ far.target = NoAddr /\ session.target # NoAddr
          /\ Essence(far'.target) = Essence(session.target)
          /\ session.pc \in {"upBound", "refuse", "ended", "crashed"}
      BY <2>4, <3>1, ReachesOnce
    <3>3. Told # "success"
      BY <1>1, <3>2, ToldNow
    <3>4. QED
      BY <1>3, <2>1, <2>2, <3>2, <3>3 DEF Abstract!Next, Abstract!Reach
  <2>5. QED
    BY <1>6, <2>3, <2>4, PeersMove
<1>7. CASE UNCHANGED vars
  BY <1>7 DEF vars, Told, Abstract!vars
<1>8. QED
  BY <1>4, <1>5, <1>6, <1>7, ZenonT(40) DEF Next, ServeOnOne

\* The handshake implements Session: it understands one target, the far proxy reaches
\* that or none, but for the host of an IPv6 one, and the client is told once, of
\* success only when the target is reached (socks5server.cpp 62-139, socks5peer.cpp
\* 132-176).
THEOREM Refinement == Spec => SessionRefined
<1>1. Init => Pending
  BY DEF Init, Pending
<1>2. Init => Abstract!Init
  BY UnknownAddress DEF Init, Abstract!Init, Told, Essence
<1>3. Spec => []Pending
  BY <1>1, NextPending, Invariance, PTL DEF Spec
<1>4. QED
  BY <1>2, <1>3, Invariance, StepRefines, PTL DEF Spec, SessionRefined, Abstract!Spec

-----------------------------------------------------------------------------
(* What can end the process.                                               *)

\* A target of an unknown type is none, and a session that has crashed has none.
Blameless == /\ session.target.type = "unknown" => session.target = NoAddr
             /\ session.pc = "crashed" => session.target = NoAddr

\* Besides the parsing of the command only the request to the far proxy crashes.
LEMMA CrashesAtAsk ==
  ASSUME IInv, ServeOnOne, \A k : ~ReadCommand(k), ~UpAsk
  PROVE  session'.pc # "crashed"
<1>1. session \in SessionType
  BY DEF IInv, WellTyped
<1>2. \/ \E p \in PCs \ {"crashed"} : session' = [session EXCEPT !.pc = p]
      \/ \E c : session' = [session EXCEPT !.pc = "refuse", !.code = c]
      \/ \E x : session' = [session EXCEPT !.pc = "upLogin", !.method = x]
      \/ \E x : session' = [session EXCEPT !.pc = "answer", !.bound = x]
  <2>1. {"greet", "command", "upGreet", "upHello", "upVerify", "upAsk", "established", "ended"}
          \subseteq PCs \ {"crashed"}
    BY DEF PCs
  <2>2. QED
    BY <2>1, ZenonT(90) DEF ServeOnOne, SayHello, Greet, ClientFails, Connect, UpGreet, UpHello, UpLogin,
                 VerifyAuth, UpBound, UpFails, Answer, AnswerUnpackable, Refuse, Drop, UpFailed
<1>3. ASSUME NEW p \in PCs \ {"crashed"}, session' = [session EXCEPT !.pc = p]
      PROVE  session'.pc # "crashed"
  BY <1>1, <1>3 DEF SessionType
<1>4. ASSUME NEW c, session' = [session EXCEPT !.pc = "refuse", !.code = c]
      PROVE  session'.pc # "crashed"
  BY <1>1, <1>4 DEF SessionType
<1>5. ASSUME NEW x, session' = [session EXCEPT !.pc = "upLogin", !.method = x]
      PROVE  session'.pc # "crashed"
  BY <1>1, <1>5 DEF SessionType
<1>6. ASSUME NEW x, session' = [session EXCEPT !.pc = "answer", !.bound = x]
      PROVE  session'.pc # "crashed"
  BY <1>1, <1>6 DEF SessionType
<1>7. QED
  BY <1>2, <1>3, <1>4, <1>5, <1>6, ZenonT(90)

\* What the session understands of a command is an address of a known type, or none.
LEMMA ReadCommandBlameless ==
  ASSUME IInv, Pending, NEW k, ReadCommand(k)
  PROVE  Blameless'
<1> DEFINE out == Got("client", k)
           cmd == SubSeq(out, 4, k)
<1>1. WellTyped /\ session \in SessionType /\ session.target = NoAddr
  BY ReadCommandMoves DEF IInv, WellTyped, Pending
<1>2. k \in Sizes("client", 256) /\ Receive("client", k)
  BY ZenonT(90) DEF ReadCommand
<1>3. \/ session' = [session EXCEPT !.pc = "refuse", !.code = 10]
      \/ session' = [session EXCEPT !.pc = "crashed"]
      \/ /\ ~(k < 4)
         /\ \E t \in FromSocks5CommandStream(cmd) :
              session' = [session EXCEPT !.pc = "connect", !.target = t]
  BY ZenonT(90) DEF ReadCommand
<1>4. k \in Nat /\ out \in Seq(Byte) /\ Len(out) = k
  <2> DEFINE size == 256
  <2>1. size \in Nat /\ k \in Sizes("client", size) /\ "client" \in Sockets
    BY <1>2 DEF Sockets
  <2> HIDE DEF size
  <2>2. QED
    BY <1>1, <1>2, <2>1, ReceiveEffect
<1> HIDE DEF out
<1>5. ~(k < 4) => cmd \in Seq(Byte) /\ Len(cmd) >= 1
  <2> SUFFICES ASSUME ~(k < 4) PROVE cmd \in Seq(Byte) /\ Len(cmd) >= 1
    OBVIOUS
  <2> DEFINE from == 4
  <2>1. from \in 1..Len(out) + 1 /\ k \in 0..Len(out) /\ from <= k /\ k - from + 1 >= 1
    BY <1>4
  <2> HIDE DEF from
  <2>2. SubSeq(out, from, k) \in Seq(Byte) /\ Len(SubSeq(out, from, k)) = k - from + 1
    BY <1>4, <2>1, Slices
  <2>3. QED
    BY <2>1, <2>2 DEF from
<1> HIDE DEF cmd
<1>6. CASE session' = [session EXCEPT !.pc = "refuse", !.code = 10]
  BY <1>1, <1>6, UnknownAddress DEF SessionType, Blameless
<1>7. CASE session' = [session EXCEPT !.pc = "crashed"]
  BY <1>1, <1>7, UnknownAddress DEF SessionType, Blameless
<1>8. ASSUME ~(k < 4), NEW t \in FromSocks5CommandStream(cmd),
             session' = [session EXCEPT !.pc = "connect", !.target = t]
      PROVE  Blameless'
  <2>1. session'.pc = "connect" /\ session'.target = t
    BY <1>1, <1>8 DEF SessionType
  <2>2. t.type = "unknown" => t = NoAddr
    BY <1>5, <1>8, ParsedType
  <2>3. QED
    BY <2>1, <2>2 DEF Blameless
<1>9. QED
  BY <1>3, <1>6, <1>7, <1>8, ZenonT(90)

LEMMA NextBlameless == IInv /\ Pending /\ Blameless /\ [Next]_vars => Blameless'
<1> SUFFICES ASSUME IInv, Pending, Blameless, [Next]_vars PROVE Blameless'
  OBVIOUS
<1>1. CASE \E k : ReadCommand(k)
  BY <1>1, ReadCommandBlameless
<1>2. CASE ServeOnOne /\ \A k : ~ReadCommand(k)
  <2>1. session'.target = session.target /\ session.pc # "crashed"
    BY <1>2, SessionMoves
  <2>2. session'.pc = "crashed" => session.target.type = "unknown"
    BY <1>2, CrashesAtAsk, UpAskSurvives
  <2>3. QED
    BY <2>1, <2>2 DEF Blameless
<1>3. CASE Peers
  BY <1>3, PeersMove DEF Blameless
<1>4. CASE UNCHANGED vars
  BY <1>4 DEF vars, Blameless
<1>5. QED
  BY <1>1, <1>2, <1>3, <1>4, ZenonT(40) DEF Next, ServeOnOne

\* The process ends only by a client's command of an unknown type or of which a part
\* has come, before a target is understood: by no answer of the far proxy, wherever
\* TCP cuts it (address.cpp 230-272, socks5peer.cpp 132-175).
THEOREM Survival == Spec => []CrashOnlyByCommand
<1>1. Spec => []Survives
  BY InitSurvives, NextSurvives, Invariance, PTL DEF Spec
<1>2. Spec => []Pending
  <2>1. Init => Pending
    BY DEF Init, Pending
  <2>2. QED
    BY <2>1, NextPending, Invariance, PTL DEF Spec
<1>3. Spec => []Blameless
  <2>1. Init => Blameless
    BY DEF Init, Blameless
  <2>2. QED
    BY <1>2, <2>1, NextBlameless, Invariance, PTL DEF Spec
<1>4. Survives /\ Blameless => CrashOnlyByCommand
  BY DEF Survives, Blameless, CrashOnlyByCommand, Sound
<1>5. QED
  BY <1>1, <1>3, <1>4, PTL
=============================================================================
