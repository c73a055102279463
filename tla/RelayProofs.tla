---------------------------- MODULE RelayProofs ----------------------------
(***************************************************************************)
(* Type correctness of Relay, the integrity of what proxy_read puts on the *)
(* wire, and that the pumps always advance, for every read size, tag       *)
(* length, buffer size and bound.                                          *)
(***************************************************************************)
EXTENDS Relay, FunsProofs

-----------------------------------------------------------------------------
(* Sequences of numbers.                                                   *)

LEMMA SubSeqType ==
  ASSUME NEW s \in Seq(Nat), NEW m \in Nat \ {0}, NEW n \in Nat, n <= Len(s)
  PROVE  /\ SubSeq(s, m, n) \in Seq(Nat)
         /\ Len(SubSeq(s, m, n)) = IF m <= n THEN n - m + 1 ELSE 0
<1>1. \A i \in m..n : s[i] \in Nat
  BY ElementOfSeq, LenProperties
<1>2. m \in Int /\ n \in Int
  OBVIOUS
<1>3. QED
  BY <1>1, <1>2, SubSeqProperties

LEMMA DroppedType ==
  ASSUME NEW s \in Seq(Nat), NEW k \in 0..Len(s)
  PROVE  /\ Dropped(s, k) \in Seq(Nat)
         /\ Len(Dropped(s, k)) = Len(s) - k
<1>1. /\ k + 1 \in Nat \ {0}
      /\ Len(s) \in Nat
  BY LenProperties
<1>2. QED
  BY <1>1, SubSeqType DEF Dropped

LEMMA ConcatType ==
  ASSUME NEW s \in Seq(Nat), NEW t \in Seq(Nat)
  PROVE  s \o t \in Seq(Nat) /\ Len(s \o t) = Len(s) + Len(t)
  BY ConcatProperties

LEMMA Associative ==
  ASSUME NEW s \in Seq(Nat), NEW t \in Seq(Nat), NEW u \in Seq(Nat)
  PROVE  (s \o t) \o u = s \o (t \o u)
  BY ConcatAssociative, SMTT(60)

\* A part of a sequence stays what it is when the sequence grows.
LEMMA SubSeqGrows ==
  ASSUME NEW s \in Seq(Nat), NEW t \in Seq(Nat), NEW m \in Nat \ {0}, NEW n \in 0..Len(s)
  PROVE  SubSeq(s \o t, m, n) = SubSeq(s, m, n)
<1>1. CASE m <= n
  <2>1. m \in 1..Len(s) /\ n \in 1..Len(s)
    BY <1>1, LenProperties
  <2>2. QED
    BY <2>1, SubSeqOfConcat1
<1>2. CASE n < m
  BY <1>2, SubSeqEmpty, LenProperties
<1>3. QED
  BY <1>1, <1>2, LenProperties

\* The part of a sequence from a position on grows at its end with it.
LEMMA TailGrows ==
  ASSUME NEW s \in Seq(Nat), NEW t \in Seq(Nat), NEW m \in 0..Len(s)
  PROVE  SubSeq(s \o t, m + 1, Len(s \o t)) = SubSeq(s, m + 1, Len(s)) \o t
<1> DEFINE st == s \o t
<1>1. /\ st \in Seq(Nat) /\ Len(st) = Len(s) + Len(t)
      /\ Len(s) \in Nat /\ Len(t) \in Nat /\ m \in Nat
  BY ConcatType, LenProperties
<1>2. SubSeq(st, m + 1, Len(s)) = SubSeq(s, m + 1, Len(s))
  BY <1>1, SubSeqGrows
<1>3. SubSeq(st, Len(s) + 1, Len(st)) = t
  <2>1. CASE t = <<>>
    BY <1>1, <2>1, SubSeqEmpty
  <2>2. CASE t # <<>>
    <3>1. Len(t) > 0
      BY <2>2, EmptySeq
    <3>2. /\ Len(s) + 1 \in Len(s) + 1 .. Len(s) + Len(t)
          /\ Len(s) + Len(t) \in Len(s) + 1 .. Len(s) + Len(t)
      BY <1>1, <3>1
    <3>3. SubSeq(st, Len(s) + 1, Len(s) + Len(t)) = SubSeq(t, 1, Len(t))
      <4>1. /\ Len(s) + 1 - Len(s) = 1
            /\ Len(s) + Len(t) - Len(s) = Len(t)
        BY <1>1
      <4>2. QED
        BY <3>2, <4>1, SubSeqOfConcat2
    <3>4. QED
      BY <1>1, <3>3, SubSeqFull
  <2>3. QED
    BY <2>1, <2>2
<1>4. SubSeq(st, m + 1, Len(s)) \o SubSeq(st, Len(s) + 1, Len(st)) = SubSeq(st, m + 1, Len(st))
  <2>1. /\ m + 1 \in 1..Len(st) + 1
        /\ Len(s) \in (m + 1) - 1 .. Len(st)
        /\ Len(st) \in Len(s) .. Len(st)
    BY <1>1
  <2> HIDE DEF st
  <2>2. QED
    BY <1>1, <2>1, ConcatAdjacentSubSeq
<1>5. QED
  BY <1>2, <1>3, <1>4

\* A part of what is left after m elements were dropped is m positions further on.
LEMMA SubSeqOfDropped ==
  ASSUME NEW s \in Seq(Nat), NEW m \in 0..Len(s),
         NEW a \in Nat \ {0}, NEW b \in 0..(Len(s) - m)
  PROVE  SubSeq(Dropped(s, m), a, b) = SubSeq(s, m + a, m + b)
<1>1. Len(s) \in Nat /\ m \in Nat /\ b \in Nat
  BY LenProperties
<1>2. CASE b < a
  BY <1>1, <1>2, SubSeqEmpty
<1>3. CASE a <= b
  <2>1. /\ m + 1 \in 1..Len(s) /\ Len(s) \in 1..Len(s)
        /\ a \in 1..Len(s) - (m + 1) + 1 /\ b \in 1..Len(s) - (m + 1) + 1
    BY <1>1, <1>3
  <2>2. SubSeq(SubSeq(s, m + 1, Len(s)), a, b) = SubSeq(s, (m + 1) + a - 1, (m + 1) + b - 1)
    BY <2>1, SubSeqOfSubSeq
  <2>3. (m + 1) + a - 1 = m + a /\ (m + 1) + b - 1 = m + b
    BY <1>1
  <2>4. QED
    BY <2>2, <2>3 DEF Dropped
<1>4. QED
  BY <1>1, <1>2, <1>3

-----------------------------------------------------------------------------
(* The frame format.                                                       *)

LEMMA ConstantTypes ==
  /\ ReadMax \in Nat \ {0} /\ Slack \in Nat /\ Overhead \in Nat /\ Overhead <= Slack
  /\ MaxFrame \in Nat /\ MaxFrame = ReadMax + Slack
  BY ReadMaxAssumption, SlackAssumption, OverheadAssumption, SMT DEF MaxFrame

LEMMA TagType == Tag \in Seq(Nat) /\ Len(Tag) = Overhead
<1>1. Overhead \in Nat
  BY ConstantTypes
<1>2. QED
  BY <1>1, IsASeq DEF Tag

LEMMA CompressType ==
  ASSUME NEW p \in Seq(Nat)
  PROVE  Compress(p) \in Seq(Nat) /\ Len(Compress(p)) = Len(p) + Overhead
  BY TagType, ConcatType DEF Compress

\* funs.cpp 14-22 and socks5server.cpp 167-170: a frame is four bytes and the
\* ciphertext.
LEMMA FrameType ==
  ASSUME NEW p \in Seq(Nat)
  PROVE  Frame(p) \in Seq(Nat) /\ Len(Frame(p)) = 4 + Len(p) + Overhead
<1>1. Len(p) + Overhead \in Nat
  BY LenProperties, ConstantTypes
<1>2. ToBytes(Len(p) + Overhead) \in Seq(Nat) /\ Len(ToBytes(Len(p) + Overhead)) = 4
  <2>1. Byte \subseteq Nat
    BY ByteRange
  <2>2. QED
    BY <1>1, <2>1, ToBytesType, SeqMonotonic
<1>3. Compress(p) \in Seq(Nat) /\ Len(Compress(p)) = Len(p) + Overhead
  BY CompressType
<1>4. /\ Frame(p) \in Seq(Nat)
      /\ Len(Frame(p)) = Len(ToBytes(Len(p) + Overhead)) + Len(Compress(p))
  BY <1>2, <1>3, ConcatType DEF Frame
<1>5. Len(p) \in Nat /\ Overhead \in Nat
  BY ConstantTypes, LenProperties
<1>6. Len(Frame(p)) = 4 + (Len(p) + Overhead)
  BY <1>2, <1>3, <1>4
<1>7. 4 + (Len(p) + Overhead) = 4 + Len(p) + Overhead
  BY <1>5
<1>8. QED
  BY <1>4, <1>6, <1>7

LEMMA UnCompressType ==
  ASSUME NEW c \in Seq(Nat), Len(c) > Overhead
  PROVE  UnCompress(c) \in Seq(Nat) /\ Len(UnCompress(c)) = Len(c) - Overhead
<1>1. /\ Overhead \in Nat /\ Len(c) \in Nat
  BY LenProperties, ConstantTypes
<1>2. QED
  BY <1>1, SubSeqType DEF UnCompress

-----------------------------------------------------------------------------
(* Type correctness.                                                       *)

UpType   == [pc : {"read", "write", "done"}, buf : Seq(Nat), clean : BOOLEAN]
DownType == [pc : {"header", "payload", "write", "done"}, buf : Seq(Nat),
             want : 0..MaxFrame, clean : BOOLEAN]

LEMMA ReceivedType ==
  ASSUME TypeOK, NEW s \in Socks, NEW k \in 0..Len(inq[s])
  PROVE  /\ Received(s, k) \in Seq(Nat) /\ Len(Received(s, k)) = k
         /\ [inq EXCEPT ![s] = Dropped(@, k)] \in [Socks -> Seq(Nat)]
<1>1. inq[s] \in Seq(Nat)
  BY DEF TypeOK
<1>2. Dropped(inq[s], k) \in Seq(Nat)
  BY <1>1, DroppedType
<1>3. SubSeq(inq[s], 1, k) \in Seq(Nat) /\ Len(SubSeq(inq[s], 1, k)) = k
  BY <1>1, SubSeqType
<1>4. QED
  BY <1>2, <1>3 DEF Received, TypeOK

\* What the client has sent is what was received from it and what was not yet.
Bounded == Len(inq["Src"]) <= Len(sent["Src"])

LEMMA Fields ==
  ASSUME TypeOK
  PROVE  /\ up.buf \in Seq(Nat) /\ down.buf \in Seq(Nat) /\ down.want \in 0..MaxFrame
         /\ up.clean \in BOOLEAN /\ down.clean \in BOOLEAN
         /\ \A s \in Socks : /\ sent[s] \in Seq(Nat) /\ inq[s] \in Seq(Nat)
                            /\ wrote[s] \in Seq(Nat) /\ taken[s] \in Nat
  BY DEF TypeOK

LEMMA RoomType ==
  ASSUME TypeOK, NEW s \in Socks
  PROVE  Room(s) \in Int
<1>1. Len(wrote[s]) \in Nat /\ taken[s] \in Nat /\ SndBuf \in Nat
  BY Fields, LenProperties, SndBufAssumption
<1>2. QED
  BY <1>1 DEF Room

LEMMA LesserBound ==
  ASSUME NEW a \in Int, NEW b \in Int, NEW k \in Nat, k \in 1..Lesser(a, b)
  PROVE  k \in 1..a /\ k \in 1..b
  BY DEF Lesser

LEMMA InitTypeOK == Init => TypeOK /\ Bounded
<1> SUFFICES ASSUME Init PROVE TypeOK /\ Bounded
  OBVIOUS
<1>1. /\ <<>> \in Seq(Nat)
      /\ <<>> \in Seq([wire : Nat, plain : Nat])
  BY EmptySeq
<1>2. 0 \in 0..MaxFrame
  BY ConstantTypes
<1>3. up \in UpType /\ down \in DownType
  BY <1>1, <1>2 DEF Init, UpType, DownType
<1>4. TypeOK
  BY <1>1, <1>3 DEF Init, TypeOK, UpType, DownType
<1>5. QED
  BY <1>4 DEF Init, Bounded, Socks

LEMMA UpReadTypeOK ==
  ASSUME TypeOK, Bounded, NEW k \in Nat, UpRead(k)
  PROVE  TypeOK' /\ Bounded'
<1>1. inq["Src"] \in Seq(Nat) /\ sent["Src"] \in Seq(Nat) /\ "Src" \in Socks
  BY Fields DEF Socks
<1>2. k \in 1..Len(inq["Src"])
  BY <1>1, LesserBound, ConstantTypes DEF UpRead
<1>3. /\ Received("Src", k) \in Seq(Nat)
      /\ inq' \in [Socks -> Seq(Nat)]
  BY <1>1, <1>2, ReceivedType DEF UpRead
<1>4. Frame(Received("Src", k)) \in Seq(Nat)
  BY <1>3, FrameType
<1>5. up' \in UpType
  BY <1>4 DEF UpRead, TypeOK, UpType
<1>6. TypeOK'
  BY <1>3, <1>5 DEF UpRead, TypeOK, UpType
<1>7. inq'["Src"] = Dropped(inq["Src"], k)
  BY <1>1 DEF UpRead, TypeOK
<1>8. Len(inq'["Src"]) <= Len(inq["Src"])
  BY <1>1, <1>2, <1>7, DroppedType
<1>9. QED
  BY <1>1, <1>3, <1>6, <1>8 DEF UpRead, Bounded

LEMMA UpWriteTypeOK ==
  ASSUME TypeOK, Bounded, NEW k \in Nat, UpWrite(k)
  PROVE  TypeOK' /\ Bounded'
<1>1. /\ up.buf \in Seq(Nat) /\ wrote["Dst"] \in Seq(Nat) /\ sent["Src"] \in Seq(Nat)
      /\ inq["Src"] \in Seq(Nat)
  BY Fields DEF Socks
<1>2. Room("Dst") \in Int
  BY RoomType DEF Socks
<1>3. k \in 1..Len(up.buf)
  <2>1. k \in 1..Lesser(Len(up.buf), Room("Dst"))
    BY DEF UpWrite
  <2>2. Len(up.buf) \in Int
    BY <1>1, LenProperties
  <2>3. QED
    BY <1>2, <2>1, <2>2, LesserBound
<1>4. /\ SubSeq(up.buf, 1, k) \in Seq(Nat)
      /\ Dropped(up.buf, k) \in Seq(Nat)
  BY <1>1, <1>3, SubSeqType, DroppedType, SMTT(60)
<1>5. wrote' \in [Socks -> Seq(Nat)]
  BY <1>1, <1>4, ConcatType DEF UpWrite, TypeOK
<1>6. up' \in UpType
  BY <1>4 DEF UpWrite, TypeOK, UpType
<1>7. [wire  |-> Len(wrote["Dst"]) + k, plain |-> Len(sent["Src"]) - Len(inq["Src"])]
        \in [wire : Nat, plain : Nat]
  BY <1>1 DEF Bounded
<1>8. cuts' \in Seq([wire : Nat, plain : Nat])
  BY <1>7, AppendProperties DEF UpWrite, TypeOK
<1>9. QED
  BY <1>5, <1>6, <1>8 DEF UpWrite, TypeOK, UpType, netVars, Bounded

LEMMA UpEndsTypeOK ==
  ASSUME TypeOK, Bounded, UpReadEnds \/ UpWriteEnds
  PROVE  TypeOK' /\ Bounded'
<1>1. <<>> \in Seq(Nat)
  BY EmptySeq
<1>2. up' \in UpType
  BY <1>1 DEF UpReadEnds, UpWriteEnds, AtEOF, TypeOK, UpType
<1>3. QED
  BY <1>2 DEF UpReadEnds, UpWriteEnds, TypeOK, UpType, netVars, Bounded

LEMMA DownStopsType ==
  ASSUME TypeOK
  PROVE  DownStops \in DownType
  BY EmptySeq DEF DownStops, TypeOK, DownType

LEMMA DownHeaderTypeOK ==
  ASSUME TypeOK, Bounded, NEW k \in Nat, DownHeader(k)
  PROVE  TypeOK' /\ Bounded'
<1> DEFINE header == down.buf \o Received("Dst", k)
           next   == ToInt(header)
<1>1. inq["Dst"] \in Seq(Nat) /\ down.buf \in Seq(Nat) /\ "Dst" \in Socks
  BY Fields DEF Socks
<1>2. k \in 1..Len(inq["Dst"])
  <2>1. k \in 1..Lesser(4 - Len(down.buf), Len(inq["Dst"]))
    BY DEF DownHeader
  <2>2. 4 - Len(down.buf) \in Int /\ Len(inq["Dst"]) \in Int
    BY <1>1, LenProperties
  <2>3. QED
    BY <2>1, <2>2, LesserBound
<1>3. /\ Received("Dst", k) \in Seq(Nat)
      /\ inq' \in [Socks -> Seq(Nat)]
  BY <1>1, <1>2, ReceivedType DEF DownHeader
<1>4. header \in Seq(Nat)
  BY <1>1, <1>3, ConcatType
<1>5. <<>> \in Seq(Nat)
  BY EmptySeq
<1>6. down' \in DownType
  <2>1. CASE Len(header) < 4
    BY <1>4, <2>1 DEF DownHeader, TypeOK, DownType
  <2>2. CASE Len(header) >= 4 /\ next \in 1..MaxFrame
    <3>1. down' = [down EXCEPT !.pc = "payload", !.buf = <<>>, !.want = next]
      BY <1>4, <2>2 DEF DownHeader
    <3>2. next \in 0..MaxFrame
      BY <2>2, ConstantTypes
    <3> HIDE DEF next
    <3>3. QED
      BY <1>5, <3>1, <3>2 DEF TypeOK, DownType
  <2>3. CASE Len(header) >= 4 /\ next \notin 1..MaxFrame
    <3>1. down' = DownStops
      BY <1>4, <2>3 DEF DownHeader
    <3>2. QED
      BY <3>1, DownStopsType
  <2>4. QED
    BY <1>4, <2>1, <2>2, <2>3
<1>7. TypeOK'
  BY <1>3, <1>6 DEF DownHeader, TypeOK, DownType
<1>8. inq'["Src"] = inq["Src"]
  BY DEF DownHeader, TypeOK, Socks
<1>9. QED
  BY <1>7, <1>8 DEF DownHeader, Bounded

LEMMA DownPayloadTypeOK ==
  ASSUME TypeOK, Bounded, NEW k \in Nat, DownPayload(k)
  PROVE  TypeOK' /\ Bounded'
<1> DEFINE cipher == down.buf \o Received("Dst", k)
<1>1. inq["Dst"] \in Seq(Nat) /\ down.buf \in Seq(Nat) /\ "Dst" \in Socks /\ down.want \in Nat
  BY Fields, ConstantTypes DEF Socks
<1>2. k \in 1..Len(inq["Dst"])
  <2>1. k \in 1..Lesser(down.want - Len(down.buf), Len(inq["Dst"]))
    BY DEF DownPayload
  <2>2. down.want - Len(down.buf) \in Int /\ Len(inq["Dst"]) \in Int
    BY <1>1, LenProperties
  <2>3. QED
    BY <2>1, <2>2, LesserBound
<1>3. /\ Received("Dst", k) \in Seq(Nat)
      /\ inq' \in [Socks -> Seq(Nat)]
  BY <1>1, <1>2, ReceivedType DEF DownPayload
<1>4. cipher \in Seq(Nat)
  BY <1>1, <1>3, ConcatType
<1>5. down' \in DownType
  <2>1. CASE Len(cipher) < down.want
    BY <1>4, <2>1 DEF DownPayload, TypeOK, DownType
  <2>2. CASE Len(cipher) >= down.want /\ Authentic(cipher) /\ Len(cipher) > Overhead
    <3>1. down' = [down EXCEPT !.pc = "write", !.buf = UnCompress(cipher)]
      BY <1>1, <1>4, <2>2 DEF DownPayload
    <3>2. UnCompress(cipher) \in Seq(Nat)
      BY <1>4, <2>2, UnCompressType
    <3> HIDE DEF cipher
    <3>3. QED
      BY <3>1, <3>2 DEF TypeOK, DownType
  <2>3. CASE Len(cipher) >= down.want /\ ~(Authentic(cipher) /\ Len(cipher) > Overhead)
    <3>1. down' = DownStops
      BY <1>1, <1>4, <2>3 DEF DownPayload
    <3>2. QED
      BY <3>1, DownStopsType
  <2>4. QED
    BY <1>1, <1>4, <2>1, <2>2, <2>3
<1>6. TypeOK'
  BY <1>3, <1>5 DEF DownPayload, TypeOK, DownType
<1>7. inq'["Src"] = inq["Src"]
  BY DEF DownPayload, TypeOK, Socks
<1>8. QED
  BY <1>6, <1>7 DEF DownPayload, Bounded

LEMMA DownWriteTypeOK ==
  ASSUME TypeOK, Bounded, NEW k \in Nat, DownWrite(k)
  PROVE  TypeOK' /\ Bounded'
<1>1. down.buf \in Seq(Nat) /\ wrote["Src"] \in Seq(Nat)
  BY Fields DEF Socks
<1>2. Room("Src") \in Int
  BY RoomType DEF Socks
<1>3. k \in 1..Len(down.buf)
  <2>1. k \in 1..Lesser(Len(down.buf), Room("Src"))
    BY DEF DownWrite
  <2>2. Len(down.buf) \in Int
    BY <1>1, LenProperties
  <2>3. QED
    BY <1>2, <2>1, <2>2, LesserBound
<1>4. /\ SubSeq(down.buf, 1, k) \in Seq(Nat)
      /\ Dropped(down.buf, k) \in Seq(Nat)
  BY <1>1, <1>3, SubSeqType, DroppedType
<1>5. wrote' \in [Socks -> Seq(Nat)]
  BY <1>1, <1>4, ConcatType DEF DownWrite, TypeOK
<1>6. down' \in DownType
  BY <1>4 DEF DownWrite, TypeOK, DownType
<1>7. QED
  BY <1>5, <1>6 DEF DownWrite, TypeOK, DownType, netVars, Bounded

LEMMA DownEndsTypeOK ==
  ASSUME TypeOK, Bounded, DownReadEnds \/ DownWriteEnds
  PROVE  TypeOK' /\ Bounded'
<1>1. down' \in DownType
  BY DownStopsType DEF DownReadEnds, DownWriteEnds, AtEOF, TypeOK, DownType
<1>2. QED
  BY <1>1 DEF DownReadEnds, DownWriteEnds, TypeOK, DownType, netVars, Bounded

LEMMA ToBytesNat ==
  ASSUME NEW v \in Nat
  PROVE  ToBytes(v) \in Seq(Nat)
<1>1. Byte \subseteq Nat
  BY ByteRange
<1>2. QED
  BY <1>1, ToBytesType, SeqMonotonic

LEMMA ChunkType ==
  ASSUME TypeOK, NEW n \in Nat
  PROVE  Chunk(n) \in Seq(Nat) /\ Len(Chunk(n)) = n
<1>1. \A i \in 1..n : Len(sent["Dst"]) + i \in Nat
  BY Fields, LenProperties DEF Socks
<1>2. Chunk(n) \in Seq(Nat)
  BY <1>1, IsASeq DEF Chunk
<1>3. DOMAIN Chunk(n) = 1..n
  BY DEF Chunk
<1>4. QED
  BY <1>2, <1>3, LenProperties

LEMMA BadFramesType ==
  ASSUME TypeOK, NEW bad \in BadFrames
  PROVE  bad \in Seq(Nat)
<1>1. CASE bad \in {ToBytes(0), ToBytes(MaxFrame + 1)}
  <2>1. 0 \in Nat /\ MaxFrame + 1 \in Nat
    BY ConstantTypes
  <2>2. QED
    BY <1>1, <2>1, ToBytesNat
<1>2. CASE bad = << 1, 0, 0, 0 >>
  BY <1>2
<1>3. ASSUME NEW n \in 1..Overhead, bad = ToBytes(n) \o SubSeq(Tag, 1, n)
      PROVE  bad \in Seq(Nat)
  <2>1. n \in Nat /\ n <= Len(Tag)
    BY ConstantTypes, TagType
  <2>2. ToBytes(n) \in Seq(Nat)
    BY <2>1, ToBytesNat
  <2>3. SubSeq(Tag, 1, n) \in Seq(Nat)
    <3>1. Tag \in Seq(Nat) /\ 1 \in Nat \ {0}
      BY TagType
    <3>2. QED
      BY <2>1, <3>1, SubSeqType
  <2>4. QED
    BY <1>3, <2>2, <2>3, ConcatType
<1>4. CASE bad = ToBytes(1 + Overhead) \o Chunk(1) \o [i \in 1..Overhead |-> 1]
  <2>1. Overhead \in Nat /\ 1 + Overhead \in Nat
    BY ConstantTypes
  <2>2. /\ ToBytes(1 + Overhead) \in Seq(Nat) /\ Chunk(1) \in Seq(Nat)
        /\ [i \in 1..Overhead |-> 1] \in Seq(Nat)
    BY <2>1, ToBytesNat, ChunkType, IsASeq
  <2>3. ToBytes(1 + Overhead) \o Chunk(1) \in Seq(Nat)
    BY <2>2, ConcatType
  <2>4. QED
    BY <1>4, <2>2, <2>3, ConcatType
<1>5. QED
  BY <1>1, <1>2, <1>3, <1>4 DEF BadFrames

LEMMA EndpointTypeOK ==
  ASSUME TypeOK, Bounded, Endpoints
  PROVE  TypeOK' /\ Bounded'
<1> USE DEF netVars
<1>1. CASE ClientSend
  <2>1. /\ sent["Src"] \in Seq(Nat) /\ inq["Src"] \in Seq(Nat) /\ "Src" \in Socks
        /\ Len(sent["Src"]) + 1 \in Nat
    BY Fields DEF Socks
  <2> DEFINE byte == Len(sent["Src"]) + 1
  <2>2. /\ Append(sent["Src"], byte) \in Seq(Nat) /\ Append(inq["Src"], byte) \in Seq(Nat)
        /\ Len(Append(sent["Src"], byte)) = Len(sent["Src"]) + 1
        /\ Len(Append(inq["Src"], byte)) = Len(inq["Src"]) + 1
    BY <2>1, AppendProperties
  <2>3. /\ sent' \in [Socks -> Seq(Nat)] /\ sent'["Src"] = Append(sent["Src"], byte)
        /\ inq' \in [Socks -> Seq(Nat)] /\ inq'["Src"] = Append(inq["Src"], byte)
    BY <1>1, <2>1, <2>2 DEF ClientSend, TypeOK
  <2>4. TypeOK'
    BY <1>1, <2>3 DEF ClientSend, TypeOK
  <2>5. Bounded'
    BY <2>1, <2>2, <2>3 DEF Bounded
  <2>6. QED
    BY <2>4, <2>5
<1>2. ASSUME NEW s \in Socks, Fin(s) \/ Reset(s) \/ Drain(s)
      PROVE  TypeOK' /\ Bounded'
  <2>1. CASE Fin(s)
    BY <2>1 DEF Fin, TypeOK, Bounded
  <2>2. CASE Reset(s)
    BY <2>2 DEF Reset, TypeOK, Bounded
  <2>3. CASE Drain(s)
    <3>1. Len(wrote[s]) \in Nat
      BY Fields, LenProperties
    <3>2. taken' \in [Socks -> Nat]
      BY <2>3, <3>1 DEF Drain, TypeOK
    <3>3. QED
      BY <2>3, <3>2 DEF Drain, TypeOK, Bounded
  <2>4. QED
    BY <1>2, <2>1, <2>2, <2>3
<1>3. ASSUME NEW t \in Seq(Nat), inq' = [inq EXCEPT !["Dst"] = @ \o t]
      PROVE  inq' \in [Socks -> Seq(Nat)] /\ inq'["Src"] = inq["Src"]
  <2>1. inq["Dst"] \o t \in Seq(Nat)
    BY Fields, ConcatType DEF Socks
  <2>2. QED
    BY <1>3, <2>1 DEF TypeOK, Socks
<1>4. ASSUME NEW n \in 1..ReadMax, FarSend(n)
      PROVE  TypeOK' /\ Bounded'
  <2>1. Chunk(n) \in Seq(Nat) /\ Frame(Chunk(n)) \in Seq(Nat)
    BY ChunkType, FrameType, ConstantTypes
  <2>2. sent' \in [Socks -> Seq(Nat)] /\ sent'["Src"] = sent["Src"]
    <3>1. sent["Dst"] \o Chunk(n) \in Seq(Nat)
      BY <2>1, Fields, ConcatType DEF Socks
    <3>2. QED
      BY <1>4, <3>1 DEF FarSend, TypeOK, Socks
  <2>3. inq' \in [Socks -> Seq(Nat)] /\ inq'["Src"] = inq["Src"]
    BY <1>3, <1>4, <2>1 DEF FarSend
  <2>4. QED
    BY <1>4, <2>2, <2>3 DEF FarSend, TypeOK, Bounded
<1>5. ASSUME NEW bad \in BadFrames, FarSpoil(bad)
      PROVE  TypeOK' /\ Bounded'
  <2>1. inq' \in [Socks -> Seq(Nat)] /\ inq'["Src"] = inq["Src"]
    <3>1. inq["Dst"] \in Seq(Nat) /\ bad \in Seq(Nat) /\ Frame(Chunk(1)) \in Seq(Nat)
      BY ChunkType, Fields, FrameType, BadFramesType DEF Socks
    <3>2. (inq["Dst"] \o bad) \o Frame(Chunk(1)) \in Seq(Nat)
      BY <3>1, ConcatType
    <3>3. QED
      BY <1>5, <3>2 DEF FarSpoil, TypeOK, Socks
  <2>2. QED
    BY <1>5, <2>1 DEF FarSpoil, TypeOK, Bounded
<1>6. ASSUME NEW n \in 1..(4 + Overhead), FarBreakOff(n)
      PROVE  TypeOK' /\ Bounded'
  <2>1. /\ Chunk(1) \in Seq(Nat) /\ Len(Chunk(1)) = 1
    BY ChunkType
  <2>2. /\ Frame(Chunk(1)) \in Seq(Nat) /\ Len(Frame(Chunk(1))) = 5 + Overhead
    <3>1. /\ Frame(Chunk(1)) \in Seq(Nat)
          /\ Len(Frame(Chunk(1))) = 4 + Len(Chunk(1)) + Overhead
      BY <2>1, FrameType
    <3>2. \A c, o \in Nat : c = 1 => 4 + c + o = 5 + o
      OBVIOUS
    <3>3. Len(Chunk(1)) \in Nat /\ Overhead \in Nat
      BY <2>1, ConstantTypes
    <3>4. QED
      BY <2>1, <3>1, <3>2, <3>3
  <2>3. SubSeq(Frame(Chunk(1)), 1, n) \in Seq(Nat)
    BY <2>2, SubSeqType, ConstantTypes
  <2>4. inq' \in [Socks -> Seq(Nat)] /\ inq'["Src"] = inq["Src"]
    BY <1>3, <1>6, <2>3 DEF FarBreakOff
  <2>5. QED
    BY <1>6, <2>4 DEF FarBreakOff, TypeOK, Bounded, Socks
<1>7. QED
  BY <1>1, <1>2, <1>4, <1>5, <1>6 DEF Endpoints

LEMMA NextTypeOK ==
  TypeOK /\ Bounded /\ [Next]_vars => TypeOK' /\ Bounded'
<1> SUFFICES ASSUME TypeOK, Bounded, [Next]_vars
             PROVE  TypeOK' /\ Bounded'
  OBVIOUS
<1>1. CASE ProxyRead
  BY <1>1, UpReadTypeOK, UpWriteTypeOK, UpEndsTypeOK, ConstantTypes DEF ProxyRead
<1>2. CASE ProxyWrite
  BY <1>2, DownHeaderTypeOK, DownPayloadTypeOK, DownWriteTypeOK, DownEndsTypeOK, ConstantTypes
     DEF ProxyWrite
<1>3. ASSUME NEW s \in Socks, Close(s)
      PROVE  TypeOK' /\ Bounded'
  BY <1>3 DEF Close, TypeOK, Bounded, netVars
<1>4. CASE Endpoints
  BY <1>4, EndpointTypeOK
<1>5. CASE UNCHANGED vars
  BY <1>5 DEF vars, TypeOK, Bounded
<1>6. QED
  BY <1>1, <1>2, <1>3, <1>4, <1>5 DEF Next

\* Every variable of the session keeps its type: in particular proxy_write
\* never waits for a payload beyond the limit it checks (socks5server.cpp 202).
THEOREM TypeCorrect == Spec => []TypeOK
<1>1. Init => TypeOK /\ Bounded
  BY InitTypeOK
<1>2. TypeOK /\ Bounded /\ [Next]_vars => TypeOK' /\ Bounded'
  BY NextTypeOK
<1>3. QED
  BY <1>1, <1>2, PTL DEF Spec

-----------------------------------------------------------------------------
(* What proxy_read puts on the wire.  UpstreamFramed says nothing of the   *)
(* bytes in hand, so it is not inductive: IInv adds that what was received *)
(* and what was not yet make up the client's stream, and that the bytes on *)
(* the wire since the last cut and the bytes in hand make up one frame.    *)

\* How much of the client's stream proxy_read has received.
Consumed == Len(sent["Src"]) - Len(inq["Src"])

Stream == inq["Src"] = Dropped(sent["Src"], Consumed)

FrameAt(i) ==
  LET from == Start(i) to == cuts[i]
  IN  /\ to.plain \in (from.plain + 1)..Len(sent["Src"])
      /\ to.plain - from.plain + Overhead <= MaxFrame
      /\ to.wire \in 1..Len(wrote["Dst"])
      /\ SubSeq(wrote["Dst"], from.wire + 1, to.wire)
           = Frame(SubSeq(sent["Src"], from.plain + 1, to.plain))

FramesWhole == \A i \in 1..Len(cuts) : FrameAt(i)

InHand ==
  /\ LastCut.wire <= Len(wrote["Dst"])
  /\ LastCut.plain <= Consumed
  /\ up.pc = "read" => LastCut.wire = Len(wrote["Dst"]) /\ LastCut.plain = Consumed
  /\ up.pc = "write" =>
       /\ Consumed - LastCut.plain \in 1..ReadMax
       /\ Dropped(wrote["Dst"], LastCut.wire) \o up.buf
            = Frame(SubSeq(sent["Src"], LastCut.plain + 1, Consumed))

IInv == TypeOK /\ Bounded /\ Stream /\ FramesWhole /\ InHand

LEMMA CutFields ==
  ASSUME TypeOK
  PROVE  /\ Len(cuts) \in Nat
         /\ LastCut \in [wire : Nat, plain : Nat]
         /\ \A i \in 1..Len(cuts) : /\ cuts[i] \in [wire : Nat, plain : Nat]
                                    /\ Start(i) \in [wire : Nat, plain : Nat]
<1>1. cuts \in Seq([wire : Nat, plain : Nat]) /\ Len(cuts) \in Nat
  BY LenProperties DEF TypeOK
<1>2. \A i \in 1..Len(cuts) : cuts[i] \in [wire : Nat, plain : Nat]
  BY <1>1, ElementOfSeq
<1>3. cuts # <<>> => Len(cuts) \in 1..Len(cuts)
  BY <1>1, EmptySeq
<1>4. LastCut \in [wire : Nat, plain : Nat]
  BY <1>2, <1>3 DEF LastCut
<1>5. ASSUME NEW i \in 1..Len(cuts)
      PROVE  Start(i) \in [wire : Nat, plain : Nat]
  <2>1. CASE i = 1
    BY <2>1 DEF Start
  <2>2. CASE i # 1
    <3>1. i - 1 \in 1..Len(cuts)
      BY <1>1, <2>2
    <3>2. QED
      BY <1>2, <2>2, <3>1 DEF Start
  <2>3. QED
    BY <2>1, <2>2
<1>6. QED
  BY <1>1, <1>2, <1>4, <1>5

LEMMA ConsumedRange ==
  ASSUME TypeOK, Bounded
  PROVE  /\ Consumed \in 0..Len(sent["Src"])
         /\ Len(sent["Src"]) - Consumed = Len(inq["Src"])
<1>1. Len(sent["Src"]) \in Nat /\ Len(inq["Src"]) \in Nat
  BY Fields, LenProperties DEF Socks
<1>2. \A a, b \in Nat : b <= a => a - b \in 0..a /\ a - (a - b) = b
  OBVIOUS
<1>3. QED
  BY <1>1, <1>2 DEF Consumed, Bounded

\* A frame that was cut stays what it is when the stream and the wire grow.
LEMMA FramesKept ==
  ASSUME TypeOK, FramesWhole, \A j \in 1..Len(cuts) : cuts'[j] = cuts[j],
         NEW s \in Seq(Nat), sent'["Src"] = sent["Src"] \o s,
         NEW w \in Seq(Nat), wrote'["Dst"] = wrote["Dst"] \o w,
         NEW i \in 1..Len(cuts)
  PROVE  FrameAt(i)'
<1> DEFINE from == Start(i)
           to   == cuts[i]
           fp   == from.plain
           fw   == from.wire
           tp   == to.plain
           tw   == to.wire
           LS   == Len(sent["Src"])
           LW   == Len(wrote["Dst"])
<1>1. /\ fw \in Nat /\ fp \in Nat /\ tw \in Nat /\ tp \in Nat
  BY CutFields
<1>0. from' = from /\ to' = to
  <2>1. i = 1 \/ i - 1 \in 1..Len(cuts)
    BY CutFields
  <2>2. QED
    BY <2>1 DEF Start
<1>2. /\ tp \in (fp + 1)..LS
      /\ tp - fp + Overhead <= MaxFrame
      /\ tw \in 1..LW
      /\ SubSeq(wrote["Dst"], fw + 1, tw) = Frame(SubSeq(sent["Src"], fp + 1, tp))
  BY DEF FramesWhole, FrameAt
<1>3. sent["Src"] \in Seq(Nat) /\ wrote["Dst"] \in Seq(Nat)
  BY Fields DEF Socks
<1>4. /\ LS \in Nat /\ LW \in Nat /\ Len(s) \in Nat /\ Len(w) \in Nat
      /\ LS' = LS + Len(s) /\ LW' = LW + Len(w)
  BY <1>3, ConcatType, LenProperties
<1> HIDE DEF fp, fw, tp, tw, LS, LW
<1>5. SubSeq(wrote'["Dst"], fw + 1, tw) = SubSeq(wrote["Dst"], fw + 1, tw)
  <2>1. fw + 1 \in Nat \ {0} /\ tw \in 0..LW
    BY <1>1, <1>2, <1>4
  <2>2. SubSeq(wrote["Dst"] \o w, fw + 1, tw) = SubSeq(wrote["Dst"], fw + 1, tw)
    BY <1>3, <2>1, SubSeqGrows DEF LW
  <2>3. QED
    BY <2>2
<1>6. SubSeq(sent'["Src"], fp + 1, tp) = SubSeq(sent["Src"], fp + 1, tp)
  <2>1. fp + 1 \in Nat \ {0} /\ tp \in 0..LS
    BY <1>1, <1>2, <1>4
  <2>2. SubSeq(sent["Src"] \o s, fp + 1, tp) = SubSeq(sent["Src"], fp + 1, tp)
    BY <1>3, <2>1, SubSeqGrows DEF LS
  <2>3. QED
    BY <2>2
<1>7. tp \in (fp + 1)..LS' /\ tw \in 1..LW'
  BY <1>1, <1>2, <1>4
<1>8. QED
  BY <1>0, <1>1, <1>2, <1>5, <1>6, <1>7 DEF FrameAt, fp, fw, tp, tw, LS, LW, Frame, Compress

LEMMA UpReadInv ==
  ASSUME IInv, NEW k \in Nat, UpRead(k)
  PROVE  Stream' /\ FramesWhole' /\ InHand'
<1> USE DEF IInv
<1> DEFINE S == sent["Src"]
           Q == inq["Src"]
           W == wrote["Dst"]
           C == Consumed
<1>1. /\ S \in Seq(Nat) /\ Q \in Seq(Nat) /\ W \in Seq(Nat)
      /\ Len(S) \in Nat /\ Len(Q) \in Nat /\ Len(W) \in Nat
  BY Fields, LenProperties DEF Socks
<1>2. C \in 0..Len(S) /\ Len(S) - C = Len(Q)
  BY ConsumedRange
<1>3. k \in 1..ReadMax /\ k \in 1..Len(Q)
  <2>1. k \in 1..Lesser(ReadMax, Len(Q))
    BY DEF UpRead
  <2>2. ReadMax \in Int /\ Len(Q) \in Int
    BY <1>1, ConstantTypes
  <2>3. QED
    BY <2>1, <2>2, LesserBound
<1>4. sent' = sent /\ wrote' = wrote /\ cuts' = cuts /\ inq'["Src"] = Dropped(Q, k)
  BY DEF UpRead, TypeOK, Socks
<1>5. Len(Dropped(Q, k)) = Len(Q) - k
  <2>1. k \in 0..Len(Q)
    BY <1>1, <1>3
  <2>2. QED
    BY <1>1, <2>1, DroppedType
<1>6. Consumed' = C + k
  BY <1>1, <1>3, <1>4, <1>5 DEF Consumed
<1>7. Stream'
  <2>1. SubSeq(Dropped(S, C), k + 1, Len(Q)) = SubSeq(S, C + (k + 1), C + Len(Q))
    <3>1. k + 1 \in Nat \ {0} /\ Len(Q) \in 0..(Len(S) - C)
      BY <1>1, <1>2
    <3>2. QED
      BY <1>1, <1>2, <3>1, SubSeqOfDropped
  <2>2. C + (k + 1) = (C + k) + 1 /\ C + Len(Q) = Len(S)
    BY <1>1, <1>2
  <2>3. Q = Dropped(S, C)
    BY DEF Stream
  <2>4. Dropped(Q, k) = Dropped(S, C + k)
    BY <2>1, <2>2, <2>3 DEF Dropped
  <2>5. QED
    BY <1>4, <1>6, <2>4 DEF Stream
<1>8. FramesWhole'
  BY <1>4 DEF FramesWhole, FrameAt, Start, Frame, Compress
<1>9. InHand'
  <2>1. LastCut' = LastCut /\ LastCut.wire = Len(W) /\ LastCut.plain = C
    BY <1>4 DEF InHand, UpRead, LastCut
  <2>2. up'.pc = "write" /\ up'.buf = Frame(Received("Src", k))
    BY DEF UpRead, TypeOK
  <2>3. Received("Src", k) = SubSeq(S, C + 1, C + k)
    <3>1. 1 \in Nat \ {0} /\ k \in 0..(Len(S) - C)
      BY <1>1, <1>2, <1>3
    <3>2. SubSeq(Dropped(S, C), 1, k) = SubSeq(S, C + 1, C + k)
      BY <1>1, <1>2, <3>1, SubSeqOfDropped
    <3>3. QED
      BY <3>2 DEF Stream, Received
  <2>4. Frame(Received("Src", k)) \in Seq(Nat)
    BY <1>3, ReceivedType, FrameType DEF Socks
  <2>5. Dropped(W, Len(W)) = <<>>
    BY <1>1, SubSeqEmpty DEF Dropped
  <2>6. Dropped(W, Len(W)) \o Frame(Received("Src", k)) = Frame(Received("Src", k))
    BY <2>4, <2>5, ConcatEmptySeq
  <2>7. (C + k) - C \in 1..ReadMax /\ C <= C + k
    BY <1>2, <1>3
  <2>8. Dropped(wrote'["Dst"], LastCut'.wire) \o up'.buf
          = Frame(SubSeq(sent'["Src"], LastCut'.plain + 1, Consumed'))
    BY <1>4, <1>6, <2>1, <2>2, <2>3, <2>6
  <2>9. QED
    BY <1>1, <1>4, <1>6, <2>1, <2>2, <2>7, <2>8 DEF InHand, Frame, Compress
<1>10. QED
  BY <1>7, <1>8, <1>9

LEMMA UpWriteInv ==
  ASSUME IInv, NEW k \in Nat, UpWrite(k)
  PROVE  Stream' /\ FramesWhole' /\ InHand'
<1> USE DEF IInv
<1> DEFINE W    == wrote["Dst"]
           B    == up.buf
           part == SubSeq(B, 1, k)
           rest == Dropped(B, k)
           lw   == LastCut.wire
           lp   == LastCut.plain
           plain == SubSeq(sent["Src"], lp + 1, Consumed)
<1>1. /\ W \in Seq(Nat) /\ B \in Seq(Nat) /\ Len(W) \in Nat /\ Len(B) \in Nat
      /\ lw \in Nat /\ lp \in Nat /\ lw <= Len(W)
  BY Fields, LenProperties, CutFields DEF Socks, InHand
<1>2. k \in 1..Len(B)
  <2>1. k \in 1..Lesser(Len(B), Room("Dst"))
    BY DEF UpWrite
  <2>2. Room("Dst") \in Int /\ Len(B) \in Int
    BY <1>1, RoomType DEF Socks
  <2>3. QED
    BY <2>1, <2>2, LesserBound
<1>3. /\ part \in Seq(Nat) /\ rest \in Seq(Nat) /\ Len(part) = k
      /\ part \o rest = B
  <2>1. part \in Seq(Nat) /\ rest \in Seq(Nat) /\ Len(part) = k
    <3>1. k \in 0..Len(B) /\ 1 \in Nat \ {0} /\ k \in Nat /\ k <= Len(B) /\ 1 <= k
      BY <1>1, <1>2
    <3>2. /\ part \in Seq(Nat)
          /\ Len(part) = k - 1 + 1
      BY <1>1, <3>1, SubSeqType
    <3>3. rest \in Seq(Nat)
      BY <1>1, <3>1, DroppedType
    <3>4. QED
      BY <3>2, <3>3
  <2>2. 1 \in 1..Len(B) + 1 /\ k \in 1 - 1 .. Len(B) /\ Len(B) \in k..Len(B)
    BY <1>1, <1>2
  <2>3. part \o rest = SubSeq(B, 1, Len(B))
    BY <1>1, <2>2, ConcatAdjacentSubSeq DEF Dropped
  <2>4. QED
    BY <1>1, <2>1, <2>3, SubSeqFull
<1>4. /\ sent' = sent /\ inq' = inq /\ Consumed' = Consumed
      /\ wrote'["Dst"] = W \o part
  BY DEF UpWrite, TypeOK, Socks, netVars, Consumed
<1>5. Stream'
  BY <1>4 DEF Stream
<1>6. /\ Dropped(W, lw) \in Seq(Nat)
      /\ Dropped(wrote'["Dst"], lw) = Dropped(W, lw) \o part
      /\ (Dropped(W, lw) \o part) \o rest = Dropped(W, lw) \o B
  <2>1. lw \in 0..Len(W)
    BY <1>1
  <2>2. Dropped(W, lw) \in Seq(Nat)
    BY <1>1, <2>1, DroppedType
  <2>3. Dropped(W \o part, lw) = Dropped(W, lw) \o part
    BY <1>1, <1>3, <2>1, TailGrows DEF Dropped
  <2>4. (Dropped(W, lw) \o part) \o rest = Dropped(W, lw) \o (part \o rest)
    BY <1>3, <2>2, ConcatAssociative, SMTT(60)
  <2>5. QED
    BY <1>3, <1>4, <2>2, <2>3, <2>4
<1>7. /\ Dropped(W, lw) \o B = Frame(plain)
      /\ Consumed - lp \in 1..ReadMax
  BY DEF InHand, UpWrite
<1>8. <<>> \in Seq(Nat) /\ sent'["Src"] = sent["Src"] \o <<>>
  BY <1>4, Fields, ConcatEmptySeq, EmptySeq DEF Socks
<1>9. Len(wrote'["Dst"]) = Len(W) + k
  BY <1>1, <1>3, <1>4, ConcatType, ZenonT(90)
<1> HIDE DEF W, B, part, rest, lw, lp, plain
<1>10. CASE k # Len(B)
  <2>1. /\ cuts' = cuts /\ LastCut' = LastCut
        /\ up'.pc = "write" /\ up'.buf = rest
    BY <1>10 DEF UpWrite, TypeOK, B, rest, LastCut
  <2>2. FramesWhole'
    BY <1>3, <1>4, <1>8, <2>1, FramesKept DEF FramesWhole, W
  <2>3. InHand'
    <3>1. Dropped(wrote'["Dst"], LastCut'.wire) \o up'.buf
            = Frame(SubSeq(sent'["Src"], LastCut'.plain + 1, Consumed'))
      BY <1>4, <1>6, <1>7, <2>1 DEF lw, lp, plain
    <3>2. LastCut'.wire <= Len(wrote'["Dst"])
      BY <1>1, <1>2, <1>9, <2>1 DEF lw
    <3>3. LastCut'.plain <= Consumed' /\ Consumed' - LastCut'.plain \in 1..ReadMax
      BY <1>4, <1>7, <2>1 DEF InHand, lp
    <3>4. QED
      BY <2>1, <3>1, <3>2, <3>3 DEF InHand, Frame, Compress
  <2>4. QED
    BY <1>5, <2>2, <2>3
<1>11. CASE k = Len(B)
  <2> DEFINE cut == [wire |-> Len(W) + k, plain |-> Consumed]
  <2>0. PICK n \in Nat : n = Len(cuts)
    BY CutFields
  <2>1. /\ cuts' = Append(cuts, cut) /\ up'.pc = "read"
    BY <1>11 DEF UpWrite, TypeOK, B, W, Consumed
  <2>2. rest = <<>> /\ part = B
    BY <1>1, <1>3, <1>11, SubSeqEmpty, SubSeqFull DEF rest, part, Dropped
  <2>3. /\ cuts \in Seq([wire : Nat, plain : Nat])
        /\ cut \in [wire : Nat, plain : Nat]
    <3>1. Consumed \in Nat
      BY ConsumedRange
    <3>2. Len(W) + k \in Nat
      BY <1>1
    <3>3. QED
      BY <3>1, <3>2, LenProperties DEF TypeOK
  <2>4. /\ Len(cuts') = n + 1 /\ cuts'[n + 1] = cut
        /\ \A j \in 1..n : cuts'[j] = cuts[j]
        /\ cuts' # <<>>
    <3> HIDE DEF cut
    <3>1. /\ cuts' # <<>> /\ Len(cuts') = Len(cuts) + 1
          /\ \A j \in 1..Len(cuts) : cuts'[j] = cuts[j]
          /\ cuts'[Len(cuts) + 1] = cut
      BY <2>1, <2>3, AppendProperties
    <3>2. QED
      BY <2>0, <3>1
  <2>5. Start(n + 1)' = LastCut
    <3>1. CASE n = 0
      <4>1. n + 1 = 1 /\ cuts = <<>>
        <5>1. Len(cuts) = 0
          BY <2>0, <3>1
        <5>2. cuts = <<>>
          BY <2>3, <5>1, EmptySeq
        <5>3. QED
          BY <3>1, <5>2
      <4>2. QED
        BY <4>1 DEF Start, LastCut
    <3>2. CASE n # 0
      <4>1. n \in 1..n /\ (n + 1) - 1 = n /\ n + 1 # 1
        BY <3>2
      <4>2. cuts'[n] = cuts[n]
        BY <2>4, <4>1
      <4>3. cuts # <<>>
        BY <2>0, <3>2, EmptySeq
      <4>4. QED
        BY <2>0, <4>1, <4>2, <4>3 DEF Start, LastCut
    <3>3. QED
      BY <3>1, <3>2
  <2>6. LastCut' = cut
    BY <2>4 DEF LastCut
  <2> HIDE DEF cut
  <2>7. FrameAt(n + 1)'
    <3>1. /\ Consumed \in (lp + 1)..Len(sent["Src"])
          /\ Consumed - lp + Overhead <= MaxFrame
      <4>1. /\ Consumed \in Nat /\ Len(sent["Src"]) \in Nat /\ Consumed <= Len(sent["Src"])
        BY ConsumedRange, Fields, LenProperties DEF Socks
      <4>2. QED
        BY <1>1, <1>7, <4>1, ConstantTypes
    <3>2. Len(W) + k \in 1..Len(wrote'["Dst"])
      BY <1>1, <1>2, <1>9
    <3>3. SubSeq(wrote'["Dst"], lw + 1, Len(W) + k) = Frame(plain)
      BY <1>6, <1>7, <1>9, <2>2 DEF Dropped
    <3>4. QED
      <4>1. /\ cuts'[n + 1].wire = Len(W) + k /\ cuts'[n + 1].plain = Consumed
        BY <2>4 DEF cut
      <4>2. /\ Start(n + 1)'.wire = lw /\ Start(n + 1)'.plain = lp
        BY <2>5 DEF lw, lp
      <4>3. SubSeq(sent'["Src"], lp + 1, Consumed) = plain
        BY <1>4 DEF plain
      <4>4. Frame(plain) = Frame(SubSeq(sent'["Src"], lp + 1, Consumed))
        BY <4>3
      <4>5. QED
        BY <1>4, <4>1, <4>2, <4>4, <3>1, <3>2, <3>3 DEF FrameAt, Frame, Compress
  <2>8. FramesWhole'
    <3>1. ASSUME NEW i \in 1..n
          PROVE  FrameAt(i)'
      BY <1>3, <1>4, <1>8, <2>0, <2>4, FramesKept DEF W
    <3>2. \A i \in 1..(n + 1) : i \in 1..n \/ i = n + 1
      OBVIOUS
    <3>3. QED
      BY <2>4, <2>7, <3>1, <3>2 DEF FramesWhole
  <2>9. InHand'
    <3>1. Len(W) + k <= Len(wrote'["Dst"]) /\ Consumed <= Consumed
      BY <1>1, <1>9, ConsumedRange
    <3>2. QED
      BY <1>4, <1>9, <2>1, <2>6, <3>1 DEF InHand, cut
  <2>10. QED
    BY <1>5, <2>8, <2>9
<1>12. QED
  BY <1>10, <1>11

LEMMA UpEndsInv ==
  ASSUME IInv, UpReadEnds \/ UpWriteEnds
  PROVE  Stream' /\ FramesWhole' /\ InHand'
<1> USE DEF IInv
<1>1. /\ sent' = sent /\ inq' = inq /\ wrote' = wrote /\ cuts' = cuts
      /\ up'.pc = "done"
  BY DEF UpReadEnds, UpWriteEnds, netVars, TypeOK
<1>2. Stream'
  BY <1>1 DEF Stream, Consumed
<1>3. FramesWhole'
  BY <1>1 DEF FramesWhole, FrameAt, Start, Frame, Compress
<1>4. InHand'
  BY <1>1 DEF InHand, LastCut, Consumed
<1>5. QED
  BY <1>2, <1>3, <1>4

LEMMA ClientSendInv ==
  ASSUME IInv, ClientSend
  PROVE  Stream' /\ FramesWhole' /\ InHand'
<1> USE DEF IInv
<1> DEFINE S    == sent["Src"]
           Q    == inq["Src"]
           C    == Consumed
           tail == << Len(S) + 1 >>
<1>1. /\ S \in Seq(Nat) /\ Q \in Seq(Nat) /\ tail \in Seq(Nat) /\ Len(tail) = 1
      /\ Len(S) \in Nat /\ Len(Q) \in Nat
      /\ C \in 0..Len(S)
  BY Fields, LenProperties, ConsumedRange DEF Socks
<1>2. /\ sent'["Src"] = S \o tail /\ inq'["Src"] = Q \o tail
      /\ wrote' = wrote /\ cuts' = cuts /\ up' = up
  <2>1. Append(S, Len(S) + 1) = S \o tail /\ Append(Q, Len(S) + 1) = Q \o tail
    <3>1. Len(S) + 1 \in Nat
      BY <1>1
    <3>2. QED
      BY <1>1, <3>1, AppendIsConcat
  <2>2. QED
    BY <2>1 DEF ClientSend, TypeOK, Socks
<1>3. Len(S \o tail) = Len(S) + 1 /\ Len(Q \o tail) = Len(Q) + 1
  BY <1>1, ConcatType
<1>4. Consumed' = C
  <2>1. \A a, b \in Nat : (a + 1) - (b + 1) = a - b
    OBVIOUS
  <2>2. Consumed' = (Len(S) + 1) - (Len(Q) + 1)
    BY <1>2, <1>3 DEF Consumed
  <2>3. (Len(S) + 1) - (Len(Q) + 1) = Len(S) - Len(Q)
    BY <1>1, <2>1
  <2>4. QED
    BY <2>2, <2>3 DEF Consumed
<1>5. Stream'
  <2>1. Dropped(S \o tail, C) = Dropped(S, C) \o tail
    BY <1>1, TailGrows DEF Dropped
  <2>2. QED
    BY <1>2, <1>4, <2>1 DEF Stream
<1>6. FramesWhole'
  <2>1. <<>> \in Seq(Nat) /\ wrote'["Dst"] = wrote["Dst"] \o <<>>
    BY <1>2, Fields, ConcatEmptySeq, EmptySeq DEF Socks
  <2>2. QED
    BY <1>1, <1>2, <2>1, FramesKept DEF FramesWhole
<1>7. InHand'
  <2>1. LastCut' = LastCut
    BY <1>2 DEF LastCut
  <2>2. LastCut.plain + 1 \in Nat \ {0}
    BY CutFields
  <2>3. SubSeq(S \o tail, LastCut.plain + 1, C) = SubSeq(S, LastCut.plain + 1, C)
    BY <1>1, <2>2, SubSeqGrows
  <2>4. QED
    BY <1>2, <1>4, <2>1, <2>3 DEF InHand, Frame, Compress
<1>8. QED
  BY <1>5, <1>6, <1>7

\* No other step touches the upstream half.
LEMMA OthersInv ==
  ASSUME IInv,
         \/ ProxyWrite
         \/ \E s \in Socks : Close(s) \/ Fin(s) \/ Reset(s) \/ Drain(s)
         \/ \E n \in 1..ReadMax : FarSend(n)
         \/ \E bad \in BadFrames : FarSpoil(bad)
         \/ \E n \in 1..(4 + Overhead) : FarBreakOff(n)
         \/ UNCHANGED vars
  PROVE  Stream' /\ FramesWhole' /\ InHand'
<1> USE DEF IInv
<1>1. /\ sent'["Src"] = sent["Src"] /\ inq'["Src"] = inq["Src"]
      /\ wrote'["Dst"] = wrote["Dst"] /\ cuts' = cuts /\ up' = up
  <2>1. CASE ProxyWrite
    BY <2>1 DEF ProxyWrite, DownHeader, DownPayload, DownWrite, DownReadEnds, DownWriteEnds,
                TypeOK, Socks, netVars
  <2>2. CASE \E s \in Socks : Close(s) \/ Fin(s) \/ Reset(s) \/ Drain(s)
    BY <2>2 DEF Close, Fin, Reset, Drain, netVars
  <2>3. CASE \E n \in 1..ReadMax : FarSend(n)
    BY <2>3 DEF FarSend, TypeOK, Socks
  <2>4. CASE \E bad \in BadFrames : FarSpoil(bad)
    BY <2>4 DEF FarSpoil, TypeOK, Socks
  <2>5. CASE \E n \in 1..(4 + Overhead) : FarBreakOff(n)
    BY <2>5 DEF FarBreakOff, TypeOK, Socks
  <2>6. CASE UNCHANGED vars
    BY <2>6 DEF vars
  <2>7. QED
    BY <2>1, <2>2, <2>3, <2>4, <2>5, <2>6
<1>2. Stream'
  BY <1>1 DEF Stream, Consumed
<1>3. FramesWhole'
  BY <1>1 DEF FramesWhole, FrameAt, Start, Frame, Compress
<1>4. InHand'
  BY <1>1 DEF InHand, LastCut, Consumed, Frame, Compress
<1>5. QED
  BY <1>2, <1>3, <1>4

LEMMA InitInv == Init => IInv
<1> SUFFICES ASSUME Init PROVE IInv
  OBVIOUS
<1>1. TypeOK /\ Bounded
  BY InitTypeOK
<1>2. /\ sent["Src"] = <<>> /\ inq["Src"] = <<>> /\ wrote["Dst"] = <<>>
      /\ cuts = <<>> /\ up.pc = "read"
  BY DEF Init, Socks
<1>3. Len(<<>>) = 0 /\ Consumed = 0
  BY <1>2 DEF Consumed
<1>4. Stream
  BY <1>2, <1>3, SubSeqEmpty DEF Stream, Dropped
<1>5. FramesWhole
  BY <1>2 DEF FramesWhole
<1>6. InHand
  BY <1>2, <1>3 DEF InHand, LastCut
<1>7. QED
  BY <1>1, <1>4, <1>5, <1>6 DEF IInv

LEMMA NextInv == IInv /\ [Next]_vars => IInv'
<1> SUFFICES ASSUME IInv, [Next]_vars
             PROVE  Stream' /\ FramesWhole' /\ InHand'
  BY NextTypeOK DEF IInv
<1>1. CASE ProxyRead
  BY <1>1, UpReadInv, UpWriteInv, UpEndsInv, ConstantTypes DEF ProxyRead
<1>2. CASE ClientSend
  BY <1>2, ClientSendInv
<1>3. QED
  BY <1>1, <1>2, OthersInv DEF Next, Endpoints

\* Whatever recv and send do, proxy_read (socks5server.cpp 142-180) puts only
\* whole frames on the wire, each the encryption of the next bytes of the
\* client's stream and within the limit the other side imposes, and never
\* writes behind a frame it could not finish.
THEOREM UpstreamCorrect == Spec => []UpstreamFramed
<1>1. Init => IInv
  BY InitInv
<1>2. IInv /\ [Next]_vars => IInv'
  BY NextInv
<1>3. IInv => UpstreamFramed
  BY DEF IInv, FramesWhole, FrameAt, InHand, UpstreamFramed
<1>4. QED
  BY <1>1, <1>2, <1>3, PTL DEF Spec

-----------------------------------------------------------------------------
(* The pumps advance.  UpLeft and DownLeft are lexicographic measures in   *)
(* one number: what is still to be received weighs more than anything that *)
(* can be made of it in one round of the loop.                             *)

Sends == \A s \in Socks : Len(sent[s]) <= MaxSend[s]

VInv == TypeOK /\ Bounded /\ Sends

FarLeft  == FarUnsent + Len(inq["Dst"])
DownHeld == IF down.pc = "write" THEN Len(down.buf) ELSE 0

LEMMA Multiples ==
  ASSUME NEW a \in Nat, NEW b \in Nat, NEW c \in Nat
  PROVE  /\ a * c \in Nat
         /\ (a + b) * c = a * c + b * c
         /\ b >= 1 => b * c >= c
<1>1. a * c \in Nat /\ (a + b) * c = a * c + b * c
  OBVIOUS
<1>2. ASSUME b >= 1
      PROVE  b * c >= c
  <2>1. PICK d \in Nat : b = d + 1
    <3>1. b - 1 \in Nat /\ b = (b - 1) + 1
      BY <1>2
    <3>2. QED
      BY <3>1
  <2>2. (d + 1) * c = d * c + c /\ d * c \in Nat
    OBVIOUS
  <2>3. QED
    BY <2>1, <2>2
<1>3. QED
  BY <1>1, <1>2

\* One unit less of the greater weight makes up for less than that weight.
LEMMA WeightedLess ==
  ASSUME NEW a \in Nat, NEW b \in Nat, NEW c \in Nat, NEW x \in Nat, NEW y \in Nat,
         b < a, x < c + y
  PROVE  b * c + x < a * c + y
<1>1. PICK d \in Nat : a = b + d /\ d >= 1
  <2>1. a - b \in Nat /\ a = b + (a - b) /\ a - b >= 1
    OBVIOUS
  <2>2. QED
    BY <2>1
<1>2. a * c = b * c + d * c /\ d * c >= c /\ b * c \in Nat /\ d * c \in Nat
  BY <1>1, Multiples
<1>3. \A p, q, r, u \in Nat : p = q + r /\ r >= c => q + x < p + y
  OBVIOUS
<1>4. a * c \in Nat
  BY Multiples
<1>5. QED
  BY <1>2, <1>3, <1>4

LEMMA WeightedLeq ==
  ASSUME NEW a \in Nat, NEW b \in Nat, NEW c \in Nat, NEW x \in Nat, NEW y \in Nat,
         b <= a, x <= y
  PROVE  b * c + x <= a * c + y
<1>1. PICK d \in Nat : a = b + d
  <2>1. a - b \in Nat /\ a = b + (a - b)
    OBVIOUS
  <2>2. QED
    BY <2>1
<1>2. a * c = b * c + d * c /\ b * c \in Nat /\ d * c \in Nat
  BY <1>1, Multiples
<1>3. QED
  BY <1>2

LEMMA LeftTypes ==
  ASSUME VInv
  PROVE  /\ Unread \in Nat /\ FarUnsent \in Nat /\ FarLeft \in Nat /\ DownHeld \in Nat
         /\ Len(up.buf) \in Nat /\ Len(inq["Src"]) \in Nat /\ Len(inq["Dst"]) \in Nat
         /\ Len(sent["Src"]) \in Nat /\ Len(sent["Dst"]) \in Nat
         /\ MaxSend["Src"] \in Nat /\ MaxSend["Dst"] \in Nat
<1> USE DEF VInv
<1>1. /\ Len(up.buf) \in Nat /\ Len(inq["Src"]) \in Nat /\ Len(inq["Dst"]) \in Nat
      /\ Len(sent["Src"]) \in Nat /\ Len(sent["Dst"]) \in Nat /\ Len(down.buf) \in Nat
      /\ "Src" \in Socks /\ "Dst" \in Socks
  BY Fields, LenProperties DEF Socks
<1>2. MaxSend["Src"] \in Nat /\ MaxSend["Dst"] \in Nat
  BY <1>1, MaxSendAssumption
<1>3. Unread \in Nat
  <2>1. \A m, p, q \in Nat : p <= m /\ q <= p => m - (p - q) \in Nat
    OBVIOUS
  <2>2. Len(sent["Src"]) <= MaxSend["Src"] /\ Len(inq["Src"]) <= Len(sent["Src"])
    BY <1>1 DEF Sends, Bounded
  <2>3. MaxSend["Src"] - (Len(sent["Src"]) - Len(inq["Src"])) \in Nat
    BY <1>1, <1>2, <2>1, <2>2
  <2>4. QED
    BY <2>3 DEF Unread
<1>4. FarUnsent \in Nat
  <2>1. MaxSend["Dst"] - Len(sent["Dst"]) \in Nat
    BY <1>1, <1>2 DEF Sends
  <2>2. 10 + 2 * Overhead \in Nat
    BY ConstantTypes
  <2>3. (MaxSend["Dst"] - Len(sent["Dst"])) * (10 + 2 * Overhead) \in Nat
    BY <2>1, <2>2, Multiples
  <2>4. QED
    BY <2>3 DEF FarUnsent
<1>5. QED
  BY <1>1, <1>2, <1>3, <1>4 DEF FarLeft, DownHeld

LEMMA BadFramesLength ==
  ASSUME TypeOK, NEW bad \in BadFrames
  PROVE  bad \in Seq(Nat) /\ Len(bad) \in Nat /\ Len(bad) <= 5 + Overhead
<1>0. Overhead \in Nat /\ MaxFrame \in Nat
  BY ConstantTypes
<1>1. ASSUME NEW v \in Nat
      PROVE  ToBytes(v) \in Seq(Nat) /\ Len(ToBytes(v)) = 4
  BY ToBytesNat, ToBytesType
<1>2. bad \in Seq(Nat) /\ Len(bad) \in Nat
  BY BadFramesType, LenProperties
<1>3. CASE bad \in {ToBytes(0), ToBytes(MaxFrame + 1)}
  <2>1. 0 \in Nat /\ MaxFrame + 1 \in Nat
    BY <1>0
  <2>2. Len(bad) = 4
    BY <1>1, <1>3, <2>1
  <2>3. QED
    BY <1>0, <1>2, <2>2
<1>4. CASE bad = << 1, 0, 0, 0 >>
  <2>1. Len(bad) = 4
    BY <1>4
  <2>2. QED
    BY <1>0, <1>2, <2>1
<1>5. ASSUME NEW n \in 1..Overhead, bad = ToBytes(n) \o SubSeq(Tag, 1, n)
      PROVE  Len(bad) <= 5 + Overhead
  <2>1. n \in Nat /\ n <= Len(Tag) /\ Tag \in Seq(Nat) /\ 1 \in Nat \ {0} /\ 1 <= n
    BY <1>0, TagType
  <2>2. SubSeq(Tag, 1, n) \in Seq(Nat) /\ Len(SubSeq(Tag, 1, n)) = n - 1 + 1
    BY <2>1, SubSeqType
  <2>3. Len(bad) = Len(ToBytes(n)) + Len(SubSeq(Tag, 1, n))
    BY <1>1, <1>5, <2>1, <2>2, ConcatType
  <2>4. Len(bad) = 4 + (n - 1 + 1)
    BY <1>1, <2>1, <2>2, <2>3
  <2>5. \A l, o \in Nat : l <= o => 4 + (l - 1 + 1) <= 5 + o
    OBVIOUS
  <2>6. n \in Nat /\ n <= Overhead
    BY <1>0
  <2>7. QED
    BY <1>0, <2>4, <2>5, <2>6
<1>6. CASE bad = ToBytes(1 + Overhead) \o Chunk(1) \o [i \in 1..Overhead |-> 1]
  <2> DEFINE ones == [i \in 1..Overhead |-> 1]
  <2>1. ToBytes(1 + Overhead) \in Seq(Nat) /\ Len(ToBytes(1 + Overhead)) = 4
    BY <1>0, <1>1
  <2>2. ones \in Seq(Nat) /\ Len(ones) = Overhead
    BY <1>0, IsASeq
  <2>3. Chunk(1) \in Seq(Nat) /\ Len(Chunk(1)) = 1
    BY ChunkType
  <2> HIDE DEF ones
  <2>4. /\ ToBytes(1 + Overhead) \o Chunk(1) \in Seq(Nat)
        /\ Len(ToBytes(1 + Overhead) \o Chunk(1)) = Len(ToBytes(1 + Overhead)) + Len(Chunk(1))
    BY <2>1, <2>3, ConcatType
  <2>5. Len(ToBytes(1 + Overhead) \o Chunk(1) \o ones)
          = Len(ToBytes(1 + Overhead) \o Chunk(1)) + Len(ones)
    BY <2>2, <2>4, ConcatType
  <2>6. Len(bad) = (4 + 1) + Overhead
    BY <1>6, <2>1, <2>2, <2>3, <2>4, <2>5 DEF ones
  <2>7. \A o \in Nat : (4 + 1) + o <= 5 + o
    OBVIOUS
  <2>8. QED
    BY <1>0, <1>2, <2>6, <2>7
<1>7. QED
  BY <1>2, <1>3, <1>4, <1>5, <1>6 DEF BadFrames

\* A frame of the next byte: what the far end may still send after a bad one.
LEMMA OneByteFrame ==
  ASSUME TypeOK
  PROVE  Frame(Chunk(1)) \in Seq(Nat) /\ Len(Frame(Chunk(1))) = 5 + Overhead
<1>1. Chunk(1) \in Seq(Nat) /\ Len(Chunk(1)) = 1
  BY ChunkType
<1>2. Frame(Chunk(1)) \in Seq(Nat) /\ Len(Frame(Chunk(1))) = 4 + Len(Chunk(1)) + Overhead
  BY <1>1, FrameType
<1>3. \A c, o \in Nat : c = 1 => 4 + c + o = 5 + o
  OBVIOUS
<1>4. Len(Chunk(1)) \in Nat /\ Overhead \in Nat
  BY <1>1, ConstantTypes
<1>5. QED
  BY <1>1, <1>2, <1>3, <1>4

LEMMA SendsKept ==
  ASSUME VInv, [Next]_vars
  PROVE  Sends'
<1> USE DEF VInv
<1>1. sent \in [Socks -> Seq(Nat)]
  BY DEF TypeOK
<1>2. CASE ClientSend
  <2>1. "Src" \in Socks /\ sent["Src"] \in Seq(Nat) /\ Len(sent["Src"]) + 1 \in Nat
    BY Fields, LenProperties DEF Socks
  <2>2. Len(Append(sent["Src"], Len(sent["Src"]) + 1)) = Len(sent["Src"]) + 1
    BY <2>1, AppendProperties
  <2>3. /\ sent'["Src"] = Append(sent["Src"], Len(sent["Src"]) + 1)
        /\ \A r \in Socks \ {"Src"} : sent'[r] = sent[r]
    BY <1>1, <1>2, <2>1 DEF ClientSend
  <2>4. Len(sent["Src"]) < MaxSend["Src"] /\ MaxSend["Src"] \in Nat /\ Len(sent["Src"]) \in Nat
    BY <1>2, LeftTypes DEF ClientSend
  <2>5. Len(sent["Src"]) + 1 <= MaxSend["Src"]
    BY <2>4
  <2>6. QED
    BY <2>2, <2>3, <2>5 DEF Sends
<1>3. ASSUME NEW n \in 1..ReadMax, FarSend(n)
      PROVE  Sends'
  <2>1. "Dst" \in Socks /\ sent["Dst"] \in Seq(Nat)
    BY Fields DEF Socks
  <2>2. Chunk(n) \in Seq(Nat) /\ Len(Chunk(n)) = n
    BY ChunkType, ConstantTypes
  <2>3. Len(sent["Dst"] \o Chunk(n)) = Len(sent["Dst"]) + n
    BY <2>1, <2>2, ConcatType
  <2>4. /\ sent'["Dst"] = sent["Dst"] \o Chunk(n)
        /\ \A r \in Socks \ {"Dst"} : sent'[r] = sent[r]
    BY <1>1, <1>3, <2>1 DEF FarSend
  <2>5. Len(sent["Dst"]) + n <= MaxSend["Dst"]
    BY <1>3 DEF FarSend
  <2>6. QED
    BY <2>3, <2>4, <2>5 DEF Sends
<1>4. \/ ClientSend \/ (\E n \in 1..ReadMax : FarSend(n)) \/ sent' = sent
  BY DEF Next, ProxyRead, ProxyWrite, Endpoints, Close, UpRead, UpWrite, UpReadEnds, UpWriteEnds,
         DownHeader, DownPayload, DownWrite, DownReadEnds, DownWriteEnds, FarSpoil, FarBreakOff,
         Fin, Reset, Drain, netVars, vars
<1>5. CASE sent' = sent
  BY <1>5 DEF Sends
<1>6. QED
  BY <1>2, <1>3, <1>4, <1>5

LEMMA VInvAlways == Init => VInv
<1> SUFFICES ASSUME Init PROVE Sends
  BY InitTypeOK DEF VInv
<1>1. \A s \in Socks : sent[s] = <<>>
  BY DEF Init
<1>2. QED
  BY <1>1, EmptySeq, MaxSendAssumption DEF Sends

LEMMA VInvKept == VInv /\ [Next]_vars => VInv'
  BY NextTypeOK, SendsKept DEF VInv

\* A call of proxy_read.
LEMMA UpAdvances ==
  ASSUME VInv, ProxyRead
  PROVE  UpLeft' < UpLeft /\ DownLeft' = DownLeft
<1> USE DEF VInv
<1> DEFINE c == MaxFrame + 5
<1>1. /\ Unread \in Nat /\ Len(up.buf) \in Nat /\ Len(inq["Src"]) \in Nat
      /\ Len(sent["Src"]) \in Nat /\ MaxSend["Src"] \in Nat
  BY LeftTypes
<1>2. c \in Nat /\ "Src" \in Socks /\ inq["Src"] \in Seq(Nat) /\ up.buf \in Seq(Nat)
  BY Fields, ConstantTypes DEF Socks
<1>3. DownLeft' = DownLeft
  <2>1. down' = down /\ inq'["Dst"] = inq["Dst"] /\ sent' = sent /\ spoiled' = spoiled
    BY DEF ProxyRead, UpRead, UpWrite, UpReadEnds, UpWriteEnds, netVars, TypeOK, Socks
  <2>2. QED
    BY <2>1 DEF DownLeft, FarUnsent
<1>4. up.pc # "done" => UpLeft = Unread * c + (Len(up.buf) + 1)
  <2>1. Unread * c \in Nat
    BY <1>1, <1>2, Multiples
  <2>2. \A p, q \in Nat : p + q + 1 = p + (q + 1)
    OBVIOUS
  <2>3. Unread * c + Len(up.buf) + 1 = Unread * c + (Len(up.buf) + 1)
    BY <1>1, <2>1, <2>2
  <2>4. QED
    BY <2>3 DEF UpLeft
<1> HIDE DEF c
<1>5. ASSUME NEW k \in 1..ReadMax, UpRead(k)
      PROVE  UpLeft' < UpLeft
  <2>1. k \in 1..Len(inq["Src"]) /\ k \in Nat
    <3>1. k \in 1..Lesser(ReadMax, Len(inq["Src"]))
      BY <1>5 DEF UpRead
    <3>2. ReadMax \in Int /\ Len(inq["Src"]) \in Int /\ k \in Nat
      BY <1>1, ConstantTypes
    <3>3. QED
      BY <3>1, <3>2, LesserBound
  <2>2. Received("Src", k) \in Seq(Nat) /\ Len(Received("Src", k)) = k
    BY <1>2, <2>1, ReceivedType
  <2>3. Len(Frame(Received("Src", k))) = 4 + Len(Received("Src", k)) + Overhead
    BY <2>2, FrameType
  <2>4. /\ up.pc = "read" /\ up'.pc = "write" /\ up'.buf = Frame(Received("Src", k))
        /\ sent' = sent /\ inq'["Src"] = Dropped(inq["Src"], k)
    BY <1>2, <1>5 DEF UpRead, TypeOK
  <2>5. Len(inq'["Src"]) = Len(inq["Src"]) - k
    <3>1. k \in 0..Len(inq["Src"])
      BY <1>1, <2>1
    <3>2. QED
      BY <1>2, <2>4, <3>1, DroppedType
  <2>6. PICK b \in Nat : b = 4 + k + Overhead /\ b <= MaxFrame + 4
    BY <2>1, ConstantTypes
  <2>7. PICK u \in Nat : u = Unread - k /\ u < Unread /\ u = Unread'
    <3>1. PICK m, p, q \in Nat : /\ m = MaxSend["Src"] /\ p = Len(sent["Src"])
                                /\ q = Len(inq["Src"]) /\ p <= m /\ k <= q
      BY <1>1, <1>2, <2>1 DEF Sends
    <3>2. m - (p - (q - k)) = (m - (p - q)) - k /\ (m - (p - q)) - k \in Nat
      <4>1. \A x, y, z, j \in Nat : x - (y - (z - j)) = (x - (y - z)) - j
        OBVIOUS
      <4>2. \A x, y, z, j \in Nat : y <= x /\ j <= z => (x - (y - z)) - j \in Nat
        OBVIOUS
      <4>3. p <= m /\ k <= q /\ k \in Nat
        BY <2>1, <3>1
      <4>4. QED
        BY <4>1, <4>2, <4>3
    <3>3. Unread = m - (p - q)
      BY <3>1 DEF Unread
    <3>4. Unread' = m - (p - (q - k))
      BY <2>4, <2>5, <3>1 DEF Unread
    <3>5. QED
      BY <1>1, <2>1, <3>2, <3>3, <3>4
  <2>8. UpLeft' = u * c + b + 1
    BY <2>2, <2>3, <2>4, <2>6, <2>7 DEF UpLeft, c
  <2>9. u * c + (b + 1) < Unread * c + (Len(up.buf) + 1)
    <3>1. \A f, l \in Nat : b <= f + 4 => b + 1 < (f + 5) + (l + 1)
      BY <2>6
    <3>2. b + 1 \in Nat /\ Len(up.buf) + 1 \in Nat
      BY <1>1, <2>6
    <3>3. b + 1 < c + (Len(up.buf) + 1)
      BY <1>1, <2>6, <3>1, ConstantTypes DEF c
    <3>4. QED
      BY <1>1, <1>2, <2>7, <3>2, <3>3, WeightedLess
  <2>10. u * c + b + 1 = u * c + (b + 1)
    <3>1. u * c \in Nat
      BY <1>2, Multiples
    <3>2. QED
      BY <2>6, <3>1
  <2>11. QED
    BY <1>4, <2>4, <2>8, <2>9, <2>10
<1>6. ASSUME NEW k \in 1..(4 + MaxFrame), UpWrite(k)
      PROVE  UpLeft' < UpLeft
  <2>1. k \in 1..Len(up.buf) /\ k \in Nat
    <3>1. k \in 1..Lesser(Len(up.buf), Room("Dst"))
      BY <1>6 DEF UpWrite
    <3>2. Len(up.buf) \in Int /\ Room("Dst") \in Int /\ k \in Nat
      BY <1>1, RoomType, ConstantTypes DEF Socks
    <3>3. QED
      BY <3>1, <3>2, LesserBound
  <2>2. /\ up.pc = "write" /\ up'.pc # "done" /\ up'.buf = Dropped(up.buf, k)
        /\ sent' = sent /\ inq' = inq
    BY <1>6 DEF UpWrite, TypeOK, netVars
  <2>3. Len(up'.buf) = Len(up.buf) - k
    <3>1. k \in 0..Len(up.buf)
      BY <1>1, <2>1
    <3>2. QED
      BY <1>2, <2>2, <3>1, DroppedType
  <2>4. UpLeft' = Unread * c + Len(up'.buf) + 1
    BY <2>2 DEF UpLeft, Unread, c
  <2>5. Unread * c \in Nat
    BY <1>1, <1>2, Multiples
  <2>6. \A p, q \in Nat : k <= q => p + (q - k) + 1 < p + (q + 1)
    BY <2>1
  <2>7. QED
    BY <1>1, <1>4, <2>1, <2>2, <2>3, <2>4, <2>5, <2>6
<1>7. CASE UpReadEnds \/ UpWriteEnds
  <2>1. up.pc # "done" /\ up'.pc = "done"
    BY <1>7 DEF UpReadEnds, UpWriteEnds, TypeOK
  <2>2. UpLeft' = 0
    BY <2>1 DEF UpLeft
  <2>3. Unread * c \in Nat
    BY <1>1, <1>2, Multiples
  <2>4. 0 < Unread * c + (Len(up.buf) + 1)
    BY <1>1, <2>3
  <2>5. QED
    BY <1>3, <1>4, <2>1, <2>2, <2>4
<1>8. QED
  BY <1>3, <1>5, <1>6, <1>7 DEF ProxyRead

\* The measure of proxy_write falls when the bytes it has still to receive do, or
\* when these stay and the bytes it has in hand do.
LEMMA DownFalls ==
  ASSUME VInv, down.pc # "done", FarLeft' \in Nat, DownHeld' \in Nat,
         \/ down'.pc = "done"
         \/ FarLeft' < FarLeft /\ DownHeld' <= MaxFrame
         \/ FarLeft' = FarLeft /\ DownHeld' < DownHeld
  PROVE  DownLeft' < DownLeft
<1> DEFINE c == MaxFrame + 1
<1>1. FarLeft \in Nat /\ DownHeld \in Nat /\ c \in Nat /\ MaxFrame \in Nat
  BY LeftTypes, ConstantTypes
<1>2. FarLeft * c \in Nat /\ FarLeft' * c \in Nat
  BY <1>1, Multiples
<1>3. DownLeft = FarLeft * c + DownHeld + 1
  BY DEF DownLeft, FarLeft, DownHeld
<1>4. CASE down'.pc = "done"
  BY <1>1, <1>2, <1>3, <1>4 DEF DownLeft
<1>5. CASE down'.pc # "done"
  <2>1. DownLeft' = FarLeft' * c + DownHeld' + 1
    BY <1>5 DEF DownLeft, FarLeft, DownHeld
  <2>2. PICK f, g, h, i \in Nat : /\ f = FarLeft' /\ g = FarLeft
                                  /\ h = DownHeld' /\ i = DownHeld
    BY <1>1
  <2>3. CASE f < g /\ h <= MaxFrame
    <3>1. h + 1 \in Nat /\ i + 1 \in Nat /\ h + 1 < c + (i + 1)
      BY <1>1, <2>3
    <3> HIDE DEF c
    <3>2. f * c + (h + 1) < g * c + (i + 1)
      BY <1>1, <2>3, <3>1, WeightedLess
    <3>3. f * c \in Nat /\ g * c \in Nat
      BY <1>1, Multiples
    <3>4. f * c + h + 1 < g * c + i + 1
      BY <3>2, <3>3
    <3>5. QED
      BY <1>3, <2>1, <2>2, <3>4 DEF c
  <2>4. CASE f = g /\ h < i
    <3> HIDE DEF c
    <3>1. f * c \in Nat
      BY <1>1, Multiples
    <3>2. f * c + h + 1 < f * c + i + 1
      BY <2>4, <3>1
    <3>3. QED
      BY <1>3, <2>1, <2>2, <2>4, <3>2 DEF c
  <2>5. QED
    BY <1>5, <2>2, <2>3, <2>4
<1>6. QED
  BY <1>4, <1>5

\* A call of proxy_write.
LEMMA DownAdvances ==
  ASSUME VInv, VInv', ProxyWrite
  PROVE  DownLeft' < DownLeft /\ UpLeft' = UpLeft
<1> USE DEF VInv
<1>1. UpLeft' = UpLeft
  <2>1. up' = up /\ inq'["Src"] = inq["Src"] /\ sent' = sent
    BY DEF ProxyWrite, DownHeader, DownPayload, DownWrite, DownReadEnds, DownWriteEnds,
           netVars, TypeOK, Socks
  <2>2. QED
    BY <2>1 DEF UpLeft, Unread
<1>2. /\ FarLeft \in Nat /\ DownHeld \in Nat /\ FarUnsent \in Nat
      /\ inq["Dst"] \in Seq(Nat) /\ Len(inq["Dst"]) \in Nat
      /\ down.buf \in Seq(Nat) /\ Len(down.buf) \in Nat /\ down.want \in 0..MaxFrame
      /\ "Dst" \in Socks
  BY LeftTypes, Fields, LenProperties DEF Socks
<1>3. FarLeft' \in Nat /\ DownHeld' \in Nat
  <2>1. VInv => FarLeft \in Nat /\ DownHeld \in Nat
    BY LeftTypes
  <2>2. (VInv => FarLeft \in Nat /\ DownHeld \in Nat)'
    BY LeftTypes, PTL
  <2>3. QED
    BY <2>2
<1>4. FarUnsent' = FarUnsent
  <2>1. sent' = sent /\ spoiled' = spoiled
    BY DEF ProxyWrite, DownHeader, DownPayload, DownWrite, DownReadEnds, DownWriteEnds, netVars
  <2>2. QED
    BY <2>1 DEF FarUnsent
<1>5. down \in DownType /\ MaxFrame \in Nat
  BY ConstantTypes DEF TypeOK, DownType
<1>6. ASSUME NEW k \in Nat, DownHeader(k) \/ DownPayload(k)
      PROVE  DownLeft' < DownLeft
  <2> DEFINE part == down.buf \o Received("Dst", k)
  <2>1. k \in 1..Len(inq["Dst"]) /\ (DownPayload(k) => k <= down.want - Len(down.buf))
    <3>1. 4 - Len(down.buf) \in Int /\ down.want - Len(down.buf) \in Int /\ Len(inq["Dst"]) \in Int
      BY <1>2, <1>5
    <3>2. /\ DownHeader(k) => k \in 1..Lesser(4 - Len(down.buf), Len(inq["Dst"]))
          /\ DownPayload(k) => k \in 1..Lesser(down.want - Len(down.buf), Len(inq["Dst"]))
      BY DEF DownHeader, DownPayload
    <3>3. /\ DownHeader(k) => k \in 1..Len(inq["Dst"])
          /\ DownPayload(k) => k \in 1..Len(inq["Dst"]) /\ k \in 1..(down.want - Len(down.buf))
      BY <3>1, <3>2, LesserBound
    <3>4. QED
      BY <1>6, <3>1, <3>3
  <2>2. Received("Dst", k) \in Seq(Nat) /\ Len(Received("Dst", k)) = k
    BY <1>2, <2>1, ReceivedType
  <2>3. part \in Seq(Nat) /\ Len(part) = Len(down.buf) + k
    BY <1>2, <2>2, ConcatType
  <2>4. inq'["Dst"] = Dropped(inq["Dst"], k)
    BY <1>2, <1>6 DEF DownHeader, DownPayload, TypeOK
  <2>5. Len(inq'["Dst"]) = Len(inq["Dst"]) - k
    <3>1. k \in 0..Len(inq["Dst"])
      BY <1>2, <2>1
    <3>2. QED
      BY <1>2, <2>4, <3>1, DroppedType
  <2>6. FarLeft' < FarLeft
    <3>1. FarLeft' = FarUnsent + (Len(inq["Dst"]) - k)
      BY <1>4, <2>5 DEF FarLeft
    <3>2. \A f, l \in Nat : l - k < l /\ f + (l - k) < f + l
      BY <2>1
    <3>3. QED
      BY <1>2, <3>1, <3>2 DEF FarLeft
  <2>7. down.pc # "done"
    BY <1>6 DEF DownHeader, DownPayload
  <2>8. DownHeld' <= MaxFrame
    <3>1. CASE DownHeader(k)
      <4>1. down'.pc # "write"
        BY <1>5, <3>1 DEF DownHeader, DownStops, DownType
      <4>2. QED
        BY <1>5, <4>1 DEF DownHeld
    <3>2. CASE DownPayload(k)
      <4>1. \/ Len(part) < down.want /\ down' = [down EXCEPT !.buf = part]
            \/ /\ Len(part) > Overhead
               /\ down' = [down EXCEPT !.pc = "write", !.buf = UnCompress(part)]
            \/ down' = DownStops
        BY <3>2 DEF DownPayload
      <4>2. Len(part) <= MaxFrame
        <5>1. k <= down.want - Len(down.buf)
          BY <2>1, <3>2
        <5>2. \A b, w, m \in Nat : k <= w - b /\ w <= m => b + k <= m
          BY <2>1
        <5>3. down.want \in Nat /\ down.want <= MaxFrame
          BY <1>2, <1>5
        <5>4. QED
          BY <1>2, <1>5, <2>3, <5>1, <5>2, <5>3
      <4>3. Len(part) > Overhead => Len(UnCompress(part)) <= MaxFrame
        <5>1. Len(part) > Overhead => Len(UnCompress(part)) = Len(part) - Overhead
          BY <2>3, UnCompressType
        <5>2. Len(part) \in Nat
          BY <2>3, LenProperties
        <5>3. QED
          BY <1>5, <4>2, <5>1, <5>2, ConstantTypes
      <4>4. down'.pc = "write" => Len(down'.buf) <= MaxFrame
        <5> HIDE DEF part
        <5>1. down.pc = "payload"
          BY <3>2 DEF DownPayload
        <5>2. QED
          BY <1>5, <4>1, <4>3, <5>1 DEF DownStops, DownType
      <4>5. QED
        BY <1>5, <4>4 DEF DownHeld
    <3>3. QED
      BY <1>6, <3>1, <3>2
  <2>9. QED
    BY <1>3, <2>6, <2>7, <2>8, DownFalls
<1>7. ASSUME NEW k \in Nat, DownWrite(k)
      PROVE  DownLeft' < DownLeft
  <2>1. k \in 1..Len(down.buf)
    <3>1. k \in 1..Lesser(Len(down.buf), Room("Src"))
      BY <1>7 DEF DownWrite
    <3>2. Len(down.buf) \in Int /\ Room("Src") \in Int
      BY <1>2, RoomType DEF Socks
    <3>3. QED
      BY <3>1, <3>2, LesserBound
  <2>2. /\ down.pc = "write" /\ inq' = inq
        /\ \/ down'.pc = "header" /\ k = Len(down.buf)
           \/ down'.pc = "write" /\ down'.buf = Dropped(down.buf, k)
    BY <1>7 DEF DownWrite, netVars, TypeOK
  <2>3. Len(Dropped(down.buf, k)) = Len(down.buf) - k
    <3>1. k \in 0..Len(down.buf)
      BY <1>2, <2>1
    <3>2. QED
      BY <1>2, <3>1, DroppedType
  <2>4. FarLeft' = FarLeft
    BY <1>4, <2>2 DEF FarLeft
  <2>5. DownHeld' < DownHeld
    BY <1>2, <2>1, <2>2, <2>3 DEF DownHeld
  <2>6. QED
    BY <1>3, <2>2, <2>4, <2>5, DownFalls
<1>8. CASE DownReadEnds \/ DownWriteEnds
  <2>1. down.pc # "done" /\ down'.pc = "done"
    BY <1>8 DEF DownReadEnds, DownWriteEnds, DownStops, TypeOK
  <2>2. QED
    BY <1>1, <1>3, <2>1, DownFalls
<1>9. QED
  BY <1>1, <1>6, <1>7, <1>8, ConstantTypes DEF ProxyWrite

LEMMA LeftNumbers ==
  ASSUME VInv
  PROVE  /\ UpLeft \in Nat /\ DownLeft \in Nat
         /\ DownLeft = IF down.pc = "done" THEN 0 ELSE FarLeft * (MaxFrame + 1) + (DownHeld + 1)
<1>1. /\ Unread \in Nat /\ FarLeft \in Nat /\ DownHeld \in Nat /\ Len(up.buf) \in Nat
      /\ MaxFrame + 5 \in Nat /\ MaxFrame + 1 \in Nat
  BY LeftTypes, ConstantTypes
<1>2. Unread * (MaxFrame + 5) \in Nat /\ FarLeft * (MaxFrame + 1) \in Nat
  BY <1>1, Multiples
<1>3. \A p, q \in Nat : p + q + 1 \in Nat /\ p + q + 1 = p + (q + 1)
  OBVIOUS
<1>4. /\ Unread * (MaxFrame + 5) + Len(up.buf) + 1 \in Nat
      /\ FarLeft * (MaxFrame + 1) + DownHeld + 1 \in Nat
      /\ FarLeft * (MaxFrame + 1) + DownHeld + 1 = FarLeft * (MaxFrame + 1) + (DownHeld + 1)
  BY <1>1, <1>2, <1>3
<1>5. DownLeft = IF down.pc = "done" THEN 0 ELSE FarLeft * (MaxFrame + 1) + DownHeld + 1
  BY DEF DownLeft, FarLeft, DownHeld
<1>6. QED
  BY <1>4, <1>5 DEF UpLeft

\* What the endpoints and the destructors do brings no pump further from its end.
LEMMA OthersKeepLeft ==
  ASSUME VInv, VInv', Endpoints \/ (\E s \in Socks : Close(s)) \/ UNCHANGED vars
  PROVE  UpLeft' <= UpLeft /\ DownLeft' <= DownLeft
<1> USE DEF VInv
<1> DEFINE w == 10 + 2 * Overhead
<1>1. up' = up /\ down' = down
  BY DEF Endpoints, Close, ClientSend, FarSend, FarSpoil, FarBreakOff, Fin, Reset, Drain,
         netVars, vars
<1>2. /\ Unread \in Nat /\ FarLeft \in Nat /\ FarUnsent \in Nat /\ DownHeld \in Nat
      /\ Len(up.buf) \in Nat /\ Len(inq["Src"]) \in Nat /\ Len(inq["Dst"]) \in Nat
      /\ Len(sent["Src"]) \in Nat /\ Len(sent["Dst"]) \in Nat
      /\ MaxSend["Src"] \in Nat /\ MaxSend["Dst"] \in Nat
  BY LeftTypes
<1>3. /\ "Src" \in Socks /\ "Dst" \in Socks /\ w \in Nat /\ Overhead \in Nat
      /\ \A s \in Socks : sent[s] \in Seq(Nat) /\ inq[s] \in Seq(Nat)
  BY Fields, ConstantTypes DEF Socks
<1>4. FarLeft' \in Nat
  <2>1. VInv => FarLeft \in Nat
    BY LeftTypes
  <2>2. (VInv => FarLeft \in Nat)'
    BY LeftTypes, PTL
  <2>3. QED
    BY <2>2
<1>5. CASE ClientSend
  <2>1. /\ sent'["Src"] = Append(sent["Src"], Len(sent["Src"]) + 1)
        /\ inq'["Src"] = Append(inq["Src"], Len(sent["Src"]) + 1)
        /\ sent'["Dst"] = sent["Dst"] /\ inq'["Dst"] = inq["Dst"] /\ spoiled' = spoiled
    BY <1>3, <1>5 DEF ClientSend, TypeOK, Socks
  <2>2. Len(sent'["Src"]) = Len(sent["Src"]) + 1 /\ Len(inq'["Src"]) = Len(inq["Src"]) + 1
    <3>1. Len(sent["Src"]) + 1 \in Nat
      BY <1>2
    <3>2. QED
      BY <1>3, <2>1, <3>1, AppendProperties
  <2>3. Unread' = Unread
    <3>1. PICK m, p, q \in Nat : /\ m = MaxSend["Src"] /\ p = Len(sent["Src"])
                                /\ q = Len(inq["Src"])
      BY <1>2
    <3>2. m - ((p + 1) - (q + 1)) = m - (p - q)
      OBVIOUS
    <3>3. QED
      BY <2>2, <3>1, <3>2 DEF Unread
  <2>4. UpLeft' = UpLeft /\ DownLeft' = DownLeft
    BY <1>1, <2>1, <2>3 DEF UpLeft, DownLeft, FarUnsent
  <2>5. QED
    <3>1. UpLeft \in Nat /\ DownLeft \in Nat
      BY LeftNumbers
    <3>2. QED
      BY <2>4, <3>1
<1>6. ASSUME UNCHANGED << sent, inq >>, spoiled' = spoiled
      PROVE  UpLeft' <= UpLeft /\ DownLeft' <= DownLeft
  <2>1. UpLeft' = UpLeft /\ DownLeft' = DownLeft
    BY <1>1, <1>6 DEF UpLeft, DownLeft, Unread, FarUnsent
  <2>2. UpLeft \in Nat /\ DownLeft \in Nat
    BY LeftNumbers
  <2>3. QED
    BY <2>1, <2>2
<1>7. ASSUME NEW t \in Seq(Nat), inq' = [inq EXCEPT !["Dst"] = @ \o t],
             sent'["Src"] = sent["Src"], FarUnsent' + Len(t) <= FarUnsent, FarUnsent' \in Nat
      PROVE  UpLeft' <= UpLeft /\ DownLeft' <= DownLeft
  <2>1. inq'["Src"] = inq["Src"] /\ inq'["Dst"] = inq["Dst"] \o t
    BY <1>3, <1>7 DEF TypeOK, Socks
  <2>2. UpLeft' = UpLeft /\ UpLeft \in Nat
    <3>1. Unread' = Unread
      BY <1>7, <2>1 DEF Unread
    <3>2. UpLeft' = UpLeft
      BY <1>1, <3>1 DEF UpLeft
    <3>3. QED
      BY <3>2, LeftNumbers
  <2>3. FarLeft' <= FarLeft
    <3>1. Len(inq'["Dst"]) = Len(inq["Dst"]) + Len(t) /\ Len(t) \in Nat
      BY <1>3, <2>1, ConcatType, LenProperties
    <3>2. PICK e, f, l, n \in Nat : /\ e = FarUnsent' /\ f = FarUnsent
                                    /\ l = Len(inq["Dst"]) /\ n = Len(t)
      BY <1>2, <1>7, <3>1
    <3>3. e + (l + n) <= f + l
      BY <1>7, <3>2
    <3>4. QED
      BY <3>1, <3>2, <3>3 DEF FarLeft
  <2>4. DownHeld' = DownHeld /\ DownHeld + 1 \in Nat /\ MaxFrame + 1 \in Nat
    BY <1>1, <1>2, ConstantTypes DEF DownHeld
  <2>5. FarLeft' * (MaxFrame + 1) + (DownHeld + 1) <= FarLeft * (MaxFrame + 1) + (DownHeld + 1)
    <3>1. PICK e, f \in Nat : e = FarLeft' /\ f = FarLeft
      BY <1>2, <1>4
    <3>2. DownHeld + 1 <= DownHeld + 1 /\ e <= f
      BY <2>3, <2>4, <3>1
    <3>3. e * (MaxFrame + 1) + (DownHeld + 1) <= f * (MaxFrame + 1) + (DownHeld + 1)
      BY <2>4, <3>2, WeightedLeq
    <3>4. QED
      BY <3>1, <3>3
  <2>6. DownLeft = IF down.pc = "done" THEN 0
                   ELSE FarLeft * (MaxFrame + 1) + (DownHeld + 1)
    BY LeftNumbers
  <2>7. DownLeft' = IF down.pc = "done" THEN 0
                    ELSE FarLeft' * (MaxFrame + 1) + (DownHeld + 1)
    <3>1. VInv => DownLeft = IF down.pc = "done" THEN 0
                             ELSE FarLeft * (MaxFrame + 1) + (DownHeld + 1)
      BY LeftNumbers
    <3>2. (VInv => DownLeft = IF down.pc = "done" THEN 0
                              ELSE FarLeft * (MaxFrame + 1) + (DownHeld + 1))'
      BY <3>1, LeftNumbers, PTL
    <3>3. QED
      BY <1>1, <2>4, <3>2
  <2>8. QED
    BY <2>2, <2>5, <2>6, <2>7
<1>8. ASSUME NEW n \in 1..ReadMax, FarSend(n)
      PROVE  UpLeft' <= UpLeft /\ DownLeft' <= DownLeft
  <2>1. Chunk(n) \in Seq(Nat) /\ Len(Chunk(n)) = n /\ n \in Nat /\ n >= 1
    BY ChunkType, ConstantTypes
  <2>2. Frame(Chunk(n)) \in Seq(Nat) /\ Len(Frame(Chunk(n))) = 4 + n + Overhead
    BY <2>1, FrameType
  <2>3. /\ inq' = [inq EXCEPT !["Dst"] = @ \o Frame(Chunk(n))]
        /\ sent'["Src"] = sent["Src"] /\ sent'["Dst"] = sent["Dst"] \o Chunk(n)
        /\ spoiled = FALSE /\ spoiled' = FALSE
        /\ Len(sent["Dst"]) + n <= MaxSend["Dst"]
    BY <1>3, <1>8 DEF FarSend, TypeOK, Socks
  <2>4. Len(sent'["Dst"]) = Len(sent["Dst"]) + n
    BY <1>3, <2>1, <2>3, ConcatType
  <2>5. PICK a \in Nat : /\ a = MaxSend["Dst"] - (Len(sent["Dst"]) + n)
                         /\ a + n = MaxSend["Dst"] - Len(sent["Dst"])
    <3>1. \A m, l \in Nat : l + n <= m => m - (l + n) \in Nat /\ (m - (l + n)) + n = m - l
      BY <2>1
    <3>2. QED
      BY <1>2, <2>3, <3>1
  <2>6. FarUnsent = (a + n) * w /\ FarUnsent' = a * w
    BY <2>3, <2>4, <2>5 DEF FarUnsent
  <2>7. a * w \in Nat /\ (a + n) * w = a * w + n * w
    BY <1>3, <2>1, Multiples
  <2>8. n * w >= 4 + n + Overhead
    <3>1. PICK d \in Nat : n = d + 1
      <4>1. n - 1 \in Nat /\ n = (n - 1) + 1
        BY <2>1
      <4>2. QED
        BY <4>1
    <3>2. w >= 1 /\ w >= 5 + Overhead
      BY <1>3
    <3> HIDE DEF w
    <3>3. w * d >= d
      BY <1>3, <3>2, Multiples
    <3>4. n * w = d * w + 1 * w /\ 1 * w = w /\ d * w = w * d
      BY <1>3, <3>1, Multiples
    <3>5. d * w \in Nat
      BY <1>3, Multiples
    <3>6. \A x, y, o \in Nat : x >= d /\ y >= 5 + o => x + y >= 4 + (d + 1) + o
      OBVIOUS
    <3>7. d * w + w >= 4 + (d + 1) + Overhead
      BY <1>3, <3>2, <3>3, <3>4, <3>5, <3>6
    <3>8. QED
      BY <3>1, <3>4, <3>7
  <2> HIDE DEF w
  <2>9. FarUnsent' + Len(Frame(Chunk(n))) <= FarUnsent /\ FarUnsent' \in Nat
    <3>1. n * w \in Nat
      BY <1>3, <2>1, Multiples
    <3>2. \A x, y, z \in Nat : y >= z => x + z <= x + y
      OBVIOUS
    <3>3. 4 + n + Overhead \in Nat
      BY <1>3, <2>1
    <3>4. a * w + (4 + n + Overhead) <= a * w + n * w
      BY <2>7, <2>8, <3>1, <3>2, <3>3
    <3>5. QED
      BY <2>2, <2>6, <2>7, <3>4
  <2>10. QED
    BY <1>7, <2>2, <2>3, <2>9
<1>9. ASSUME NEW t \in Seq(Nat), Len(t) <= w, inq' = [inq EXCEPT !["Dst"] = @ \o t],
             sent' = sent, ~spoiled, spoiled' = TRUE, Len(sent["Dst"]) < MaxSend["Dst"]
      PROVE  UpLeft' <= UpLeft /\ DownLeft' <= DownLeft
  <2>1. FarUnsent' = 0
    BY <1>9 DEF FarUnsent
  <2>2. FarUnsent = (MaxSend["Dst"] - Len(sent["Dst"])) * w
    BY <1>9 DEF FarUnsent
  <2> HIDE DEF w
  <2>3. FarUnsent >= w
    <3>1. MaxSend["Dst"] - Len(sent["Dst"]) \in Nat /\ MaxSend["Dst"] - Len(sent["Dst"]) >= 1
      BY <1>2, <1>9
    <3>2. QED
      BY <1>3, <2>2, <3>1, Multiples
  <2>4. FarUnsent' + Len(t) <= FarUnsent
    <3>1. \A x, y \in Nat : x <= w /\ y >= w => 0 + x <= y
      BY <1>3
    <3>2. Len(t) \in Nat
      BY LenProperties
    <3>3. QED
      BY <1>2, <1>9, <2>1, <2>3, <3>1, <3>2
  <2>5. FarUnsent' \in Nat /\ sent'["Src"] = sent["Src"]
    BY <1>9, <2>1
  <2>6. QED
    BY <1>7, <1>9, <2>4, <2>5
<1>10. ASSUME NEW bad \in BadFrames, FarSpoil(bad)
       PROVE  UpLeft' <= UpLeft /\ DownLeft' <= DownLeft
  <2>1. bad \in Seq(Nat) /\ Len(bad) \in Nat /\ Len(bad) <= 5 + Overhead
    BY BadFramesLength
  <2>2. Frame(Chunk(1)) \in Seq(Nat) /\ Len(Frame(Chunk(1))) = 5 + Overhead
    BY OneByteFrame
  <2>3. bad \o Frame(Chunk(1)) \in Seq(Nat)
    BY <2>1, <2>2, ConcatType
  <2>4. Len(bad \o Frame(Chunk(1))) <= w
    <3>1. Len(bad \o Frame(Chunk(1))) = Len(bad) + (5 + Overhead)
      BY <2>1, <2>2, ConcatType
    <3>2. \A l, o \in Nat : l <= 5 + o => l + (5 + o) <= 10 + 2 * o
      OBVIOUS
    <3>3. QED
      BY <1>3, <2>1, <3>1, <3>2
  <2>5. (inq["Dst"] \o bad) \o Frame(Chunk(1)) = inq["Dst"] \o (bad \o Frame(Chunk(1)))
    <3>1. inq["Dst"] \in Seq(Nat)
      BY <1>3
    <3>2. QED
      BY <2>1, <2>2, <3>1, Associative
  <2>6. inq' = [inq EXCEPT !["Dst"] = @ \o (bad \o Frame(Chunk(1)))]
    BY <1>10, <2>5 DEF FarSpoil
  <2>7. sent' = sent /\ ~spoiled /\ spoiled' = TRUE /\ Len(sent["Dst"]) < MaxSend["Dst"]
    BY <1>10 DEF FarSpoil
  <2>8. QED
    BY <1>9, <2>3, <2>4, <2>6, <2>7
<1>11. ASSUME NEW n \in 1..(4 + Overhead), FarBreakOff(n)
       PROVE  UpLeft' <= UpLeft /\ DownLeft' <= DownLeft
  <2>1. Frame(Chunk(1)) \in Seq(Nat) /\ Len(Frame(Chunk(1))) = 5 + Overhead
    BY OneByteFrame
  <2>2. /\ SubSeq(Frame(Chunk(1)), 1, n) \in Seq(Nat)
        /\ Len(SubSeq(Frame(Chunk(1)), 1, n)) = n - 1 + 1
    <3>1. 1 \in Nat \ {0} /\ n \in Nat /\ n <= 5 + Overhead /\ 1 <= n
      BY <1>3
    <3>2. QED
      BY <2>1, <3>1, SubSeqType
  <2>3. Len(SubSeq(Frame(Chunk(1)), 1, n)) <= w
    <3>1. n - 1 + 1 <= 10 + 2 * Overhead
      BY <1>3
    <3>2. QED
      BY <2>2, <3>1
  <2>4. /\ sent' = sent /\ ~spoiled /\ spoiled' = TRUE /\ Len(sent["Dst"]) < MaxSend["Dst"]
        /\ inq' = [inq EXCEPT !["Dst"] = @ \o SubSeq(Frame(Chunk(1)), 1, n)]
    BY <1>11 DEF FarBreakOff
  <2>5. QED
    BY <1>9, <2>2, <2>3, <2>4
<1>12. \/ ClientSend
       \/ \E n \in 1..ReadMax : FarSend(n)
       \/ \E bad \in BadFrames : FarSpoil(bad)
       \/ \E n \in 1..(4 + Overhead) : FarBreakOff(n)
       \/ UNCHANGED << sent, inq >> /\ spoiled' = spoiled
  BY DEF Endpoints, Close, Fin, Reset, Drain, netVars, vars
<1>13. QED
  BY <1>5, <1>6, <1>8, <1>10, <1>11, <1>12

\* Each call of a pump (socks5server.cpp 142-232 and the loops of stream.cpp
\* 25-128 under it) lowers the measure of what is left to it, a natural number,
\* and nothing the other pump, the endpoints or the destructors do raises it: a
\* session makes finitely many calls for what its endpoints send.
THEOREM PumpsAdvanceAlways == Spec => PumpsAdvance
<1>1. Init => VInv
  BY VInvAlways
<1>2. VInv /\ [Next]_vars => VInv'
  BY VInvKept
<1>3. VInv /\ [Next]_vars
        => [/\ UpLeft' <= UpLeft /\ (ProxyRead => UpLeft' < UpLeft)
            /\ DownLeft' <= DownLeft /\ (ProxyWrite => DownLeft' < DownLeft)]_vars
  <2> SUFFICES ASSUME VInv, [Next]_vars
               PROVE  /\ UpLeft' <= UpLeft /\ (ProxyRead => UpLeft' < UpLeft)
                      /\ DownLeft' <= DownLeft /\ (ProxyWrite => DownLeft' < DownLeft)
    OBVIOUS
  <2>1. VInv'
    BY VInvKept
  <2>2. UpLeft \in Nat /\ DownLeft \in Nat
    BY LeftNumbers
  <2>3. UpLeft' \in Nat /\ DownLeft' \in Nat
    <3>1. VInv => UpLeft \in Nat /\ DownLeft \in Nat
      BY LeftNumbers
    <3>2. (VInv => UpLeft \in Nat /\ DownLeft \in Nat)'
      BY <3>1, LeftNumbers, PTL
    <3>3. QED
      BY <2>1, <3>2
  <2>4. ProxyRead => UpLeft' < UpLeft /\ DownLeft' = DownLeft
    BY UpAdvances
  <2>5. ProxyWrite => DownLeft' < DownLeft /\ UpLeft' = UpLeft
    BY <2>1, DownAdvances
  <2>6. ProxyRead \/ ProxyWrite \/ (UpLeft' <= UpLeft /\ DownLeft' <= DownLeft)
    BY <2>1, OthersKeepLeft DEF Next
  <2>7. ~(ProxyRead /\ ProxyWrite)
    BY <2>2, <2>3, <2>4, <2>5
  <2>8. CASE ProxyRead
    BY <2>2, <2>3, <2>4, <2>7, <2>8
  <2>9. CASE ProxyWrite
    BY <2>2, <2>3, <2>5, <2>7, <2>9
  <2>10. CASE ~ProxyRead /\ ~ProxyWrite
    BY <2>6, <2>10
  <2>11. QED
    BY <2>8, <2>9, <2>10
<1>4. QED
  BY <1>1, <1>2, <1>3, PTL DEF Spec, PumpsAdvance
=============================================================================
