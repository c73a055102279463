---------------------------- MODULE DuplexProofs ----------------------------
(***************************************************************************)
(* A session implements the two pipes of Duplex, for every read size, tag  *)
(* length, buffer size and bound: what the far end decodes of what the     *)
(* proxy wrote, and what the client gets of what the far end framed, are   *)
(* prefixes of what the other one sent.                                    *)
(***************************************************************************)
EXTENDS RelayProofs, WellFoundedInduction

-----------------------------------------------------------------------------
(* A set of numbers with 0 and with every successor has all numbers.       *)

LEMMA AllNumbers ==
  ASSUME NEW S, 0 \in S, \A n \in Nat : n \in S => n + 1 \in S
  PROVE  \A n \in Nat : n \in S
<1> DEFINE T == {n \in Nat : n \notin S}
           R == OpToRel(<, Nat)
<1> SUFFICES ASSUME T # {} PROVE FALSE
  OBVIOUS
<1>1. IsWellFoundedOn(R, Nat)
  BY NatLessThanWellFounded
<1>2. \A x, y \in Nat : (<< y, x >> \in R) <=> y < x
  BY DEF OpToRel
<1> HIDE DEF R
<1>3. \E x \in T : \A y \in T : ~(<< y, x >> \in R)
  BY <1>1, WFMin
<1>4. PICK x \in T : \A y \in T : ~(y < x)
  BY <1>2, <1>3
<1>5. x # 0 /\ x - 1 \in Nat /\ x - 1 < x /\ (x - 1) + 1 = x
  BY <1>4
<1>6. x - 1 \in S
  BY <1>4, <1>5
<1>7. QED
  BY <1>4, <1>5, <1>6

-----------------------------------------------------------------------------
(* How the far end decodes.                                                *)

Announced(w, i) == ToInt(SubSeq(w, i, i + 3))
Payload(w, i)   == SubSeq(w, i + 4, i + 3 + Announced(w, i))
After(w, i)     == i + 4 + Announced(w, i)

\* No frame that is whole and acceptable starts at i.
Stops(w, i) == \/ i + 3 > Len(w)
               \/ i + 3 + Announced(w, i) > Len(w)
               \/ Announced(w, i) \notin 1..MaxFrame
               \/ ~Authentic(Payload(w, i))

\* r decodes w from every position from k on.
Decodes(w, k, r) ==
  r = [i \in k..(Len(w) + 1) |-> IF Stops(w, i) THEN <<>>
                                 ELSE UnCompress(Payload(w, i)) \o r[After(w, i)]]

\* One position further to the front.
LEMMA OneMore ==
  ASSUME NEW w \in Seq(Nat), NEW k \in 1..(Len(w) + 1), NEW r, Decodes(w, k + 1, r)
  PROVE  \E q : Decodes(w, k, q)
<1> DEFINE q == [i \in k..(Len(w) + 1) |->
                   IF i = k THEN IF Stops(w, i) THEN <<>>
                                 ELSE UnCompress(Payload(w, i)) \o r[After(w, i)]
                   ELSE r[i]]
<1>1. Len(w) \in Nat /\ k \in Nat /\ MaxFrame \in Nat
  BY LenProperties, ConstantTypes DEF MaxFrame
<1>2. ASSUME NEW i \in k..(Len(w) + 1), ~Stops(w, i)
      PROVE  After(w, i) \in (k + 1)..(Len(w) + 1)
  <2>1. /\ Announced(w, i) \in 1..MaxFrame /\ ~(i + 3 + Announced(w, i) > Len(w))
    BY <1>2 DEF Stops
  <2> DEFINE n == Announced(w, i)
  <2>2. n \in Nat \ {0} /\ ~(i + 3 + n > Len(w)) /\ i \in Nat /\ i >= k
    BY <1>1, <2>1, SMTT(60)
  <2> HIDE DEF n
  <2>3. i + 4 + n \in (k + 1)..(Len(w) + 1)
    BY <1>1, <2>2
  <2>4. QED
    BY <2>3 DEF After, n
<1>3. ASSUME NEW i \in (k + 1)..(Len(w) + 1)
      PROVE  /\ i \in k..(Len(w) + 1) /\ i # k /\ q[i] = r[i]
             /\ r[i] = IF Stops(w, i) THEN <<>>
                       ELSE UnCompress(Payload(w, i)) \o r[After(w, i)]
  <2>1. i \in k..(Len(w) + 1) /\ i # k
    BY <1>1
  <2>2. QED
    BY <2>1, ZenonT(90) DEF Decodes
<1>4. ASSUME NEW i \in k..(Len(w) + 1)
      PROVE  q[i] = IF Stops(w, i) THEN <<>> ELSE UnCompress(Payload(w, i)) \o q[After(w, i)]
  <2>1. CASE i = k
    BY <1>2, <1>3, <2>1, ZenonT(90)
  <2>2. CASE i # k
    <3>1. i \in (k + 1)..(Len(w) + 1)
      BY <1>1, <2>2
    <3>2. QED
      BY <1>2, <1>3, <3>1, ZenonT(90)
  <2>3. QED
    BY <2>1, <2>2
<1>5. Decodes(w, k, q)
  BY <1>4, ZenonT(90) DEF Decodes
<1>6. QED
  BY <1>5, ZenonT(90)

LEMMA DecoderExists ==
  ASSUME NEW w \in Seq(Nat)
  PROVE  \E r : Decodes(w, 1, r)
<1> DEFINE S == {m \in Nat : m <= Len(w) + 1 => \E r : Decodes(w, Len(w) + 2 - m, r)}
<1>1. Len(w) \in Nat
  BY LenProperties
<1>2. 0 \in S
  <2> DEFINE r == [i \in {} |-> <<>>]
  <2>1. (Len(w) + 2)..(Len(w) + 1) = {} /\ Len(w) + 2 - 0 = Len(w) + 2
    BY <1>1
  <2>2. Decodes(w, Len(w) + 2, r)
    BY <2>1, ZenonT(90) DEF Decodes
  <2> HIDE DEF r
  <2>3. QED
    BY <2>1, <2>2
<1>3. ASSUME NEW m \in Nat, m \in S PROVE m + 1 \in S
  <2> SUFFICES ASSUME m + 1 <= Len(w) + 1 PROVE \E r : Decodes(w, Len(w) + 2 - (m + 1), r)
    OBVIOUS
  <2> DEFINE k == Len(w) + 2 - (m + 1)
  <2>1. k \in 1..(Len(w) + 1) /\ k + 1 = Len(w) + 2 - m /\ m <= Len(w) + 1
    BY <1>1
  <2>2. \E r : Decodes(w, k + 1, r)
    BY <1>3, <2>1
  <2> HIDE DEF k
  <2>3. \E r : Decodes(w, k, r)
    BY <2>1, <2>2, OneMore, ZenonT(90)
  <2>4. QED
    BY <2>3 DEF k
<1> HIDE DEF S
<1>4. \A m \in Nat : m \in S
  BY <1>2, <1>3, AllNumbers
<1>5. Len(w) + 1 \in S /\ Len(w) + 2 - (Len(w) + 1) = 1
  BY <1>1, <1>4
<1>6. QED
  BY <1>1, <1>5 DEF S

\* The decoder FarDecode chooses is one.
LEMMA Decoder ==
  ASSUME NEW w \in Seq(Nat)
  PROVE  \E r : Decodes(w, 1, r) /\ FarDecode(w) = r[1]
<1> DEFINE R == CHOOSE r : Decodes(w, 1, r)
<1>1. Decodes(w, 1, R)
  BY DecoderExists, ZenonT(90)
<1>2. FarDecode(w) = R[1]
  BY ZenonT(90) DEF FarDecode, Decodes, Stops, Payload, After, Announced
<1> HIDE DEF R
<1>3. QED
  BY <1>1, <1>2

-----------------------------------------------------------------------------
(* A frame comes apart into what it was made of.                           *)

LEMMA Behind ==
  ASSUME NEW s \in Seq(Nat), NEW t \in Seq(Nat)
  PROVE  SubSeq(s \o t, Len(s) + 1, Len(s \o t)) = t
<1>1. Len(s) \in Nat /\ Len(s) \in 0..Len(s)
  BY LenProperties
<1>2. SubSeq(s \o t, Len(s) + 1, Len(s \o t)) = SubSeq(s, Len(s) + 1, Len(s)) \o t
  BY <1>1, TailGrows
<1>3. SubSeq(s, Len(s) + 1, Len(s)) = <<>>
  BY <1>1, SubSeqEmpty
<1>4. <<>> \o t = t
  BY ConcatEmptySeq
<1>5. QED
  BY <1>2, <1>3, <1>4

LEMMA Before ==
  ASSUME NEW s \in Seq(Nat), NEW t \in Seq(Nat)
  PROVE  SubSeq(s \o t, 1, Len(s)) = s
<1>1. Len(s) \in Nat /\ Len(s) \in 0..Len(s)
  BY LenProperties
<1>2. SubSeq(s \o t, 1, Len(s)) = SubSeq(s, 1, Len(s))
  BY <1>1, SubSeqGrows
<1>3. QED
  BY <1>2, SubSeqFull

Fits(p) == Len(p) + Overhead <= MaxFrame /\ p # <<>>

LEMMA FrameSizes ==
  ASSUME NEW p \in Seq(Nat), Fits(p)
  PROVE  /\ Len(p) \in Nat \ {0} /\ Overhead \in Nat /\ Len(p) + Overhead \in 1..MaxFrame
         /\ ToBytes(Len(p) + Overhead) \in Seq(Nat) /\ Len(ToBytes(Len(p) + Overhead)) = 4
         /\ ToInt(ToBytes(Len(p) + Overhead)) = Len(p) + Overhead
<1>1. /\ Len(p) \in Nat \ {0} /\ Overhead \in Nat /\ MaxFrame \in Nat /\ Len(p) + Overhead \in 1..MaxFrame
  BY LenProperties, EmptySeq, ConstantTypes DEF Fits
<1> DEFINE n == Len(p) + Overhead
<1>2. n \in Nat /\ n <= MaxFrame
  BY <1>1
<1>3. (MaxFrame + 1) \div 65536 < 65536
  BY SlackAssumption DEF MaxFrame
<1> HIDE DEF n
<1>4. n \in UInt32
  BY <1>1, <1>2, <1>3 DEF UInt32
<1>5. ToInt(ToBytes(n)) = n
  BY <1>4, IntRoundTrip
<1>6. ToBytes(n) \in Seq(Nat) /\ Len(ToBytes(n)) = 4
  <2>1. Byte \subseteq Nat
    BY ByteRange
  <2>2. QED
    BY <1>2, <2>1, ToBytesType, SeqMonotonic
<1>7. QED
  BY <1>1, <1>5, <1>6 DEF n

LEMMA FrameApart ==
  ASSUME NEW p \in Seq(Nat), Fits(p)
  PROVE  /\ SubSeq(Frame(p), 1, 4) = ToBytes(Len(p) + Overhead)
         /\ SubSeq(Frame(p), 5, 4 + Len(p) + Overhead) = Compress(p)
<1> DEFINE h == ToBytes(Len(p) + Overhead)
           c == Compress(p)
<1>1. h \in Seq(Nat) /\ Len(h) = 4
  BY FrameSizes
<1>2. c \in Seq(Nat)
  BY CompressType
<1>3. Len(Frame(p)) = 4 + Len(p) + Overhead
  BY FrameType
<1>4. Frame(p) = h \o c
  BY DEF Frame
<1> HIDE DEF h, c
<1>5. SubSeq(h \o c, 1, Len(h)) = h /\ SubSeq(h \o c, Len(h) + 1, Len(h \o c)) = c
  BY <1>1, <1>2, Before, Behind
<1>6. Len(h) + 1 = 5
  BY <1>1
<1>7. QED
  BY <1>1, <1>3, <1>4, <1>5, <1>6 DEF h, c

LEMMA CompressApart ==
  ASSUME NEW p \in Seq(Nat)
  PROVE  Authentic(Compress(p)) /\ UnCompress(Compress(p)) = p
<1>1. Tag \in Seq(Nat) /\ Len(Tag) = Overhead /\ Overhead \in Nat /\ Len(p) \in Nat
  BY TagType, ConstantTypes, LenProperties
<1> DEFINE c == p \o Tag
<1>2. Len(c) = Len(p) + Len(Tag)
  BY <1>1, ConcatType
<1>3. SubSeq(c, Len(p) + 1, Len(c)) = Tag /\ SubSeq(c, 1, Len(p)) = p
  BY <1>1, Before, Behind
<1> HIDE DEF c
<1>4. Len(c) >= Overhead /\ Len(c) - Overhead = Len(p)
  BY <1>1, <1>2
<1>5. QED
  BY <1>3, <1>4 DEF Authentic, UnCompress, Compress, c

LEMMA Within ==
  ASSUME NEW s \in Seq(Nat), NEW i \in 1..Len(s), NEW j \in 1..Len(s),
         NEW m \in 1..(j - i + 1), NEW n \in 1..(j - i + 1)
  PROVE  SubSeq(SubSeq(s, i, j), m, n) = SubSeq(s, i + m - 1, i + n - 1)
  BY SubSeqOfSubSeq

\* Frame p stands in w from i to b.
Stands(w, i, b, p) == SubSeq(w, i, b) = Frame(p)

\* What is found where frame p stands.
LEMMA FrameFound ==
  ASSUME NEW w \in Seq(Nat), NEW p \in Seq(Nat), Fits(p),
         NEW i \in Nat \ {0}, NEW b \in 0..Len(w), Stands(w, i, b, p)
  PROVE  /\ b = i + 3 + Len(p) + Overhead
         /\ Announced(w, i) = Len(p) + Overhead
         /\ Payload(w, i) = Compress(p)
         /\ ~Stops(w, i) /\ After(w, i) = b + 1
<1>1. /\ Len(p) \in Nat \ {0} /\ Overhead \in Nat /\ Len(p) + Overhead \in 1..MaxFrame
      /\ ToInt(ToBytes(Len(p) + Overhead)) = Len(p) + Overhead
      /\ Len(w) \in Nat /\ b \in Nat
  BY FrameSizes, LenProperties
<1>2. Len(Frame(p)) = 4 + Len(p) + Overhead
  BY FrameType
<1>3. b = i + 3 + Len(p) + Overhead
  <2>1. Len(SubSeq(w, i, b)) = IF i <= b THEN b - i + 1 ELSE 0
    <3>1. b \in Nat /\ b <= Len(w)
      BY <1>1
    <3>2. QED
      BY <3>1, SubSeqType, ZenonT(90)
  <2> DEFINE l == Len(SubSeq(w, i, b))
  <2>2. l = 4 + Len(p) + Overhead /\ l = IF i <= b THEN b - i + 1 ELSE 0
    BY <1>2, <2>1 DEF Stands
  <2> HIDE DEF l
  <2> DEFINE n == Len(p)
  <2>3. n \in Nat \ {0} /\ Overhead \in Nat /\ b \in Nat /\ l = 4 + n + Overhead
    BY <1>1, <2>2
  <2> HIDE DEF n
  <2>4. b = i + 3 + n + Overhead
    BY <2>2, <2>3
  <2>5. QED
    BY <2>4 DEF n
<1>4. SubSeq(w, i, i + 3) = ToBytes(Len(p) + Overhead)
  <2>1. /\ i \in 1..Len(w) /\ b \in i..Len(w) /\ b \in 1..Len(w)
        /\ 1 \in 1..(b - i + 1) /\ 4 \in 1..(b - i + 1)
        /\ i + 1 - 1 = i /\ i + 4 - 1 = i + 3
    BY <1>1, <1>3
  <2>2. SubSeq(SubSeq(w, i, b), 1, 4) = SubSeq(w, i + 1 - 1, i + 4 - 1)
    BY <2>1, SubSeqOfSubSeq
  <2>3. QED
    BY <2>1, <2>2, FrameApart DEF Stands
<1>5. Announced(w, i) = Len(p) + Overhead
  BY <1>1, <1>4 DEF Announced
<1>6. Payload(w, i) = Compress(p)
  <2> DEFINE n == Len(p) + Overhead
  <2>1. /\ i \in 1..Len(w) /\ b \in 1..Len(w)
        /\ 5 \in 1..(b - i + 1) /\ 4 + Len(p) + Overhead \in 1..(b - i + 1)
        /\ i + 5 - 1 = i + 4 /\ i + (4 + Len(p) + Overhead) - 1 = i + 3 + n
    BY <1>1, <1>3
  <2>2. SubSeq(SubSeq(w, i, b), 5, 4 + Len(p) + Overhead)
        = SubSeq(w, i + 5 - 1, i + (4 + Len(p) + Overhead) - 1)
    BY <2>1, Within, ZenonT(90)
  <2>3. QED
    BY <1>5, <2>1, <2>2, FrameApart DEF Payload, Stands
<1>7. ~Stops(w, i)
  <2>1. ~(i + 3 > Len(w)) /\ ~(i + 3 + Announced(w, i) > Len(w))
    BY <1>1, <1>3, <1>5
  <2>2. Authentic(Payload(w, i))
    BY <1>6, CompressApart
  <2>3. QED
    BY <1>1, <1>5, <2>1, <2>2 DEF Stops
<1>8. After(w, i) = b + 1
  BY <1>1, <1>3, <1>5 DEF After
<1>9. QED
  BY <1>3, <1>5, <1>6, <1>7, <1>8

\* The beginning of a frame that is not all there is not decoded.
LEMMA PartStops ==
  ASSUME NEW w \in Seq(Nat), NEW p \in Seq(Nat), Fits(p), NEW m \in 0..Len(w),
         NEW rest \in Seq(Nat), rest # <<>>, Dropped(w, m) \o rest = Frame(p)
  PROVE  Stops(w, m + 1)
<1>1. /\ Len(p) \in Nat \ {0} /\ Overhead \in Nat
      /\ ToInt(ToBytes(Len(p) + Overhead)) = Len(p) + Overhead
      /\ Len(w) \in Nat /\ m \in Nat
      /\ Len(rest) \in Nat \ {0}
  BY FrameSizes, LenProperties, EmptySeq
<1> DEFINE t == Dropped(w, m)
<1>2. t \in Seq(Nat) /\ Len(t) = Len(w) - m
  BY DroppedType
<1>3. Len(t) + Len(rest) = 4 + Len(p) + Overhead
  BY <1>2, ConcatType, FrameType, ZenonT(90)
<1>4. CASE m + 1 + 3 > Len(w)
  BY <1>4 DEF Stops
<1>5. CASE ~(m + 1 + 3 > Len(w))
  <2>1. 4 \in 0..Len(t) /\ 4 \in 0..(Len(w) - m) /\ 1 \in Nat \ {0}
    BY <1>1, <1>2, <1>5
  <2>2. SubSeq(t, 1, 4) = SubSeq(w, m + 1, m + 4)
    BY <2>1, SubSeqOfDropped, ZenonT(90)
  <2>3. SubSeq(t \o rest, 1, 4) = SubSeq(t, 1, 4)
    <3> HIDE DEF t
    <3>1. QED
      BY <1>2, <2>1, SubSeqGrows, ZenonT(90)
  <2>4. SubSeq(w, m + 1, m + 4) = ToBytes(Len(p) + Overhead)
    BY <2>2, <2>3, FrameApart
  <2>5. (m + 1) + 3 = m + 4
    BY <1>1
  <2>6. Announced(w, m + 1) = Len(p) + Overhead
    BY <1>1, <2>4, <2>5 DEF Announced
  <2>7. m + 1 + 3 + Announced(w, m + 1) > Len(w)
    BY <1>1, <1>2, <1>3, <2>6
  <2>8. QED
    BY <2>7 DEF Stops
<1>6. QED
  BY <1>4, <1>5

-----------------------------------------------------------------------------
(* The upstream pipe.  Behind the last cut there is never a whole frame:   *)
(* a send that fails, or a reset, ends proxy_read.                         *)

Unfinished ==
  \E p, rest \in Seq(Nat) :
    Fits(p) /\ rest # <<>> /\ Dropped(wrote["Dst"], LastCut.wire) \o rest = Frame(p)

\* The place where frame i + 1 starts.
Cut(i) == IF i = 0 THEN [wire |-> 0, plain |-> 0] ELSE cuts[i]

UpInv ==
  /\ up.pc = "write" => up.buf # <<>>
  /\ up.pc = "done" => Unfinished
  /\ up.clean => up.pc = "done" /\ "Src" \in fin /\ Forwarded = sent["Src"]

LEMMA CutTypes ==
  ASSUME IInv
  PROVE  /\ Len(cuts) \in Nat
         /\ \A i \in 0..Len(cuts) : Cut(i) \in [wire : Nat, plain : Nat]
         /\ \A i \in 1..Len(cuts) : Start(i) = Cut(i - 1) /\ i - 1 \in 0..Len(cuts)
         /\ LastCut = Cut(Len(cuts)) /\ LastCut \in [wire : Nat, plain : Nat]
         /\ LastCut.wire \in 0..Len(wrote["Dst"]) /\ LastCut.plain \in 0..Len(sent["Src"])
         /\ sent["Src"] \in Seq(Nat) /\ wrote["Dst"] \in Seq(Nat)
         /\ Len(sent["Src"]) \in Nat /\ Len(wrote["Dst"]) \in Nat
<1>1. /\ cuts \in Seq([wire : Nat, plain : Nat]) /\ Len(cuts) \in Nat
      /\ LastCut \in [wire : Nat, plain : Nat]
      /\ \A i \in 1..Len(cuts) : cuts[i] \in [wire : Nat, plain : Nat]
  BY CutFields DEF IInv, TypeOK
<1>2. \A i \in 0..Len(cuts) : Cut(i) \in [wire : Nat, plain : Nat]
  BY <1>1 DEF Cut
<1>3. ASSUME NEW i \in 1..Len(cuts)
      PROVE  Start(i) = Cut(i - 1) /\ i - 1 \in 0..Len(cuts)
  BY <1>1 DEF Start, Cut
<1>4. LastCut = Cut(Len(cuts))
  <2>1. cuts = <<>> <=> Len(cuts) = 0
    BY <1>1, EmptySeq
  <2>2. QED
    BY <2>1 DEF LastCut, Cut
<1>5. sent["Src"] \in Seq(Nat) /\ wrote["Dst"] \in Seq(Nat)
  BY Fields DEF Socks, IInv
<1>6. Len(sent["Src"]) \in Nat /\ Len(wrote["Dst"]) \in Nat
  BY <1>5, LenProperties
<1>7. Consumed \in 0..Len(sent["Src"])
  BY ConsumedRange DEF IInv
<1>8. LastCut.wire <= Len(wrote["Dst"]) /\ LastCut.plain <= Consumed
  BY DEF IInv, InHand
<1>9. LastCut.wire \in 0..Len(wrote["Dst"]) /\ LastCut.plain \in 0..Len(sent["Src"])
  BY <1>1, <1>6, <1>7, <1>8
<1>10. QED
  BY <1>1, <1>2, <1>3, <1>4, <1>5, <1>6, <1>9

\* In the other two states it follows from what is in hand.
LEMMA AlwaysUnfinished ==
  ASSUME IInv, UpInv
  PROVE  Unfinished
<1>1. up.pc \in {"read", "write", "done"}
  BY DEF IInv, TypeOK
<1>2. CASE up.pc = "read"
  <2> DEFINE p == << 1 >>
  <2>1. p \in Seq(Nat) /\ Len(p) = 1 /\ p # <<>>
    OBVIOUS
  <2>2. Fits(p)
    BY <2>1, ConstantTypes DEF Fits
  <2>3. Frame(p) \in Seq(Nat) /\ Frame(p) # <<>>
    <3>1. Frame(p) \in Seq(Nat) /\ Len(Frame(p)) = 4 + Len(p) + Overhead
      BY <2>1, FrameType
    <3>2. 4 + Len(p) + Overhead # 0
      BY <2>1, ConstantTypes
    <3>3. QED
      BY <3>1, <3>2, EmptySeq
  <2> HIDE DEF p
  <2>4. Dropped(wrote["Dst"], LastCut.wire) = <<>>
    <3>1. LastCut.wire = Len(wrote["Dst"]) /\ Len(wrote["Dst"]) \in Nat
      BY <1>2, CutTypes DEF IInv, InHand
    <3>2. SubSeq(wrote["Dst"], Len(wrote["Dst"]) + 1, Len(wrote["Dst"])) = <<>>
      BY <3>1, SubSeqEmpty
    <3>3. QED
      BY <3>1, <3>2 DEF Dropped
  <2>5. <<>> \o Frame(p) = Frame(p)
    BY <2>3, ConcatEmptySeq
  <2>6. QED
    BY <2>1, <2>2, <2>3, <2>4, <2>5 DEF Unfinished
<1>3. CASE up.pc = "write"
  <2> DEFINE p == SubSeq(sent["Src"], LastCut.plain + 1, Consumed)
  <2>1. /\ Consumed - LastCut.plain \in 1..ReadMax
        /\ Dropped(wrote["Dst"], LastCut.wire) \o up.buf = Frame(p)
    BY <1>3 DEF IInv, InHand
  <2>2. up.buf \in Seq(Nat) /\ up.buf # <<>>
    BY <1>3 DEF IInv, TypeOK, UpInv
  <2>3. p \in Seq(Nat) /\ Len(p) = Consumed - LastCut.plain
    <3> DEFINE c == Consumed
               l == LastCut.plain
               n == Len(sent["Src"])
    <3>1. /\ c \in 0..n /\ l \in Nat /\ n \in Nat /\ c - l \in 1..ReadMax /\ ReadMax \in Nat
          /\ sent["Src"] \in Seq(Nat)
      BY <2>1, ConsumedRange, CutTypes, ConstantTypes DEF IInv
    <3> HIDE DEF c, l, n
    <3>2. /\ l + 1 \in Nat \ {0} /\ c \in Nat /\ c <= n
          /\ l + 1 <= c /\ c - (l + 1) + 1 = c - l
      BY <3>1
    <3>3. SubSeq(sent["Src"], l + 1, c) \in Seq(Nat) /\ Len(SubSeq(sent["Src"], l + 1, c)) = c - l
      BY <3>1, <3>2, SubSeqType DEF n
    <3>4. QED
      BY <3>3 DEF c, l
  <2> HIDE DEF p
  <2>4. Fits(p)
    BY <2>1, <2>3, ConstantTypes, EmptySeq DEF Fits
  <2>5. QED
    BY <2>1, <2>2, <2>3, <2>4 DEF Unfinished
<1>4. CASE up.pc = "done"
  BY <1>4 DEF UpInv
<1>5. QED
  BY <1>1, <1>2, <1>3, <1>4

\* What the far end decodes is what was cut into whole frames.
LEMMA ForwardedIs ==
  ASSUME IInv, Unfinished
  PROVE  Forwarded = SubSeq(sent["Src"], 1, LastCut.plain)
<1> DEFINE w == wrote["Dst"]
           s == sent["Src"]
           N == Len(cuts)
           L == LastCut.plain
<1>1. /\ w \in Seq(Nat) /\ s \in Seq(Nat) /\ N \in Nat /\ L \in 0..Len(s)
      /\ Len(s) \in Nat /\ Len(w) \in Nat /\ LastCut.wire \in 0..Len(w)
      /\ LastCut = Cut(N)
      /\ \A i \in 0..N : Cut(i) \in [wire : Nat, plain : Nat]
  BY CutTypes
<1>2. PICK r : Decodes(w, 1, r) /\ FarDecode(w) = r[1]
  BY <1>1, Decoder
<1>3. ASSUME NEW i \in 1..(Len(w) + 1)
      PROVE  r[i] = IF Stops(w, i) THEN <<>> ELSE UnCompress(Payload(w, i)) \o r[After(w, i)]
  BY <1>2, <1>3, ZenonT(90) DEF Decodes
<1> DEFINE Right(i) == Cut(i).plain <= L /\ r[Cut(i).wire + 1] = SubSeq(s, Cut(i).plain + 1, L)
           S == {m \in Nat : m <= N => Right(N - m)}
<1>4. Right(N)
  <2>1. Stops(w, LastCut.wire + 1)
    <3>1. PICK p, rest \in Seq(Nat) : Fits(p) /\ rest # <<>> /\ Dropped(w, LastCut.wire) \o rest = Frame(p)
      BY DEF Unfinished
    <3>2. QED
      BY <1>1, <3>1, PartStops
  <2>2. LastCut.wire + 1 \in 1..(Len(w) + 1)
    BY <1>1
  <2>3. r[LastCut.wire + 1] = <<>>
    BY <1>3, <2>1, <2>2
  <2>4. SubSeq(s, L + 1, L) = <<>>
    BY <1>1, SubSeqEmpty
  <2>5. L <= L
    BY <1>1
  <2>6. QED
    BY <1>1, <2>3, <2>4, <2>5
<1>5. ASSUME NEW j \in 1..N, Right(j)
      PROVE  Right(j - 1)
  <2> DEFINE from == Cut(j - 1)
             to   == Cut(j)
             p    == SubSeq(s, from.plain + 1, to.plain)
  <2>1. /\ to.plain \in (from.plain + 1)..Len(s)
        /\ to.plain - from.plain + Overhead <= MaxFrame
        /\ to.wire \in 1..Len(w)
        /\ SubSeq(w, from.wire + 1, to.wire) = Frame(p)
    <3>1. FrameAt(j) /\ Start(j) = from /\ cuts[j] = to
      BY CutTypes DEF IInv, FramesWhole, Cut
    <3>2. QED
      BY <3>1 DEF FrameAt
  <2>2. /\ from.plain \in Nat /\ from.wire \in Nat /\ to.plain \in Nat /\ to.wire \in Nat
    <3>1. j \in 0..N /\ j - 1 \in 0..N
      BY <1>1
    <3>2. QED
      BY <1>1, <3>1
  <2> DEFINE fp == from.plain
             fw == from.wire
             tp == to.plain
             tw == to.wire
  <2>3. /\ fp \in Nat /\ fw \in Nat /\ tp \in (fp + 1)..Len(s) /\ tw \in 1..Len(w)
        /\ tp - fp + Overhead <= MaxFrame
    BY <2>1, <2>2
  <2>4. tp <= L /\ r[tw + 1] = SubSeq(s, tp + 1, L)
    BY <1>5
  <2> HIDE DEF fp, fw, tp, tw
  <2>5. p \in Seq(Nat) /\ Len(p) = tp - fp
    <3>1. fp + 1 \in Nat \ {0} /\ tp \in Nat /\ tp <= Len(s) /\ fp + 1 <= tp /\ tp - (fp + 1) + 1 = tp - fp
      BY <1>1, <2>3
    <3>2. SubSeq(s, fp + 1, tp) \in Seq(Nat) /\ Len(SubSeq(s, fp + 1, tp)) = tp - fp
      BY <1>1, <3>1, SubSeqType
    <3>3. QED
      BY <3>2 DEF fp, tp
  <2>6. Fits(p)
    <3>1. tp - fp # 0
      BY <1>1, <2>3
    <3>2. QED
      BY <2>3, <2>5, <3>1, EmptySeq DEF Fits
  <2>7. Stands(w, fw + 1, tw, p)
    BY <2>1 DEF Stands, fw, tw
  <2> HIDE DEF p
  <2>8. /\ Payload(w, fw + 1) = Compress(p) /\ ~Stops(w, fw + 1) /\ After(w, fw + 1) = tw + 1
        /\ tw = (fw + 1) + 3 + Len(p) + Overhead
    <3>1. fw + 1 \in Nat \ {0} /\ tw \in 0..Len(w)
      BY <1>1, <2>3
    <3>2. w \in Seq(Nat) /\ p \in Seq(Nat) /\ Stands(w, fw + 1, tw, p)
      BY <1>1, <2>5, <2>7
    <3> DEFINE i == fw + 1
    <3> HIDE DEF w, i
    <3>3. i \in Nat \ {0} /\ Stands(w, i, tw, p)
      BY <3>1, <3>2 DEF i
    <3>4. /\ tw = i + 3 + Len(p) + Overhead /\ Payload(w, i) = Compress(p)
          /\ ~Stops(w, i) /\ After(w, i) = tw + 1
      BY <2>6, <3>1, <3>2, <3>3, FrameFound, ZenonT(90)
    <3>5. QED
      BY <3>4 DEF i
  <2>9. fw + 1 \in 1..(Len(w) + 1)
    <3> DEFINE n == Len(p)
               e == Len(w)
    <3>1. /\ fw \in Nat /\ tw \in 1..e /\ n \in Nat /\ e \in Nat /\ Overhead \in Nat
          /\ tw = (fw + 1) + 3 + n + Overhead
      BY <1>1, <2>3, <2>5, <2>8, LenProperties, ConstantTypes
    <3> HIDE DEF n, e
    <3>2. fw + 1 \in 1..(e + 1)
      BY <3>1
    <3>3. QED
      BY <3>2 DEF e
  <2>10. r[fw + 1] = p \o SubSeq(s, tp + 1, L)
    BY <1>3, <2>4, <2>5, <2>8, <2>9, CompressApart
  <2>11. SubSeq(s, fp + 1, tp) \o SubSeq(s, tp + 1, L) = SubSeq(s, fp + 1, L)
    <3> DEFINE e == Len(s)
    <3> HIDE DEF L
    <3>1. fp \in Nat /\ tp \in (fp + 1)..e /\ L \in 0..e /\ e \in Nat /\ tp <= L
      BY <1>1, <2>3, <2>4
    <3> HIDE DEF e
    <3>2. fp + 1 \in 1..(e + 1) /\ tp \in (fp + 1) - 1..e /\ L \in tp..e
      BY <3>1
    <3>3. QED
      BY <1>1, <3>2, ConcatAdjacentSubSeq, ZenonT(90) DEF e
  <2>12. fp <= L
    BY <1>1, <2>3, <2>4
  <2>13. QED
    BY <2>10, <2>11, <2>12 DEF p, fp, tp, fw
<1> HIDE DEF Right
<1>6. \A m \in Nat : m \in S
  <2>1. 0 \in S
    <3>1. N - 0 = N
      BY <1>1
    <3>2. QED
      BY <1>4, <3>1
  <2>2. ASSUME NEW m \in Nat, m \in S
        PROVE  m + 1 \in S
    <3> SUFFICES ASSUME m + 1 <= N PROVE Right(N - (m + 1))
      OBVIOUS
    <3>1. m <= N /\ N - m \in 1..N /\ (N - m) - 1 = N - (m + 1)
      BY <1>1
    <3>2. Right(N - m)
      BY <2>2, <3>1
    <3>3. QED
      BY <1>5, <3>1, <3>2
  <2> HIDE DEF S
  <2>3. QED
    BY <2>1, <2>2, AllNumbers
<1>7. Right(0)
  <2>1. N - N = 0 /\ N <= N
    BY <1>1
  <2>2. QED
    BY <1>1, <1>6, <2>1
<1>8. r[1] = SubSeq(s, 1, L)
  <2>1. Cut(0) = [wire |-> 0, plain |-> 0]
    BY DEF Cut
  <2>2. QED
    BY <1>7, <2>1 DEF Right
<1>9. QED
  BY <1>2, <1>8 DEF Forwarded

\* The part of the wire that is not decoded yet depends on three variables only.
LEMMA UpSame ==
  ASSUME wrote'["Dst"] = wrote["Dst"]
  PROVE  Forwarded' = Forwarded /\ (cuts' = cuts /\ Unfinished => Unfinished')
<1>1. Forwarded' = FarDecode(wrote'["Dst"])
  BY ZenonT(90) DEF Forwarded, FarDecode, Authentic, UnCompress, Tag
<1>2. Forwarded' = Forwarded
  BY <1>1 DEF Forwarded
<1>3. ASSUME cuts' = cuts, Unfinished
      PROVE  Unfinished'
  <2>1. LastCut' = LastCut
    BY <1>3 DEF LastCut
  <2>2. PICK p, rest \in Seq(Nat) :
          Fits(p) /\ rest # <<>> /\ Dropped(wrote["Dst"], LastCut.wire) \o rest = Frame(p)
    BY <1>3 DEF Unfinished
  <2>3. Fits(p)' /\ Frame(p)' = Frame(p)
    BY <2>2 DEF Fits, Frame, Compress
  <2>4. QED
    BY <2>1, <2>2, <2>3 DEF Unfinished, Fits, Frame, Compress
<1>4. QED
  BY <1>2, <1>3

LEMMA UpInvInit == Init => UpInv
  BY DEF Init, UpInv

LEMMA UpInvNext ==
  ASSUME IInv, UpInv, [Next]_vars
  PROVE  UpInv'
<1>1. ASSUME NEW k \in 1..ReadMax, UpRead(k) PROVE UpInv'
  <2>1. inq["Src"] \in Seq(Nat) /\ k \in 0..Len(inq["Src"])
    <3>1. inq["Src"] \in Seq(Nat) /\ Len(inq["Src"]) \in Nat /\ ReadMax \in Nat /\ k \in Nat
      BY Fields, LenProperties, ConstantTypes DEF IInv, Socks
    <3>2. k \in 1..Lesser(ReadMax, Len(inq["Src"]))
      BY <1>1 DEF UpRead
    <3>3. QED
      BY <3>1, <3>2, LesserBound
  <2>2. Received("Src", k) \in Seq(Nat)
    BY <2>1, ReceivedType DEF IInv, Socks
  <2>3. Frame(Received("Src", k)) # <<>>
    <3> DEFINE p == Received("Src", k)
               n == Len(p)
    <3>1. n \in Nat /\ Overhead \in Nat /\ Frame(p) \in Seq(Nat) /\ Len(Frame(p)) = 4 + n + Overhead
      BY <2>2, FrameType, LenProperties, ConstantTypes
    <3> HIDE DEF p, n
    <3>2. 4 + n + Overhead # 0
      BY <3>1
    <3>3. QED
      BY <3>1, <3>2, EmptySeq DEF p
  <2>4. up' = [up EXCEPT !.pc = "write", !.buf = Frame(Received("Src", k))] /\ up.pc = "read"
    BY <1>1 DEF UpRead
  <2>5. up'.pc = "write" /\ up'.buf = Frame(Received("Src", k)) /\ up'.clean = up.clean
    BY <2>4 DEF IInv, TypeOK
  <2>6. QED
    BY <2>3, <2>4, <2>5 DEF UpInv
<1>2. ASSUME NEW k \in 1..(4 + MaxFrame), UpWrite(k) PROVE UpInv'
  <2> DEFINE b == Len(up.buf)
  <2>1. up.buf \in Seq(Nat) /\ b \in Nat /\ k \in 1..b
    <3>1. up.buf \in Seq(Nat) /\ b \in Nat /\ Room("Dst") \in Int /\ k \in Nat
      BY Fields, LenProperties, RoomType, ConstantTypes DEF IInv, Socks
    <3>2. k \in 1..Lesser(b, Room("Dst"))
      BY <1>2 DEF UpWrite
    <3>3. QED
      BY <3>1, <3>2, LesserBound
  <2>2. up'.pc = (IF k = b THEN "read" ELSE "write") /\ up'.buf = Dropped(up.buf, k)
        /\ up'.clean = up.clean /\ up.pc = "write"
    BY <1>2 DEF UpWrite, IInv, TypeOK
  <2>3. k # b => Dropped(up.buf, k) # <<>>
    <3>1. k \in 0..Len(up.buf)
      BY <2>1
    <3>2. Dropped(up.buf, k) \in Seq(Nat) /\ Len(Dropped(up.buf, k)) = b - k
      BY <2>1, <3>1, DroppedType
    <3> HIDE DEF b
    <3>3. k # b => b - k # 0
      BY <2>1
    <3>4. QED
      BY <3>2, <3>3, EmptySeq
  <2>4. QED
    BY <2>2, <2>3 DEF UpInv
<1>3. CASE UpReadEnds
  <2>1. /\ up.pc = "read" /\ up'.pc = "done" /\ up'.clean = AtEOF("Src")
        /\ wrote' = wrote /\ cuts' = cuts /\ fin' = fin /\ sent' = sent
    BY <1>3 DEF UpReadEnds, IInv, TypeOK, netVars
  <2>2. Unfinished /\ Unfinished' /\ Forwarded' = Forwarded
    BY <2>1, AlwaysUnfinished, UpSame
  <2>3. ASSUME AtEOF("Src") PROVE Forwarded = sent["Src"]
    <3>1. LastCut.plain = Consumed
      BY <2>1 DEF IInv, InHand
    <3>2. Len(inq["Src"]) = 0
      BY <2>3 DEF AtEOF
    <3>3. Consumed = Len(sent["Src"])
      BY <3>2, CutTypes DEF Consumed
    <3>4. Forwarded = SubSeq(sent["Src"], 1, Len(sent["Src"]))
      BY <2>2, <3>1, <3>3, ForwardedIs
    <3>5. QED
      BY <3>4, CutTypes, SubSeqFull
  <2>4. QED
    BY <2>1, <2>2, <2>3 DEF UpInv, AtEOF
<1>4. CASE UpWriteEnds
  <2>1. /\ up.pc = "write" /\ up'.pc = "done" /\ up'.clean = up.clean
        /\ wrote' = wrote /\ cuts' = cuts
    BY <1>4 DEF UpWriteEnds, IInv, TypeOK, netVars
  <2>2. Unfinished'
    BY <2>1, AlwaysUnfinished, UpSame
  <2>3. QED
    BY <2>1, <2>2 DEF UpInv
<1>5. ASSUME up' = up, cuts' = cuts, wrote'["Dst"] = wrote["Dst"], fin \subseteq fin',
             sent'["Src"] = sent["Src"] \/ "Src" \notin fin
      PROVE  UpInv'
  <2>1. Forwarded' = Forwarded /\ (Unfinished => Unfinished')
    BY <1>5, UpSame
  <2>2. QED
    BY <1>5, <2>1 DEF UpInv
<1>6. CASE ClientSend
  BY <1>5, <1>6 DEF ClientSend, CanSend
<1>7. CASE ProxyWrite
  BY <1>5, <1>7 DEF ProxyWrite, DownHeader, DownPayload, DownWrite, DownReadEnds, DownWriteEnds,
                    IInv, TypeOK, Socks, netVars
<1>8. CASE \E s \in Socks : Close(s) \/ Fin(s) \/ Reset(s) \/ Drain(s)
  BY <1>5, <1>8 DEF Close, Fin, Reset, Drain, netVars
<1>9. CASE \/ \E n \in 1..ReadMax : FarSend(n)
           \/ \E bad \in BadFrames : FarSpoil(bad)
           \/ \E n \in 1..(4 + Overhead) : FarBreakOff(n)
  BY <1>5, <1>9 DEF FarSend, FarSpoil, FarBreakOff, IInv, TypeOK, Socks
<1>10. CASE UNCHANGED vars
  BY <1>5, <1>10 DEF vars
<1>11. QED
  BY <1>1, <1>2, <1>3, <1>4, <1>6, <1>7, <1>8, <1>9, <1>10 DEF Next, ProxyRead, Endpoints

-----------------------------------------------------------------------------
(* The downstream pipe.  What the far end has sent in all is T: N frames,  *)
(* the i-th one ending at W[i] on the wire and at P[i] in its plaintext,   *)
(* and behind them nothing, or something proxy_write refuses.  proxy_write *)
(* has received c bytes of it and is working on frame j + 1.               *)

\* What starts at i is not a frame proxy_write accepts, or there is nothing.
Refused(T, i) == Stops(T, i) \/ Announced(T, i) <= Overhead

FarFrame(T, W, P, S, i) ==
  /\ P[i] \in (P[i - 1] + 1)..Len(S)
  /\ P[i] - P[i - 1] + Overhead <= MaxFrame
  /\ W[i] \in 1..Len(T)
  /\ Stands(T, W[i - 1] + 1, W[i], SubSeq(S, P[i - 1] + 1, P[i]))

\* S is the plaintext of those frames; only what was spoiled goes on behind them.
FarStream(T, N, W, P, S, bad) ==
  /\ W[0] = 0 /\ P[0] = 0
  /\ P[N] = Len(S) /\ W[N] \in 0..Len(T)
  /\ \A i \in 1..N : FarFrame(T, W, P, S, i)
  /\ ~bad => W[N] = Len(T)
  /\ Refused(T, W[N] + 1)

DownAt(T, W, P, j, c) ==
  /\ inq["Dst"] = Dropped(T, c)
  /\ down.pc = "header" =>
       /\ W[j] <= c /\ down.buf = SubSeq(T, W[j] + 1, c)
       /\ wrote["Src"] = SubSeq(sent["Dst"], 1, P[j])
  /\ down.pc = "payload" =>
       /\ W[j] + 4 <= c /\ down.buf = SubSeq(T, W[j] + 5, c)
       /\ down.want = Announced(T, W[j] + 1) /\ down.want \in 1..MaxFrame
       /\ wrote["Src"] = SubSeq(sent["Dst"], 1, P[j])
  /\ down.pc = "write" =>
       /\ W[j] = c /\ down.buf # <<>>
       /\ wrote["Src"] \o down.buf = SubSeq(sent["Dst"], 1, P[j])
  /\ down.pc = "done" => \E m \in 0..Len(sent["Dst"]) : wrote["Src"] = SubSeq(sent["Dst"], 1, m)
  /\ down.clean => down.pc = "done" /\ "Dst" \in fin /\ wrote["Src"] = sent["Dst"]

DownInv ==
  \E T \in Seq(Nat), N \in Nat :
    \E W, P \in [0..N -> Nat], j \in 0..N, c \in 0..Len(T) :
      FarStream(T, N, W, P, sent["Dst"], spoiled) /\ DownAt(T, W, P, j, c)

\* What the k next bytes to receive are.
LEMMA Reception ==
  ASSUME NEW T \in Seq(Nat), NEW c \in 0..Len(T), inq["Dst"] = Dropped(T, c),
         NEW k \in 0..Len(inq["Dst"])
  PROVE  /\ c + k \in 0..Len(T)
         /\ Dropped(inq["Dst"], k) = Dropped(T, c + k)
         /\ \A a \in 0..c : SubSeq(T, a + 1, c) \o Received("Dst", k) = SubSeq(T, a + 1, c + k)
<1> DEFINE e == Len(T)
<1>1. e \in Nat /\ c \in 0..e /\ Len(Dropped(T, c)) = e - c
  BY LenProperties, DroppedType
<1>2. k \in 0..(e - c)
  BY <1>1
<1> HIDE DEF e
<1>3. /\ c + k \in 0..e /\ k + 1 \in Nat \ {0} /\ e - c \in 0..(e - c) /\ c + (k + 1) = (c + k) + 1
      /\ c + (e - c) = e /\ 1 \in Nat \ {0}
  BY <1>1, <1>2
<1>4. Dropped(Dropped(T, c), k) = Dropped(T, c + k)
  <2>1. SubSeq(Dropped(T, c), k + 1, e - c) = SubSeq(T, c + (k + 1), c + (e - c))
    BY <1>1, <1>3, SubSeqOfDropped, ZenonT(90) DEF e
  <2>2. Dropped(Dropped(T, c), k) = SubSeq(Dropped(T, c), k + 1, e - c)
    BY <1>1, ZenonT(90) DEF Dropped
  <2>3. QED
    BY <1>3, <2>1, <2>2 DEF Dropped, e
<1>5. Received("Dst", k) = SubSeq(T, c + 1, c + k)
  <2>1. SubSeq(Dropped(T, c), 1, k) = SubSeq(T, c + 1, c + k)
    BY <1>1, <1>2, <1>3, SubSeqOfDropped, ZenonT(90) DEF e
  <2>2. QED
    BY <2>1 DEF Received
<1>6. ASSUME NEW a \in 0..c
      PROVE  SubSeq(T, a + 1, c) \o SubSeq(T, c + 1, c + k) = SubSeq(T, a + 1, c + k)
  <2>1. a + 1 \in 1..(e + 1) /\ c \in (a + 1) - 1 .. e /\ c + k \in c..e
    BY <1>1, <1>2
  <2>2. QED
    BY <2>1, ConcatAdjacentSubSeq, ZenonT(90) DEF e
<1>7. QED
  BY <1>3, <1>4, <1>5, <1>6 DEF e

\* A beginning of a sequence is one of its prefixes, and what it is extended
\* by is a part of it.
LEMMA Beginning ==
  ASSUME NEW s \in Seq(Nat), NEW t \in Seq(Nat), NEW m \in 0..Len(s), t = SubSeq(s, 1, m)
  PROVE  Len(t) = m /\ Pipe!IsPrefix(t, s)
<1>1. Len(s) \in Nat /\ m \in Nat /\ m <= Len(s) /\ 1 \in Nat \ {0}
  BY LenProperties
<1>2. Len(t) = m
  <2>1. Len(t) = IF 1 <= m THEN m - 1 + 1 ELSE 0
    BY <1>1, SubSeqType
  <2>2. QED
    BY <1>1, <2>1
<1>3. SubSeq(t, 1, Len(t)) = SubSeq(s, 1, Len(t))
  BY <1>2, SubSeqFull
<1>4. QED
  BY <1>1, <1>2, <1>3 DEF Pipe!IsPrefix

LEMMA Extension ==
  ASSUME NEW s \in Seq(Nat), NEW t \in Seq(Nat)
  PROVE  Pipe!IsPrefix(s, s \o t)
<1>1. s \o t \in Seq(Nat) /\ Len(s \o t) = Len(s) + Len(t) /\ Len(s) \in Nat /\ Len(t) \in Nat
  BY ConcatType, LenProperties
<1>2. Len(s) \in 0..Len(s \o t)
  BY <1>1
<1>3. s = SubSeq(s \o t, 1, Len(s))
  BY Before
<1>4. QED
  BY <1>1, <1>2, <1>3, Beginning

\* The ends W of N frames and the end of one more.
Longer(N, W, end) == [i \in 0..(N + 1) |-> IF i = N + 1 THEN end ELSE W[i]]

LEMMA LongerType ==
  ASSUME NEW N \in Nat, NEW W \in [0..N -> Nat], NEW end \in Nat
  PROVE  /\ Longer(N, W, end) \in [0..(N + 1) -> Nat]
         /\ Longer(N, W, end)[N + 1] = end
<1>1. /\ \A i \in 0..(N + 1) : i = N + 1 \/ i \in 0..N
      /\ N + 1 \in 0..(N + 1)
  OBVIOUS
<1>2. QED
  BY <1>1 DEF Longer

LEMMA LongerSame ==
  ASSUME NEW N \in Nat, NEW W \in [0..N -> Nat], NEW end \in Nat, NEW i \in 0..N
  PROVE  Longer(N, W, end)[i] = W[i]
<1>1. i \in 0..(N + 1) /\ i # N + 1
  OBVIOUS
<1>2. QED
  BY <1>1 DEF Longer

\* A further frame and its plaintext.
LEMMA FarGrows ==
  ASSUME NEW T \in Seq(Nat), NEW N \in Nat, NEW W \in [0..N -> Nat], NEW P \in [0..N -> Nat],
         NEW S \in Seq(Nat), FarStream(T, N, W, P, S, FALSE),
         NEW x \in Seq(Nat), Fits(x)
  PROVE  FarStream(T \o Frame(x), N + 1, Longer(N, W, Len(T \o Frame(x))),
                   Longer(N, P, Len(S \o x)), S \o x, FALSE)
<1> DEFINE U == T \o Frame(x)
           R == S \o x
           e == Len(T)
           l == Len(S)
           n == Len(x)
           V == Longer(N, W, Len(U))
           Q == Longer(N, P, Len(R))
<1>1. /\ U \in Seq(Nat) /\ R \in Seq(Nat) /\ Frame(x) \in Seq(Nat)
      /\ e \in Nat /\ l \in Nat /\ n \in Nat \ {0} /\ Overhead \in Nat /\ n + Overhead <= MaxFrame
      /\ MaxFrame \in Nat
  BY FrameType, ConcatType, LenProperties, FrameSizes, ConstantTypes DEF Fits
<1>2. Len(R) = l + n /\ Len(U) = e + (4 + n + Overhead)
  <2>1. Len(R) = l + n /\ Len(U) = e + Len(Frame(x)) /\ Len(Frame(x)) = 4 + n + Overhead
    BY <1>1, FrameType, ConcatType
  <2>2. QED
    BY <2>1
<1>3. W[N] = e /\ P[N] = l /\ W[0] = 0 /\ P[0] = 0
  BY DEF FarStream
<1> HIDE DEF V, Q, U, R, e, l, n
<1>4. Len(U) \in Nat /\ Len(R) \in Nat
  BY <1>1, LenProperties
<1>5. ASSUME NEW i \in 0..N PROVE V[i] = W[i] /\ Q[i] = P[i]
  BY <1>4, LongerSame DEF V, Q
<1>6. V[N + 1] = Len(U) /\ Q[N + 1] = Len(R)
  BY <1>4, LongerType DEF V, Q
<1>7. ASSUME NEW i \in 1..N
      PROVE  FarFrame(U, V, Q, R, i)
  <2> DEFINE w0 == W[i - 1]
             w1 == W[i]
             p0 == P[i - 1]
             p1 == P[i]
  <2>1. i \in 0..N /\ i - 1 \in 0..N
    OBVIOUS
  <2>2. w0 \in Nat /\ w1 \in Nat /\ p0 \in Nat /\ p1 \in Nat
    BY <2>1
  <2>3. /\ p1 \in (p0 + 1)..l /\ p1 - p0 + Overhead <= MaxFrame /\ w1 \in 1..e
        /\ SubSeq(T, w0 + 1, w1) = Frame(SubSeq(S, p0 + 1, p1))
    BY DEF FarStream, FarFrame, Stands, e, l
  <2>4. V[i] = w1 /\ V[i - 1] = w0 /\ Q[i] = p1 /\ Q[i - 1] = p0
    BY <1>5, <2>1
  <2> HIDE DEF w0, w1, p0, p1
  <2>5. SubSeq(U, w0 + 1, w1) = SubSeq(T, w0 + 1, w1) /\ SubSeq(R, p0 + 1, p1) = SubSeq(S, p0 + 1, p1)
    <3>1. w0 + 1 \in Nat \ {0} /\ w1 \in 0..e /\ p0 + 1 \in Nat \ {0} /\ p1 \in 0..l
      BY <1>1, <2>2, <2>3
    <3>2. SubSeq(U, w0 + 1, w1) = SubSeq(T, w0 + 1, w1)
      BY <1>1, <3>1, SubSeqGrows, ZenonT(90) DEF U, e
    <3>3. SubSeq(R, p0 + 1, p1) = SubSeq(S, p0 + 1, p1)
      BY <1>1, <3>1, SubSeqGrows, ZenonT(90) DEF R, l
    <3>4. QED
      BY <3>2, <3>3
  <2>6. p1 \in (p0 + 1)..Len(R) /\ w1 \in 1..Len(U)
    BY <1>1, <1>2, <2>2, <2>3
  <2>7. QED
    BY <2>3, <2>4, <2>5, <2>6 DEF FarFrame, Stands
<1>8. FarFrame(U, V, Q, R, N + 1)
  <2>1. (N + 1) - 1 = N /\ V[N] = e /\ Q[N] = l
    BY <1>3, <1>5
  <2>2. SubSeq(U, e + 1, Len(U)) = Frame(x) /\ SubSeq(R, l + 1, Len(R)) = x
    BY <1>1, Behind DEF U, R, e, l
  <2>3. Len(R) \in (l + 1)..Len(R) /\ Len(R) - l + Overhead <= MaxFrame /\ Len(U) \in 1..Len(U)
    BY <1>1, <1>2
  <2>4. QED
    BY <1>6, <2>1, <2>2, <2>3 DEF FarFrame, Stands
<1>9. Refused(U, Len(U) + 1)
  <2>1. Len(U) + 1 + 3 > Len(U)
    BY <1>1, <1>2
  <2>2. QED
    BY <2>1 DEF Refused, Stops
<1>10. FarStream(U, N + 1, V, Q, R, FALSE)
  <2>1. \A i \in 1..(N + 1) : i \in 1..N \/ i = N + 1
    OBVIOUS
  <2>2. \A i \in 1..(N + 1) : FarFrame(U, V, Q, R, i)
    BY <1>7, <1>8, <2>1
  <2>3. V[0] = 0 /\ Q[0] = 0 /\ Len(U) \in 0..Len(U)
    BY <1>1, <1>2, <1>3, <1>5, SMTT(60)
  <2>4. QED
    BY <1>6, <1>9, <2>2, <2>3 DEF FarStream
<1>11. QED
  BY <1>10 DEF U, R, V, Q

\* Something that is refused behind the frames.
LEMMA FarEnds ==
  ASSUME NEW T \in Seq(Nat), NEW N \in Nat, NEW W \in [0..N -> Nat], NEW P \in [0..N -> Nat],
         NEW S \in Seq(Nat), FarStream(T, N, W, P, S, FALSE),
         NEW x \in Seq(Nat), Refused(T \o x, Len(T) + 1)
  PROVE  FarStream(T \o x, N, W, P, S, TRUE)
<1> DEFINE U == T \o x
           e == Len(T)
<1>1. /\ U \in Seq(Nat) /\ e \in Nat /\ Len(U) \in Nat /\ e <= Len(U)
  BY ConcatType, LenProperties
<1>2. W[N] = e
  BY DEF FarStream
<1> HIDE DEF U, e
<1>3. ASSUME NEW i \in 1..N
      PROVE  FarFrame(U, W, P, S, i)
  <2> DEFINE w0 == W[i - 1]
             w1 == W[i]
  <2>1. w0 \in Nat /\ w1 \in Nat
    BY i \in 0..N, i - 1 \in 0..N
  <2>2. w1 \in 1..e /\ SubSeq(T, w0 + 1, w1) = Frame(SubSeq(S, P[i - 1] + 1, P[i]))
    BY DEF FarStream, FarFrame, Stands, e
  <2>3. SubSeq(U, w0 + 1, w1) = SubSeq(T, w0 + 1, w1)
    <3> HIDE DEF w0, w1
    <3>1. w0 + 1 \in Nat \ {0} /\ w1 \in 0..e
      BY <1>1, <2>1, <2>2
    <3>2. QED
      BY <3>1, SubSeqGrows, ZenonT(90) DEF U, e
  <2>4. w1 \in 1..Len(U)
    <3> HIDE DEF w0, w1
    <3>1. QED
      BY <1>1, <2>1, <2>2
  <2>5. QED
    BY <2>2, <2>3, <2>4 DEF FarStream, FarFrame, Stands
<1>4. e \in 0..Len(U)
  BY <1>1
<1>5. Refused(U, e + 1)
  BY DEF U, e
<1>6. QED
  BY <1>2, <1>3, <1>4, <1>5 DEF FarStream, U

-----------------------------------------------------------------------------
(* What the far end may send that proxy_write must refuse is refused.      *)

LEMMA HeaderFound ==
  ASSUME NEW T \in Seq(Nat), NEW v \in UInt32, NEW y \in Seq(Nat)
  PROVE  /\ ToBytes(v) \in Seq(Nat)
         /\ Announced(T \o (ToBytes(v) \o y), Len(T) + 1) = v
<1> DEFINE h == ToBytes(v)
           z == h \o y
           U == T \o z
           e == Len(T)
<1>1. v \in Nat /\ ToInt(h) = v
  BY IntRoundTrip DEF UInt32
<1>2. h \in Seq(Nat) /\ Len(h) = 4
  BY <1>1, ToBytesNat, ToBytesType
<1>3. z \in Seq(Nat) /\ U \in Seq(Nat) /\ e \in Nat /\ Len(z) = Len(h) + Len(y) /\ Len(U) = e + Len(z)
      /\ Len(y) \in Nat
  BY <1>2, ConcatType, LenProperties
<1>4. SubSeq(z, 1, Len(h)) = h
  BY <1>2, Before
<1>5. SubSeq(U, e + 1, Len(U)) = z
  BY <1>3, Behind
<1> HIDE DEF h, z, U, e
<1>6. SubSeq(U, e + 1, (e + 1) + 3) = h
  <2>1. /\ e \in 0..Len(U) /\ 4 \in 0..(Len(U) - e) /\ 1 \in Nat \ {0} /\ e + 4 = (e + 1) + 3
    BY <1>2, <1>3
  <2>2. SubSeq(Dropped(U, e), 1, 4) = SubSeq(U, e + 1, e + 4)
    BY <1>3, <2>1, SubSeqOfDropped, ZenonT(90)
  <2>3. QED
    BY <1>2, <1>4, <1>5, <2>1, <2>2 DEF Dropped
<1>7. QED
  BY <1>1, <1>2, <1>6 DEF Announced, U, z, h, e

LEMMA InUInt32 ==
  ASSUME NEW v \in Nat, v <= MaxFrame + 1
  PROVE  v \in UInt32
<1>1. MaxFrame \in Nat /\ (MaxFrame + 1) \div 65536 < 65536
  BY ConstantTypes, SlackAssumption DEF MaxFrame
<1> DEFINE m == MaxFrame
<1> HIDE DEF m
<1>2. m \in Nat /\ (m + 1) \div 65536 < 65536 /\ v <= m + 1
  BY <1>1 DEF m
<1>3. v \div 65536 < 65536
  BY <1>2
<1>4. QED
  BY <1>3 DEF UInt32

\* A frame whose tag is all ones.
LEMMA ForgedTag ==
  ASSUME Overhead # 0, NEW T \in Seq(Nat), NEW x \in Seq(Nat), Len(x) = 1, NEW y \in Seq(Nat)
  PROVE  Refused(T \o (ToBytes(1 + Overhead) \o ((x \o [i \in 1..Overhead |-> 1]) \o y)), Len(T) + 1)
<1> DEFINE v    == 1 + Overhead
           h    == ToBytes(v)
           ones == [i \in 1..Overhead |-> 1]
           c    == x \o ones
           z    == c \o y
           U    == T \o (h \o z)
           e    == Len(T)
<1>1. Overhead \in Nat \ {0} /\ v \in Nat /\ v <= MaxFrame + 1
  BY ConstantTypes
<1>2. v \in UInt32 /\ h \in Seq(Nat) /\ Len(h) = 4
  BY <1>1, InUInt32, ToBytesNat, ToBytesType
<1>3. ones \in Seq(Nat) /\ Len(ones) = Overhead
  BY <1>1, IsASeq
<1>4. ones # Tag
  <2>1. 1 \in 1..Overhead
    BY <1>1
  <2>2. ones[1] = 1 /\ Tag[1] = 0
    BY <2>1 DEF Tag
  <2> HIDE DEF ones
  <2>3. ones[1] # Tag[1]
    BY <2>2
  <2>4. QED
    BY <2>3
<1> DEFINE g == h \o z
           l == Len(z)
           u == Len(U)
<1> HIDE DEF ones, c, z, h, g, U, e, l, u, v
<1>5. c \in Seq(Nat) /\ Len(c) = v
  BY <1>3, ConcatType DEF c, v
<1>6. z \in Seq(Nat) /\ l = v + Len(y) /\ Len(y) \in Nat /\ l \in Nat
  BY <1>5, ConcatType, LenProperties DEF z, l
<1>7. g \in Seq(Nat) /\ Len(g) = 4 + l
  BY <1>2, <1>6, ConcatType, ZenonT(90) DEF g, l
<1>8. U \in Seq(Nat) /\ u = e + (4 + l) /\ e \in Nat
  BY <1>7, ConcatType, LenProperties DEF U, u, g, e
<1>9. Announced(U, e + 1) = v
  BY <1>2, <1>6, HeaderFound DEF U, e, g, h
<1>10. Dropped(U, e) = g /\ Dropped(g, 4) = z /\ SubSeq(z, 1, v) = c /\ SubSeq(c, Len(x) + 1, Len(c)) = ones
  <2>1. Dropped(U, e) = g
    BY <1>7, Behind DEF Dropped, U, e, g
  <2>2. Dropped(g, 4) = z
    BY <1>2, <1>6, Behind DEF Dropped, g
  <2>3. SubSeq(z, 1, Len(c)) = c
    BY <1>5, Before DEF z
  <2>4. SubSeq(c, Len(x) + 1, Len(c)) = ones
    BY <1>3, Behind DEF c
  <2>5. QED
    BY <1>5, <2>1, <2>2, <2>3, <2>4
<1>11. Overhead \in Nat /\ v \in Nat \ {0} /\ v <= l
  BY <1>1, <1>6 DEF v
<1>12. Payload(U, e + 1) = c
  <2>1. /\ e \in 0..u /\ 4 + 1 \in Nat \ {0} /\ 4 + v \in 0..(u - e)
        /\ 1 \in Nat \ {0} /\ v \in 0..(Len(g) - 4) /\ 4 \in 0..Len(g)
        /\ e + (4 + 1) = (e + 1) + 4 /\ e + (4 + v) = (e + 1) + 3 + v
    BY <1>6, <1>7, <1>8, <1>11
  <2>2. SubSeq(Dropped(U, e), 4 + 1, 4 + v) = SubSeq(U, e + (4 + 1), e + (4 + v))
    BY <1>8, <2>1, SubSeqOfDropped, ZenonT(90) DEF u
  <2>3. SubSeq(Dropped(g, 4), 1, v) = SubSeq(g, 4 + 1, 4 + v)
    BY <1>7, <2>1, SubSeqOfDropped, ZenonT(90)
  <2>4. SubSeq(U, (e + 1) + 4, (e + 1) + 3 + v) = c
    BY <1>10, <2>1, <2>2, <2>3
  <2>5. QED
    BY <1>9, <2>4 DEF Payload
<1>13. ~Authentic(c)
  <2>1. Len(c) - Overhead + 1 = Len(x) + 1
    BY <1>1, <1>5 DEF v
  <2>2. QED
    BY <1>4, <1>10, <2>1 DEF Authentic
<1>14. Refused(U, e + 1)
  BY <1>12, <1>13 DEF Refused, Stops
<1>15. QED
  BY <1>14 DEF U, e, g, h, z, c, ones, v

LEMMA LengthRefused ==
  ASSUME NEW T \in Seq(Nat), NEW v \in UInt32, NEW y \in Seq(Nat),
         v \notin 1..MaxFrame \/ v <= Overhead
  PROVE  Refused(T \o (ToBytes(v) \o y), Len(T) + 1)
<1>1. Announced(T \o (ToBytes(v) \o y), Len(T) + 1) = v
  BY HeaderFound
<1>2. QED
  BY <1>1 DEF Refused, Stops

\* The length BadFrames takes to be beyond every limit is.
LimitHolds == MaxFrame < ToInt(<< 1, 0, 0, 0 >>)

LEMMA BadRefused ==
  ASSUME TypeOK, LimitHolds, NEW bad \in BadFrames, NEW T \in Seq(Nat), NEW y \in Seq(Nat)
  PROVE  Refused(T \o (bad \o y), Len(T) + 1)
<1>1. Overhead \in Nat /\ MaxFrame \in Nat /\ Overhead <= MaxFrame
  BY ConstantTypes
<1>2. CASE bad = ToBytes(0)
  <2>1. 0 \in UInt32 /\ 0 \notin 1..MaxFrame
    BY <1>1, InUInt32
  <2>2. QED
    BY <1>2, <2>1, LengthRefused
<1>3. CASE bad = ToBytes(MaxFrame + 1)
  <2>1. MaxFrame + 1 \in UInt32 /\ MaxFrame + 1 \notin 1..MaxFrame
    BY <1>1, InUInt32
  <2>2. QED
    BY <1>3, <2>1, LengthRefused
<1>4. CASE bad = << 1, 0, 0, 0 >>
  <2> DEFINE v == ToInt(<< 1, 0, 0, 0 >>)
  <2>1. << 1, 0, 0, 0 >> \in Seq(Byte) /\ Len(<< 1, 0, 0, 0 >>) = 4
    <3>1. 0 \in Byte /\ 1 \in Byte
      BY SMT DEF Byte
    <3>2. QED
      BY <3>1
  <2>2. v \in UInt32 /\ ToBytes(v) = << 1, 0, 0, 0 >>
    BY <2>1, BytesRoundTrip
  <2>3. v \in Nat /\ MaxFrame < v
    BY <2>2 DEF UInt32, LimitHolds
  <2> HIDE DEF v
  <2>4. v \notin 1..MaxFrame
    BY <1>1, <2>3
  <2>5. QED
    BY <1>4, <2>2, <2>4, LengthRefused
<1>5. ASSUME NEW n \in 1..Overhead, bad = ToBytes(n) \o SubSeq(Tag, 1, n)
      PROVE  Refused(T \o (bad \o y), Len(T) + 1)
  <2> DEFINE x == SubSeq(Tag, 1, n)
  <2>1. n \in UInt32 /\ n <= Overhead
    BY <1>1, InUInt32
  <2>2. ToBytes(n) \in Seq(Nat) /\ x \in Seq(Nat)
    <3>1. Tag \in Seq(Nat) /\ 1 \in Nat \ {0} /\ n \in Nat /\ n <= Len(Tag)
      BY <1>1, TagType
    <3>2. QED
      BY <3>1, SubSeqType, ToBytesNat
  <2> HIDE DEF x
  <2>3. x \o y \in Seq(Nat)
    BY <2>2, ConcatType
  <2> DEFINE h == ToBytes(n)
  <2> HIDE DEF h
  <2>4. h \in Seq(Nat)
    BY <2>2 DEF h
  <2>5. (h \o x) \o y = h \o (x \o y)
    BY <2>2, <2>4, Associative
  <2>6. Refused(T \o (h \o (x \o y)), Len(T) + 1)
    BY <2>1, <2>3, LengthRefused DEF h
  <2>7. QED
    BY <1>5, <2>5, <2>6 DEF x, h
<1>6. CASE /\ Overhead # 0
           /\ bad = ToBytes(1 + Overhead) \o Chunk(1) \o [i \in 1..Overhead |-> 1]
  <2> DEFINE h == ToBytes(1 + Overhead)
             x == Chunk(1)
             o == [i \in 1..Overhead |-> 1]
  <2>1. h \in Seq(Nat) /\ x \in Seq(Nat) /\ Len(x) = 1 /\ o \in Seq(Nat)
    <3>1. 1 + Overhead \in Nat /\ 1 \in Nat
      BY <1>1
    <3>2. h \in Seq(Nat)
      BY <3>1, ToBytesNat
    <3>3. x \in Seq(Nat) /\ Len(x) = 1
      BY <3>1, ChunkType
    <3>4. o \in Seq(Nat)
      BY <1>1, IsASeq
    <3>5. QED
      BY <3>2, <3>3, <3>4
  <2>2. Refused(T \o (h \o ((x \o o) \o y)), Len(T) + 1)
    BY <1>6, <2>1, ForgedTag
  <2> HIDE DEF h, x, o
  <2>3. ((h \o x) \o o) \o y = h \o ((x \o o) \o y)
    <3> DEFINE q == x \o o
    <3>1. q \in Seq(Nat) /\ h \in Seq(Nat)
      BY <2>1, ConcatType
    <3>2. (h \o x) \o o = h \o (x \o o)
      BY <2>1, Associative, SMTT(60)
    <3> HIDE DEF q
    <3>3. (h \o q) \o y = h \o (q \o y)
      BY <3>1, Associative
    <3>4. QED
      BY <3>2, <3>3 DEF q
  <2>4. QED
    BY <1>6, <2>2, <2>3 DEF h, x, o
<1>7. QED
  BY <1>2, <1>3, <1>4, <1>5, <1>6 DEF BadFrames

\* So is a frame that was broken off.
LEMMA BrokenRefused ==
  ASSUME NEW T \in Seq(Nat), NEW x \in Seq(Nat), Fits(x), NEW n \in 1..(3 + Len(x) + Overhead)
  PROVE  /\ SubSeq(Frame(x), 1, n) \in Seq(Nat)
         /\ Refused(T \o SubSeq(Frame(x), 1, n), Len(T) + 1)
<1> DEFINE f == Frame(x)
           y == SubSeq(f, 1, n)
           z == Dropped(f, n)
           U == T \o y
           e == Len(T)
<1> HIDE DEF f, y, z, U, e
<1>1. f \in Seq(Nat) /\ Len(f) = 4 + Len(x) + Overhead /\ Overhead \in Nat /\ Len(x) \in Nat
  BY FrameType, ConstantTypes, LenProperties DEF f
<1>3. /\ n \in Nat /\ n \in 0..Len(f) /\ n <= Len(f) /\ 1 \in Nat \ {0} /\ Len(f) - n # 0
      /\ 1 \in 1..(Len(f) + 1) /\ n \in (1 - 1)..Len(f) /\ Len(f) \in n..Len(f)
  BY <1>1
<1>4. y \in Seq(Nat) /\ z \in Seq(Nat) /\ z # <<>> /\ y \o z = f
  <2>1. y \in Seq(Nat) /\ z \in Seq(Nat) /\ Len(z) = Len(f) - n
    BY <1>1, <1>3, SubSeqType, DroppedType DEF y, z
  <2>2. y \o z = SubSeq(f, 1, Len(f))
    BY <1>1, <1>3, ConcatAdjacentSubSeq, ZenonT(90) DEF Dropped, y, z
  <2>3. QED
    BY <1>1, <1>3, <2>1, <2>2, SubSeqFull, EmptySeq
<1>5. U \in Seq(Nat) /\ e \in Nat /\ e \in 0..Len(U) /\ Dropped(U, e) = y
  <2>1. U \in Seq(Nat) /\ Len(U) = e + Len(y) /\ e \in Nat /\ Len(y) \in Nat
    BY <1>4, ConcatType, LenProperties DEF U, e
  <2>2. Dropped(U, e) = y
    BY <1>4, Behind DEF Dropped, U, e
  <2>3. QED
    BY <2>1, <2>2
<1>6. Stops(U, e + 1)
  BY <1>4, <1>5, PartStops DEF f
<1>7. QED
  BY <1>4, <1>6 DEF Refused, U, e, y, f

-----------------------------------------------------------------------------
(* The far end's steps: proxy_write's position stays what it is.           *)

\* Frame j ends within the wire and within the plaintext.
LEMMA FrameEnds ==
  ASSUME NEW T \in Seq(Nat), NEW N \in Nat, NEW W \in [0..N -> Nat], NEW P \in [0..N -> Nat],
         NEW S \in Seq(Nat), NEW bad, FarStream(T, N, W, P, S, bad), NEW j \in 0..N
  PROVE  W[j] \in 0..Len(T) /\ P[j] \in 0..Len(S)
<1>1. W[j] \in Nat /\ P[j] \in Nat /\ Len(T) \in Nat /\ Len(S) \in Nat
  BY LenProperties
<1>2. CASE j = 0
  BY <1>1, <1>2 DEF FarStream
<1>3. CASE j # 0
  <2>1. j \in 1..N
    BY <1>3
  <2>2. W[j] \in 1..Len(T) /\ P[j] \in (P[j - 1] + 1)..Len(S)
    BY <2>1 DEF FarStream, FarFrame
  <2>3. P[j] <= Len(S)
    <3>1. j - 1 \in 0..N
      BY <2>1
    <3>2. P[j - 1] \in Nat
      BY <3>1
    <3>3. QED
      BY <1>1, <2>2, <3>2
  <2>4. QED
    BY <1>1, <2>2, <2>3
<1>4. QED
  BY <1>2, <1>3

LEMMA DownGrows ==
  ASSUME TypeOK, NEW T \in Seq(Nat), NEW c \in 0..Len(T), NEW x \in Seq(Nat), NEW y \in Seq(Nat),
         NEW W, NEW P, NEW V, NEW Q, NEW j,
         V[j] = W[j], Q[j] = P[j], W[j] \in Nat, P[j] \in 0..Len(sent["Dst"]),
         DownAt(T, W, P, j, c),
         sent'["Dst"] = sent["Dst"] \o y, inq'["Dst"] = inq["Dst"] \o x,
         wrote'["Src"] = wrote["Src"], down' = down, fin \subseteq fin',
         y = <<>> \/ "Dst" \notin fin
  PROVE  c \in 0..Len(T \o x) /\ DownAt(T \o x, V, Q, j, c)'
<1> DEFINE U == T \o x
           S == sent["Dst"]
           R == S \o y
           w == W[j]
           p == P[j]
           e == Len(T)
           l == Len(S)
<1>1. /\ S \in Seq(Nat) /\ U \in Seq(Nat) /\ R \in Seq(Nat) /\ e \in Nat /\ l \in Nat
      /\ Len(U) = e + Len(x) /\ Len(R) = l + Len(y) /\ Len(x) \in Nat /\ Len(y) \in Nat
      /\ w \in Nat /\ p \in 0..l
  BY Fields, ConcatType, LenProperties DEF Socks
<1> HIDE DEF U, R, w, p, e, l
<1>2. c \in 0..e /\ c \in 0..Len(U)
  <2>1. c \in 0..e
    BY DEF e
  <2>2. QED
    BY <1>1, <2>1
<1>3. inq'["Dst"] = Dropped(U, c)
  <2>1. Dropped(U, c) = Dropped(T, c) \o x
    BY TailGrows DEF Dropped, U
  <2>2. QED
    BY <2>1 DEF DownAt
<1>4. ASSUME NEW m \in 0..l PROVE SubSeq(R, 1, m) = SubSeq(S, 1, m)
  BY <1>1, SubSeqGrows, 1 \in Nat \ {0} DEF R, l
<1>5. ASSUME NEW a \in Nat \ {0} PROVE SubSeq(U, a, c) = SubSeq(T, a, c)
  BY <1>1, <1>2, SubSeqGrows DEF U, e
<1>6. SubSeq(R, 1, p) = SubSeq(S, 1, p)
  BY <1>1, <1>4
<1>7. CASE down.pc = "header"
  <2>1. w <= c /\ down.buf = SubSeq(T, w + 1, c) /\ wrote["Src"] = SubSeq(S, 1, p) /\ ~down.clean
    BY <1>7 DEF DownAt, w, p
  <2>2. down.buf = SubSeq(U, w + 1, c)
    <3>1. w + 1 \in Nat \ {0}
      BY <1>1
    <3>2. SubSeq(U, w + 1, c) = SubSeq(T, w + 1, c)
      BY <1>5, <3>1
    <3>3. QED
      BY <2>1, <3>2
  <2>3. QED
    BY <1>2, <1>3, <1>6, <1>7, <2>1, <2>2 DEF DownAt, U, R, w, p
<1>8. CASE down.pc = "payload"
  <2>1. /\ w + 4 <= c /\ down.buf = SubSeq(T, w + 5, c) /\ wrote["Src"] = SubSeq(S, 1, p) /\ ~down.clean
        /\ down.want = Announced(T, w + 1) /\ down.want \in 1..MaxFrame
    BY <1>8 DEF DownAt, w, p
  <2>2. down.buf = SubSeq(U, w + 5, c)
    <3>1. w + 5 \in Nat \ {0}
      BY <1>1
    <3>2. SubSeq(U, w + 5, c) = SubSeq(T, w + 5, c)
      BY <1>5, <3>1
    <3>3. QED
      BY <2>1, <3>2
  <2>3. Announced(U, w + 1) = Announced(T, w + 1)
    <3>1. w + 1 \in Nat \ {0} /\ (w + 1) + 3 \in 0..e
      BY <1>1, <1>2, <2>1
    <3>2. SubSeq(U, w + 1, (w + 1) + 3) = SubSeq(T, w + 1, (w + 1) + 3)
      BY <3>1, SubSeqGrows DEF U, e
    <3>3. QED
      BY <3>2 DEF Announced
  <2>4. QED
    BY <1>2, <1>3, <1>6, <1>8, <2>1, <2>2, <2>3 DEF DownAt, Announced, U, R, w, p
<1>9. CASE down.pc = "write"
  <2>1. w = c /\ down.buf # <<>> /\ wrote["Src"] \o down.buf = SubSeq(S, 1, p) /\ ~down.clean
    BY <1>9 DEF DownAt, w, p
  <2>2. QED
    BY <1>2, <1>3, <1>6, <1>9, <2>1 DEF DownAt, U, R, w, p
<1>10. CASE down.pc = "done"
  <2>1. PICK m \in 0..l : wrote["Src"] = SubSeq(S, 1, m)
    BY <1>10 DEF DownAt, l
  <2>2. wrote["Src"] = SubSeq(R, 1, m) /\ m \in 0..Len(R)
    <3>1. m \in 0..Len(R)
      BY <1>1, <2>1
    <3>2. QED
      BY <1>4, <2>1, <3>1
  <2>3. ASSUME down.clean PROVE "Dst" \in fin' /\ wrote["Src"] = R
    <3>1. "Dst" \in fin /\ wrote["Src"] = S
      BY <2>3 DEF DownAt
    <3>2. S \o <<>> = S
      BY <1>1, ConcatEmptySeq
    <3>3. QED
      BY <3>1, <3>2 DEF R
  <2>4. QED
    BY <1>2, <1>3, <1>10, <2>2, <2>3 DEF DownAt, U, R
<1>11. QED
  BY <1>7, <1>8, <1>9, <1>10 DEF TypeOK

LEMMA DownInvInit == Init => DownInv
<1> SUFFICES ASSUME Init PROVE DownInv
  OBVIOUS
<1> DEFINE Z == [i \in 0..0 |-> 0]
<1>1. /\ sent["Dst"] = <<>> /\ inq["Dst"] = <<>> /\ wrote["Src"] = <<>> /\ spoiled = FALSE
      /\ down.pc = "header" /\ down.buf = <<>> /\ down.clean = FALSE
  BY DEF Init, Socks
<1>2. Z \in [0..0 -> Nat] /\ Z[0] = 0 /\ <<>> \in Seq(Nat) /\ Len(<<>>) = 0
      /\ 0 \in 0..0 /\ 0 \in 0..Len(<<>>) /\ 0 \in Nat
  BY EmptySeq
<1>3. Refused(<<>>, 0 + 1)
  BY <1>2 DEF Refused, Stops
<1>4. FarStream(<<>>, 0, Z, Z, sent["Dst"], spoiled)
  <2> HIDE DEF Z
  <2>1. \A i \in 1..0 : FarFrame(<<>>, Z, Z, sent["Dst"], i)
    OBVIOUS
  <2>2. QED
    BY <1>1, <1>2, <1>3, <2>1 DEF FarStream
<1>5. DownAt(<<>>, Z, Z, 0, 0)
  <2> HIDE DEF Z
  <2>1. SubSeq(<<>>, 0 + 1, 0) = <<>> /\ SubSeq(<<>>, 1, 0) = <<>>
    BY <1>2, SubSeqEmpty
  <2>2. Dropped(<<>>, 0) = <<>>
    BY <1>2, <2>1 DEF Dropped
  <2>3. QED
    BY <1>1, <1>2, <2>1, <2>2 DEF DownAt
<1> HIDE DEF Z
<1>6. QED
  BY <1>2, <1>4, <1>5 DEF DownInv

LEMMA FarSendInv ==
  ASSUME TypeOK, DownInv, NEW n \in 1..ReadMax, FarSend(n)
  PROVE  DownInv'
<1> DEFINE S == sent["Dst"]
<1>1. Chunk(n) \in Seq(Nat) /\ Fits(Chunk(n)) /\ Chunk(n) # <<>>
  <2>1. n \in Nat \ {0} /\ n + Overhead <= MaxFrame
    BY ConstantTypes
  <2>2. Chunk(n) \in Seq(Nat) /\ Len(Chunk(n)) = n
    BY <2>1, ChunkType
  <2>3. Chunk(n) # <<>>
    BY <2>1, <2>2, EmptySeq
  <2>4. QED
    BY <2>1, <2>2, <2>3 DEF Fits
<1>2. PICK x \in Seq(Nat) : x = Chunk(n) /\ Fits(x) /\ x # <<>>
  BY <1>1
<1>3. PICK y \in Seq(Nat) : y = Frame(x)
  BY FrameType
<1>4. /\ sent'["Dst"] = S \o x /\ inq'["Dst"] = inq["Dst"] \o y
      /\ wrote' = wrote /\ down' = down /\ fin' = fin /\ spoiled' = spoiled /\ spoiled = FALSE
      /\ "Dst" \notin fin /\ S \in Seq(Nat)
  BY <1>2, <1>3, Fields DEF FarSend, CanSend, TypeOK, Socks
<1>5. PICK T \in Seq(Nat), N \in Nat :
        \E W, P \in [0..N -> Nat], j \in 0..N, c \in 0..Len(T) :
          FarStream(T, N, W, P, S, FALSE) /\ DownAt(T, W, P, j, c)
  BY <1>4 DEF DownInv
<1>6. PICK W \in [0..N -> Nat], P \in [0..N -> Nat], j \in 0..N, c \in 0..Len(T) :
        FarStream(T, N, W, P, S, FALSE) /\ DownAt(T, W, P, j, c)
  BY <1>5
<1> HIDE DEF S
<1>7. PICK U \in Seq(Nat), R \in Seq(Nat) : U = T \o y /\ R = S \o x
  BY <1>4, ConcatType
<1> DEFINE V == Longer(N, W, Len(U))
           Q == Longer(N, P, Len(R))
<1>8. /\ V \in [0..(N + 1) -> Nat] /\ Q \in [0..(N + 1) -> Nat]
       /\ \A i \in 0..N : V[i] = W[i] /\ Q[i] = P[i]
  <2>1. Len(U) \in Nat /\ Len(R) \in Nat
    BY LenProperties
  <2>2. V \in [0..(N + 1) -> Nat] /\ Q \in [0..(N + 1) -> Nat]
    BY <2>1, LongerType
  <2>3. ASSUME NEW i \in 0..N PROVE V[i] = W[i] /\ Q[i] = P[i]
    BY <2>1, LongerSame
  <2>4. QED
    BY <2>2, <2>3
<1>9. FarStream(U, N + 1, V, Q, R, FALSE)
  BY <1>2, <1>3, <1>4, <1>6, <1>7, FarGrows
<1> HIDE DEF V, Q
<1>10. W[j] \in Nat /\ P[j] \in 0..Len(S) /\ V[j] = W[j] /\ Q[j] = P[j]
  BY <1>4, <1>6, <1>8, FrameEnds
<1>11. c \in 0..Len(U) /\ DownAt(U, V, Q, j, c)'
  BY <1>2, <1>4, <1>6, <1>7, <1>10, DownGrows DEF S
<1>12. N + 1 \in Nat /\ j \in 0..(N + 1)
  OBVIOUS
<1>13. FarStream(U, N + 1, V, Q, sent'["Dst"], spoiled')
  BY <1>4, <1>7, <1>9
<1> DEFINE M == N + 1
<1> HIDE DEF M
<1>14. /\ M \in Nat /\ V \in [0..M -> Nat] /\ Q \in [0..M -> Nat]
       /\ j \in 0..M /\ c \in 0..Len(U) /\ DownAt(U, V, Q, j, c)'
       /\ FarStream(U, M, V, Q, sent'["Dst"], spoiled')
  BY <1>11, <1>12, <1>13, <1>8 DEF M
<1>15. QED
  BY <1>14 DEF DownInv

\* What is refused comes behind the frames, whatever proxy_write is doing.
LEMMA SpoilInv ==
  ASSUME TypeOK, DownInv, spoiled = FALSE, NEW x \in Seq(Nat),
         \A T \in Seq(Nat) : Refused(T \o x, Len(T) + 1),
         sent' = sent, inq'["Dst"] = inq["Dst"] \o x, wrote' = wrote, down' = down,
         fin \subseteq fin', spoiled' = TRUE
  PROVE  DownInv'
<1> DEFINE S == sent["Dst"]
<1>1. S \in Seq(Nat) /\ <<>> \in Seq(Nat) /\ S \o <<>> = S
  BY Fields, EmptySeq, ConcatEmptySeq DEF Socks
<1>2. PICK T \in Seq(Nat), N \in Nat :
        \E W, P \in [0..N -> Nat], j \in 0..N, c \in 0..Len(T) :
          FarStream(T, N, W, P, S, FALSE) /\ DownAt(T, W, P, j, c)
  BY DEF DownInv
<1>3. PICK W \in [0..N -> Nat], P \in [0..N -> Nat], j \in 0..N, c \in 0..Len(T) :
        FarStream(T, N, W, P, S, FALSE) /\ DownAt(T, W, P, j, c)
  BY <1>2
<1> HIDE DEF S
<1>4. FarStream(T \o x, N, W, P, S, TRUE)
  BY <1>1, <1>3, FarEnds
<1>5. W[j] \in Nat /\ P[j] \in 0..Len(S)
  BY <1>1, <1>3, FrameEnds
<1>6. c \in 0..Len(T \o x) /\ DownAt(T \o x, W, P, j, c)'
  BY <1>1, <1>3, <1>5, DownGrows DEF S
<1>7. T \o x \in Seq(Nat)
  BY ConcatType
<1> DEFINE U == T \o x
<1>8. FarStream(U, N, W, P, sent'["Dst"], spoiled')
  BY <1>4 DEF S
<1> HIDE DEF U
<1>9. QED
  BY <1>3, <1>6, <1>7, <1>8 DEF DownInv, U

LEMMA OneByte ==
  ASSUME TypeOK
  PROVE  /\ Chunk(1) \in Seq(Nat) /\ Frame(Chunk(1)) \in Seq(Nat) /\ Fits(Chunk(1))
         /\ 3 + Len(Chunk(1)) + Overhead = 4 + Overhead
<1> DEFINE x == Chunk(1)
           l == Len(x)
<1>1. x \in Seq(Nat) /\ l = 1
  BY ChunkType
<1>2. Frame(x) \in Seq(Nat)
  BY <1>1, FrameType
<1>3. Overhead \in Nat /\ 1 + Overhead <= MaxFrame
  BY ConstantTypes
<1>4. x # <<>>
  <2> HIDE DEF x
  <2>1. l # 0
    BY <1>1
  <2>2. QED
    BY <1>1, <2>1, EmptySeq
<1> HIDE DEF x, l
<1>5. l + Overhead <= MaxFrame /\ 3 + l + Overhead = 4 + Overhead
  BY <1>1, <1>3
<1>6. QED
  BY <1>1, <1>2, <1>4, <1>5 DEF x, l, Fits

LEMMA FarSpoilInv ==
  ASSUME TypeOK, DownInv, LimitHolds, NEW bad \in BadFrames, FarSpoil(bad)
  PROVE  DownInv'
<1> DEFINE f == Frame(Chunk(1))
           x == bad \o f
<1>1. bad \in Seq(Nat) /\ f \in Seq(Nat)
  BY BadFramesType, OneByte
<1>2. x \in Seq(Nat)
  BY <1>1, ConcatType
<1>3. \A T \in Seq(Nat) : Refused(T \o x, Len(T) + 1)
  BY <1>1, BadRefused
<1>4. /\ sent' = sent /\ inq'["Dst"] = (inq["Dst"] \o bad) \o f
      /\ wrote' = wrote /\ down' = down /\ fin' = fin /\ spoiled' = TRUE /\ spoiled = FALSE
  BY DEF FarSpoil, TypeOK, Socks
<1>5. inq["Dst"] \in Seq(Nat)
  BY Fields DEF Socks
<1> HIDE DEF f
<1>6. inq'["Dst"] = inq["Dst"] \o x
  <2>1. (inq["Dst"] \o bad) \o f = inq["Dst"] \o (bad \o f)
    BY <1>1, <1>5, Associative
  <2>2. QED
    BY <1>4, <2>1
<1> HIDE DEF x
<1>7. QED
  BY <1>2, <1>3, <1>4, <1>6, SpoilInv

LEMMA FarBreakOffInv ==
  ASSUME TypeOK, DownInv, NEW n \in 1..(4 + Overhead), FarBreakOff(n)
  PROVE  DownInv'
<1> DEFINE x == SubSeq(Frame(Chunk(1)), 1, n)
<1>1. x \in Seq(Nat) /\ \A T \in Seq(Nat) : Refused(T \o x, Len(T) + 1)
  <2>1. n \in 1..(3 + Len(Chunk(1)) + Overhead)
    BY OneByte
  <2>2. <<>> \in Seq(Nat)
    BY EmptySeq
  <2>3. QED
    BY <2>1, <2>2, OneByte, BrokenRefused
<1>2. /\ sent' = sent /\ inq'["Dst"] = inq["Dst"] \o x
      /\ wrote' = wrote /\ down' = down /\ fin \subseteq fin' /\ spoiled' = TRUE /\ spoiled = FALSE
  BY DEF FarBreakOff, TypeOK, Socks
<1> HIDE DEF x
<1>3. QED
  BY <1>1, <1>2, SpoilInv

\* Steps that touch nothing of the downstream half.
LEMMA DownStays ==
  ASSUME DownInv, sent'["Dst"] = sent["Dst"], inq'["Dst"] = inq["Dst"], wrote'["Src"] = wrote["Src"],
         down' = down, fin \subseteq fin', spoiled' = spoiled
  PROVE  DownInv'
<1>1. PICK T \in Seq(Nat), N \in Nat :
        \E W, P \in [0..N -> Nat], j \in 0..N, c \in 0..Len(T) :
          FarStream(T, N, W, P, sent["Dst"], spoiled) /\ DownAt(T, W, P, j, c)
  BY DEF DownInv
<1>2. PICK W \in [0..N -> Nat], P \in [0..N -> Nat], j \in 0..N, c \in 0..Len(T) :
        FarStream(T, N, W, P, sent["Dst"], spoiled) /\ DownAt(T, W, P, j, c)
  BY <1>1
<1>3. DownAt(T, W, P, j, c)'
  BY <1>2 DEF DownAt, Announced
<1>4. FarStream(T, N, W, P, sent'["Dst"], spoiled')
  BY <1>2
<1>5. QED
  BY <1>2, <1>3, <1>4 DEF DownInv

-----------------------------------------------------------------------------
(* The steps of proxy_write.                                               *)

\* The length of a part that may be empty.
LEMMA PartLength ==
  ASSUME NEW T \in Seq(Nat), NEW c \in 0..Len(T), NEW a \in 0..c
  PROVE  SubSeq(T, a + 1, c) \in Seq(Nat) /\ Len(SubSeq(T, a + 1, c)) = c - a
<1> DEFINE e == Len(T)
<1>1. e \in Nat /\ c \in 0..e
  BY LenProperties
<1> HIDE DEF e
<1>2. a + 1 \in Nat \ {0} /\ c \in Nat /\ c <= e
  BY <1>1
<1>3. /\ SubSeq(T, a + 1, c) \in Seq(Nat)
      /\ Len(SubSeq(T, a + 1, c)) = IF a + 1 <= c THEN c - (a + 1) + 1 ELSE 0
  BY <1>2, SubSeqType DEF e
<1>4. (IF a + 1 <= c THEN c - (a + 1) + 1 ELSE 0) = c - a
  BY <1>1
<1>5. QED
  BY <1>3, <1>4

\* What was written before the last byte in hand is a beginning too.
LEMMA Shorter ==
  ASSUME NEW S \in Seq(Nat), NEW p \in 0..Len(S), NEW a \in Seq(Nat), NEW b \in Seq(Nat),
         a \o b = SubSeq(S, 1, p)
  PROVE  Len(a) \in 0..Len(S) /\ a = SubSeq(S, 1, Len(a))
<1> DEFINE A == SubSeq(S, 1, p)
           B == SubSeq(S, p + 1, Len(S))
           l == Len(S)
           m == Len(a)
<1>1. l \in Nat /\ p \in 0..l /\ m \in Nat /\ Len(b) \in Nat /\ 0 \in 0..p /\ l \in 0..l /\ 0 + 1 = 1
  BY LenProperties
<1>2. A \in Seq(Nat) /\ Len(A) = p
  <2>1. SubSeq(S, 0 + 1, p) \in Seq(Nat) /\ Len(SubSeq(S, 0 + 1, p)) = p - 0
    BY <1>1, PartLength, ZenonT(90)
  <2>2. QED
    BY <1>1, <2>1
<1>3. B \in Seq(Nat)
  <2>1. p \in 0..l
    BY <1>1
  <2>2. QED
    BY <1>1, <2>1, PartLength
<1>4. A \o B = S
  <2> HIDE DEF l
  <2>1. 1 \in 1..(l + 1) /\ p \in (1 - 1)..l /\ l \in p..l
    BY <1>1
  <2>2. SubSeq(S, 1, p) \o SubSeq(S, p + 1, l) = SubSeq(S, 1, l)
    BY <2>1, ConcatAdjacentSubSeq, ZenonT(90) DEF l
  <2>3. QED
    BY <2>2, SubSeqFull DEF l
<1>5. m + Len(b) = p
  BY <1>2, ConcatType
<1> HIDE DEF A, B, l, m
<1>6. m \in 0..p /\ m \in 0..l /\ 1 \in Nat \ {0}
  BY <1>1, <1>5
<1>7. SubSeq(A \o B, 1, m) = SubSeq(A, 1, m)
  BY <1>2, <1>3, <1>6, SubSeqGrows
<1>8. SubSeq(A, 1, m) = a
  BY Before DEF A, m
<1>9. QED
  BY <1>4, <1>6, <1>7, <1>8 DEF l, m

LEMMA DownMoves ==
  ASSUME NEW T \in Seq(Nat), NEW N \in Nat, NEW W \in [0..N -> Nat], NEW P \in [0..N -> Nat],
         NEW j \in 0..N, NEW c \in 0..Len(T),
         FarStream(T, N, W, P, sent["Dst"], spoiled), sent' = sent, spoiled' = spoiled,
         DownAt(T, W, P, j, c)'
  PROVE  DownInv'
<1>1. FarStream(T, N, W, P, sent'["Dst"], spoiled')
  OBVIOUS
<1>2. QED
  BY <1>1 DEF DownInv

LEMMA DownHeaderInv ==
  ASSUME TypeOK, DownInv, NEW k \in 1..4, DownHeader(k)
  PROVE  DownInv'
<1>1. PICK T \in Seq(Nat), N \in Nat :
        \E W, P \in [0..N -> Nat], j \in 0..N, c \in 0..Len(T) :
          FarStream(T, N, W, P, sent["Dst"], spoiled) /\ DownAt(T, W, P, j, c)
  BY DEF DownInv
<1>2. PICK W \in [0..N -> Nat], P \in [0..N -> Nat], j \in 0..N, c \in 0..Len(T) :
        FarStream(T, N, W, P, sent["Dst"], spoiled) /\ DownAt(T, W, P, j, c)
  BY <1>1
<1> DEFINE S == sent["Dst"]
           w == W[j]
           p == P[j]
           d == c + k
           b == Len(down.buf)
           q == Len(inq["Dst"])
           header == down.buf \o Received("Dst", k)
           next   == ToInt(header)
<1>3. S \in Seq(Nat) /\ down.buf \in Seq(Nat) /\ inq["Dst"] \in Seq(Nat) /\ b \in Nat /\ q \in Nat
  BY Fields, LenProperties DEF Socks
<1>4. w \in Nat /\ p \in 0..Len(S) /\ c \in Nat
  <2>1. w \in Nat /\ p \in 0..Len(S)
    BY <1>2, <1>3, FrameEnds
  <2>2. c \in Nat
    BY LenProperties
  <2>3. QED
    BY <2>1, <2>2
<1>5. /\ w <= c /\ down.buf = SubSeq(T, w + 1, c) /\ wrote["Src"] = SubSeq(S, 1, p)
      /\ inq["Dst"] = Dropped(T, c) /\ ~down.clean
  BY <1>2 DEF DownHeader, DownAt
<1>6. k \in 1..(4 - b) /\ k \in 1..q
  <2>1. k \in 1..Lesser(4 - b, q)
    BY DEF DownHeader
  <2> HIDE DEF b, q
  <2>2. 4 - b \in Int /\ q \in Int /\ k \in Nat
    BY <1>3
  <2>3. QED
    BY <2>1, <2>2, LesserBound
<1>7. b = c - w /\ w \in 0..c
  <2>1. w \in 0..c
    BY <1>4, <1>5
  <2>2. QED
    BY <1>5, <2>1, PartLength
<1>8. d \in 0..Len(T) /\ Dropped(inq["Dst"], k) = Dropped(T, d) /\ header = SubSeq(T, w + 1, d)
  <2>1. k \in 0..q
    BY <1>3, <1>6
  <2>2. \A a \in 0..c : SubSeq(T, a + 1, c) \o Received("Dst", k) = SubSeq(T, a + 1, c + k)
    BY <1>5, <2>1, Reception
  <2>3. c + k \in 0..Len(T) /\ Dropped(inq["Dst"], k) = Dropped(T, c + k)
    BY <1>5, <2>1, Reception
  <2> HIDE DEF w
  <2>4. QED
    BY <1>5, <1>7, <2>2, <2>3
<1>9. /\ inq'["Dst"] = Dropped(inq["Dst"], k) /\ sent' = sent /\ wrote' = wrote /\ fin' = fin
      /\ spoiled' = spoiled /\ down.pc = "header"
      /\ down' = IF Len(header) < 4 THEN [down EXCEPT !.buf = header]
                 ELSE IF next \in 1..MaxFrame
                      THEN [down EXCEPT !.pc = "payload", !.buf = <<>>, !.want = next]
                      ELSE DownStops
  BY DEF DownHeader, TypeOK, Socks
<1> HIDE DEF S, w, p, d, b, q
<1>10. d = c + k /\ w \in 0..d /\ d \in Nat /\ k \in Nat /\ b \in Nat
  BY <1>3, <1>4, <1>5 DEF d
<1>11. Len(header) = d - w
  BY <1>8, <1>10, PartLength
<1>12. CASE Len(header) < 4
  <2>1. down' = [down EXCEPT !.buf = header]
    BY <1>9, <1>12
  <2>2. down'.pc = "header" /\ down'.buf = header /\ down'.clean = down.clean
    BY <1>9, <2>1 DEF TypeOK
  <2>3. DownAt(T, W, P, j, d)'
    <3> HIDE DEF header
    <3>1. w <= d
      BY <1>10
    <3>2. QED
      BY <1>5, <1>8, <1>9, <2>2, <3>1 DEF DownAt, S, w, p
  <2>4. QED
    BY <1>2, <1>8, <1>9, <2>3, DownMoves
<1>13. CASE ~(Len(header) < 4)
  <2>1. d = w + 4
    BY <1>4, <1>6, <1>7, <1>10, <1>11, <1>13, SMTT(60)
  <2>2. next = Announced(T, w + 1)
    <3>1. (w + 1) + 3 = d
      BY <1>4, <2>1
    <3>2. QED
      BY <1>8, <3>1 DEF Announced
  <2>3. CASE next \in 1..MaxFrame
    <3>1. down' = [down EXCEPT !.pc = "payload", !.buf = <<>>, !.want = next]
      BY <1>9, <1>13, <2>3
    <3> HIDE DEF header, next
    <3>2. down'.pc = "payload" /\ down'.buf = <<>> /\ down'.want = next /\ down'.clean = down.clean
      BY <3>1 DEF TypeOK
    <3>3. SubSeq(T, w + 5, d) = <<>>
      <4>1. w + 5 \in Int /\ d \in Int /\ w + 5 > d
        BY <1>4, <2>1
      <4>2. QED
        BY <4>1, SubSeqEmpty
    <3>4. w + 4 <= d
      BY <1>4, <2>1
    <3>5. DownAt(T, W, P, j, d)'
      BY <1>5, <1>8, <1>9, <2>2, <2>3, <3>2, <3>3, <3>4 DEF DownAt, S, w, p, Announced
    <3>6. QED
      BY <1>2, <1>8, <1>9, <3>5, DownMoves
  <2>4. CASE next \notin 1..MaxFrame
    <3>1. down' = DownStops
      BY <1>9, <1>13, <2>4
    <3> HIDE DEF header, next
    <3>2. down'.pc = "done" /\ down'.clean = down.clean
      BY <3>1 DEF DownStops, TypeOK
    <3>3. DownAt(T, W, P, j, d)'
      BY <1>4, <1>5, <1>8, <1>9, <3>2 DEF DownAt, S
    <3>4. QED
      BY <1>2, <1>8, <1>9, <3>3, DownMoves
  <2>5. QED
    BY <2>3, <2>4
<1>14. QED
  BY <1>12, <1>13

\* The plaintext of frame j + 1.
Part(S, P, j) == SubSeq(S, P[j] + 1, P[j + 1])

\* What is found where frame j + 1 starts.
Follows(T, N, W, P, S, j) ==
  /\ j + 1 \in 0..N /\ P[j + 1] \in 0..Len(S) /\ W[j + 1] \in 1..Len(T)
  /\ Part(S, P, j) \in Seq(Nat) /\ Fits(Part(S, P, j))
  /\ Payload(T, W[j] + 1) = Compress(Part(S, P, j))
  /\ W[j + 1] = W[j] + 4 + Announced(T, W[j] + 1) /\ W[j] < W[j + 1]
  /\ SubSeq(S, 1, P[j]) \o Part(S, P, j) = SubSeq(S, 1, P[j + 1])

LEMMA NextFrame ==
  ASSUME NEW T \in Seq(Nat), NEW N \in Nat, NEW W \in [0..N -> Nat], NEW P \in [0..N -> Nat],
         NEW S \in Seq(Nat), NEW bad, FarStream(T, N, W, P, S, bad), NEW j \in 0..N, j # N
  PROVE  Follows(T, N, W, P, S, j)
<1> DEFINE w  == W[j]
           p  == P[j]
           w1 == W[j + 1]
           p1 == P[j + 1]
           x  == SubSeq(S, p + 1, p1)
           e  == Len(T)
           l  == Len(S)
<1>1. j + 1 \in 0..N /\ j + 1 \in 1..N /\ (j + 1) - 1 = j
  OBVIOUS
<1>2. w \in Nat /\ p \in Nat /\ w1 \in Nat /\ p1 \in Nat /\ e \in Nat /\ l \in Nat /\ Overhead \in Nat
  BY <1>1, LenProperties, ConstantTypes
<1>3. /\ p1 \in (p + 1)..l /\ p1 - p + Overhead <= MaxFrame /\ w1 \in 1..e
      /\ Stands(T, w + 1, w1, x)
  <2>1. FarFrame(T, W, P, S, j + 1)
    BY <1>1 DEF FarStream
  <2>2. QED
    BY <1>1, <2>1 DEF FarFrame
<1> HIDE DEF w, p, w1, p1, x, e, l
<1>4. /\ p \in 0..p1 /\ p1 \in 0..l /\ p1 - p # 0 /\ w + 1 \in Nat \ {0} /\ w1 \in 0..e
  BY <1>2, <1>3
<1>5. x \in Seq(Nat) /\ Len(x) = p1 - p
  BY <1>4, PartLength DEF x, l
<1>6. Fits(x)
  BY <1>3, <1>4, <1>5, EmptySeq DEF Fits
<1>7. Payload(T, w + 1) = Compress(x) /\ After(T, w + 1) = w1 + 1
  <2> DEFINE i == w + 1
  <2> HIDE DEF i
  <2>1. i \in Nat \ {0} /\ w1 \in 0..Len(T) /\ Stands(T, i, w1, x)
    BY <1>3, <1>4 DEF i, e
  <2>2. Payload(T, i) = Compress(x) /\ After(T, i) = w1 + 1
    BY <1>5, <1>6, <2>1, FrameFound
  <2>3. QED
    BY <2>2 DEF i
<1>8. w1 = w + 4 + Announced(T, w + 1) /\ w < w1
  <2>1. Announced(T, w + 1) = Len(x) + Overhead /\ w1 = (w + 1) + 3 + Len(x) + Overhead
    <3> DEFINE i == w + 1
    <3> HIDE DEF i
    <3>1. i \in Nat \ {0} /\ w1 \in 0..Len(T) /\ Stands(T, i, w1, x)
      BY <1>3, <1>4 DEF i, e
    <3>2. Announced(T, i) = Len(x) + Overhead /\ w1 = i + 3 + Len(x) + Overhead
      BY <1>5, <1>6, <3>1, FrameFound, ZenonT(90)
    <3>3. QED
      BY <3>2 DEF i
  <2> DEFINE n == Len(x)
             a == Announced(T, w + 1)
  <2>2. n \in Nat /\ a = n + Overhead /\ w1 = (w + 1) + 3 + n + Overhead
    BY <1>5, <2>1, LenProperties
  <2> HIDE DEF n, a
  <2>3. w1 = w + 4 + a /\ w < w1
    BY <1>2, <2>2
  <2>4. QED
    BY <2>3 DEF a
<1>9. SubSeq(S, 1, p) \o x = SubSeq(S, 1, p1)
  <2>1. 1 \in 1..(l + 1) /\ p \in (1 - 1)..l /\ p1 \in p..l
    BY <1>2, <1>3, <1>4
  <2>2. SubSeq(S, 1, p) \o SubSeq(S, p + 1, p1) = SubSeq(S, 1, p1)
    BY <2>1, ConcatAdjacentSubSeq, ZenonT(90) DEF l
  <2>3. QED
    BY <2>2 DEF x
<1>10. QED
  BY <1>1, <1>3, <1>4, <1>5, <1>6, <1>7, <1>8, <1>9 DEF Follows, w, p, w1, p1, e, l, x, Part

LEMMA DownPayloadInv ==
  ASSUME TypeOK, DownInv, NEW k \in 1..MaxFrame, DownPayload(k)
  PROVE  DownInv'
<1>1. PICK T \in Seq(Nat), N \in Nat :
        \E W, P \in [0..N -> Nat], j \in 0..N, c \in 0..Len(T) :
          FarStream(T, N, W, P, sent["Dst"], spoiled) /\ DownAt(T, W, P, j, c)
  BY DEF DownInv
<1>2. PICK W \in [0..N -> Nat], P \in [0..N -> Nat], j \in 0..N, c \in 0..Len(T) :
        FarStream(T, N, W, P, sent["Dst"], spoiled) /\ DownAt(T, W, P, j, c)
  BY <1>1
<1> DEFINE S == sent["Dst"]
           w == W[j]
           p == P[j]
           d == c + k
           b == Len(down.buf)
           q == Len(inq["Dst"])
           n == down.want
           cipher == down.buf \o Received("Dst", k)
<1>3. S \in Seq(Nat) /\ down.buf \in Seq(Nat) /\ inq["Dst"] \in Seq(Nat) /\ b \in Nat /\ q \in Nat
  BY Fields, LenProperties DEF Socks
<1>4. w \in Nat /\ p \in 0..Len(S) /\ c \in Nat /\ k \in Nat
  <2>1. w \in Nat /\ p \in 0..Len(S)
    BY <1>2, <1>3, FrameEnds
  <2>2. c \in Nat /\ k \in Nat
    BY LenProperties, ConstantTypes
  <2>3. QED
    BY <2>1, <2>2
<1>5. /\ w + 4 <= c /\ down.buf = SubSeq(T, w + 5, c) /\ wrote["Src"] = SubSeq(S, 1, p)
      /\ inq["Dst"] = Dropped(T, c) /\ ~down.clean /\ n = Announced(T, w + 1) /\ n \in 1..MaxFrame
  BY <1>2 DEF DownPayload, DownAt
<1>6. n \in Nat /\ MaxFrame \in Nat
  BY <1>5, ConstantTypes, SMTT(60)
<1>7. k \in 1..(n - b) /\ k \in 1..q
  <2>1. k \in 1..Lesser(n - b, q)
    BY DEF DownPayload
  <2> HIDE DEF b, q, n
  <2>2. n - b \in Int /\ q \in Int
    BY <1>3, <1>6
  <2>3. QED
    BY <1>4, <2>1, <2>2, LesserBound
<1>8. w + 4 \in 0..c /\ (w + 4) + 1 = w + 5
  <2> HIDE DEF w
  <2>1. QED
    BY <1>4, <1>5
<1>9. b = c - (w + 4)
  <2>1. Len(SubSeq(T, (w + 4) + 1, c)) = c - (w + 4)
    BY <1>8, PartLength
  <2>2. QED
    BY <1>5, <1>8, <2>1
<1>10. d \in 0..Len(T) /\ Dropped(inq["Dst"], k) = Dropped(T, d) /\ cipher = SubSeq(T, w + 5, d)
  <2>1. k \in 0..q
    BY <1>3, <1>7
  <2>2. \A a \in 0..c : SubSeq(T, a + 1, c) \o Received("Dst", k) = SubSeq(T, a + 1, c + k)
    BY <1>5, <2>1, Reception
  <2>3. c + k \in 0..Len(T) /\ Dropped(inq["Dst"], k) = Dropped(T, c + k)
    BY <1>5, <2>1, Reception
  <2> HIDE DEF w
  <2>4. SubSeq(T, (w + 4) + 1, c) \o Received("Dst", k) = SubSeq(T, (w + 4) + 1, c + k)
    BY <1>8, <2>2
  <2>5. QED
    BY <1>5, <1>8, <2>3, <2>4
<1>11. /\ inq'["Dst"] = Dropped(inq["Dst"], k) /\ sent' = sent /\ wrote' = wrote /\ fin' = fin
       /\ spoiled' = spoiled /\ down.pc = "payload"
       /\ down' = IF Len(cipher) < n THEN [down EXCEPT !.buf = cipher]
                  ELSE IF Authentic(cipher) /\ Len(cipher) > Overhead
                       THEN [down EXCEPT !.pc = "write", !.buf = UnCompress(cipher)]
                       ELSE DownStops
  BY DEF DownPayload, TypeOK, Socks
<1> HIDE DEF S, w, p, d, b, q, n, cipher
<1>12. d = c + k /\ w + 4 \in 0..d /\ d \in Nat /\ w + 4 <= d
  BY <1>4, <1>5, <1>8 DEF d
<1>13. Len(cipher) = d - (w + 4)
  BY <1>8, <1>10, <1>12, PartLength
<1>14. CASE Len(cipher) < n
  <2>1. down' = [down EXCEPT !.buf = cipher]
    BY <1>11, <1>14
  <2>2. down'.pc = "payload" /\ down'.buf = cipher /\ down'.clean = down.clean /\ down'.want = n
    BY <1>11, <2>1 DEF TypeOK, n
  <2>3. DownAt(T, W, P, j, d)'
    BY <1>5, <1>10, <1>11, <1>12, <2>2 DEF DownAt, S, w, p, Announced
  <2>4. QED
    BY <1>2, <1>10, <1>11, <2>3, DownMoves
<1>15. CASE ~(Len(cipher) < n)
  <2>1. d = w + 4 + n
    BY <1>4, <1>6, <1>7, <1>9, <1>12, <1>13, <1>15, <1>3
  <2>2. cipher = Payload(T, w + 1) /\ Len(cipher) = n
    <3>1. (w + 1) + 4 = w + 5 /\ (w + 1) + 3 + n = d /\ d - (w + 4) = n
      BY <1>4, <1>6, <2>1
    <3>2. QED
      BY <1>5, <1>10, <1>13, <3>1 DEF Payload
  <2>3. CASE Authentic(cipher) /\ Len(cipher) > Overhead
    <3>1. j # N
      <4>1. SUFFICES ASSUME j = N PROVE FALSE
        OBVIOUS
      <4>2. Refused(T, w + 1)
        BY <1>2, <4>1 DEF FarStream, w
      <4>3. ~((w + 1) + 3 > Len(T)) /\ ~((w + 1) + 3 + n > Len(T)) /\ ~(n <= Overhead)
        <5> DEFINE e == Len(T)
                   m == Len(cipher)
        <5>1. e \in Nat /\ d \in 0..e /\ m = n /\ m > Overhead /\ Overhead \in Nat
          BY <1>10, <2>2, <2>3, ConstantTypes, LenProperties
        <5> HIDE DEF e, m
        <5>2. ~((w + 1) + 3 > e) /\ ~((w + 1) + 3 + n > e) /\ ~(n <= Overhead)
          BY <1>4, <1>6, <1>12, <2>1, <5>1
        <5>3. QED
          BY <5>2 DEF e
      <4>4. QED
        BY <1>5, <2>2, <2>3, <4>2, <4>3 DEF Refused, Stops
    <3>2. PICK x \in Seq(Nat) :
            /\ Fits(x) /\ Payload(T, w + 1) = Compress(x)
            /\ W[j + 1] = w + 4 + Announced(T, w + 1)
            /\ SubSeq(S, 1, p) \o x = SubSeq(S, 1, P[j + 1])
      <4>1. FarStream(T, N, W, P, S, spoiled)
        BY <1>2 DEF S
      <4> DEFINE x == Part(S, P, j)
      <4>2. /\ x \in Seq(Nat) /\ Fits(x) /\ Payload(T, W[j] + 1) = Compress(x)
            /\ W[j + 1] = W[j] + 4 + Announced(T, W[j] + 1)
            /\ SubSeq(S, 1, P[j]) \o x = SubSeq(S, 1, P[j + 1])
        <5>1. Follows(T, N, W, P, S, j)
          BY <1>3, <3>1, <4>1, NextFrame
        <5>2. QED
          BY <5>1 DEF Follows
      <4> HIDE DEF x
      <4>3. QED
        BY <4>2 DEF w, p
    <3>3. j + 1 \in 0..N
      BY <3>1
    <3>4. UnCompress(cipher) = x
      BY <2>2, <3>2, CompressApart
    <3>5. down' = [down EXCEPT !.pc = "write", !.buf = x]
      BY <1>11, <1>15, <2>3, <3>4
    <3>6. down'.pc = "write" /\ down'.buf = x /\ down'.clean = down.clean /\ x # <<>>
      BY <3>2, <3>5 DEF TypeOK, Fits
    <3>7. W[j + 1] = d
      BY <1>5, <2>1, <3>2
    <3>8. DownAt(T, W, P, j + 1, d)'
      BY <1>5, <1>10, <1>11, <3>2, <3>6, <3>7 DEF DownAt, S
    <3>9. QED
      BY <1>2, <1>10, <1>11, <3>3, <3>8, DownMoves
  <2>4. CASE ~(Authentic(cipher) /\ Len(cipher) > Overhead)
    <3>1. down' = DownStops
      BY <1>11, <1>15, <2>4
    <3>2. down'.pc = "done" /\ down'.clean = down.clean
      BY <3>1 DEF DownStops, TypeOK
    <3>3. DownAt(T, W, P, j, d)'
      BY <1>4, <1>5, <1>10, <1>11, <3>2 DEF DownAt, S
    <3>4. QED
      BY <1>2, <1>10, <1>11, <3>3, DownMoves
  <2>5. QED
    BY <2>3, <2>4
<1>16. QED
  BY <1>14, <1>15

\* proxy_write ends on a read: at a frame's start and at the end of the stream
\* it has written everything.
LEMMA DownReadEndsInv ==
  ASSUME TypeOK, DownInv, DownReadEnds
  PROVE  DownInv'
<1>1. PICK T \in Seq(Nat), N \in Nat :
        \E W, P \in [0..N -> Nat], j \in 0..N, c \in 0..Len(T) :
          FarStream(T, N, W, P, sent["Dst"], spoiled) /\ DownAt(T, W, P, j, c)
  BY DEF DownInv
<1>2. PICK W \in [0..N -> Nat], P \in [0..N -> Nat], j \in 0..N, c \in 0..Len(T) :
        FarStream(T, N, W, P, sent["Dst"], spoiled) /\ DownAt(T, W, P, j, c)
  BY <1>1
<1> DEFINE S == sent["Dst"]
           w == W[j]
           p == P[j]
           e == Len(T)
<1>3. S \in Seq(Nat) /\ e \in Nat
  BY Fields, LenProperties DEF Socks
<1>4. w \in Nat /\ p \in 0..Len(S)
  BY <1>2, <1>3, FrameEnds
<1>5. /\ down.pc \in {"header", "payload"} /\ sent' = sent /\ inq' = inq /\ wrote' = wrote
      /\ fin' = fin /\ spoiled' = spoiled /\ down'.pc = "done"
      /\ down'.clean = (down.pc = "header" /\ down.buf = <<>> /\ AtEOF("Dst"))
  BY DEF DownReadEnds, DownStops, TypeOK, netVars
<1>6. wrote["Src"] = SubSeq(S, 1, p) /\ inq["Dst"] = Dropped(T, c)
  BY <1>2, <1>5 DEF DownAt
<1>7. ASSUME down.pc = "header", down.buf = <<>>, AtEOF("Dst")
      PROVE  wrote["Src"] = S
  <2>1. w <= c /\ SubSeq(T, w + 1, c) = <<>> /\ Dropped(T, c) = <<>>
    BY <1>2, <1>6, <1>7 DEF DownAt, AtEOF
  <2> HIDE DEF w, e
  <2>2. c \in 0..e /\ w \in 0..c
    BY <1>3, <1>4, <2>1 DEF e
  <2>3. c - w = 0
    BY <2>1, <2>2, PartLength, EmptySeq
  <2>4. e - c = 0
    BY <2>1, <2>2, DroppedType, EmptySeq DEF e
  <2>5. w = e
    BY <1>3, <1>4, <2>2, <2>3, <2>4
  <2>6. j = N
    <3>1. SUFFICES ASSUME j # N PROVE FALSE
      OBVIOUS
    <3>2. Follows(T, N, W, P, S, j)
      BY <1>2, <1>3, <3>1, NextFrame
    <3> DEFINE w1 == W[j + 1]
    <3>3. w1 \in 1..e /\ w < w1
      BY <3>2 DEF Follows, w, e
    <3> HIDE DEF w1
    <3>4. QED
      BY <1>3, <1>4, <2>5, <3>3
  <2>7. p = Len(S)
    BY <1>2, <2>6 DEF FarStream
  <2>8. QED
    BY <1>3, <1>6, <2>7, SubSeqFull
<1>8. DownAt(T, W, P, j, c)'
  <2> HIDE DEF p
  <2>1. "Dst" \in fin \/ ~AtEOF("Dst")
    BY DEF AtEOF
  <2>2. QED
    BY <1>4, <1>5, <1>6, <1>7, <2>1 DEF DownAt
<1>9. QED
  BY <1>2, <1>5, <1>8, DownMoves

\* One send, of k bytes of those in hand.
LEMMA DownSend ==
  ASSUME TypeOK, NEW k \in 1..MaxFrame, DownWrite(k)
  PROVE  /\ k \in 1..Len(down.buf) /\ down.buf \in Seq(Nat) /\ down.buf # <<>>
         /\ SubSeq(down.buf, 1, k) \in Seq(Nat) /\ SubSeq(down.buf, 1, k) # <<>>
         /\ Dropped(down.buf, k) \in Seq(Nat)
         /\ SubSeq(down.buf, 1, k) \o Dropped(down.buf, k) = down.buf
         /\ k = Len(down.buf) <=> Dropped(down.buf, k) = <<>>
<1> DEFINE B == down.buf
           b == Len(B)
<1>1. B \in Seq(Nat) /\ b \in Nat /\ Room("Src") \in Int /\ k \in Nat
  BY Fields, LenProperties, RoomType, ConstantTypes DEF Socks
<1>2. k \in 1..b
  <2>1. k \in 1..Lesser(b, Room("Src"))
    BY DEF DownWrite
  <2> HIDE DEF b
  <2>2. QED
    BY <1>1, <2>1, LesserBound
<1> HIDE DEF B, b
<1>3. b # 0 /\ k \in 0..b /\ 0 \in 0..k /\ 0 + 1 = 1 /\ k - 0 # 0 /\ b \in 0..b
      /\ (b - k = 0 <=> k = b)
  BY <1>1, <1>2
<1>4. B # <<>>
  BY <1>1, <1>3, EmptySeq DEF b
<1>5. SubSeq(B, 1, k) \in Seq(Nat) /\ SubSeq(B, 1, k) # <<>>
  <2>1. SubSeq(B, 0 + 1, k) \in Seq(Nat) /\ Len(SubSeq(B, 0 + 1, k)) = k - 0
    BY <1>1, <1>3, PartLength, ZenonT(90) DEF b
  <2> DEFINE A == SubSeq(B, 0 + 1, k)
  <2> HIDE DEF A
  <2>2. A \in Seq(Nat) /\ Len(A) # 0
    BY <1>3, <2>1 DEF A
  <2>3. A # <<>>
    BY <2>2, EmptySeq
  <2>4. QED
    BY <1>3, <2>2, <2>3 DEF A
<1>6. Dropped(B, k) \in Seq(Nat) /\ Len(Dropped(B, k)) = b - k
  BY <1>1, <1>3, DroppedType DEF b
<1>7. k = b <=> Dropped(B, k) = <<>>
  BY <1>3, <1>6, EmptySeq
<1>8. SubSeq(B, 1, k) \o Dropped(B, k) = B
  <2>1. 1 \in 1..(b + 1) /\ k \in (1 - 1)..b /\ b \in k..b
    BY <1>1, <1>2
  <2>2. SubSeq(B, 1, k) \o SubSeq(B, k + 1, b) = SubSeq(B, 1, b)
    BY <1>1, <2>1, ConcatAdjacentSubSeq, ZenonT(90) DEF b
  <2>3. SubSeq(B, 1, b) = B
    BY <1>1, SubSeqFull DEF b
  <2>4. QED
    BY <2>2, <2>3 DEF Dropped, b
<1>9. QED
  BY <1>1, <1>2, <1>4, <1>5, <1>6, <1>7, <1>8 DEF B, b

LEMMA DownWriteInv ==
  ASSUME TypeOK, DownInv, NEW k \in 1..MaxFrame, DownWrite(k)
  PROVE  DownInv'
<1>1. PICK T \in Seq(Nat), N \in Nat :
        \E W, P \in [0..N -> Nat], j \in 0..N, c \in 0..Len(T) :
          FarStream(T, N, W, P, sent["Dst"], spoiled) /\ DownAt(T, W, P, j, c)
  BY DEF DownInv
<1>2. PICK W \in [0..N -> Nat], P \in [0..N -> Nat], j \in 0..N, c \in 0..Len(T) :
        FarStream(T, N, W, P, sent["Dst"], spoiled) /\ DownAt(T, W, P, j, c)
  BY <1>1
<1> DEFINE S == sent["Dst"]
           B == down.buf
           X == SubSeq(B, 1, k)
           Y == Dropped(B, k)
           O == wrote["Src"]
           w == W[j]
           p == P[j]
<1>3. S \in Seq(Nat) /\ O \in Seq(Nat)
  BY Fields DEF Socks
<1>4. w \in Nat /\ p \in 0..Len(S)
  BY <1>2, <1>3, FrameEnds
<1>5. /\ X \in Seq(Nat) /\ Y \in Seq(Nat) /\ X \o Y = B /\ (k = Len(B) <=> Y = <<>>)
  BY DownSend
<1>6. w = c /\ O \o B = SubSeq(S, 1, p) /\ inq["Dst"] = Dropped(T, c) /\ ~down.clean
  BY <1>2 DEF DownWrite, DownAt
<1>7. /\ sent' = sent /\ inq' = inq /\ fin' = fin /\ spoiled' = spoiled /\ wrote'["Src"] = O \o X
      /\ down'.pc = (IF k = Len(B) THEN "header" ELSE "write") /\ down'.buf = Y /\ down'.clean = down.clean
  BY DEF DownWrite, TypeOK, netVars, Socks
<1> HIDE DEF S, B, X, Y, O, w, p
<1>8. (O \o X) \o Y = O \o (X \o Y) /\ O \o X \in Seq(Nat)
  <2>1. O \in Seq(Nat) /\ X \in Seq(Nat) /\ Y \in Seq(Nat)
    BY <1>3, <1>5
  <2>2. (O \o X) \o Y = O \o (X \o Y)
    BY <2>1, Associative
  <2>3. O \o X \in Seq(Nat)
    BY <2>1, ConcatType
  <2>4. QED
    BY <2>2, <2>3
<1>9. (O \o X) \o Y = SubSeq(S, 1, p)
  BY <1>5, <1>6, <1>8
<1>10. CASE Y # <<>>
  <2>1. down'.pc = "write"
    BY <1>5, <1>7, <1>10
  <2>2. DownAt(T, W, P, j, c)'
    BY <1>6, <1>7, <1>9, <1>10, <2>1 DEF DownAt, S, w, p
  <2>3. QED
    BY <1>2, <1>7, <2>2, DownMoves
<1>11. CASE Y = <<>>
  <2>1. down'.pc = "header"
    BY <1>5, <1>7, <1>11
  <2>2. (O \o X) \o <<>> = O \o X
    BY <1>8, ConcatEmptySeq
  <2>3. O \o X = SubSeq(S, 1, p)
    BY <1>9, <1>11, <2>2
  <2>4. SubSeq(T, w + 1, c) = <<>> /\ w <= c
    <3>1. w + 1 \in Int /\ c \in Int /\ w + 1 > c /\ w <= c
      BY <1>4, <1>6
    <3>2. QED
      BY <3>1, SubSeqEmpty
  <2>5. DownAt(T, W, P, j, c)'
    BY <1>6, <1>7, <1>11, <2>1, <2>3, <2>4 DEF DownAt, S, w, p
  <2>6. QED
    BY <1>2, <1>7, <2>5, DownMoves
<1>12. QED
  BY <1>10, <1>11

LEMMA DownWriteEndsInv ==
  ASSUME TypeOK, DownInv, DownWriteEnds
  PROVE  DownInv'
<1>1. PICK T \in Seq(Nat), N \in Nat :
        \E W, P \in [0..N -> Nat], j \in 0..N, c \in 0..Len(T) :
          FarStream(T, N, W, P, sent["Dst"], spoiled) /\ DownAt(T, W, P, j, c)
  BY DEF DownInv
<1>2. PICK W \in [0..N -> Nat], P \in [0..N -> Nat], j \in 0..N, c \in 0..Len(T) :
        FarStream(T, N, W, P, sent["Dst"], spoiled) /\ DownAt(T, W, P, j, c)
  BY <1>1
<1> DEFINE S == sent["Dst"]
           p == P[j]
<1>3. S \in Seq(Nat) /\ wrote["Src"] \in Seq(Nat) /\ down.buf \in Seq(Nat)
  BY Fields DEF Socks
<1>4. p \in 0..Len(S)
  BY <1>2, <1>3, FrameEnds
<1>5. wrote["Src"] \o down.buf = SubSeq(S, 1, p) /\ inq["Dst"] = Dropped(T, c) /\ ~down.clean
  BY <1>2 DEF DownWriteEnds, DownAt
<1>6. /\ sent' = sent /\ inq' = inq /\ wrote' = wrote /\ fin' = fin /\ spoiled' = spoiled
      /\ down'.pc = "done" /\ down'.clean = down.clean
  BY DEF DownWriteEnds, DownStops, TypeOK, netVars
<1> HIDE DEF S, p
<1>7. Len(wrote["Src"]) \in 0..Len(S) /\ wrote["Src"] = SubSeq(S, 1, Len(wrote["Src"]))
  BY <1>3, <1>4, <1>5, Shorter
<1>8. DownAt(T, W, P, j, c)'
  BY <1>5, <1>6, <1>7 DEF DownAt, S
<1>9. QED
  BY <1>2, <1>6, <1>8, DownMoves

LEMMA DownInvNext ==
  ASSUME TypeOK, DownInv, LimitHolds, [Next]_vars
  PROVE  DownInv'
<1>1. CASE ProxyWrite
  BY <1>1, DownHeaderInv, DownPayloadInv, DownWriteInv, DownReadEndsInv, DownWriteEndsInv DEF ProxyWrite
<1>2. CASE ProxyRead
  BY <1>2, DownStays DEF ProxyRead, UpRead, UpWrite, UpReadEnds, UpWriteEnds, TypeOK, Socks, netVars
<1>3. CASE ClientSend
  BY <1>3, DownStays DEF ClientSend, TypeOK, Socks
<1>4. CASE \E s \in Socks : Close(s) \/ Fin(s) \/ Reset(s) \/ Drain(s)
  BY <1>4, DownStays DEF Close, Fin, Reset, Drain, netVars
<1>5. CASE \E n \in 1..ReadMax : FarSend(n)
  BY <1>5, FarSendInv
<1>6. CASE \E bad \in BadFrames : FarSpoil(bad)
  BY <1>6, FarSpoilInv
<1>7. CASE \E n \in 1..(4 + Overhead) : FarBreakOff(n)
  BY <1>7, FarBreakOffInv
<1>8. CASE UNCHANGED vars
  BY <1>8, DownStays DEF vars
<1>9. QED
  BY <1>1, <1>2, <1>3, <1>4, <1>5, <1>6, <1>7, <1>8 DEF Next, Endpoints

-----------------------------------------------------------------------------
(* Both directions together.                                               *)

DuplexInv == IInv /\ UpInv /\ DownInv

LEMMA DuplexInvInit == Init => DuplexInv
  BY InitInv, UpInvInit, DownInvInit DEF DuplexInv

LEMMA DuplexInvNext ==
  ASSUME LimitHolds
  PROVE  DuplexInv /\ [Next]_vars => DuplexInv'
<1>1. SUFFICES ASSUME DuplexInv, [Next]_vars
               PROVE  IInv' /\ UpInv' /\ DownInv'
  BY DEF DuplexInv
<1>2. IInv /\ UpInv /\ DownInv /\ TypeOK
  BY <1>1 DEF DuplexInv, IInv
<1>3. IInv'
  BY <1>1, <1>2, NextInv
<1>4. UpInv'
  BY <1>1, <1>2, UpInvNext
<1>5. DownInv'
  BY <1>1, <1>2, DownInvNext
<1>6. QED
  BY <1>3, <1>4, <1>5

LEMMA NothingLost ==
  ASSUME DownInv, down.clean
  PROVE  wrote["Src"] = sent["Dst"]
<1>1. PICK T \in Seq(Nat), N \in Nat :
        \E W, P \in [0..N -> Nat], j \in 0..N, c \in 0..Len(T) :
          FarStream(T, N, W, P, sent["Dst"], spoiled) /\ DownAt(T, W, P, j, c)
  BY DEF DownInv
<1>2. QED
  BY <1>1 DEF DownAt

\* Under every cutting of recv and send, refused frames, resets and timeouts, a
\* pump that ends because its peer finished sending has passed on every byte of
\* that peer: upstream as the far end decodes the frames (proxy_read,
\* socks5server.cpp 142-180), downstream as the client receives it (proxy_write,
\* 182-232).  The length limit of 202 has to fit into three bytes.
THEOREM NoLoss == ASSUME LimitHolds PROVE Spec => []NoLossAtEOF
<1>1. Init => DuplexInv
  BY DuplexInvInit
<1>2. DuplexInv /\ [Next]_vars => DuplexInv'
  BY DuplexInvNext
<1>3. DuplexInv => NoLossAtEOF
  BY NothingLost DEF DuplexInv, UpInv, NoLossAtEOF
<1>4. QED
  BY <1>1, <1>2, <1>3, PTL DEF Spec

-----------------------------------------------------------------------------
(* The session implements the two pipes: each step is a step of one pipe,   *)
(* or changes neither.                                                     *)

\* What has come out of each pipe is the beginning of what was put into it.
Reached ==
  /\ LastCut.plain \in 0..Len(sent["Src"])
  /\ Forwarded = SubSeq(sent["Src"], 1, LastCut.plain)
  /\ \E m \in 0..Len(sent["Dst"]) : wrote["Src"] = SubSeq(sent["Dst"], 1, m)

LEMMA DownReached ==
  ASSUME TypeOK, DownInv
  PROVE  \E m \in 0..Len(sent["Dst"]) : wrote["Src"] = SubSeq(sent["Dst"], 1, m)
<1>1. PICK T \in Seq(Nat), N \in Nat :
        \E W, P \in [0..N -> Nat], j \in 0..N, c \in 0..Len(T) :
          FarStream(T, N, W, P, sent["Dst"], spoiled) /\ DownAt(T, W, P, j, c)
  BY DEF DownInv
<1>2. PICK W \in [0..N -> Nat], P \in [0..N -> Nat], j \in 0..N, c \in 0..Len(T) :
        FarStream(T, N, W, P, sent["Dst"], spoiled) /\ DownAt(T, W, P, j, c)
  BY <1>1
<1>3. sent["Dst"] \in Seq(Nat) /\ wrote["Src"] \in Seq(Nat) /\ down.buf \in Seq(Nat)
  BY Fields DEF Socks
<1>4. P[j] \in 0..Len(sent["Dst"])
  BY <1>2, <1>3, FrameEnds
<1>5. CASE down.pc = "write"
  <2>1. wrote["Src"] \o down.buf = SubSeq(sent["Dst"], 1, P[j])
    BY <1>2, <1>5 DEF DownAt
  <2>2. QED
    BY <1>3, <1>4, <2>1, Shorter
<1>6. CASE down.pc \in {"header", "payload"}
  BY <1>2, <1>4, <1>6 DEF DownAt
<1>7. CASE down.pc = "done"
  BY <1>2, <1>7 DEF DownAt
<1>8. QED
  BY <1>5, <1>6, <1>7 DEF TypeOK

LEMMA AllReached == DuplexInv => Reached
<1> SUFFICES ASSUME DuplexInv PROVE Reached
  OBVIOUS
<1>1. IInv /\ UpInv /\ DownInv /\ TypeOK
  BY DEF DuplexInv, IInv
<1>2. Unfinished
  BY <1>1, AlwaysUnfinished
<1>3. Forwarded = SubSeq(sent["Src"], 1, LastCut.plain)
  BY <1>1, <1>2, ForwardedIs
<1>4. LastCut.plain \in 0..Len(sent["Src"])
  BY <1>1, CutTypes
<1>5. QED
  BY <1>1, <1>3, <1>4, DownReached DEF Reached

\* What a step changes, as the pipes see it.
SentSame(s) == sent'[s] = sent[s]
UpStill     == SentSame("Src") /\ Forwarded' = Forwarded /\ (up'.pc = "done" <=> up.pc = "done")
DownStill   == SentSame("Dst") /\ wrote'["Src"] = wrote["Src"] /\ (down'.pc = "done" <=> down.pc = "done")

Grows(s, t) == s # t /\ Pipe!IsPrefix(s, t)

UpMoves ==
  \/ UpStill
  \/ Grows(sent["Src"], sent'["Src"]) /\ Forwarded' = Forwarded /\ (up'.pc = "done" <=> up.pc = "done")
  \/ /\ SentSame("Src") /\ Grows(Forwarded, Forwarded') /\ Pipe!IsPrefix(Forwarded', sent["Src"])
     /\ up.pc # "done" /\ up'.pc # "done"
  \/ SentSame("Src") /\ Forwarded' = Forwarded /\ up.pc # "done" /\ up'.pc = "done"

DownFlows ==
  \/ DownStill
  \/ /\ Grows(sent["Dst"], sent'["Dst"]) /\ wrote'["Src"] = wrote["Src"]
     /\ (down'.pc = "done" <=> down.pc = "done")
  \/ /\ SentSame("Dst") /\ Grows(wrote["Src"], wrote'["Src"])
     /\ Pipe!IsPrefix(wrote'["Src"], sent["Dst"])
     /\ down.pc # "done" /\ down'.pc # "done"
  \/ SentSame("Dst") /\ wrote'["Src"] = wrote["Src"] /\ down.pc # "done" /\ down'.pc = "done"

\* Steps of one pipe at a time are steps of Duplex.
LEMMA PipeSteps ==
  ASSUME (UpMoves /\ DownStill) \/ (UpStill /\ DownFlows)
  PROVE  [Pipe!Next]_(Pipe!vars)
<1>1. CASE UpStill /\ DownStill
  BY <1>1 DEF UpStill, DownStill, SentSame, Pipe!vars
<1>2. CASE UpMoves /\ ~UpStill /\ DownStill
  <2>1. Pipe!Put("up") \/ Pipe!Deliver("up") \/ Pipe!Break("up")
    BY <1>2 DEF UpMoves, UpStill, DownStill, SentSame, Grows,
                Pipe!Put, Pipe!Deliver, Pipe!Break, Pipe!OnlyAt
  <2>2. QED
    BY <2>1 DEF Pipe!Next
<1>3. CASE UpStill /\ DownFlows /\ ~DownStill
  <2>1. Pipe!Put("down") \/ Pipe!Deliver("down") \/ Pipe!Break("down")
    BY <1>3 DEF DownFlows, UpStill, DownStill, SentSame, Grows,
                Pipe!Put, Pipe!Deliver, Pipe!Break, Pipe!OnlyAt
  <2>2. QED
    BY <2>1 DEF Pipe!Next
<1>4. QED
  BY <1>1, <1>2, <1>3

LEMMA Appended ==
  ASSUME NEW s \in Seq(Nat), NEW t \in Seq(Nat), t # <<>>
  PROVE  Grows(s, s \o t)
<1>1. /\ s \o t \in Seq(Nat) /\ Len(s \o t) = Len(s) + Len(t)
      /\ Len(s) \in Nat /\ Len(t) \in Nat /\ Len(t) # 0
  BY ConcatType, LenProperties, EmptySeq
<1>2. s # s \o t
  BY <1>1
<1>3. QED
  BY <1>2, Extension DEF Grows

LEMMA LongerBeginning ==
  ASSUME NEW s \in Seq(Nat), NEW b \in 0..Len(s), NEW a \in 0..b, a # b
  PROVE  Grows(SubSeq(s, 1, a), SubSeq(s, 1, b)) /\ Pipe!IsPrefix(SubSeq(s, 1, b), s)
<1> DEFINE A == SubSeq(s, 1, a)
           B == SubSeq(s, 1, b)
<1>1. /\ Len(s) \in Nat /\ a \in 0..Len(s) /\ a \in Nat /\ b \in Nat /\ b # 0
      /\ a <= Len(s) /\ b <= Len(s) /\ 1 \in Nat \ {0}
  BY LenProperties
<1>2. A \in Seq(Nat) /\ B \in Seq(Nat)
  BY <1>1, SubSeqType
<1>3. Len(A) = a /\ Len(B) = b /\ Pipe!IsPrefix(B, s)
  BY <1>1, <1>2, Beginning
<1>4. A = SubSeq(B, 1, a)
  <2>1. CASE a = 0
    BY <1>2, <2>1, SubSeqEmpty
  <2>2. CASE a # 0
    <3>1. 1 \in 1..Len(s) /\ b \in 1..Len(s) /\ 1 \in 1..(b - 1 + 1) /\ a \in 1..(b - 1 + 1)
      BY <1>1, <2>2
    <3>2. SubSeq(B, 1, a) = SubSeq(s, 1 + 1 - 1, 1 + a - 1)
      BY <3>1, Within
    <3>3. 1 + 1 - 1 = 1 /\ 1 + a - 1 = a
      BY <1>1
    <3>4. QED
      BY <3>2, <3>3
  <2>3. QED
    BY <2>1, <2>2
<1>5. Pipe!IsPrefix(A, B)
  <2>1. a \in 0..Len(B)
    BY <1>3
  <2>2. QED
    BY <1>2, <1>4, <2>1, Beginning
<1>6. A # B
  BY <1>3
<1>7. QED
  BY <1>3, <1>5, <1>6 DEF Grows

\* A send of the last bytes of a frame delivers the frame's plaintext upstream.
LEMMA UpWritePipe ==
  ASSUME IInv, Reached, Reached', NEW k \in 1..(4 + MaxFrame), UpWrite(k)
  PROVE  UpMoves
<1>1. /\ sent' = sent /\ inq' = inq /\ up.pc = "write"
      /\ up'.pc = (IF k = Len(up.buf) THEN "read" ELSE "write")
  BY DEF UpWrite, IInv, TypeOK, netVars
<1>2. /\ Forwarded = SubSeq(sent["Src"], 1, LastCut.plain)
      /\ Forwarded' = SubSeq(sent["Src"], 1, LastCut'.plain)
      /\ LastCut'.plain \in 0..Len(sent["Src"])
  BY <1>1 DEF Reached
<1>3. /\ Len(cuts) \in Nat /\ LastCut.plain \in 0..Len(sent["Src"])
      /\ sent["Src"] \in Seq(Nat) /\ Len(sent["Src"]) \in Nat
  BY CutTypes
<1>4. CASE k = Len(up.buf)
  <2> DEFINE cut == [wire |-> Len(wrote["Dst"]) + k, plain |-> Consumed]
  <2>1. cuts' = Append(cuts, cut)
    BY <1>4 DEF UpWrite, Consumed
  <2>2. cuts \in Seq([wire : Nat, plain : Nat]) /\ cut \in [wire : Nat, plain : Nat]
    <3>1. cuts \in Seq([wire : Nat, plain : Nat])
      BY DEF IInv, TypeOK
    <3>2. Len(wrote["Dst"]) + k \in Nat
      BY CutTypes, ConstantTypes
    <3>3. Consumed \in Nat
      BY ConsumedRange DEF IInv
    <3>4. QED
      BY <3>1, <3>2, <3>3
  <2> HIDE DEF cut
  <2>3. cuts' # <<>> /\ cuts'[Len(cuts')] = cut
    <3>1. Append(cuts, cut) # <<>> /\ Len(Append(cuts, cut)) = Len(cuts) + 1
          /\ Append(cuts, cut)[Len(cuts) + 1] = cut
      BY <2>2, AppendProperties, SMTT(60)
    <3>2. QED
      BY <2>1, <3>1
  <2>4. LastCut'.plain = Consumed
    BY <2>3 DEF LastCut, cut
  <2>5. Consumed - LastCut.plain \in 1..ReadMax
    BY <1>1 DEF IInv, InHand
  <2>6. LastCut.plain \in 0..LastCut'.plain /\ LastCut.plain # LastCut'.plain
    <3>1. \A l, c \in Nat : c - l \in 1..ReadMax => l \in 0..c /\ l # c
      BY ConstantTypes
    <3>2. LastCut.plain \in Nat /\ Consumed \in Nat
      BY <1>3, ConsumedRange DEF IInv
    <3>3. LastCut.plain \in 0..Consumed /\ LastCut.plain # Consumed
      BY <2>5, <3>1, <3>2
    <3>4. QED
      BY <2>4, <3>3
  <2>7. Grows(Forwarded, Forwarded') /\ Pipe!IsPrefix(Forwarded', sent["Src"])
    BY <1>2, <1>3, <2>6, LongerBeginning
  <2>8. QED
    BY <1>1, <1>4, <2>7 DEF UpMoves, SentSame
<1>5. CASE k # Len(up.buf)
  <2>1. cuts' = cuts
    BY <1>5 DEF UpWrite
  <2>2. LastCut' = LastCut
    BY <2>1 DEF LastCut
  <2>3. QED
    BY <1>1, <1>2, <1>5, <2>2 DEF UpMoves, UpStill, SentSame
<1>6. QED
  BY <1>4, <1>5

LEMMA DownWritePipe ==
  ASSUME TypeOK, Reached', NEW k \in 1..MaxFrame, DownWrite(k)
  PROVE  DownFlows
<1> DEFINE O == wrote["Src"]
           X == SubSeq(down.buf, 1, k)
           S == sent["Dst"]
<1>1. /\ sent' = sent /\ wrote'["Src"] = O \o X /\ down.pc = "write"
      /\ down'.pc = (IF k = Len(down.buf) THEN "header" ELSE "write")
  BY DEF DownWrite, TypeOK, Socks, netVars
<1>2. O \in Seq(Nat) /\ S \in Seq(Nat)
  BY Fields DEF Socks
<1>3. X \in Seq(Nat) /\ X # <<>>
  BY DownSend
<1>4. PICK m \in 0..Len(S) : wrote'["Src"] = SubSeq(S, 1, m)
  BY <1>1 DEF Reached
<1> HIDE DEF O, X, S
<1>5. O \o X \in Seq(Nat)
  BY <1>2, <1>3, ConcatType
<1>6. Pipe!IsPrefix(O \o X, S)
  <2>1. O \o X = SubSeq(S, 1, m)
    BY <1>1, <1>4
  <2>2. QED
    BY <1>2, <1>5, <2>1, Beginning
<1>7. Grows(O, O \o X)
  BY <1>2, <1>3, Appended
<1>8. QED
  BY <1>1, <1>6, <1>7 DEF DownFlows, SentSame, O, S

LEMMA PipeNext ==
  ASSUME DuplexInv, Reached, Reached', [Next]_vars
  PROVE  [Pipe!Next]_(Pipe!vars)
<1>1. IInv /\ TypeOK
  BY DEF DuplexInv, IInv
<1>2. ASSUME up' = up, SentSame("Src"), wrote'["Dst"] = wrote["Dst"]
      PROVE  UpStill
  BY <1>2, UpSame DEF UpStill
<1>3. CASE ProxyRead
  <2>1. DownStill
    <3>1. sent' = sent /\ down' = down
      BY <1>3 DEF ProxyRead, UpRead, UpWrite, UpReadEnds, UpWriteEnds, netVars
    <3>2. wrote'["Src"] = wrote["Src"]
      BY <1>1, <1>3 DEF ProxyRead, UpRead, UpWrite, UpReadEnds, UpWriteEnds, TypeOK, Socks
    <3>3. QED
      BY <3>1, <3>2 DEF DownStill, SentSame
  <2>2. UpMoves
    <3>1. ASSUME NEW k \in 1..(4 + MaxFrame), UpWrite(k) PROVE UpMoves
      BY <1>1, <3>1, UpWritePipe
    <3>2. ASSUME NEW k \in 1..ReadMax, UpRead(k) PROVE UpMoves
      <4>1. sent' = sent /\ wrote' = wrote /\ up.pc = "read" /\ up'.pc = "write"
        BY <1>1, <3>2 DEF UpRead, TypeOK
      <4>2. Forwarded' = Forwarded
        BY <4>1, UpSame
      <4>3. QED
        BY <4>1, <4>2 DEF UpMoves, UpStill, SentSame
    <3>3. CASE UpReadEnds \/ UpWriteEnds
      <4>1. sent' = sent /\ wrote' = wrote /\ up.pc # "done" /\ up'.pc = "done"
        BY <1>1, <3>3 DEF UpReadEnds, UpWriteEnds, TypeOK, netVars
      <4>2. Forwarded' = Forwarded
        BY <4>1, UpSame
      <4>3. QED
        BY <4>1, <4>2 DEF UpMoves, SentSame
    <3>4. QED
      BY <1>3, <3>1, <3>2, <3>3 DEF ProxyRead
  <2>3. QED
    BY <2>1, <2>2, PipeSteps
<1>4. CASE ProxyWrite
  <2>1. UpStill
    <3>1. up' = up /\ sent' = sent
      BY <1>4 DEF ProxyWrite, DownHeader, DownPayload, DownWrite, DownReadEnds, DownWriteEnds, netVars
    <3>2. wrote'["Dst"] = wrote["Dst"]
      BY <1>1, <1>4 DEF ProxyWrite, DownHeader, DownPayload, DownWrite, DownReadEnds, DownWriteEnds,
                        TypeOK, Socks
    <3>3. QED
      BY <1>2, <3>1, <3>2 DEF SentSame
  <2>2. DownFlows
    <3>1. ASSUME NEW k \in 1..MaxFrame, DownWrite(k) PROVE DownFlows
      BY <1>1, <3>1, DownWritePipe
    <3>2. CASE \/ \E k \in 1..4 : DownHeader(k)
               \/ \E k \in 1..MaxFrame : DownPayload(k)
               \/ DownReadEnds \/ DownWriteEnds
      <4>1. sent' = sent /\ wrote' = wrote
        BY <3>2 DEF DownHeader, DownPayload, DownReadEnds, DownWriteEnds, netVars
      <4>2. down.pc # "done"
        BY <3>2 DEF DownHeader, DownPayload, DownReadEnds, DownWriteEnds
      <4>3. QED
        BY <4>1, <4>2 DEF DownFlows, DownStill, SentSame
    <3>3. QED
      BY <1>4, <3>1, <3>2 DEF ProxyWrite
  <2>3. QED
    BY <2>1, <2>2, PipeSteps
<1>5. CASE ClientSend
  <2> DEFINE byte == Len(sent["Src"]) + 1
  <2>1. /\ sent'["Src"] = Append(sent["Src"], byte) /\ sent'["Dst"] = sent["Dst"]
        /\ wrote' = wrote /\ up' = up /\ down' = down
    BY <1>1, <1>5 DEF ClientSend, TypeOK, Socks
  <2>2. sent["Src"] \in Seq(Nat) /\ byte \in Nat
    BY <1>1, Fields, LenProperties DEF Socks
  <2> HIDE DEF byte
  <2>3. Append(sent["Src"], byte) = sent["Src"] \o << byte >>
    BY <2>2, AppendIsConcat
  <2>4. << byte >> \in Seq(Nat) /\ << byte >> # <<>>
    BY <2>2
  <2>5. Grows(sent["Src"], sent'["Src"])
    BY <2>1, <2>2, <2>3, <2>4, Appended
  <2>6. Forwarded' = Forwarded
    BY <2>1, UpSame
  <2>7. UpMoves /\ DownStill
    BY <2>1, <2>5, <2>6 DEF UpMoves, DownStill, SentSame
  <2>8. QED
    BY <2>7, PipeSteps
<1>6. ASSUME NEW n \in 1..ReadMax, FarSend(n)
      PROVE  [Pipe!Next]_(Pipe!vars)
  <2>1. /\ sent'["Dst"] = sent["Dst"] \o Chunk(n) /\ sent'["Src"] = sent["Src"]
        /\ wrote' = wrote /\ up' = up /\ down' = down
    BY <1>1, <1>6 DEF FarSend, TypeOK, Socks
  <2>2. sent["Dst"] \in Seq(Nat) /\ Chunk(n) \in Seq(Nat) /\ Chunk(n) # <<>>
    <3>1. n \in Nat /\ n # 0
      BY ConstantTypes
    <3>2. Chunk(n) \in Seq(Nat) /\ Len(Chunk(n)) = n
      BY <1>1, <3>1, ChunkType
    <3>3. Chunk(n) # <<>>
      BY <3>1, <3>2, EmptySeq
    <3>4. QED
      BY <1>1, <3>2, <3>3, Fields DEF Socks
  <2>3. Grows(sent["Dst"], sent'["Dst"])
    BY <2>1, <2>2, Appended
  <2>4. UpStill /\ DownFlows
    BY <1>2, <2>1, <2>3 DEF DownFlows, SentSame
  <2>5. QED
    BY <2>4, PipeSteps
<1>7. CASE \/ \E s \in Socks : Close(s) \/ Fin(s) \/ Reset(s) \/ Drain(s)
           \/ \E bad \in BadFrames : FarSpoil(bad)
           \/ \E n \in 1..(4 + Overhead) : FarBreakOff(n)
           \/ UNCHANGED vars
  <2>1. sent' = sent /\ wrote' = wrote /\ up' = up /\ down' = down
    BY <1>7 DEF Close, Fin, Reset, Drain, FarSpoil, FarBreakOff, vars, netVars
  <2>2. UpStill /\ DownStill
    BY <1>2, <2>1 DEF DownStill, SentSame
  <2>3. QED
    BY <2>2, PipeSteps DEF UpMoves
<1>8. QED
  BY <1>3, <1>4, <1>5, <1>6, <1>7 DEF Next, Endpoints

LEMMA PipeInit == Init => Pipe!Init
<1> SUFFICES ASSUME Init PROVE Pipe!Init
  OBVIOUS
<1>1. /\ sent["Src"] = <<>> /\ sent["Dst"] = <<>> /\ wrote["Src"] = <<>>
      /\ up.pc = "read" /\ down.pc = "header"
  BY DEF Init, Socks
<1>2. Reached
  BY DuplexInvInit, AllReached
<1>3. Forwarded = <<>>
  <2>1. LastCut.plain \in 0..0 /\ Forwarded = SubSeq(<<>>, 1, LastCut.plain)
    BY <1>1, <1>2, EmptySeq DEF Reached
  <2>2. LastCut.plain = 0
    BY <2>1
  <2>3. QED
    BY <2>1, <2>2, SubSeqEmpty
<1>4. QED
  BY <1>1, <1>3 DEF Pipe!Init

\* Both directions of a session (socks5server.cpp 142-259) are FIFO byte pipes,
\* whatever recv and send do, whatever the far end sends and however either
\* connection ends: Relay implements Duplex.
THEOREM PipesImplemented == ASSUME LimitHolds PROVE Spec => PipesRefined
<1>1. Init => Pipe!Init /\ DuplexInv
  BY PipeInit, DuplexInvInit
<1>2. DuplexInv /\ [Next]_vars => DuplexInv'
  BY DuplexInvNext
<1>3. DuplexInv => Reached
  BY AllReached
<1>4. DuplexInv /\ Reached /\ Reached' /\ [Next]_vars => [Pipe!Next]_(Pipe!vars)
  BY PipeNext
<1>5. QED
  BY <1>1, <1>2, <1>3, <1>4, PTL DEF Spec, PipesRefined, Pipe!Spec
=============================================================================
