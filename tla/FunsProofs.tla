----------------------------- MODULE FunsProofs -----------------------------
(***************************************************************************)
(* The byte helpers invert each other over the whole range of their        *)
(* machine types.                                                          *)
(***************************************************************************)
EXTENDS Funs, SequenceTheorems, TLAPS

LEMMA ByteRange ==
  ASSUME NEW v
  PROVE  v \in Byte <=> v \in Nat /\ v < 256
  BY SMT DEF Byte

\* funs.cpp 14-22 returns exactly four bytes, each one in range: the frame
\* header proxy_read prepends never spills into the ciphertext after it.
THEOREM ToBytesType ==
  ASSUME NEW v \in Nat
  PROVE  /\ ToBytes(v) \in Seq(Byte)
         /\ Len(ToBytes(v)) = 4
<1>1. /\ (v \div 16777216) % 256 \in Byte
      /\ (v \div 65536) % 256 \in Byte
      /\ (v \div 256) % 256 \in Byte
      /\ v % 256 \in Byte
  BY SMT DEF Byte
<1>2. QED
  BY <1>1, SMT DEF ToBytes

\* A header written by ToBytes (funs.cpp 14-22) is read back by ToInt
\* (funs.cpp 3-12) as the number that was written, for every 32-bit number.
THEOREM IntRoundTrip ==
  ASSUME NEW v \in UInt32
  PROVE  ToInt(ToBytes(v)) = v
<1>1. v \in Nat /\ v < 4294967296
  BY SMT DEF UInt32
<1>2. QED
  BY <1>1, SMT DEF ToBytes, ToInt

\* The same for the two-byte helpers (funs.cpp 24-31 and 33-39).
THEOREM ShortRoundTrip ==
  ASSUME NEW v \in UInt16
  PROVE  ToShort(U16ToBytes(v)) = v
<1>1. v \in Nat /\ v < 65536
  BY SMT DEF UInt16
<1>2. QED
  BY <1>1, SMT DEF U16ToBytes, ToShort

\* Every four bytes are the header of the number they decode to (funs.cpp
\* 3-22), so distinct headers never announce the same frame length.
THEOREM BytesRoundTrip ==
  ASSUME NEW b \in Seq(Byte), Len(b) = 4
  PROVE  /\ ToInt(b) \in UInt32
         /\ ToBytes(ToInt(b)) = b
<1> DEFINE n == ToInt(b)
<1>1. b[1] \in Byte /\ b[2] \in Byte /\ b[3] \in Byte /\ b[4] \in Byte
  BY ElementOfSeq, 1 \in 1..Len(b), 2 \in 1..Len(b), 3 \in 1..Len(b), 4 \in 1..Len(b)
<1>2. n = b[1] * 16777216 + b[2] * 65536 + b[3] * 256 + b[4] /\ n \in Nat
  BY <1>1, ByteRange, SMTT(60) DEF ToInt
<1> HIDE DEF n
<1>3. /\ n < 4294967296
      /\ (n \div 16777216) % 256 = b[1]
      /\ (n \div 65536) % 256 = b[2]
      /\ (n \div 256) % 256 = b[3]
      /\ n % 256 = b[4]
  <2>1. ASSUME NEW w \in Byte, NEW x \in Byte, NEW y \in Byte, NEW z \in Byte,
               n = w * 16777216 + x * 65536 + y * 256 + z
        PROVE  /\ n < 4294967296
               /\ (n \div 16777216) % 256 = w
               /\ (n \div 65536) % 256 = x
               /\ (n \div 256) % 256 = y
               /\ n % 256 = z
    <3>1. /\ w \in Nat /\ w < 256 /\ x \in Nat /\ x < 256
          /\ y \in Nat /\ y < 256 /\ z \in Nat /\ z < 256
      BY <2>1, ByteRange
    <3>2. n < 4294967296
      BY <2>1, <3>1, SMT
    <3>3. (n \div 16777216) % 256 = w
      BY <2>1, <3>1, SMT
    <3>4. (n \div 65536) % 256 = x
      <4>1. n \div 65536 = w * 256 + x
        BY <2>1, <3>1, SMT
      <4>2. QED
        BY <3>1, <4>1, SMT
    <3>5. (n \div 256) % 256 = y
      <4>1. n \div 256 = (w * 256 + x) * 256 + y
        BY <2>1, <3>1, SMT
      <4>2. QED
        BY <3>1, <4>1, SMT
    <3>6. n % 256 = z
      BY <2>1, <3>1, SMT
    <3>7. QED
      BY <3>2, <3>3, <3>4, <3>5, <3>6, SMT
  <2>2. QED
    BY <1>1, <1>2, <2>1, SMT
<1>4. ToBytes(n) = << b[1], b[2], b[3], b[4] >>
  BY <1>3, SMT DEF ToBytes
<1>5. b = << b[1], b[2], b[3], b[4] >>
  BY SMT
<1>6. n \in UInt32
  BY <1>2, <1>3, SMT DEF UInt32
<1>7. QED
  BY <1>4, <1>5, <1>6, SMT DEF n
=============================================================================
