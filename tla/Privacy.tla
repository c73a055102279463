------------------------------ MODULE Privacy ------------------------------
(***************************************************************************)
(* The cipher objects of src/privacy: their names, the bytes by which one  *)
(* end tells the other which cipher and vector it uses, and what an object *)
(* refuses to encrypt.  An object is a record of its name and its vector.  *)
(***************************************************************************)
EXTENDS Integers, Sequences

Methods == {"AES-GCM", "CHACHA-20", "CHACHA-POLY1305", "RAW"}
Aead    == {"AES-GCM", "CHACHA-POLY1305"}

\* The second byte of the mask each class writes in ToBytes (0x34 to 0x37); the
\* first one is 18 (0x12).
Mask(name) == CASE name = "AES-GCM"         -> 52
                [] name = "CHACHA-20"       -> 53
                [] name = "CHACHA-POLY1305" -> 54
                [] name = "RAW"             -> 55

\* Mutated: the switch has no case for the mask of RAW.
ByMaskNoRaw(byte) == CASE byte = 52 -> {"AES-GCM"}
                       [] byte = 53 -> {"CHACHA-20"}
                       [] byte = 54 -> {"CHACHA-POLY1305"}
                       [] OTHER     -> {}

\* The class build_privacy_method makes for such a byte; none for any other one.
ByMask(byte) == CASE byte = 52 -> {"AES-GCM"}
                  [] byte = 53 -> {"CHACHA-20"}
                  [] byte = 54 -> {"CHACHA-POLY1305"}
                  [] byte = 55 -> {"RAW"}
                  [] OTHER     -> {}

\* How long a vector the program generates for an object it builds itself.
Generated(name) == IF name = "AES-GCM" THEN 12 ELSE 24

\* build_privacy_method from a name of the configuration; none for an unknown one.
BuildByName(name, iv) == {[name |-> m, iv |-> iv] : m \in {name} \cap Methods}

\* ToBytes: the mask, the length of the vector in a byte, the vector.
MethodBytes(o) == << 18, Mask(o.name), Len(o.iv) % 256 >> \o o.iv

\* build_privacy_method from the bytes of an object, of any vector of twelve bytes
\* and more; none if they are too few or do not fit each other.
BuildFromBytes(bytes) ==
  {[name |-> m, iv |-> SubSeq(bytes, 4, Len(bytes))] :
     m \in {m \in Methods : /\ Len(bytes) >= 15
                            /\ bytes[1] = 18 /\ m \in ByMask(bytes[2])
                            /\ 3 + bytes[3] = Len(bytes)}}

\* The length of vector Compress and UnCompress insist on; RAW does not look.
VectorFits(o) == CASE o.name = "AES-GCM" -> Len(o.iv) = 12
                   [] o.name = "RAW"     -> TRUE
                   [] OTHER              -> Len(o.iv) = 24

\* What they return before they look at the n bytes they are given; the key is a
\* hash and always has its 32 bytes.  aes: the processor has what libsodium's
\* AES-GCM needs.
Precheck(o, n, aes) ==
  IF ~VectorFits(o) THEN -2
  ELSE IF o.name # "RAW" /\ n = 0 THEN -3
  ELSE IF o.name = "AES-GCM" /\ ~aes THEN -5
  ELSE 0

\* Bytes a ciphertext has more than its plaintext.
Tag(o) == IF o.name \in Aead THEN 16 ELSE 0
=============================================================================
