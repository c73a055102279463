-------------------------------- MODULE Funs --------------------------------
(***************************************************************************)
(* The byte helpers of src/core/funs.cpp: big-endian conversions between   *)
(* fixed-width unsigned integers and byte sequences.  A shift is a         *)
(* division by a power of two, a mask is a remainder, and an `or' of       *)
(* disjoint bit fields is a sum.                                           *)
(***************************************************************************)
EXTENDS Integers, Sequences

Byte   == 0..255
UInt16 == {n \in Nat : n < 65536}
UInt32 == {n \in Nat : n \div 65536 < 65536}

\* The result is always four bytes long.
ToBytes(v) == << (v \div 16777216) % 256,
                 (v \div 65536)    % 256,
                 (v \div 256)      % 256,
                 v                 % 256 >>

ToInt(sz) == sz[1] * 16777216 + sz[2] * 65536 + sz[3] * 256 + sz[4]

U16ToBytes(v) == << (v \div 256) % 256, v % 256 >>

ToShort(sz) == sz[1] * 256 + sz[2]
=============================================================================
