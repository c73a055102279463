----------------------------- MODULE MCCiphers -----------------------------
(***************************************************************************)
(* Ciphers with blocks of 4 bytes and words that wrap after 2 blocks, and  *)
(* frames of up to 33 bytes, one more than a unit of alloSize.             *)
(***************************************************************************)
EXTENDS Ciphers

MCSecret  == 1
MCNames   == Methods \cup {"DES"}
MCVectors == {[i \in 1..12 |-> 7], [i \in 1..24 |-> 7]}
MCSizes   == {0, 3, 4, 33}
MCKeys    == {SubKey(MCSecret, [i \in 1..24 |-> 7])}

\* Nothing, less than a block, whole blocks, more; in place, forwards, backwards.
MCRanges == {r \in [from : {0, 5, 14}, to : {0, 5, 14}, n : {0, 3, 8, 9}] :
               r.from = r.to \/ r.from + r.n <= r.to \/ r.to + r.n <= r.from}
=============================================================================
