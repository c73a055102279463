---------------------------- MODULE MCHandshake ----------------------------
(***************************************************************************)
(* Handshake on small instances.  A command of 256 bytes, the longest that *)
(* is read as a whole, has a name of 249 bytes; with a tag of 16 bytes its *)
(* ciphertext is longer than its length byte can say, without it is not.   *)
(* The third cipher has a vector that is too short for it.                 *)
(***************************************************************************)
EXTENDS Handshake

IPv4   == [type |-> "ipv4",    host |-> << 10, 0, 0, 7 >>, port |-> 443]
IPv6   == [type |-> "ipv6",    host |-> [i \in 1..16 |-> i], port |-> 443]
Short  == [type |-> "domain",  host |-> << 97, 46, 98, 99 >>, port |-> 80]
Middle == [type |-> "domain",  host |-> [i \in 1..237 |-> 97], port |-> 80]
Long   == [type |-> "domain",  host |-> [i \in 1..249 |-> 97], port |-> 80]
Zero   == [type |-> "unknown", host |-> << 0, 0, 0, 0 >>, port |-> 0]

MCStray  == {0, 255}
MCHellos == {<< 5, 1, 0 >>, << 5, 2, 0, 2 >>}
MCBounds == {IPv4, IPv6, Short, Zero}

MCFarObjects == {[name |-> "AES-GCM",   iv |-> [i \in 1..12 |-> 1]],
                 [name |-> "CHACHA-20", iv |-> [i \in 1..24 |-> 1]],
                 [name |-> "CHACHA-20", iv |-> [i \in 1..12 |-> 1]]}

MCCommands == [cmd : {1}, target : {IPv4, Short, Middle, Long}, whole : {TRUE}]
              \cup [cmd : {2}, target : {IPv4}, whole : {TRUE}]
              \cup [cmd : {1}, target : {Zero}, whole : {TRUE}]
              \cup [cmd : {1}, target : {IPv4, Short, IPv6}, whole : {FALSE}]
MCIPv6     == [cmd : {1}, target : {IPv6}, whole : {TRUE}]
=============================================================================
