------------------------------ MODULE Address ------------------------------
(***************************************************************************)
(* SOCKS5 addresses (src/core/address.cpp): parsing the end of a command   *)
(* and packing an answer.  The text in host_ is modelled by the bytes it   *)
(* spells: four for a dotted quad, sixteen for an IPv6 text, the name      *)
(* itself for a domain; inet_ntop and inet_pton are inverse on each kind.  *)
(*                                                                         *)
(* A read outside a vector and an array that was not initialised have any  *)
(* of the values in Stray, so both operations return a set of results; no  *)
(* result at all means that the process does not survive the call.         *)
(***************************************************************************)
EXTENDS Funs

CONSTANT Stray  \* byte values the memory beside a vector may hold

ASSUME StrayAssumption == Stray # {} /\ Stray \subseteq Byte

\* Address(): the type is unknown; nothing looks at its host and port.
Unknown == [type |-> "unknown", host |-> <<>>, port |-> 0]

\* The bytes at indices from..to of cmd, with strays from index end + 1 on.
Reads(cmd, from, to, end) ==
  {[i \in 1..(to - from + 1) |-> IF from + i - 1 \in 1..end THEN cmd[from + i - 1] ELSE stray[i]]
     : stray \in [1..(to - from + 1) -> Stray]}

\* The port is the last two bytes there are, wherever the host ends.
Ports(cmd) == {ToShort(two) : two \in Reads(cmd, Len(cmd) - 1, Len(cmd), Len(cmd))}

\* A name whose length byte says more than is left over is dropped.
Name(cmd) == IF Len(cmd) > 2 /\ cmd[2] + 2 < Len(cmd) THEN SubSeq(cmd, 3, cmd[2] + 2) ELSE <<>>

Typed(t, hosts, ports) == {[type |-> t, host |-> h, port |-> p] : h \in hosts, p \in ports}

\* FromSocks5CommandStream.  An IPv6 host is copied without the last two bytes
\* and then formatted as if it were IPv4; the copy of a command of fewer than
\* four bytes has no element, or is a range that ends before it begins.
FromSocks5CommandStream(cmd) ==
  CASE cmd[1] = 1 -> Typed("ipv4", Reads(cmd, 2, 5, Len(cmd)), Ports(cmd))
    [] cmd[1] = 3 -> Typed("domain", {Name(cmd)}, Ports(cmd))
    [] cmd[1] = 4 -> IF Len(cmd) < 4 THEN {}
                     ELSE Typed("ipv6", Reads(cmd, 2, 5, Len(cmd) - 2), Ports(cmd))
    [] OTHER      -> {Unknown}

\* toRawIPv6: inet_pton leaves the array as it was when the text is no IPv6 one.
ToRawIPv6(a) == IF Len(a.host) = 16 THEN {a.host} ELSE {[i \in 1..16 |-> s] : s \in Stray}

\* PackSocks5Address; the packed form of an unknown address is empty.
PackSocks5Address(a) ==
  LET hosts == CASE a.type = "ipv4"   -> {<< 1 >> \o a.host}
                 [] a.type = "domain" -> {<< 3, Len(a.host) % 256 >> \o a.host}
                 [] OTHER             -> {<< 4 >> \o raw : raw \in ToRawIPv6(a)}
  IN  IF a.type = "unknown" THEN {<<>>}
      ELSE {<< 5, 0, 0 >> \o host \o U16ToBytes(a.port) : host \in hosts}
=============================================================================
