---------------------------- MODULE MCUdpRelay ------------------------------
(***************************************************************************)
(* UdpRelay with the program's buffer sizes, three requests (a small one,  *)
(* one that fills what is read and one beyond it) and two ports, so that a *)
(* port is used again.                                                     *)
(***************************************************************************)
EXTENDS UdpRelay

CONSTANTS small, full, huge

MCRequests == {small, full, huge}
MCSizes    == [r \in MCRequests |-> IF r = small THEN 1 ELSE IF r = full THEN 3072 ELSE 9000]
MCPorts    == {40001, 40002}

\* An answer, one longer than what is read, one under another key, one of three
\* bytes, whose length in front is completed by a byte of the request's frame, one
\* whose method is longer than the whole answer, and one of four zeros.
Reply(size, head, method, readable) ==
  [size |-> size, head |-> head, method |-> method, builds |-> TRUE, readable |-> readable]
MCReplies == {Reply(132, 128, 15, TRUE), Reply(4000, 3996, 15, TRUE), Reply(132, 128, 15, FALSE),
              Reply(3, 7, 27, TRUE), Reply(132, 128, 200, FALSE), Reply(4, 0, 27, FALSE)}
=============================================================================
