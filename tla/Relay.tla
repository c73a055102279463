------------------------------- MODULE Relay -------------------------------
(***************************************************************************)
(* One established session of the local SOCKS5 server: the two pumps of    *)
(* src/core/socks5server.cpp between the client's socket Src and the       *)
(* upstream socket Dst, the Stream calls under them (src/core/stream.cpp)  *)
(* and the kernel's TCP sockets as those calls see them.                   *)
(*                                                                         *)
(*   up    proxy_read : Src.Read -> Compress   -> header+cipher -> Dst     *)
(*   down  proxy_write: Dst.Read -> UnCompress -> plain         -> Src     *)
(*                                                                         *)
(* Every recv and send is a step of its own and may move any part of what  *)
(* it was asked for.  A byte of plaintext is its position in its stream, a *)
(* ciphertext is the plaintext followed by the cipher's Overhead tag bytes *)
(* (0 is an authentic tag byte), a header is the four bytes of ToBytes.    *)
(***************************************************************************)
EXTENDS Funs

CONSTANTS
  ReadMax,     \* BUFFER_SIZE_READ, g.h 14
  Slack,       \* the 512 of the length check, socks5server.cpp 202
  Overhead,    \* what the cipher adds: 16 for the AEAD methods, 0 for the others
  TimeoutSet,  \* set_socket_time was given a nonzero time (zero waits for ever)
  SndBuf,      \* bytes a socket takes before its peer must read
  MaxSend      \* [Socks -> Nat]: bytes of plaintext each endpoint sends

Socks == {"Src", "Dst"}

ASSUME ReadMaxAssumption  == ReadMax \in Nat \ {0}
ASSUME SlackAssumption    == Slack \in Nat /\ (ReadMax + Slack + 1) \div 65536 < 65536
ASSUME OverheadAssumption == Overhead \in 0..Slack
ASSUME TimeoutAssumption  == TimeoutSet \in BOOLEAN
ASSUME SndBufAssumption   == SndBuf \in Nat \ {0}
ASSUME MaxSendAssumption  == MaxSend \in [Socks -> Nat]

VARIABLES
  sent,     \* plaintext an endpoint has sent in acceptable frames
  inq,      \* bytes that reached a socket and that the proxy has not received
  wrote,    \* bytes the proxy has written to a socket
  taken,    \* how many of them the endpoint has read
  fin,      \* sockets whose endpoint has finished sending
  rst,      \* sockets whose connection was reset
  spoiled,  \* the far end has sent a frame proxy_write must refuse
  open,     \* sockets the proxy has not closed
  up,       \* proxy_read: pc, bytes still to write, whether it ended at EOF
  down,     \* proxy_write: the same, and the payload length it waits for
  cuts      \* history: where each frame written to Dst ends, on the wire and in sent

netVars == << sent, inq, taken, fin, rst, spoiled >>
vars    == << sent, inq, wrote, taken, fin, rst, spoiled, open, up, down, cuts >>

-----------------------------------------------------------------------------
(* The frame format and the cipher.                                        *)

MaxFrame == ReadMax + Slack

Tag == [i \in 1..Overhead |-> 0]

\* Privacy::Compress.  The handshake has already encrypted with this key and
\* this IV (VerifyAuth), so no size check of it can fail in a session.
Compress(plain) == plain \o Tag

\* Privacy::UnCompress, as the test of its return value and as its output.
Authentic(cipher)  == /\ Len(cipher) >= Overhead
                      /\ SubSeq(cipher, Len(cipher) - Overhead + 1, Len(cipher)) = Tag
UnCompress(cipher) == SubSeq(cipher, 1, Len(cipher) - Overhead)

Frame(plain) == ToBytes(Len(plain) + Overhead) \o Compress(plain)

\* How the far end reads back what was written to Dst: whole frames only.
FarDecode(w) ==
  LET Rest[i \in 1..(Len(w) + 1)] ==
        LET n == ToInt(SubSeq(w, i, i + 3))
            c == SubSeq(w, i + 4, i + 3 + n)
        IN  IF \/ i + 3 > Len(w)
               \/ i + 3 + n > Len(w)
               \/ n \notin 1..MaxFrame
               \/ ~Authentic(c)
            THEN <<>>
            ELSE UnCompress(c) \o Rest[i + 4 + n]
  IN  Rest[1]

-----------------------------------------------------------------------------
(* What a blocking recv and a blocking send may do.                        *)

Lesser(a, b) == IF a < b THEN a ELSE b

Dropped(s, k) == SubSeq(s, k + 1, Len(s))

Received(s, k) == SubSeq(inq[s], 1, k)

\* recv returns 0 at the end of the stream and -1 on a reset or a timeout.
AtEOF(s)     == s \in fin /\ inq[s] = <<>>
\* Mutated: only the client's socket was given a receive timeout.
RecvFailsSrcTimed(s) == s \in rst \/ (inq[s] = <<>> /\ (s \in fin \/ (TimeoutSet /\ s = "Src")))
RecvFails(s) == s \in rst \/ (inq[s] = <<>> /\ (s \in fin \/ TimeoutSet))

Room(s)      == SndBuf - (Len(wrote[s]) - taken[s])
SendFails(s) == s \in rst \/ (Room(s) = 0 /\ TimeoutSet)

-----------------------------------------------------------------------------
Init ==
  /\ sent = [s \in Socks |-> <<>>]
  /\ inq = [s \in Socks |-> <<>>]
  /\ wrote = [s \in Socks |-> <<>>]
  /\ taken = [s \in Socks |-> 0]
  /\ fin = {} /\ rst = {}
  /\ spoiled = FALSE
  /\ open = Socks
  /\ up = [pc |-> "read", buf |-> <<>>, clean |-> FALSE]
  /\ down = [pc |-> "header", buf |-> <<>>, want |-> 0, clean |-> FALSE]
  /\ cuts = <<>>

-----------------------------------------------------------------------------
(* proxy_read, run by the session's own thread.                            *)

\* Mutated: the whole buffer is encrypted, not only what recv put there.
UpReadWhole(k) ==
  /\ up.pc = "read"
  /\ k \in 1..Lesser(ReadMax, Len(inq["Src"]))
  /\ up' = [up EXCEPT !.pc = "write",
                      !.buf = Frame(Received("Src", k) \o [i \in 1..(ReadMax - k) |-> 0])]
  /\ inq' = [inq EXCEPT !["Src"] = Dropped(@, k)]
  /\ UNCHANGED << sent, wrote, taken, fin, rst, spoiled, open, down, cuts >>

\* One recv of at most ReadMax bytes, encrypted and framed at once.
UpRead(k) ==
  /\ up.pc = "read"
  /\ k \in 1..Lesser(ReadMax, Len(inq["Src"]))
  /\ up' = [up EXCEPT !.pc = "write", !.buf = Frame(Received("Src", k))]
  /\ inq' = [inq EXCEPT !["Src"] = Dropped(@, k)]
  /\ UNCHANGED << sent, wrote, taken, fin, rst, spoiled, open, down, cuts >>

\* Mutated: an error of recv is retried, only an end of file ends the loop.
UpReadEndsAtEOF ==
  /\ up.pc = "read"
  /\ AtEOF("Src")
  /\ up' = [up EXCEPT !.pc = "done", !.clean = TRUE]
  /\ UNCHANGED << netVars, wrote, open, down, cuts >>

UpReadEnds ==
  /\ up.pc = "read"
  /\ RecvFails("Src")
  /\ up' = [up EXCEPT !.pc = "done", !.clean = AtEOF("Src")]
  /\ UNCHANGED << netVars, wrote, open, down, cuts >>

\* Mutated: Write returns after its first send.
UpWriteOnce(k) ==
  /\ up.pc = "write"
  /\ "Dst" \notin rst
  /\ k \in 1..Lesser(Len(up.buf), Room("Dst"))
  /\ wrote' = [wrote EXCEPT !["Dst"] = @ \o SubSeq(up.buf, 1, k)]
  /\ up' = [up EXCEPT !.pc = "read", !.buf = <<>>]
  /\ cuts' = Append(cuts, [wire  |-> Len(wrote["Dst"]) + k,
                           plain |-> Len(sent["Src"]) - Len(inq["Src"])])
  /\ UNCHANGED << netVars, open, down >>

\* Mutated: after a part was sent, Write begins again at the start of its buffer.
UpWriteRestarts(k) ==
  /\ up.pc = "write"
  /\ "Dst" \notin rst
  /\ k \in 1..Lesser(Len(up.buf), Room("Dst"))
  /\ wrote' = [wrote EXCEPT !["Dst"] = @ \o SubSeq(up.buf, 1, k)]
  /\ up' = [up EXCEPT !.pc = IF k = Len(up.buf) THEN "read" ELSE "write",
                      !.buf = IF k = Len(up.buf) THEN <<>> ELSE @]
  /\ UNCHANGED << netVars, open, down, cuts >>

\* Mutated: a send that took only a part counts as a failure.
UpWritePartFails(k) ==
  /\ up.pc = "write"
  /\ "Dst" \notin rst
  /\ k \in 1..Lesser(Len(up.buf), Room("Dst"))
  /\ wrote' = [wrote EXCEPT !["Dst"] = @ \o SubSeq(up.buf, 1, k)]
  /\ up' = [up EXCEPT !.pc = IF k = Len(up.buf) THEN "read" ELSE "done", !.buf = <<>>]
  /\ cuts' = IF k = Len(up.buf)
             THEN Append(cuts, [wire  |-> Len(wrote["Dst"]) + k,
                                plain |-> Len(sent["Src"]) - Len(inq["Src"])])
             ELSE cuts
  /\ UNCHANGED << netVars, open, down >>

\* One send of Stream::Write's loop; the loop ends when all is written.
UpWrite(k) ==
  /\ up.pc = "write"
  /\ "Dst" \notin rst
  /\ k \in 1..Lesser(Len(up.buf), Room("Dst"))
  /\ wrote' = [wrote EXCEPT !["Dst"] = @ \o SubSeq(up.buf, 1, k)]
  /\ up' = [up EXCEPT !.pc = IF k = Len(up.buf) THEN "read" ELSE "write",
                      !.buf = Dropped(@, k)]
  /\ cuts' = IF k = Len(up.buf)
             THEN Append(cuts, [wire  |-> Len(wrote["Dst"]) + k,
                                plain |-> Len(sent["Src"]) - Len(inq["Src"])])
             ELSE cuts
  /\ UNCHANGED << netVars, open, down >>

\* A send fails, whatever was written before it: Write says -1, the loop ends.
UpWriteEnds ==
  /\ up.pc = "write"
  /\ SendFails("Dst")
  /\ up' = [up EXCEPT !.pc = "done", !.buf = <<>>]
  /\ UNCHANGED << netVars, wrote, open, down, cuts >>

-----------------------------------------------------------------------------
(* proxy_write, run by the thread xox.                                     *)

\* Mutated: a frame that is refused is skipped, the loop goes on.
DownSkips == [down EXCEPT !.pc = "header", !.buf = <<>>]
DownStops == [down EXCEPT !.pc = "done", !.buf = <<>>]

\* Mutated: a length beyond the limit is not refused.
DownHeaderUnlimited(k) ==
  /\ down.pc = "header"
  /\ k \in 1..Lesser(4 - Len(down.buf), Len(inq["Dst"]))
  /\ LET header == down.buf \o Received("Dst", k)
         next   == ToInt(header)
     IN  down' = IF Len(header) < 4 THEN [down EXCEPT !.buf = header]
                 ELSE IF next > 0
                      THEN [down EXCEPT !.pc = "payload", !.buf = <<>>, !.want = next]
                      ELSE DownStops
  /\ inq' = [inq EXCEPT !["Dst"] = Dropped(@, k)]
  /\ UNCHANGED << sent, wrote, taken, fin, rst, spoiled, open, up, cuts >>

\* One recv of ReadXBytes for the header; a complete header is checked.
DownHeader(k) ==
  /\ down.pc = "header"
  /\ k \in 1..Lesser(4 - Len(down.buf), Len(inq["Dst"]))
  /\ LET header == down.buf \o Received("Dst", k)
         next   == ToInt(header)
     IN  down' = IF Len(header) < 4 THEN [down EXCEPT !.buf = header]
                 ELSE IF next \in 1..MaxFrame
                      THEN [down EXCEPT !.pc = "payload", !.buf = <<>>, !.want = next]
                      ELSE DownStops
  /\ inq' = [inq EXCEPT !["Dst"] = Dropped(@, k)]
  /\ UNCHANGED << sent, wrote, taken, fin, rst, spoiled, open, up, cuts >>

\* Mutated: the result of UnCompress is not looked at.
DownPayloadUnchecked(k) ==
  /\ down.pc = "payload"
  /\ k \in 1..Lesser(down.want - Len(down.buf), Len(inq["Dst"]))
  /\ LET cipher == down.buf \o Received("Dst", k)
     IN  down' = IF Len(cipher) < down.want THEN [down EXCEPT !.buf = cipher]
                 ELSE IF Len(cipher) > Overhead
                      THEN [down EXCEPT !.pc = "write", !.buf = UnCompress(cipher)]
                      ELSE DownStops
  /\ inq' = [inq EXCEPT !["Dst"] = Dropped(@, k)]
  /\ UNCHANGED << sent, wrote, taken, fin, rst, spoiled, open, up, cuts >>

\* Mutated: a recv that returned only a part of the payload counts as a failure.
DownPayloadPartFails(k) ==
  /\ down.pc = "payload"
  /\ k \in 1..Lesser(down.want - Len(down.buf), Len(inq["Dst"]))
  /\ LET cipher == down.buf \o Received("Dst", k)
     IN  down' = IF Len(cipher) = down.want /\ Authentic(cipher) /\ Len(cipher) > Overhead
                 THEN [down EXCEPT !.pc = "write", !.buf = UnCompress(cipher)]
                 ELSE DownStops
  /\ inq' = [inq EXCEPT !["Dst"] = Dropped(@, k)]
  /\ UNCHANGED << sent, wrote, taken, fin, rst, spoiled, open, up, cuts >>

\* One recv of ReadXBytes for the payload; a complete payload is decrypted,
\* and one that is not authentic, or carries nothing to write, ends the loop.
DownPayload(k) ==
  /\ down.pc = "payload"
  /\ k \in 1..Lesser(down.want - Len(down.buf), Len(inq["Dst"]))
  /\ LET cipher == down.buf \o Received("Dst", k)
     IN  down' = IF Len(cipher) < down.want THEN [down EXCEPT !.buf = cipher]
                 ELSE IF Authentic(cipher) /\ Len(cipher) > Overhead
                      THEN [down EXCEPT !.pc = "write", !.buf = UnCompress(cipher)]
                      ELSE DownStops
  /\ inq' = [inq EXCEPT !["Dst"] = Dropped(@, k)]
  /\ UNCHANGED << sent, wrote, taken, fin, rst, spoiled, open, up, cuts >>

\* ReadXBytes says -1 for an EOF, an error and a timeout alike, and drops
\* what it had received of the header or the payload.
DownReadEnds ==
  /\ down.pc \in {"header", "payload"}
  /\ RecvFails("Dst")
  /\ down' = [DownStops EXCEPT !.clean = /\ down.pc = "header" /\ down.buf = <<>>
                                         /\ AtEOF("Dst")]
  /\ UNCHANGED << netVars, wrote, open, up, cuts >>

DownWrite(k) ==
  /\ down.pc = "write"
  /\ "Src" \notin rst
  /\ k \in 1..Lesser(Len(down.buf), Room("Src"))
  /\ wrote' = [wrote EXCEPT !["Src"] = @ \o SubSeq(down.buf, 1, k)]
  /\ down' = [down EXCEPT !.pc = IF k = Len(down.buf) THEN "header" ELSE "write",
                          !.buf = Dropped(@, k)]
  /\ UNCHANGED << netVars, open, up, cuts >>

DownWriteEnds ==
  /\ down.pc = "write"
  /\ SendFails("Src")
  /\ down' = DownStops
  /\ UNCHANGED << netVars, wrote, open, up, cuts >>

-----------------------------------------------------------------------------
(* doServeOnOne after xox.join(): the last references to Dst, then to Src, *)
(* go away, and ~Stream closes the descriptor.                             *)

Close(s) ==
  /\ up.pc = "done" /\ down.pc = "done"
  /\ s \in open
  /\ s = "Src" => "Dst" \notin open
  /\ open' = open \ {s}
  /\ UNCHANGED << netVars, wrote, up, down, cuts >>

-----------------------------------------------------------------------------
(* The endpoints and the network, as the pumps' calls presuppose them.     *)

CanSend(s) == s \in open /\ s \notin fin \cup rst

\* The client sends the next byte of its stream.
ClientSend ==
  /\ CanSend("Src")
  /\ Len(sent["Src"]) < MaxSend["Src"]
  /\ LET byte == Len(sent["Src"]) + 1
     IN  /\ sent' = [sent EXCEPT !["Src"] = Append(@, byte)]
         /\ inq' = [inq EXCEPT !["Src"] = Append(@, byte)]
  /\ UNCHANGED << wrote, taken, fin, rst, spoiled, open, up, down, cuts >>

\* The next n bytes of the far end's stream.
Chunk(n) == [i \in 1..n |-> Len(sent["Dst"]) + i]

\* The far end sends its next n bytes in one frame.
FarSend(n) ==
  /\ CanSend("Dst") /\ ~spoiled
  /\ n \in 1..ReadMax
  /\ Len(sent["Dst"]) + n <= MaxSend["Dst"]
  /\ sent' = [sent EXCEPT !["Dst"] = @ \o Chunk(n)]
  /\ inq' = [inq EXCEPT !["Dst"] = @ \o Frame(Chunk(n))]
  /\ UNCHANGED << wrote, taken, fin, rst, spoiled, open, up, down, cuts >>

\* Frames proxy_write must refuse: no payload, a payload beyond the limit, one
\* shorter than a tag or only a tag, one whose tag is not authentic.
BadFrames ==
  {ToBytes(0), ToBytes(MaxFrame + 1), << 1, 0, 0, 0 >>}
  \cup (IF Overhead = 0 THEN {}
        ELSE {ToBytes(n) \o SubSeq(Tag, 1, n) : n \in 1..Overhead}
             \cup {ToBytes(1 + Overhead) \o Chunk(1) \o [i \in 1..Overhead |-> 1]})

\* The far end sends such a frame and then, as if nothing happened, a good one.
FarSpoil(bad) ==
  /\ CanSend("Dst") /\ ~spoiled
  /\ Len(sent["Dst"]) < MaxSend["Dst"]
  /\ bad \in BadFrames
  /\ spoiled' = TRUE
  /\ inq' = [inq EXCEPT !["Dst"] = @ \o bad \o Frame(Chunk(1))]
  /\ UNCHANGED << sent, wrote, taken, fin, rst, open, up, down, cuts >>

\* The far end stops for good in the middle of a frame.
FarBreakOff(n) ==
  /\ CanSend("Dst") /\ ~spoiled
  /\ Len(sent["Dst"]) < MaxSend["Dst"]
  /\ n \in 1..(4 + Overhead)
  /\ spoiled' = TRUE
  /\ inq' = [inq EXCEPT !["Dst"] = @ \o SubSeq(Frame(Chunk(1)), 1, n)]
  /\ fin' = fin \cup {"Dst"}
  /\ UNCHANGED << sent, wrote, taken, rst, open, up, down, cuts >>

Fin(s) ==
  /\ CanSend(s)
  /\ fin' = fin \cup {s}
  /\ UNCHANGED << sent, inq, wrote, taken, rst, spoiled, open, up, down, cuts >>

Reset(s) ==
  /\ s \in open \ rst
  /\ rst' = rst \cup {s}
  /\ UNCHANGED << sent, inq, wrote, taken, fin, spoiled, open, up, down, cuts >>

\* An endpoint reads everything that was written to it.
Drain(s) ==
  /\ s \notin rst
  /\ taken[s] < Len(wrote[s])
  /\ taken' = [taken EXCEPT ![s] = Len(wrote[s])]
  /\ UNCHANGED << sent, inq, wrote, fin, rst, spoiled, open, up, down, cuts >>

-----------------------------------------------------------------------------
ProxyRead == \/ \E k \in 1..ReadMax : UpRead(k)
             \/ \E k \in 1..(4 + MaxFrame) : UpWrite(k)
             \/ UpReadEnds
             \/ UpWriteEnds

ProxyWrite == \/ \E k \in 1..4 : DownHeader(k)
              \/ \E k \in 1..MaxFrame : DownPayload(k) \/ DownWrite(k)
              \/ DownReadEnds
              \/ DownWriteEnds

Endpoints == \/ ClientSend
             \/ \E n \in 1..ReadMax : FarSend(n)
             \/ \E bad \in BadFrames : FarSpoil(bad)
             \/ \E n \in 1..(4 + Overhead) : FarBreakOff(n)
             \/ \E s \in Socks : Fin(s) \/ Reset(s) \/ Drain(s)

Next == \/ ProxyRead
        \/ ProxyWrite
        \/ \E s \in Socks : Close(s)
        \/ Endpoints

\* Each pump thread is scheduled, a call that can return does return (a timeout
\* that is set does expire), and the destructors run.  Nothing is assumed of
\* the endpoints: they may stop sending, and stop reading, at any time.
Fairness == /\ WF_vars(ProxyRead)
            /\ WF_vars(ProxyWrite)
            /\ \A s \in Socks : WF_vars(Close(s))

Spec == Init /\ [][Next]_vars /\ Fairness

-----------------------------------------------------------------------------
TypeOK ==
  /\ sent \in [Socks -> Seq(Nat)]
  /\ inq \in [Socks -> Seq(Nat)]
  /\ wrote \in [Socks -> Seq(Nat)]
  /\ taken \in [Socks -> Nat]
  /\ fin \subseteq Socks /\ rst \subseteq Socks /\ open \subseteq Socks
  /\ spoiled \in BOOLEAN
  /\ up \in [pc : {"read", "write", "done"}, buf : Seq(Nat), clean : BOOLEAN]
  /\ down \in [pc : {"header", "payload", "write", "done"}, buf : Seq(Nat),
               want : 0..MaxFrame, clean : BOOLEAN]
  /\ cuts \in Seq([wire : Nat, plain : Nat])

-----------------------------------------------------------------------------
(* Safety.                                                                 *)

LastCut == IF cuts = <<>> THEN [wire |-> 0, plain |-> 0] ELSE cuts[Len(cuts)]

\* The wire and plaintext positions at which frame i starts.
Start(i) == IF i = 1 THEN [wire |-> 0, plain |-> 0] ELSE cuts[i - 1]

\* What proxy_read (socks5server.cpp 142-180) puts on the wire is a sequence
\* of whole frames, each one the encryption of the next bytes of the client's
\* stream and within the length limit its mirror image proxy_write imposes,
\* however the sends were cut; only the last frame can be incomplete, and
\* nothing follows it.
UpstreamFramed ==
  /\ \A i \in 1..Len(cuts) :
       LET from == Start(i) to == cuts[i]
       IN  /\ to.plain \in (from.plain + 1)..Len(sent["Src"])
           /\ to.plain - from.plain + Overhead <= MaxFrame
           /\ to.wire \in 1..Len(wrote["Dst"])
           /\ SubSeq(wrote["Dst"], from.wire + 1, to.wire)
                = Frame(SubSeq(sent["Src"], from.plain + 1, to.plain))
  /\ up.pc = "read" => LastCut.wire = Len(wrote["Dst"])

Forwarded == FarDecode(wrote["Dst"])

\* A pump that ends because its peer finished sending has passed on every byte
\* the peer sent: proxy_read and proxy_write (socks5server.cpp 152-158 and
\* 191-198) end on a read only, never between a read and the write that
\* belongs to it.
NoLossAtEOF ==
  /\ up.clean => Forwarded = sent["Src"]
  /\ down.clean => wrote["Src"] = sent["Dst"]

-----------------------------------------------------------------------------
(* The session implements the two pipes of Duplex: what comes out upstream *)
(* is what the far end decodes, what comes out downstream is what the      *)
(* client's socket was given, and a pipe is live while its pump runs.      *)

Pipe == INSTANCE Duplex WITH
  Pipes <- {"up", "down"},
  put   <- [p \in {"up", "down"} |-> IF p = "up" THEN sent["Src"] ELSE sent["Dst"]],
  got   <- [p \in {"up", "down"} |-> IF p = "up" THEN Forwarded ELSE wrote["Src"]],
  live  <- [p \in {"up", "down"} |-> IF p = "up" THEN up.pc # "done" ELSE down.pc # "done"]

\* Both directions of a session (socks5server.cpp 142-259) are FIFO byte pipes
\* under every cutting of recv and send, refused frames, resets and timeouts.
PipesRefined == Pipe!Spec

-----------------------------------------------------------------------------
(* What keeps the pumps going.                                             *)

\* Bytes the client has still to send or proxy_read to receive; bytes of the wire
\* the far end may still send, at most, or proxy_write has to receive.
Unread    == MaxSend["Src"] - (Len(sent["Src"]) - Len(inq["Src"]))
FarUnsent == IF spoiled THEN 0 ELSE (MaxSend["Dst"] - Len(sent["Dst"])) * (10 + 2 * Overhead)

\* What is left to do for each pump: what it has to receive comes before what it
\* has in hand, a whole frame at most.
UpLeft   == IF up.pc = "done" THEN 0 ELSE Unread * (MaxFrame + 5) + Len(up.buf) + 1
DownLeft == IF down.pc = "done" THEN 0
            ELSE (FarUnsent + Len(inq["Dst"])) * (MaxFrame + 1)
                 + (IF down.pc = "write" THEN Len(down.buf) ELSE 0) + 1

\* Each call a pump makes brings it nearer to its end, and nothing else takes it
\* away from there: no loop of proxy_read, proxy_write, ReadXBytes and Write goes
\* round without having moved a byte (socks5server.cpp 142-232, stream.cpp 25-128).
PumpsAdvance ==
  [][/\ UpLeft' <= UpLeft /\ (ProxyRead => UpLeft' < UpLeft)
     /\ DownLeft' <= DownLeft /\ (ProxyWrite => DownLeft' < DownLeft)]_vars

-----------------------------------------------------------------------------
(* Liveness.                                                               *)

\* With timeouts set on both sockets, a session whose endpoints send finitely
\* much ends, both pumps joined and both descriptors closed, even if an
\* endpoint vanishes without a FIN or stops reading (socks5server.cpp 252-258).
SessionEnds == <>(open = {})

\* Without timeouts the join still returns once both connections were reset.
DeadSessionEnds == (rst = Socks) ~> (open = {})

\* While neither connection is reset, every byte an endpoint sends comes out on
\* the other side, if the endpoint there makes room again and again: no cut of a
\* recv or a send, no end of the other direction and no refused or broken-off
\* frame behind it ends a pump that still has acceptable bytes to pass on
\* (socks5server.cpp 142-232, stream.cpp 25-128).  Without timeouts: one that
\* expires may end a pump whose endpoint is merely slow.
NoByteStranded ==
  /\ []<>(Room("Dst") > 0) =>
       \A n \in 1..MaxSend["Src"] :
         Len(sent["Src"]) >= n ~> (Len(Forwarded) >= n \/ rst # {})
  /\ []<>(Room("Src") > 0) =>
       \A n \in 1..MaxSend["Dst"] :
         Len(sent["Dst"]) >= n ~> (Len(wrote["Src"]) >= n \/ rst # {})
=============================================================================
