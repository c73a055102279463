# chimney-c in TLA+

`chimney-c` is the local half of a proxy: it accepts SOCKS5 clients on a TCP
port and plain datagrams on a UDP port, opens one encrypted connection per
client (one encrypted datagram per datagram) to a remote proxy, and relays.  On
Android every outgoing socket is first handed to a "callee" service, which
exempts it from the VPN.  This directory holds TLA+ models of that program, the
TLC configurations that check them, and TLAPS proofs about them.  Paths below
are relative to `src/src`.

## 1. Inventory

| Component | Code | State | Operations |
|---|---|---|---|
| Session relay | `core/socks5server.cpp` 142-259, `core/stream.cpp` | two sockets, two pump threads, the bytes each has in hand | `proxy_read`, `proxy_write`, `Stream::Read`, `Write`, `Close` |
| Byte helpers | `core/funs.cpp` | none | `ToInt`, `ToBytes`, `ToShort`, `U16ToBytes` |
| Lifecycle | `core/mobile_core.cpp`, `core/socks5server.cpp` 16-22 and 261-308, `udpserver/udpserver.cpp` 146-192 | global server and thread pointers, `handle`, `stop`, the descriptor table | `start_server`, `stop_server`, `run`, `Run`, `shutdown`, the detached threads |
| Client handshake | `core/socks5server.cpp` 24-139 | the stream, what one `recv` returned | `sayHello`, `doConnect`, `doCommand` |
| Upstream handshake | `core/socks5peer.cpp`, `core/peerfactory.cpp` | the stream, the negotiated method | `sayHello`, `VerifyAuth`, `doConnect` |
| Addresses | `core/address.cpp` | type, host, port | parsing and packing of SOCKS5 addresses |
| UDP worker | `udpserver/udpserver.cpp` 42-144 | one shared buffer, one socket | `udp_one_time_routine` |
| Socket protection | `rpc/*.cpp`, `core/socketassistant.cpp` 8-51 | five callers with one connection and one mutex each, a round-robin counter | `get_caller`, `call_protect_socket`, `try_to_connect_callee` |
| Ciphers | `privacy/privacy.cpp`, `gcm.cpp`, `chacha20.cpp`, `xcha20_poly1305.cpp`, `raw.cpp` | the initialisation vector | `Compress`, `UnCompress`, `ToBytes`, `build_privacy_method` |
| XChaCha20 | `privacy/xchacha20.cpp` | a context with a block counter | `xchacha_keysetup`, `xchacha_set_counter`, `xchacha_encrypt_bytes`, `xchacha_keystream_bytes` |
| Buffer pool | `core/minipool.cpp` | used and unused buffers | `Alloc`, `Free` (used by no other code) |
| Program | `main.cpp`, `include/config` | the settings | reads `config.json`, calls `start_server`, and `stop_server` in its SIGINT handler |

How they interact: `start_server` starts the TCP and the UDP thread; the TCP
thread starts one detached thread per connection, which performs the client
handshake, during it the upstream handshake (through `PeerFactory`, and through
the callee when one is configured), and then runs the two pumps over the two
streams, one in its own thread and one in a second thread it joins.  The UDP
thread starts one detached worker per datagram and gives it a copy of its
descriptor.  All of them share one descriptor table, and that is the only
state the threads of different clients share apart from the callers' pool.

What is hard here: TCP cuts and merges the messages of both handshakes and of
the relay as it likes; a send may stop in the middle of a frame; two pumps
block on two sockets and only timeouts or a reset bring them back; threads end
in any order and a descriptor that was closed is soon another thread's; the
stop protocol relies on closing a descriptor another thread is blocked on.
`PROJECT.json` lists these hazards at the lines where they bite.

What makes each part correct:

* relay: each direction is a FIFO byte pipe; what goes upstream is whole,
  acceptable frames; nothing is lost at an orderly end; a session ends;
* byte helpers: encoding and decoding are inverse;
* lifecycle: no thread closes another's descriptor; after `stop_server` the
  ports are free; `stop_server` returns;
* handshakes: the session that is established is to the target the client
  named, the client is told the truth, the pumps start on clean streams, no
  answer of the far proxy ends the process, every handshake ends;
* addresses: packing and parsing agree;
* socket protection: each call gets its own answer on the caller's own
  connection; calls return;
* UDP: the frame fits the buffer, an answer goes to the sender of the request
  and through the listening socket, workers end;
* ciphers: both ends come to the same object, an object the program made itself
  is not refused, what is encrypted can be decrypted, output fits;
* XChaCha20: each call applies the stream from the counter on, and leaves the
  counter behind what it used.

## 2. Modules

| Module | Models | Role |
|---|---|---|
| `Funs` | `core/funs.cpp` | operators |
| `FunsProofs` | | theorems about `Funs` |
| `Duplex` | | abstract specification: two FIFO byte pipes |
| `Relay` | the pumps of one session over two TCP sockets | detailed specification, implements `Duplex` |
| `MCRelay` | | values for TLC |
| `RelayProofs` | | type correctness, `UpstreamFramed` and `PumpsAdvance`, for all constants |
| `DuplexProofs` | | `NoLossAtEOF` and the refinement of `Duplex`, for all constants |
| `Address` | parsing and packing in `core/address.cpp` | operators |
| `Privacy` | `privacy/privacy.cpp`: names, masks and vectors of the ciphers, the bytes of an object, what `Compress` refuses | operators |
| `Session` | | abstract specification: what the handshake of one session promises |
| `Handshake` | an accepted connection up to the start of the pumps: `sayHello`, `doConnect`, `Socks5Peer`; the client and the far proxy | detailed specification over `Address` and `Privacy`, implements `Session` |
| `MCHandshake` | | values for TLC |
| `HandshakeProofs` | | type correctness, the other invariants and the refinement of `Session`, for all constants |
| `ProtectRpc` | `rpc/*.cpp` and the sockets it protects (`core/socketassistant.cpp`) | specification |
| `MCProtectRpc` | | values for TLC |
| `ProtectRpcProofs` | | everything the run of `ProtectRpc` checks but `CallsReturn`, for all constants |
| `CiphersProofs` | | all six invariants the run of `Ciphers` checks and `VectorAccepted`, for all constants |
| `Lifecycle` | start, stop, accept loop, UDP loop, detached threads, descriptor table | specification |
| `MCLifecycle` | | values for TLC |
| `LifecycleProofs` | | type correctness, `DescriptorsOwned`, `NothingListensAfterStop` and `StopSticks`, for all constants |
| `UdpRelay` | the UDP workers, the far proxy and the network between them | specification |
| `MCUdpRelay` | | values for TLC |
| `UdpRelayProofs` | | `FrameFits` and `AnswerToItsRequest`, for all constants |
| `XChaCha20` | `privacy/xchacha20.cpp` | actions and properties of the library, composed in `Ciphers` |
| `Ciphers` | `Compress` and `UnCompress` of the four ciphers at two ends | specification over `XChaCha20` and `Privacy` |
| `MCCiphers` | | values for TLC |

### Relay

`up` is the local state of `proxy_read` and `down` that of `proxy_write`; each
`recv` and each `send` is an action, because each may move any number of bytes
and each may fail, and the two pumps interleave at these calls.  What lies
between two calls in the same thread (encrypting, framing, checking the header)
touches no shared state and belongs to the call before it.

A byte of plaintext is its position in its stream, so that loss, duplication
and reordering are all visible.  A ciphertext is its plaintext followed by
`Overhead` tag bytes (16 for the AEAD methods, 0 for RAW and CHACHA-20); a frame
starts with the four real header bytes of `ToBytes`.  The far end sends
good frames, one of the frames `proxy_write` must refuse (`BadFrames`), or half
a frame.  `sent`, `inq`, `wrote` and `taken` are the kernel's and the
endpoints' side of the two sockets; `cuts` is a history variable that records
where each frame ended.  `FarDecode` is what the remote proxy reads back.

### Handshake and Address

`session` is the thread of `doServeOnOne`: its `pc` names the next `recv`,
`send` or `connect`, and the action takes the code up to the one after.  A
`recv` returns any prefix of what has arrived (all of it, up to the size of the
buffer, from a client whose messages arrive `whole`), or fails because the peer
is gone or the timeout expires.  Every message of the two
handshakes is taken from a single `recv`, so this is where the properties are
decided.  `inq` holds real bytes; in the other direction `toPeer` holds whole
messages, since the peers are assumed to read them whole.  The client and the
far proxy follow the protocol and are otherwise free: they stay silent, go
away, and the far proxy refuses or accepts.

The far proxy names its cipher in its greeting, any of `FarObjects`; the session
builds it with the operators of `Privacy`.  A vector of the wrong length passes
that, and only the first `Compress`, of the password, refuses it (`Unusable`),
as it does AES-GCM on a processor that lacks it (`Aes`).

`Session` says in four actions what all of this is for: a target is understood,
the far proxy reaches that one or none, and the client is told once, of success
only if it was reached.  In `SessionRefined` the target is `session.target`,
what was reached is `far.target`, and what the client is told is the session's
last step (`Told`).  The session may give up while the far proxy still is at
work, so `Reach` is allowed after a refusal.  Of an IPv6 target its type and
port are compared (`Essence`): its host does not survive parsing, which is the
subject of `IPv6TargetKept`.

In `Address` a parser returns the set of its possible results: bytes read
outside a vector, or from an array that nobody has written, are any of `Stray`,
and no result at all means that the process does not survive (an empty vector's
data, a range that ends before it begins).  A session that such a command ends
is `crashed`: a client's IPv6 command of which only a few bytes have come, or a
command of an unknown type, whose address the session cannot pack.  The text in
`host_` is represented by the bytes it spells.

### Lifecycle

`fds` is the process's descriptor table; `Opened` gives out the lowest free
number, as the kernel does, and `CloseFd` acts on whatever the number names at
that moment.  A history variable, `thieves`, collects the threads that closed
somebody else's file.  `accept` is two steps, the lookup of the number and the
return, because a blocked `accept` keeps the file it looked up: on Linux `close`
does not wake it.  It fails when the table is full, or for a connection that was
aborted before it was taken; either ends the loop (`TcpAcceptFails`).  Standard
input has number 0, the value `handle` has before `run` stores the listener in
it.  A session is its descriptors and how far it has come; `Relay` has the rest.
A UDP worker is its own descriptor and `out`, the copy of the listening one it
answers through, with the start (`gen`) it was made in; `UdpRelay` has the rest.
`StartServer` is called only when the previous `stop_server` has returned, as
the program does.

### ProtectRpc

A session thread opens a socket, finds the pool of callers (building it if it is
the first), picks a caller, and has its socket protected.  `thread[t].pc` names
the next system call or the next access to the counter, which no lock guards;
`lock` is the callers' mutexes.  `callee` holds numbers of the descriptor table,
and `Line` is whatever such a number names at the moment of the call: the
caller's connection, a session's socket, a standard stream or nothing.  `conn`
is the other side of every connection ever made, with its `owner`; requests and
answers carry the call they belong to.  An answer has `AnswerSize` bytes, the
first `ValueSize` of them are the result, and a `read` returns any part of what
has arrived (`ReadBytes`); the code takes whatever it gets for a whole answer.
`got` is how much of the first answer an earlier read has taken, and the history
variable `torn` says that a read of this connection has left it out of step.
The callee is external: it answers in order, and may break connections or refuse
them (`MaxFaults`).

`Dialed` has what the code does with the result of `try_to_connect_callee`: the
constructor ignores it, a call that found no connection stores it, 1 or 0, as
the number of its connection.  A history variable, `lost`, becomes true when a
caller is left without a connection of its own: the pool was built before the
callee was set, all attempts of a `try_to_connect_callee` failed, or that result
was stored.  From then on a caller may talk to whatever its number names, so
`OwnConnection`, `AnswerIsOwn` and `CallsReturn` claim nothing more;
`StdinUntouched` and `CounterSettles` do.  Memory is taken
to be sequentially consistent, so a published pool is a complete one.

### UdpRelay

`worker[r]` is the thread that was started for request `r`; each system call of
`udp_one_time_routine` is an action.  `used` is how much of the buffer is in use
by the datagram, the frame or the answer that is in it; of the bytes themselves
only their number matters.  The first `sendto` binds the worker's socket to a
port, which is free again when the worker ends, and that is all that ties an
answer to its request: `asks` and `answers` are datagrams under way, with the
port they belong to; they may be lost, answers may also be late or come twice.
`Replies` are lengths, claimed lengths, and whether the method can be built and
the rest decrypted; nothing says that the claimed lengths fit each other, as the
code does not check it.  Of an answer that is shorter than its method the worker
copies almost 2^32 bytes and ends the process (`crashed`).  The history variable
`before` has the requests whose workers had had the port before.

### Ciphers and XChaCha20

In `XChaCha20` a byte is the set of what was XORed into it and the stream's
bytes are atoms, named after the key and the two counter words the rounds mix
in; `NextBlock` is one turn of the loop of `xchacha_encrypt_bytes`, with the
last block through the array on the stack.  So every byte of output can be
compared with what it should be, for ranges that are encrypted in place or
copied, and counters at the wrap of either word.  `Ciphers` has two ends: one
builds its object by name and the other one from its bytes, and each encrypts
frames the other decrypts.  CHACHA-20 runs the actions of the library on one
context, which stands for the stack's memory; libsodium's two constructions are
opaque: they open what the same cipher sealed with the same vector.  Two files
define an inline function `alloSize` with different bodies, so its result is any
of the two.

## 3. Runs

| Run | Question | Bounds |
|---|---|---|
| `relay_upload` | is the upstream direction a FIFO pipe of whole frames, does no byte stay behind while the receiver reads, and does a session end once both connections were reset, all without timeouts | 4 bytes, no timeouts, reads of at most 2, a send buffer of 3 bytes (less than a frame of 6 or 7), tag of 1, slack of 2 |
| `relay_download` | are both directions FIFO pipes in which no byte stays behind, with every refused frame | 2 bytes down, 1 up, tag of 2, otherwise the same |
| `relay_ends` | does each call of a pump bring it nearer to its end, is nothing lost at EOF, are both directions FIFO pipes and do sessions end, with timeouts | 2 bytes up in chunks of 1, 1 byte down |
| `handshake` | does the handshake implement `Session`, is the client told the truth, is success backed by the far proxy, are the streams clean when the pumps start, what can end the process, does every handshake end | clients whose messages arrive whole: an IPv4 target, names of 4, 237 and 249 bytes, a `BIND`, a target of an unknown type; clients whose messages are cut anywhere: an IPv4 target, a name and an IPv6 target; answers of all types, one unknown, cut anywhere; three ciphers, one with a vector that is too short |
| `handshake_ipv6` | refutes "an IPv6 target keeps its bytes" | one IPv6 target |
| `protect` | does the counter come back to the number of a caller, does each caller keep to its own connection, does each call get its own answer, take a bounded number of steps and return, does nobody wait for a session that waits itself, while connections break or are refused, answers are read in parts, the callee is set at any time and the table may be full | 2 sessions (2 calls and 1), 2 callers, 3 free numbers, 1 fault, 3 connections, answers of 2 units, both of them the result |
| `lifecycle` | who closes what, and what is open after a stop | 2 connections, 1 datagram, 5 numbers, 2 starts |
| `udp_relay` | does the frame fit, does a client get the answer to its request, do workers end | requests of 1, 3072 and 9000 bytes, 2 ports, answers whole, too long, undecipherable, of three bytes, of four zeros, and with a method longer than the answer |
| `ciphers` | do both ends come to the same object, can every frame be decrypted, does output fit, is the stream applied right and the counter kept | blocks of 4 bytes, words modulo 2, 3 calls; frames of 0, 3, 4 and 33 bytes, all four ciphers and an unknown name |
| `lifecycle_stops` | does the UDP loop end, does a connection release a stop | 1 connection, 1 datagram, 5 numbers, 2 starts |
| `lifecycle_stop_returns` | refutes "`stop_server` returns" | the same, 1 start |
| `lifecycle_delete` | refutes "deleting the TCP server is safe" | the same, 1 start |

There are two ports for three workers, so that one is used again while an answer
to its first owner may still be under way; the sizes are the program's, below,
at and above what is read.  Words of the counter that wrap after two blocks let
a call of three blocks cross both wraps; a frame of 33 bytes is one more than a
unit of `alloSize` and takes nine blocks.  One fault in `protect` can meet every
state a connection can be in.  An answer of two units can be read whole, or cut
in the middle, and then also across the border to the next one.

The bounds of the relay are chosen so that a frame does not fit the send buffer
(so that every write is cut), a read can take more or less than what is there,
three frames follow each other, and the length limit can be exceeded by a
header.  Five descriptors are fewer than the threads could hold, so the table
runs full, and more than one, so numbers are reused in every order.  Two starts
show what the first run leaves behind for the second.

A name of 237 bytes is the longest whose ciphertext fits the length byte with a
16-byte tag, and one of 249 the longest that fits the buffer for a command: the
second is refused upstream because the length wraps.  What the properties leave
out, because the code does not keep it, they say in their conditions or the
bounds say: names of 250 bytes and more (the port is lost), the target of a
client whose command arrives in parts (it is parsed from what has come), that
such a command or one of an unknown type may end the process
(`CrashOnlyByCommand` says that nothing else does, and it no longer once a
target is understood), and answers of the far proxy that are longer than ten
bytes and cut (their rest stays in the stream).  Each is a hazard in
`PROJECT.json`.

Fairness.  `Relay` assumes weak fairness of each pump and of the destructors: a
thread is scheduled, and a call that can return returns, which includes the
expiry of a timeout that was set (`TimeoutSet`, from `set_socket_time`; zero
means none).  Nothing is assumed of the endpoints: they may stop sending and
reading at any time; `NoByteStranded` has that they go on reading as its premise.
`SessionEnds` is checked where timeouts are set.  Where they are not, a session
whose peer vanished without a reset does not end, and nothing claims that it
does.  `Lifecycle` assumes weak fairness of the two loops and of
`stop_server` once it was called; nobody need call it, and no client need
connect.  `Handshake` assumes it of the session's thread only.
`UdpRelay` assumes it of each worker, whose only wait, `recvfrom`, is limited to
60 seconds, and nothing of the far proxy or the network.
`ProtectRpc` assumes it of each session's thread and of the callee, which
answers what it is asked; without the latter a read would block for ever, as the
callers' sockets have no timeout.  Weak fairness is enough for the mutex
because the sessions make a bounded number of calls.

### Findings

* `StopReturns` is violated.  `main.cpp` 39 tells the user who interrupts the
  program to wait for it to exit, and `stop_server` precedes the exit.  But the
  accept thread that `stop_server` joins is blocked in `accept`, and closing
  the listening descriptor does not wake it; it returns with the next
  connection, if there is one (`ConnectionReleasesStop`).  If the stop comes
  before `run` has stored the descriptor in `handle`, the listener is not even
  closed.
* `DeleteIsSafe` is violated.  `mobile_core.cpp` 86 logs a safe delete; the
  destructor calls `shutdown` again, which closes the old number a second time.
  Between the two a detached session or worker may have been given the number.
* `IPv6TargetKept` is violated.  The host of an IPv6 command is formatted as an
  IPv4 address (`address.cpp` 262), `toRawIPv6` cannot parse that and returns
  an array nobody has written, where `address.h` 84 promises the bytes of the
  address.

## 4. Proofs

`FunsProofs` proves that the helpers are inverse over the whole range of their
types.

`RelayProofs` proves three theorems for every value of `ReadMax`, `Slack`,
`Overhead`, `SndBuf`, `MaxSend` and `TimeoutSet` the assumptions of `Relay`
allow.  `TypeCorrect` is type correctness; to show that a cut position is a
natural number it needs, beside the types, `Bounded`: no more is queued than
was sent.  `UpstreamCorrect` is `UpstreamFramed`.  That property speaks of
finished frames and says nothing of the bytes in hand, so it is not inductive;
`IInv` adds `Stream` (what was received and what is queued make up the client's
stream) and `InHand` (the bytes on the wire since the last cut followed by
the bytes in hand are one frame, of what was received since that cut).  The
proof has a lemma per action that touches the upstream half, and one lemma for
all others; a frame once cut stays what it is because both sequences only grow
(`FramesKept`).  TLC checked `IInv` before it was proved.

`PumpsAdvanceAlways` is the safety half of liveness, which the prover cannot
state as such: every call of a pump lessens a number (`UpLeft`,
`DownLeft`), and nothing raises it.  The number is a lexicographic measure
folded into one: a byte still to be received weighs more than the whole frame
that can be made of it, so a pump may go from the end of a `Write` back to
`recv` and still come down.  With weak fairness of the pumps this
gives `SessionEnds`: where timeouts are set some call returns, and only finitely
many can.

`DuplexProofs` proves `NoLossAtEOF` and the refinement of `Duplex`, for all
constants with `LimitHolds`: the length limit fits into three bytes (in the code
it is 2560), since one of the frames `proxy_write` is to refuse announces 2^24
bytes.  The invariant has three parts.  `IInv` is that of `RelayProofs`.
`UpInv` adds the end of the upstream pump: what it leaves behind the last cut is
the beginning of a frame and never a whole one (`Unfinished`), which is why the
far end decodes up to the last cut and no further (`ForwardedIs`).  `DownInv`
says that there are a wire `T` and `N` frames on it, the i-th one ending at
`W[i]` on the wire and at `P[i]` in the far end's stream, with nothing behind
them or something refused (`FarStream`), and that `proxy_write` has received `c`
bytes of `T`, has in hand what lies between the end of frame `j` and `c`, and has
delivered the plaintext up to `P[j]` but for what it is still writing (`DownAt`).
`T`, `N`, `W` and `P` are no variables of `Relay`: they are quantified, and each
step names the new ones.  `BadRefused` and `BrokenRefused` show that each bad
frame and each beginning of a frame is `Refused` where it stands.  For the
refinement each step is shown to put into a pipe, to deliver from it, to end it
or to leave both as they are (`PipeNext`); a delivery upstream is the send that
completes a frame.  What `FarDecode` yields is found by induction on the
positions of the wire, backwards from its end (`DecoderExists`, `Decoder`);
`AllNumbers` derives induction for a set of numbers from the well-foundedness of
their order, as the library's own theorem for it has an operator as parameter.

`LifecycleProofs` has four theorems, for any number of clients, datagrams,
starts and descriptors.  `TypeCorrect` needs `Started` (before the first start
there is no routine, so a listener always has a start it belongs to).
`NothingListens` rests on `LInv`: a TCP listener is named by its thread's new
number or by `handle` and by no other number (`TcpHeld`), the UDP listener by
its loop's number (`UdpHeld`), none belongs to a start to come (`NoneAhead`),
and `stop_server` gets from one stage to the next only behind the routines' ends
(`Stopping`).  Nothing in it depends on whose descriptor `stop_server` may have
closed.  `OwnersKept` rests on `OInv`: whatever number a thread claims
(`Claims`) names its own file, as long as `stop_server` has closed nothing but
its listener.  Three lemmas say why open, close and the close of `stop_server`
keep that: the lowest free number is nobody's; who closes what it claims takes
nothing from others, as one number names one file; and no thread claims a TCP
listener.  `Dated` is needed for the workers' copies: a worker left over from an
earlier start does not count as one of the new server's. `StopSticksAlways` is
about the two facts a stop relies on, that the listener has no number any more
(`Deaf`) and that the flag is set: no step before the next start undoes either,
also when the number is given to another thread, and from then on each call of a
routine is one of the few it has left (`TcpLeft`, `UdpLeft`).  With weak
fairness this gives `UdpLoopEnds`; for the accept loop it gives no more, as a
blocked `accept` is not woken.

`UdpRelayProofs` proves the two invariants of `UdpRelay` for any requests,
ports, answers and sizes, whatever lengths the answers claim.  The inductive
part is in `AnswersMatch`: what is under way bears the port its worker was given
(`Addressed`), and whoever else had the port of a waiting worker had ended when
it was bound (`Turns`), so an answer that reaches it is its own or one of those
(`InHand`).  `BufferHolds` needs that nothing but a received datagram of at most
`ReadSize` bytes goes into a frame (`Sized`).

`ProtectRpcProofs` proves seven theorems about `ProtectRpc` for any sessions,
callers, descriptors, connections, faults and sizes of an answer.  `TInv` has
the types.  `CounterIsSettled` is inductive beside them: the store of an
incremented value leaves its thread between increment and reduction, so the step
after which no thread is there is either a reduction, which stores a caller's
number however old the value it has read, or no store at all.  `SInv` says who
may do what: one thread builds the pool and nobody is past `get_instance` before
it is ready (`Phases`), a caller's connection is used and replaced under its
mutex (`Locked`), and no number a thread keeps is 0 (`NotStdin`), from which
`StdinIsSafe` follows, whatever was lost. `LInv` holds until a caller has once
been without a connection: the numbers of threads name the files they opened
(`OwnFiles`); a caller has its connection unless the pool is not built up to it
or a thread is replacing it (`CallersServed`); an attempt that has connected
serves its caller (`Redialled`); on a caller's connection there is at most one
call, that of the thread that waits for it (`OneCall`).  Whether a connection is
out of step is recorded in `torn`, and where it is not, no part of an answer was
taken (`WholeReads`); that is the exception `AnswerIsOwn` and `OneCall` make.
`ConnectionIsOwn` and `ResultIsOwn` need all of it: between the close of a
broken connection and the next connect its number may be any session's socket,
and only the mutex and `OwnFiles` keep the caller from it. TLC checked the whole
invariant on the instance of the run before it was proved.

`NobodyWaitsInVain` (`WaitsEnd`) adds two parts to that invariant (`WInv`).
`Manned`: a pool that is not ready has a thread that builds it, and the holder
of a mutex is inside its call on that very caller, so that the graph of who
waits for whom has no cycle and ends in a thread that can go on.  `Awaited`, as
long as callers have connections: where a thread reads, its connection is broken
or has something on it; with `OneCall`, and unless it is out of step, that is
its own request or the answer to it, and the callee will answer.
`CallsAdvanceAlways` is about the number of steps a session has left
(`StepsLeft`): every step of its own lessens it and no step of another session
raises it, so a failed send is not followed by another one and three attempts to
connect are three.  The proof takes one lemma per action for what it does to its
own thread and one for all the others (`StepNumbers`, `Counted`).  Together with
weak fairness these two give `CallsReturn`.

`HandshakeProofs` proves the invariants of `Handshake` for any commands,
greetings, bound addresses, ciphers and stray bytes, and that it implements
`Session`.  Two of the theorems have a condition, which is where the code stops
keeping the promise.  `SuccessTrue` and `Aligned` want a command that `Fits` the
256 bytes it is read into: a name of 250 bytes or more leaves part of its port
behind.  `SuccessTrue` also wants an IPv4 address or a name, since IPv6 hosts do
not survive parsing.  `Survival` and `Refinement` have none: what they except, a
command of an unknown type or of which a part has come, and the host of an IPv6
target, the properties themselves say.  `IInv` has, beside the types, one
conjunct for each of the streams.  `ClientSide`: the client hears the answer to
its greeting first and the last word next, and only the last word can say
success.  `WholeMessages`: what a client whose messages arrive whole has under
way is exactly the message the session waits for.  `Upstream`: where the session
is says which message is on its way to the far proxy or which answer on its way
back, and the cipher is the far proxy's.  `Reached`: a request names the
session's target, and the far proxy reaches what a request names.  None of these
is inductive alone: that an accepted answer is all there is follows from its own
length byte, or from its type, and from `Upstream`, which says that nothing else
can have come.  The first third of the module is lemmas on the messages: that
what `FromSocks5CommandStream` makes of a command is the address in it
(`ParsedBack`), that an object is rebuilt from its bytes (`MethodRead`), and
that the far proxy takes from a packed address what was put in (`AskForm`,
`FarReaches`).  Two of them are theorems of `Address` in their own right:
`MessageSuffices`, that seven bytes are enough for the parser to stay inside a
message, whatever its kind and its length byte say, and `PackedIsUnderstood`,
that packing an IPv4 address or a name and parsing the result are inverse.
`Survival` needs `Survives` and `Blameless` as well, the refinement `Pending`
(nothing is understood or reached before its turn).

`CiphersProofs` proves all seven invariants of `Ciphers`, `VectorAccepted`
included, for any block, word and memory sizes, vectors, plaintexts and
sequences of calls; no condition is left. `StreamInv` is the library's part,
whoever calls it: within a call some number of blocks is `Done`, the range is
`Written` so far and no further, the two words of the counter are the digits of
where the call began plus that number, and what is left takes it to where the
next call expects it (`Heading`).  The step of the loop is `NextBlockStreamInv`:
since source and target are the same or apart, no byte still to be read has been
written.  The counter's two words count as one number, carry and wrap included
(`CountsOn`).  `JobInv` is the objects' part: there is one object, with a vector
as its cipher generates it (`OneObject`); what is on its way is the plaintext or
what that object makes of it (`Frame`); and a call of the library works on this
frame from block 0 (`Streaming`).  `RoundTrip` then follows from
`StreamApplied`, used once at either end, and from XOR undoing itself.

The assumptions on the constants are those the code justifies: positive buffer
sizes, an overhead that fits into the slack, a limit that fits the four header
bytes; names of threads that differ; a buffer that has room for a frame; in the
handshake addresses with as many bytes as their type says, greetings of at most
the twenty bytes they are read into, and vectors a greeting can carry; in the
library ranges that lie in memory and are the same or apart, as the ciphers call
it, and in the ciphers plaintexts for which memory has two buffers.

What stays with TLC: liveness under fairness and `ENABLED`, which this prover
does not handle: `SessionEnds`, `NoByteStranded`, `DeadSessionEnds`,
`UdpLoopEnds`, `ConnectionReleasesStop`, `HandshakeEnds`, `CallsReturn` and
`WorkersEnd`.  The safety half of the first and of `CallsReturn` is proved, as
said above, and that of `UdpLoopEnds` and `ConnectionReleasesStop` in
`StopSticks`.  A session's handshake and a UDP worker have no loop, so there the
like would say no more than that their actions follow one another.  No module
declares a `RECURSIVE` operator.

Three properties are proved and in no run: `SuccessIsBacked`,
`VectorAccepted` and `StopSticks`.  On the instances of the runs
`SessionRefined`, `RoundTrip` and `UdpLoopEnds` say as much of the code.

## 5. Not modelled, and the plan

Every invariant, action property and refinement the passing runs check has
a theorem, `SuccessIsTrue` and `EstablishedAligned` under the conditions named
above.  What is
left is larger instances of the liveness runs, and the code below.

Not modelled:

* `core/minipool.cpp`: no code of the program uses it, so nothing says how its
  buffers are taken and given back;
* of `core/address.cpp` the conversions from and to `sockaddr` and the checks of
  configured hosts: they are pure and used at start only, or not at all;
* of `privacy/xchacha20.cpp` the rounds, the loading and the storing of words
  (bit arithmetic on 512-bit states, no control), and the two AEAD constructions,
  which are libsodium's;
* reading `config.json` in `main.cpp` and `include/config`, and logging: input
  and output without state of their own;
* third-party code under `3rd`.
