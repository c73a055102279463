------------------------------ MODULE Ciphers ------------------------------
(***************************************************************************)
(* Compress and UnCompress of the four ciphers (src/privacy), at two ends  *)
(* of which one built its object by name and the other one from the bytes  *)
(* it was sent.  CHACHA-20 runs the library of module XChaCha20 on a       *)
(* context on the stack, which holds what earlier calls left there; the    *)
(* two AEAD constructions are libsodium's and opaque.                      *)
(*                                                                         *)
(* A behaviour uses either the ciphers or, as no code of the program does, *)
(* the library alone.                                                      *)
(***************************************************************************)
EXTENDS XChaCha20, Privacy

CONSTANTS
  Names,    \* names a configuration may give
  Vectors,  \* vectors the generator may return
  Sizes,    \* lengths of plaintexts
  Secret    \* the key both ends derive from the password

ASSUME SizesAssumption   == Sizes \subseteq Nat /\ \A n \in Sizes : 2 * n <= MemSize
ASSUME VectorsAssumption == Vectors \subseteq Seq(0..255)
ASSUME KeysAssumption    == \A v \in Vectors : Len(v) = 24 => SubKey(Secret, v) \in Keys

VARIABLES
  local,  \* the object built by name: a set of at most one
  far,    \* the object the other end has built from its bytes, likewise
  aes,    \* [ends -> whether the processor can do AES-GCM]
  job     \* a call and its frame: pc, the end that makes it, what it does, the
          \* plaintext, the bytes of input or output and how long it is on the wire,
          \* who sealed it, the room made for output, the result, frames so far

vars == << streamVars, local, far, aes, job >>

Init ==
  /\ StreamInit
  /\ local = {} /\ far = {}
  /\ aes \in [{"local", "far"} -> BOOLEAN]
  /\ job = [pc |-> "none", by |-> "local", op |-> "zip", plain |-> << >>, data |-> << >>,
            size |-> 0, sealer |-> {}, room |-> 0, code |-> 0, frames |-> 0]

-----------------------------------------------------------------------------
Build ==
  /\ job.pc = "none" /\ ctx.key = NoKey
  /\ \E name \in Names : \E iv \in {v \in Vectors : Len(v) = Generated(name)} :
       /\ local' = BuildByName(name, iv)
       /\ job' = [job EXCEPT !.pc = IF BuildByName(name, iv) = {} THEN "unknown" ELSE "built"]
  /\ UNCHANGED << streamVars, far, aes >>

Rebuild ==
  /\ job.pc = "built"
  /\ far' = UNION {BuildFromBytes(MethodBytes(o)) : o \in local}
  /\ job' = [job EXCEPT !.pc = IF far' = {} THEN "refused" ELSE "idle"]
  /\ UNCHANGED << streamVars, local, aes >>

-----------------------------------------------------------------------------
(* Compress and UnCompress.                                                *)

\* Mutated: only whole 32-byte units are made room for.
AlloSizeDown(o) == {(o \div 32) * 32 + pad : pad \in {16, 64}}

\* alloSize.  Two files define an inline function of this name, with different
\* bodies; which of them a call gets is the compiler's and the linker's choice.
AlloSize(o) == {(o \div 32 + 2) * 32 + pad : pad \in {16, 64}}

\* The vectors in and out, out newly resized and hence zero.
Buffers(in) == [i \in Index |-> IF i <= Len(in) THEN in[i]
                                ELSE IF i <= 2 * Len(in) THEN {} ELSE mem[i]]

\* Mutated: the context of the last call is kept.
StartStreamKept(o, in) ==
  /\ Enter(IF ctx.key = NoKey THEN KeySetUp(SubKey(Secret, o.iv)) ELSE ctx, Buffers(in),
           [from |-> 0, to |-> Len(in), n |-> Len(in)],
           IF ctx.key = NoKey THEN [counter |-> 0, blocks |-> 0] ELSE origin)
  /\ UNCHANGED << tmp, calls >>

\* ChaCha20::Compress, up to the call of xchacha_encrypt_bytes.
StartStream(o, in) ==
  /\ Enter(CounterSet(KeySetUp(SubKey(Secret, o.iv)), 0), Buffers(in),
           [from |-> 0, to |-> Len(in), n |-> Len(in)], [counter |-> 0, blocks |-> 0])
  /\ UNCHANGED << tmp, calls >>

Object(end) == IF end = "local" THEN local ELSE far
Plaintext(n) == [i \in 1..n |-> {<< i >>}]

\* One end encrypts a plaintext of n bytes.
Compress(end, n) ==
  /\ job.pc = "idle" /\ job.frames < MaxCalls
  /\ job' = [job EXCEPT !.pc = "call", !.by = end, !.op = "zip", !.plain = Plaintext(n),
                        !.data = Plaintext(n), !.size = n, !.frames = @ + 1]
  /\ UNCHANGED << streamVars, local, far, aes >>

\* The other end decrypts what came of it.
UnCompress ==
  /\ job.pc = "zipped"
  /\ job' = [job EXCEPT !.pc = "call", !.by = IF @ = "local" THEN "far" ELSE "local", !.op = "unzip"]
  /\ UNCHANGED << streamVars, local, far, aes >>

\* The call can go on, with object o of the end that makes it.
Runs(o) == /\ job.pc = "call" /\ o \in Object(job.by)
           /\ Precheck(o, job.size, aes[job.by]) = 0

\* What a call that succeeds leads to.
AfterSuccess == IF job.op = "zip" THEN "zipped" ELSE "idle"

Refuse ==
  /\ job.pc = "call"
  /\ \E o \in Object(job.by) :
       /\ Precheck(o, job.size, aes[job.by]) # 0
       /\ job' = [job EXCEPT !.pc = "idle", !.code = Precheck(o, job.size, aes[job.by])]
  /\ UNCHANGED << streamVars, local, far, aes >>

RunRaw(o) ==
  /\ o.name = "RAW" /\ Runs(o)
  /\ job' = [job EXCEPT !.pc = AfterSuccess, !.code = 0]
  /\ UNCHANGED << streamVars, local, far, aes >>

\* libsodium opens only what the same cipher sealed with the same vector.
RunAead(o) ==
  /\ o.name \in Aead /\ Runs(o)
  /\ \E room \in AlloSize(job.size) :
       job' = IF job.op = "zip"
              THEN [job EXCEPT !.pc = "zipped", !.code = 0, !.room = room, !.sealer = {o},
                               !.size = @ + Tag(o)]
              ELSE [job EXCEPT !.pc = "idle", !.code = IF o \in job.sealer THEN 0 ELSE -4,
                               !.room = room, !.size = @ - Tag(o)]
  /\ UNCHANGED << streamVars, local, far, aes >>

RunStream(o) ==
  /\ o.name = "CHACHA-20" /\ Runs(o)
  /\ StartStream(o, job.data)
  /\ job' = [job EXCEPT !.pc = "stream"]
  /\ UNCHANGED << local, far, aes >>

StreamReturns ==
  /\ job.pc = "stream" /\ call.pc = "done"
  /\ job' = [job EXCEPT !.pc = AfterSuccess, !.code = 0,
                        !.data = [i \in 1..job.size |-> mem[job.size + i]]]
  /\ UNCHANGED << streamVars, local, far, aes >>

Next ==
  \/ Caller /\ job.pc = "none" /\ UNCHANGED << local, far, aes, job >>
  \/ NextBlock /\ UNCHANGED << local, far, aes, job >>
  \/ Build \/ Rebuild
  \/ \E end \in {"local", "far"}, n \in Sizes : Compress(end, n)
  \/ UnCompress \/ Refuse \/ StreamReturns
  \/ \E o \in local \cup far : RunRaw(o) \/ RunAead(o) \/ RunStream(o)

Spec == Init /\ [][Next]_vars

-----------------------------------------------------------------------------
(* Properties.                                                             *)

Objects == [name : Methods, iv : Vectors]
Bytes   == Seq(SUBSET Atoms)

TypeOK ==
  /\ ctx.lo \in 0..Word - 1 /\ ctx.hi \in 0..Word - 1
  /\ mem \in [Index -> SUBSET Atoms] /\ tmp \in [1..Block -> SUBSET Atoms]
  /\ call \in [pc : {"idle", "block", "done"}, m : Offset, c : Offset, bytes : Offset,
               j12 : 0..Word - 1, j13 : 0..Word - 1]
  /\ local \in SUBSET Objects /\ far \in SUBSET Objects
  /\ job.pc \in {"none", "unknown", "built", "refused", "idle", "call", "stream", "zipped"}
  /\ job.plain \in Bytes /\ job.data \in Bytes /\ {job.size, job.room} \subseteq Nat

\* The end that gets an object's bytes does not refuse them, and builds the same
\* object: what each class writes in ToBytes, mask, length and vector, is what
\* the switch and the length checks of build_privacy_method and SetIV expect
\* (privacy.cpp 14-109 and ToBytes and SetIV of the four ciphers).
ObjectRebuilt == job.pc \notin {"none", "unknown", "built"} => far = local /\ far # {}

\* What one end encrypts the other end decrypts to the same bytes, frame after
\* frame; unless its processor lacks AES-GCM, the second end refuses nothing the
\* first one has encrypted (chacha20.cpp, gcm.cpp, raw.cpp, xcha20_poly1305.cpp).
RoundTrip ==
  job.op = "unzip" /\ job.pc = "idle" =>
    \/ job.code = 0 /\ job.data = job.plain /\ job.size = Len(job.plain)
    \/ job.code = -5 /\ ~aes[job.by]

\* An object that was built by name, or from the bytes of one that was, is never
\* refused for the length of its vector: what the generator makes is what
\* Compress insists on (privacy.cpp 80-109).
VectorAccepted == job.code # -2

\* libsodium never writes beyond the vector that was resized for it, whichever of
\* the two functions called alloSize did the sum (gcm.cpp 14-17,
\* xcha20_poly1305.cpp 5-8).
OutputFits == job.pc = "zipped" /\ job.sealer # {} => job.size <= job.room
=============================================================================
