----------------------------- MODULE XChaCha20 -----------------------------
(***************************************************************************)
(* The stream cipher of src/privacy/xchacha20.cpp: a context with a 64-bit *)
(* block counter in two words, and the loop that encrypts a buffer block   *)
(* by block, the last and shorter one through an array on the stack.       *)
(*                                                                         *)
(* A byte is the set of the atoms that were XORed into it, so 0 is the     *)
(* empty set and XOR the symmetric difference.  The bytes of a block of    *)
(* key stream are atoms named after what the rounds mix into them: the     *)
(* same block is the same stream, and different blocks have nothing in     *)
(* common.  The loading and storing of words, which undo each other, and   *)
(* the rounds themselves are abstracted in this.                           *)
(***************************************************************************)
EXTENDS Integers

CONSTANTS
  Block,     \* XCHACHA_BLOCKLENGTH, 64
  Word,      \* words count modulo Word, 2^32
  MemSize,   \* bytes of the callers' memory
  Keys,      \* pairs of a key and a vector
  Counters,  \* counters callers set, in 0..Word^2 - 1
  Ranges,    \* what callers pass: records from, to (offsets in memory) and n
  MaxCalls   \* bound: how often the library is called after a keysetup

ASSUME BlockAssumption   == {Block, Word, MaxCalls} \subseteq Nat \ {0} /\ MemSize \in Nat
ASSUME CounterAssumption == Counters \subseteq 0..(Word * Word - 1)
\* This model's own condition, of which the header says nothing: ranges lie in
\* memory, and are the same or apart, as all of the program's callers keep them.
ASSUME RangesAssumption  ==
  \A r \in Ranges : /\ r \in [from : 0..MemSize, to : 0..MemSize, n : 0..MemSize]
                    /\ r.from + r.n <= MemSize /\ r.to + r.n <= MemSize
                    /\ \/ r.from = r.to
                       \/ r.from + r.n <= r.to
                       \/ r.to + r.n <= r.from

VARIABLES
  ctx,    \* XChaCha_ctx: the key with its vector, the words 12 and 13 of input
  mem,    \* the callers' memory
  tmp,    \* the array tmp
  call,   \* xchacha_encrypt_bytes: pc, m, c, bytes, j12, j13
  asked,  \* history: the range of the call, memory and counter when it began
  origin, \* history: the counter last set, and the blocks asked for since then
  calls   \* calls since the last keysetup

streamVars == << ctx, mem, tmp, call, asked, origin, calls >>

Index == 1..MemSize

NoKey == << >>

\* xchacha_hchacha20 makes a key of a key and a vector; which ones is all that counts.
SubKey(k, iv) == << k, iv >>

XOR(a, b) == (a \ b) \cup (b \ a)

\* Byte i of the block that counter words lo and hi select.
StreamByte(key, lo, hi, i) == {<< key, lo, hi, i >>}

Garbage == {<< 0 >>}

StreamInit ==
  /\ ctx = [key |-> NoKey, lo |-> 0, hi |-> 0]
  /\ mem = [i \in Index |-> {<< i >>}]
  /\ tmp = [i \in 1..Block |-> Garbage]
  /\ call = [pc |-> "idle", m |-> 0, c |-> 0, bytes |-> 0, j12 |-> 0, j13 |-> 0]
  /\ asked = [range |-> [from |-> 0, to |-> 0, n |-> 0], mem |-> mem, counter |-> 0]
  /\ origin = [counter |-> 0, blocks |-> 0]
  /\ calls = 0

Ready == call.pc \in {"idle", "done"}

-----------------------------------------------------------------------------
\* The context after xchacha_keysetup, and after xchacha_set_counter.
KeySetUp(key)       == [key |-> key, lo |-> 0, hi |-> 0]
CounterSet(c, at)   == [c EXCEPT !.lo = at % Word, !.hi = at \div Word]

Number(c) == c.hi * Word + c.lo

Blocks(n) == (n + Block - 1) \div Block

\* xchacha_encrypt_bytes is entered; with no bytes it returns at once.
Enter(context, memory, range, since) ==
  /\ call' = [pc |-> IF range.n = 0 THEN "done" ELSE "block", m |-> range.from, c |-> range.to,
              bytes |-> range.n, j12 |-> context.lo, j13 |-> context.hi]
  /\ asked' = [range |-> range, mem |-> memory, counter |-> Number(context)]
  /\ origin' = [since EXCEPT !.blocks = @ + Blocks(range.n)]
  /\ ctx' = context
  /\ mem' = memory

\* Mutated: the carry into the second word is missing.
NextHighNoCarry(lo, hi) == hi

\* Mutated: the second word does not wrap.
NextHighUnwrapped(lo, hi) == IF lo = 0 THEN hi + 1 ELSE hi

\* The second word of the counter when the first one has become lo.
NextHigh(lo, hi) == IF lo = 0 THEN (hi + 1) % Word ELSE hi

\* Mutated: a last block that is shorter leaves the counter where it was.
ReturnedOnlyWhole(lo, hi) == IF call.bytes < Block THEN ctx ELSE [ctx EXCEPT !.lo = lo, !.hi = hi]

\* The context when the call returns.
Returned(lo, hi) == [ctx EXCEPT !.lo = lo, !.hi = hi]

\* One turn of the loop.  All of a block is read before any of it is written; a
\* shorter one is completed with what is in tmp, and copied from there.
NextBlock ==
  LET n == IF call.bytes < Block THEN call.bytes ELSE Block
      x == [i \in 1..Block |-> XOR(IF i <= n THEN mem[call.m + i] ELSE tmp[i],
                                   StreamByte(ctx.key, call.j12, call.j13, i))]
      j12 == (call.j12 + 1) % Word
      j13 == NextHigh(j12, call.j13)
  IN  /\ call.pc = "block"
      /\ mem' = [i \in Index |-> IF i \in call.c + 1..call.c + n THEN x[i - call.c] ELSE mem[i]]
      /\ tmp' = IF n < Block THEN x ELSE tmp
      /\ IF call.bytes <= Block
         THEN /\ ctx' = Returned(j12, j13)
              /\ call' = [call EXCEPT !.pc = "done", !.j12 = j12, !.j13 = j13]
         ELSE /\ call' = [call EXCEPT !.m = @ + Block, !.c = @ + Block, !.bytes = @ - Block,
                                      !.j12 = j12, !.j13 = j13]
              /\ UNCHANGED ctx
      /\ UNCHANGED << asked, origin, calls >>

-----------------------------------------------------------------------------
(* A caller of the library.  It may go on after a last block that was not  *)
(* whole, which the header rules out and the functions do not look at.     *)

SetUp(key) ==
  /\ Ready /\ ctx.key = NoKey
  /\ ctx' = KeySetUp(key)
  /\ origin' = [counter |-> 0, blocks |-> 0]
  /\ call' = [call EXCEPT !.pc = "idle"]
  /\ UNCHANGED << mem, tmp, asked, calls >>

SetCounter(at) ==
  /\ Ready /\ ctx.key # NoKey /\ calls < MaxCalls
  /\ ctx' = CounterSet(ctx, at)
  /\ origin' = [counter |-> at, blocks |-> 0]
  /\ call' = [call EXCEPT !.pc = "idle"]
  /\ calls' = calls + 1
  /\ UNCHANGED << mem, tmp, asked >>

\* xchacha_encrypt_bytes, and xchacha_decrypt_bytes, which only calls it.
EncryptBytes(range) ==
  /\ Ready /\ ctx.key # NoKey /\ calls < MaxCalls
  /\ Enter(ctx, mem, range, origin)
  /\ calls' = calls + 1
  /\ UNCHANGED tmp

\* xchacha_keystream_bytes: zeros, encrypted in place.
KeystreamBytes(range) ==
  /\ Ready /\ ctx.key # NoKey /\ calls < MaxCalls
  /\ Enter(ctx, [i \in Index |-> IF i \in range.to + 1..range.to + range.n THEN {} ELSE mem[i]],
           [range EXCEPT !.from = range.to], origin)
  /\ calls' = calls + 1
  /\ UNCHANGED tmp

Caller == \/ \E key \in Keys : SetUp(key)
          \/ \E at \in Counters : SetCounter(at)
          \/ \E range \in Ranges : EncryptBytes(range) \/ KeystreamBytes(range)

-----------------------------------------------------------------------------
(* Properties.                                                             *)

Atoms  == {<< i >> : i \in 0..MemSize}
          \cup ((Keys \cup {NoKey}) \X (0..Word - 1) \X (0..Word - 1) \X (1..Block))
Offset == 0..MemSize

\* The reference: byte p, from 0, of the stream from block start on.
Stream(key, start, p) ==
  LET b == (start + p \div Block) % (Word * Word)
  IN  StreamByte(key, b % Word, b \div Word, (p % Block) + 1)

\* After a call the target range is the source range, as it was, XORed with the
\* stream from the context's counter on, and no other byte has changed: neither
\* does the carry between the counter's words skip or repeat a block, nor do bytes
\* of the array on the stack or of an earlier block of a buffer encrypted in place
\* reach the output (xchacha20.cpp 126-257).
StreamApplied ==
  call.pc = "done" =>
    \A i \in Index :
      LET r == asked.range
          p == i - r.to - 1
      IN  mem[i] = IF p \in 0..r.n - 1
                   THEN XOR(asked.mem[r.from + p + 1], Stream(ctx.key, asked.counter, p))
                   ELSE asked.mem[i]

\* Between calls the counter stands behind the last block of those the calls since
\* it was set needed: the next call continues, takes no byte of the stream a second
\* time and leaves no block out (xchacha20.cpp 249-251).  After a last block that was
\* not whole the header allows no further call (xchacha20.h 114-150); the program
\* makes one call for each context.
PositionKept ==
  Ready => Number(ctx) = (origin.counter + origin.blocks) % (Word * Word)
=============================================================================
