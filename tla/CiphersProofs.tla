--------------------------- MODULE CiphersProofs ---------------------------
(***************************************************************************)
(* The safety of Ciphers, and of the XChaCha20 library on its own, for any *)
(* size of blocks, words and memory, any vectors and any plaintexts.       *)
(***************************************************************************)
EXTENDS Ciphers, SequenceTheorems, TLAPS

-----------------------------------------------------------------------------
(* Arithmetic.                                                             *)

LEMMA DivUnique ==
  ASSUME NEW b \in Nat \ {0}, NEW k \in Int, NEW q \in 0..b - 1
  PROVE  (k * b + q) \div b = k /\ (k * b + q) % b = q
  OBVIOUS

LEMMA DivMod ==
  ASSUME NEW b \in Nat \ {0}, NEW a \in Nat
  PROVE  /\ a \div b \in Nat /\ a % b \in 0..b - 1
         /\ a = ((a \div b) * b) + (a % b)
  OBVIOUS

LEMMA ModSmall ==
  ASSUME NEW b \in Nat \ {0}, NEW a \in 0..b - 1
  PROVE  a % b = a
  OBVIOUS

\* A remainder may be taken in between.
LEMMA ModAdd ==
  ASSUME NEW b \in Nat \ {0}, NEW a \in Nat, NEW c \in Nat
  PROVE  ((a % b) + c) % b = (a + c) % b
<1> DEFINE q == a \div b
           r == a % b
           q2 == (r + c) \div b
           r2 == (r + c) % b
<1>1. q \in Nat /\ r \in 0..b - 1 /\ a = (q * b) + r
  BY DivMod
<1>2. r + c \in Nat
  BY <1>1
<1>3. q2 \in Nat /\ r2 \in 0..b - 1 /\ r + c = (q2 * b) + r2
  BY <1>2, DivMod
<1> HIDE DEF q, r, q2, r2
<1>4. a + c = ((q + q2) * b) + r2
  BY <1>1, <1>3
<1>5. (((q + q2) * b) + r2) % b = r2
  <2>1. q + q2 \in Int
    BY <1>1, <1>3
  <2>2. QED
    BY <1>3, <2>1, DivUnique
<1>6. QED
  BY <1>4, <1>5 DEF r, r2

LEMMA WordType == /\ Word \in Nat \ {0} /\ Block \in Nat \ {0} /\ MemSize \in Nat
                  /\ Word * Word \in Nat \ {0}
<1>1. Word \in Nat \ {0} /\ Block \in Nat \ {0} /\ MemSize \in Nat
  BY BlockAssumption
<1>2. QED
  BY <1>1

\* The two words of the counter are its digits.
LEMMA Digits ==
  ASSUME NEW lo \in 0..Word - 1, NEW hi \in 0..Word - 1
  PROVE  /\ (hi * Word) + lo \in 0..(Word * Word) - 1
         /\ ((hi * Word) + lo) % Word = lo
         /\ ((hi * Word) + lo) \div Word = hi
<1>1. Word \in Nat \ {0}
  BY WordType
<1>2. hi * Word =< (Word - 1) * Word /\ hi * Word \in Nat
  BY <1>1
<1>3. (Word - 1) * Word = (Word * Word) - Word /\ Word * Word \in Nat
  BY <1>1
<1>4. (hi * Word) + lo \in 0..(Word * Word) - 1
  <2> DEFINE a == hi * Word
             w == Word * Word
             v == (Word - 1) * Word
  <2>1. a \in Nat /\ w \in Nat /\ v = w - Word /\ a =< v
    BY <1>2, <1>3
  <2> HIDE DEF a, w, v
  <2>2. a + lo \in 0..w - 1
    BY <1>1, <2>1
  <2>3. QED
    BY <2>2 DEF a, w
<1>5. QED
  BY <1>1, <1>4, DivUnique

\* Every number below Word^2 has two such digits.
LEMMA DigitsOf ==
  ASSUME NEW at \in 0..(Word * Word) - 1
  PROVE  /\ at % Word \in 0..Word - 1 /\ at \div Word \in 0..Word - 1
         /\ ((at \div Word) * Word) + (at % Word) = at
<1>1. Word \in Nat \ {0} /\ at \in Nat /\ at < Word * Word
  BY WordType
<1> DEFINE q == at \div Word
           r == at % Word
<1>2. q \in Nat /\ r \in 0..Word - 1 /\ at = (q * Word) + r
  BY <1>1, DivMod
<1> HIDE DEF q, r
<1>3. q =< Word - 1
  <2>1. SUFFICES ASSUME q >= Word PROVE FALSE
    BY <1>1, <1>2
  <2>2. q * Word >= Word * Word
    BY <1>1, <1>2, <2>1
  <2>3. at >= q * Word
    BY <1>1, <1>2
  <2>4. QED
    BY <1>1, <1>2, <2>2, <2>3
<1>4. QED
  BY <1>1, <1>2, <1>3 DEF q, r

\* xchacha20.cpp 219-223: the two words count on, and wrap together.
LEMMA CountsOn ==
  ASSUME NEW lo \in 0..Word - 1, NEW hi \in 0..Word - 1
  PROVE  LET lo2 == (lo + 1) % Word
             hi2 == NextHigh(lo2, hi)
         IN  /\ lo2 \in 0..Word - 1 /\ hi2 \in 0..Word - 1
             /\ (hi2 * Word) + lo2 = (((hi * Word) + lo) + 1) % (Word * Word)
<1> DEFINE lo2 == (lo + 1) % Word
           hi2 == NextHigh(lo2, hi)
           w == Word * Word
           a == hi * Word
<1>1. Word \in Nat \ {0} /\ w \in Nat \ {0}
  BY WordType
<1>2. a \in Nat /\ a + lo \in 0..w - 1
  BY <1>1, Digits
<1>3. CASE lo + 1 < Word
  <2>1. lo2 = lo + 1
    BY <1>1, <1>3, ModSmall
  <2>2. hi2 = hi
    BY <2>1 DEF NextHigh
  <2>3. (hi * Word) + (lo + 1) \in 0..w - 1
    <3>1. lo + 1 \in 0..Word - 1
      BY <1>1, <1>3
    <3>2. QED
      BY <3>1, Digits
  <2>4. (a + lo) + 1 = a + (lo + 1) /\ (a + lo) + 1 \in 0..w - 1
    BY <1>2, <2>3
  <2>5. ((a + lo) + 1) % w = (a + lo) + 1
    BY <1>1, <2>4, ModSmall
  <2>6. QED
    BY <1>1, <1>3, <2>1, <2>2, <2>4, <2>5
<1>4. CASE lo + 1 = Word
  <2>1. lo2 = 0
    <3>1. (1 * Word + 0) % Word = 0
      BY <1>1, DivUnique
    <3>2. 1 * Word + 0 = Word
      BY <1>1
    <3>3. QED
      BY <1>4, <3>1, <3>2
  <2>2. hi2 = (hi + 1) % Word
    BY <2>1 DEF NextHigh
  <2>3. (a + lo) + 1 = (hi + 1) * Word
    BY <1>1, <1>4
  <2>4. CASE hi + 1 < Word
    <3>1. hi2 = hi + 1
      BY <1>1, <2>2, <2>4, ModSmall
    <3>2. ((hi + 1) * Word) + 0 \in 0..w - 1
      BY <1>1, <2>4, Digits
    <3>3. (hi + 1) * Word \in Nat
      BY <1>1
    <3>4. ((hi + 1) * Word) % w = (hi + 1) * Word
      BY <1>1, <3>2, <3>3, ModSmall
    <3>5. QED
      BY <1>1, <2>1, <2>3, <2>4, <3>1, <3>3, <3>4
  <2>5. CASE hi + 1 = Word
    <3>1. hi2 = 0
      <4>1. (1 * Word + 0) % Word = 0
        BY <1>1, DivUnique
      <4>2. 1 * Word + 0 = Word
        BY <1>1
      <4>3. QED
        BY <2>2, <2>5, <4>1, <4>2
    <3>2. (a + lo) + 1 = w
      BY <2>3, <2>5
    <3>3. w % w = 0
      <4>1. (1 * w + 0) % w = 0
        BY <1>1, DivUnique
      <4>2. 1 * w + 0 = w
        BY <1>1
      <4>3. QED
        BY <4>1, <4>2
    <3>4. QED
      BY <1>1, <2>1, <3>1, <3>2, <3>3
  <2>6. QED
    BY <1>1, <2>4, <2>5
<1>5. QED
  BY <1>1, <1>3, <1>4

\* Blocks rounds up: a last block for whatever is left, one less after each block.
LEMMA BlocksOf ==
  ASSUME NEW n \in Nat
  PROVE  /\ Blocks(n) \in Nat
         /\ n = 0 => Blocks(n) = 0
         /\ n \in 1..Block => Blocks(n) = 1
         /\ n > Block => Blocks(n) = Blocks(n - Block) + 1
<1>1. Block \in Nat \ {0}
  BY WordType
<1>2. Blocks(n) \in Nat
  <2>1. n + Block - 1 \in Nat
    BY <1>1
  <2>2. QED
    BY <1>1, <2>1, DivMod DEF Blocks
<1>3. n = 0 => Blocks(n) = 0
  <2>1. (0 * Block + (Block - 1)) \div Block = 0
    BY <1>1, DivUnique
  <2>2. 0 * Block + (Block - 1) = 0 + Block - 1
    BY <1>1
  <2>3. QED
    BY <2>1, <2>2 DEF Blocks
<1>4. n \in 1..Block => Blocks(n) = 1
  <2> SUFFICES ASSUME n \in 1..Block PROVE Blocks(n) = 1
    OBVIOUS
  <2>1. n - 1 \in 0..Block - 1
    BY <1>1
  <2>2. (1 * Block + (n - 1)) \div Block = 1
    BY <1>1, <2>1, DivUnique
  <2>3. 1 * Block + (n - 1) = n + Block - 1
    BY <1>1
  <2>4. QED
    BY <2>2, <2>3 DEF Blocks
<1>5. n > Block => Blocks(n) = Blocks(n - Block) + 1
  <2> SUFFICES ASSUME n > Block PROVE Blocks(n) = Blocks(n - Block) + 1
    OBVIOUS
  <2> DEFINE a == n - Block + Block - 1
             q == a \div Block
             r == a % Block
  <2>1. a \in Nat /\ a = n - 1
    BY <1>1
  <2>2. q \in Nat /\ r \in 0..Block - 1 /\ a = (q * Block) + r
    BY <1>1, <2>1, DivMod
  <2> HIDE DEF a, q, r
  <2>3. n + Block - 1 = ((q + 1) * Block) + r
    BY <1>1, <2>1, <2>2
  <2>4. (((q + 1) * Block) + r) \div Block = q + 1
    BY <1>1, <2>2, DivUnique
  <2>5. QED
    BY <2>3, <2>4 DEF Blocks, q, a
<1>6. QED
  BY <1>2, <1>3, <1>4, <1>5

-----------------------------------------------------------------------------
(* The library.                                                            *)

Words   == Word * Word
Context == [key : Keys \cup {NoKey}, lo : 0..Word - 1, hi : 0..Word - 1]
Memory  == [Index -> SUBSET Atoms]

\* Ranges that lie in memory and are the same or apart.
LawfulRange ==
  {r \in [from : 0..MemSize, to : 0..MemSize, n : 0..MemSize] :
     /\ r.from + r.n <= MemSize /\ r.to + r.n <= MemSize
     /\ r.from = r.to \/ r.from + r.n <= r.to \/ r.to + r.n <= r.from}

StreamTyped ==
  /\ ctx \in Context
  /\ mem \in Memory
  /\ tmp \in [1..Block -> SUBSET Atoms]
  /\ call \in [pc : {"idle", "block", "done"}, m : Offset, c : Offset, bytes : Offset,
               j12 : 0..Word - 1, j13 : 0..Word - 1]
  /\ asked \in [range : LawfulRange, mem : Memory, counter : 0..Words - 1]
  /\ origin \in [counter : Nat, blocks : Nat]

\* The first done bytes of the range are written, nothing else is.
Written(done) ==
  \A i \in Index :
    LET r == asked.range
        p == i - r.to - 1
    IN  mem[i] = IF p \in 0..done - 1
                 THEN XOR(asked.mem[r.from + p + 1], Stream(ctx.key, asked.counter, p))
                 ELSE asked.mem[i]

\* k blocks are done, and the counter of the call stands behind them.
Done(k) ==
  /\ asked.range.n = (k * Block) + call.bytes
  /\ call.m = asked.range.from + (k * Block)
  /\ call.c = asked.range.to + (k * Block)
  /\ (call.j13 * Word) + call.j12 = (asked.counter + k) % Words
  /\ Written(k * Block)

Working == call.pc = "block" => call.bytes # 0 /\ \E k \in Nat : Done(k)

\* What is left of the call takes the counter to where PositionKept expects it.
Heading ==
  call.pc = "block" =>
    ((call.j13 * Word) + call.j12 + Blocks(call.bytes)) % Words
    = (origin.counter + origin.blocks) % Words

StreamInv == StreamTyped /\ Working /\ Heading /\ StreamApplied /\ PositionKept

-----------------------------------------------------------------------------
LEMMA XorType ==
  ASSUME NEW S, NEW a \in SUBSET S, NEW b \in SUBSET S
  PROVE  XOR(a, b) \in SUBSET S
  BY DEF XOR

\* XCHACHA is its own inverse.
LEMMA XorTwice ==
  ASSUME NEW a, NEW b
  PROVE  XOR(XOR(a, b), b) = a
  BY DEF XOR

LEMMA AtomsOfStream ==
  ASSUME NEW key \in Keys \cup {NoKey}, NEW lo \in 0..Word - 1, NEW hi \in 0..Word - 1,
         NEW i \in 1..Block
  PROVE  StreamByte(key, lo, hi, i) \in SUBSET Atoms
  BY DEF StreamByte, Atoms

LEMMA InitStreamInv == StreamInit => StreamInv
<1> SUFFICES ASSUME StreamInit PROVE StreamInv
  OBVIOUS
<1> USE DEF StreamInit
<1>1. /\ Word \in Nat \ {0} /\ Block \in Nat \ {0} /\ MemSize \in Nat
      /\ Words \in Nat \ {0}
  BY WordType DEF Words
<1>2. \A i \in 0..MemSize : << i >> \in Atoms
  BY DEF Atoms
<1>3. mem \in Memory
  BY <1>2 DEF Memory, Index
<1>4. tmp \in [1..Block -> SUBSET Atoms]
  <2>1. Garbage \in SUBSET Atoms
    BY <1>1, <1>2 DEF Garbage
  <2>2. QED
    BY <2>1
<1>5. asked \in [range : LawfulRange, mem : Memory, counter : 0..Words - 1]
  <2>1. [from |-> 0, to |-> 0, n |-> 0] \in LawfulRange
    BY <1>1 DEF LawfulRange
  <2>2. QED
    BY <1>1, <1>3, <2>1
<1>6. StreamTyped
  <2>1. ctx \in Context
    BY <1>1 DEF Context
  <2>2. call \in [pc : {"idle", "block", "done"}, m : Offset, c : Offset, bytes : Offset,
                  j12 : 0..Word - 1, j13 : 0..Word - 1]
    BY <1>1 DEF Offset
  <2>3. QED
    BY <1>3, <1>4, <1>5, <2>1, <2>2 DEF StreamTyped
<1>7. PositionKept
  <2>1. 0 % Words = 0
    BY <1>1, ModSmall
  <2>2. (0 * Word) + 0 = 0
    BY <1>1
  <2>3. QED
    BY <2>1, <2>2 DEF PositionKept, Number, Words
<1>8. QED
  BY <1>6, <1>7 DEF StreamInv, Working, Heading, StreamApplied

\* xchacha20.cpp 126-146 and 231-257, from its entry on, whoever calls it and with whatever.
LEMMA EnterStreamInv ==
  ASSUME NEW context \in Context, NEW memory \in Memory, NEW range \in LawfulRange,
         NEW since \in [counter : Nat, blocks : Nat],
         Number(context) = (since.counter + since.blocks) % Words,
         StreamTyped, Enter(context, memory, range, since), tmp' = tmp
  PROVE  StreamInv'
<1>1. /\ Word \in Nat \ {0} /\ Block \in Nat \ {0} /\ MemSize \in Nat
      /\ Words \in Nat \ {0}
  BY WordType DEF Words
<1>2. /\ call' = [pc |-> IF range.n = 0 THEN "done" ELSE "block", m |-> range.from,
                  c |-> range.to, bytes |-> range.n, j12 |-> context.lo, j13 |-> context.hi]
      /\ asked' = [range |-> range, mem |-> memory, counter |-> Number(context)]
      /\ origin' = [since EXCEPT !.blocks = @ + Blocks(range.n)]
      /\ ctx' = context /\ mem' = memory
  BY DEF Enter
<1>3. /\ range.from \in 0..MemSize /\ range.to \in 0..MemSize /\ range.n \in 0..MemSize
      /\ range.n \in Nat
      /\ context.lo \in 0..Word - 1 /\ context.hi \in 0..Word - 1
  BY <1>1 DEF LawfulRange, Context
<1>4. Number(context) \in 0..Words - 1
  BY <1>3, Digits DEF Number, Words
<1>5. Blocks(range.n) \in Nat /\ (range.n = 0 => Blocks(range.n) = 0)
  BY <1>3, BlocksOf
<1>6. StreamTyped'
  <2>1. asked' \in [range : LawfulRange, mem : Memory, counter : 0..Words - 1]
    BY <1>2, <1>4
  <2>2. origin' \in [counter : Nat, blocks : Nat]
    BY <1>2, <1>5
  <2>3. call' \in [pc : {"idle", "block", "done"}, m : Offset, c : Offset, bytes : Offset,
                   j12 : 0..Word - 1, j13 : 0..Word - 1]
    BY <1>2, <1>3 DEF Offset
  <2>4. QED
    BY <1>2, <2>1, <2>2, <2>3 DEF StreamTyped, Context, Memory, Atoms, Index
<1>7. \A i \in Index : mem'[i] = asked'.mem[i]
  BY <1>2
<1>8. Working'
  <2> SUFFICES ASSUME call'.pc = "block" PROVE call'.bytes # 0 /\ Done(0)'
    BY DEF Working
  <2>1. 0 * Block = 0
    BY <1>1
  <2>2. Written(0)'
    BY <1>1, <1>7 DEF Written
  <2>3. (asked'.counter + 0) % Words = asked'.counter
    BY <1>1, <1>2, <1>4, ModSmall
  <2>4. (call'.j13 * Word) + call'.j12 = asked'.counter
    BY <1>2 DEF Number
  <2>5. QED
    BY <1>2, <1>3, <2>1, <2>2, <2>3, <2>4 DEF Done
<1>9. origin'.counter + origin'.blocks = (since.counter + since.blocks) + Blocks(range.n)
  BY <1>2, <1>5
<1>10. (Number(context) + Blocks(range.n)) % Words = (origin'.counter + origin'.blocks) % Words
  <2>1. since.counter + since.blocks \in Nat
    OBVIOUS
  <2>2. QED
    BY <1>1, <1>5, <1>9, <2>1, ModAdd
<1>11. Heading'
  BY <1>2, <1>10 DEF Heading, Number
<1>12. StreamApplied'
  <2> SUFFICES ASSUME call'.pc = "done" PROVE StreamApplied'
    BY DEF StreamApplied
  <2>1. asked'.range.n = 0
    BY <1>2
  <2>2. QED
    BY <1>7, <2>1 DEF StreamApplied
<1>13. PositionKept'
  <2> SUFFICES ASSUME Ready' PROVE Number(ctx)' = ((origin.counter + origin.blocks) % (Word * Word))'
    BY DEF PositionKept
  <2>1. range.n = 0
    BY <1>2 DEF Ready
  <2>2. origin'.counter + origin'.blocks = since.counter + since.blocks
    BY <1>5, <1>9, <2>1
  <2>3. Number(ctx)' = Number(context)
    BY <1>2 DEF Number
  <2>4. QED
    BY <2>2, <2>3 DEF Words
<1>14. QED
  BY <1>6, <1>8, <1>11, <1>12, <1>13 DEF StreamInv

\* One turn of the loop: the range written grows by a block, and no byte that is
\* still to be read has been overwritten (xchacha20.cpp 145-256).
LEMMA NextBlockStreamInv ==
  ASSUME StreamInv, NextBlock
  PROVE  StreamInv'
<1>1. /\ Word \in Nat \ {0} /\ Block \in Nat \ {0} /\ MemSize \in Nat
      /\ Words \in Nat \ {0}
  BY WordType DEF Words
<1> DEFINE n == IF call.bytes < Block THEN call.bytes ELSE Block
           x == [i \in 1..Block |-> XOR(IF i <= n THEN mem[call.m + i] ELSE tmp[i],
                                        StreamByte(ctx.key, call.j12, call.j13, i))]
           lo == (call.j12 + 1) % Word
           hi == NextHigh(lo, call.j13)
           r == asked.range
<1>2. /\ call.pc = "block"
      /\ mem' = [i \in Index |-> IF i \in call.c + 1..call.c + n THEN x[i - call.c] ELSE mem[i]]
      /\ tmp' = IF n < Block THEN x ELSE tmp
      /\ IF call.bytes <= Block
         THEN /\ ctx' = Returned(lo, hi)
              /\ call' = [call EXCEPT !.pc = "done", !.j12 = lo, !.j13 = hi]
         ELSE /\ call' = [call EXCEPT !.m = @ + Block, !.c = @ + Block, !.bytes = @ - Block,
                                      !.j12 = lo, !.j13 = hi]
              /\ UNCHANGED ctx
      /\ UNCHANGED << asked, origin, calls >>
  BY DEF NextBlock
<1> HIDE DEF x
<1>3. PICK k \in Nat : Done(k)
  BY <1>2 DEF StreamInv, Working
<1>4. /\ call.bytes \in 1..MemSize /\ call.m \in 0..MemSize /\ call.c \in 0..MemSize
      /\ call.j12 \in 0..Word - 1 /\ call.j13 \in 0..Word - 1
  BY <1>1, <1>2, SMTT(60) DEF StreamInv, StreamTyped, Working, Offset
<1>5. /\ r \in LawfulRange /\ asked.counter \in 0..Words - 1 /\ asked.mem \in Memory
      /\ r.from \in 0..MemSize /\ r.to \in 0..MemSize /\ r.n \in 0..MemSize
      /\ r.from + r.n <= MemSize /\ r.to + r.n <= MemSize
      /\ r.from = r.to \/ r.from + r.n <= r.to \/ r.to + r.n <= r.from
  BY DEF StreamInv, StreamTyped, LawfulRange
<1> DEFINE d == k * Block
<1>6. /\ d \in Nat /\ r.n = d + call.bytes /\ call.m = r.from + d /\ call.c = r.to + d
  BY <1>1, <1>3 DEF Done
<1> HIDE DEF d
<1>7. n \in 1..Block /\ n <= call.bytes /\ (call.bytes > Block => n = Block)
      /\ (call.bytes <= Block => n = call.bytes)
  BY <1>1, <1>4
<1> HIDE DEF n
<1>8. /\ lo \in 0..Word - 1 /\ hi \in 0..Word - 1
      /\ (hi * Word) + lo = (((call.j13 * Word) + call.j12) + 1) % Words
  BY <1>4, CountsOn DEF Words
<1> HIDE DEF lo, hi
<1>9. /\ (call.j13 * Word) + call.j12 \in 0..Words - 1
      /\ ((call.j13 * Word) + call.j12) % Word = call.j12
      /\ ((call.j13 * Word) + call.j12) \div Word = call.j13
  BY <1>4, Digits DEF Words
<1>10. (call.j13 * Word) + call.j12 = (asked.counter + k) % Words
  BY <1>3 DEF Done
<1>11. ctx'.key = ctx.key /\ ctx' \in Context /\ ctx.key \in Keys \cup {NoKey}
  BY <1>2, <1>8 DEF StreamInv, StreamTyped, Context, Returned
\* Byte j of this block is byte d + j - 1 of the stream.
<1>12. ASSUME NEW j \in 1..Block
       PROVE  Stream(ctx.key, asked.counter, d + (j - 1)) = StreamByte(ctx.key, call.j12, call.j13, j)
  <2>1. j - 1 \in 0..Block - 1
    BY <1>1, <1>12
  <2>2. ((k * Block) + (j - 1)) \div Block = k /\ ((k * Block) + (j - 1)) % Block = j - 1
    BY <1>1, <2>1, DivUnique
  <2>3. (j - 1) + 1 = j
    BY <1>12
  <2>4. ((asked.counter + k) % (Word * Word)) % Word = call.j12
        /\ ((asked.counter + k) % (Word * Word)) \div Word = call.j13
    BY <1>9, <1>10 DEF Words
  <2>5. QED
    BY <2>2, <2>3, <2>4 DEF Stream, d
\* What this block reads is as it was when the call began.
<1>13. ASSUME NEW j \in 1..n
       PROVE  /\ call.m + j \in Index /\ call.m + j = r.from + (d + (j - 1)) + 1
              /\ mem[call.m + j] = asked.mem[call.m + j]
  <2>1. /\ j \in Nat /\ 1 <= j /\ j <= call.bytes
        /\ call.m + j \in Index /\ call.m + j = r.from + (d + (j - 1)) + 1
    BY <1>1, <1>4, <1>5, <1>6, <1>7, <1>13 DEF Index
  <2>2. ~((call.m + j) - r.to - 1 \in 0..d - 1)
    BY <1>1, <1>4, <1>5, <1>6, <2>1
  <2>3. Written(d)
    BY <1>3 DEF Done, d
  <2>4. QED
    BY <2>1, <2>2, <2>3 DEF Written
<1>14. ASSUME NEW j \in 1..n
       PROVE  x[j] = XOR(asked.mem[r.from + (d + (j - 1)) + 1],
                         Stream(ctx.key, asked.counter, d + (j - 1)))
  <2>1. j \in 1..Block /\ j <= n
    BY <1>1, <1>7, <1>14
  <2>2. x[j] = XOR(mem[call.m + j], StreamByte(ctx.key, call.j12, call.j13, j))
    BY <2>1 DEF x
  <2>3. QED
    BY <1>12, <1>13, <2>1, <2>2
<1>15. ASSUME NEW i \in Index
       PROVE  mem'[i] = IF i - r.to - 1 \in 0..(d + n) - 1
                        THEN XOR(asked.mem[r.from + (i - r.to - 1) + 1],
                                 Stream(ctx.key, asked.counter, i - r.to - 1))
                        ELSE asked.mem[i]
  <2>1. i \in Nat
    BY DEF Index
  <2>2. CASE i \in call.c + 1..call.c + n
    <3> DEFINE j == i - call.c
    <3>1. j \in 1..n /\ i - r.to - 1 = d + (j - 1) /\ i - r.to - 1 \in 0..(d + n) - 1
      BY <1>1, <1>4, <1>5, <1>6, <1>7, <2>1, <2>2
    <3>2. mem'[i] = x[j]
      BY <1>2, <2>2
    <3>3. QED
      BY <1>14, <3>1, <3>2
  <2>3. CASE ~(i \in call.c + 1..call.c + n)
    <3>1. mem'[i] = mem[i]
      BY <1>2, <2>3
    <3>2. i - r.to - 1 \in 0..(d + n) - 1 <=> i - r.to - 1 \in 0..d - 1
      BY <1>1, <1>4, <1>5, <1>6, <1>7, <2>1, <2>3
    <3>3. mem[i] = IF i - r.to - 1 \in 0..d - 1
                   THEN XOR(asked.mem[r.from + (i - r.to - 1) + 1],
                            Stream(ctx.key, asked.counter, i - r.to - 1))
                   ELSE asked.mem[i]
      BY <1>3 DEF Done, Written, d
    <3>4. QED
      BY <3>1, <3>2, <3>3
  <2>4. QED
    BY <2>2, <2>3
<1>16. x \in [1..Block -> SUBSET Atoms]
  <2> SUFFICES ASSUME NEW i \in 1..Block
               PROVE  XOR(IF i <= n THEN mem[call.m + i] ELSE tmp[i],
                          StreamByte(ctx.key, call.j12, call.j13, i)) \in SUBSET Atoms
    BY DEF x
  <2>1. (IF i <= n THEN mem[call.m + i] ELSE tmp[i]) \in SUBSET Atoms
    <3>1. CASE i <= n
      <4>1. call.m + i \in Index
        BY <1>1, <1>7, <1>13, <3>1
      <4>2. QED
        BY <3>1, <4>1 DEF StreamInv, StreamTyped, Memory
    <3>2. CASE ~(i <= n)
      BY <3>2 DEF StreamInv, StreamTyped
    <3>3. QED
      BY <3>1, <3>2
  <2>2. QED
    BY <1>4, <1>11, <2>1, AtomsOfStream, XorType
<1>17. StreamTyped'
  <2>1. mem' \in Memory
    <3> SUFFICES ASSUME NEW i \in Index
                 PROVE  (IF i \in call.c + 1..call.c + n THEN x[i - call.c] ELSE mem[i]) \in SUBSET Atoms
      BY <1>2 DEF Memory
    <3>1. CASE i \in call.c + 1..call.c + n
      <4>1. i - call.c \in 1..Block
        BY <1>1, <1>4, <1>7, <3>1 DEF Index
      <4>2. QED
        BY <1>16, <3>1, <4>1
    <3>2. CASE ~(i \in call.c + 1..call.c + n)
      BY <3>2 DEF StreamInv, StreamTyped, Memory
    <3>3. QED
      BY <3>1, <3>2
  <2>2. tmp' \in [1..Block -> SUBSET Atoms]
    BY <1>2, <1>16 DEF StreamInv, StreamTyped
  <2>3. call' \in [pc : {"idle", "block", "done"}, m : Offset, c : Offset, bytes : Offset,
                   j12 : 0..Word - 1, j13 : 0..Word - 1]
    <3>1. CASE call.bytes <= Block
      BY <1>2, <1>8, <3>1 DEF StreamInv, StreamTyped
    <3>2. CASE ~(call.bytes <= Block)
      <4>1. call.m + Block \in Offset /\ call.c + Block \in Offset /\ call.bytes - Block \in Offset
        BY <1>1, <1>4, <1>5, <1>6, <3>2 DEF Offset
      <4>2. QED
        BY <1>2, <1>8, <3>2, <4>1 DEF StreamInv, StreamTyped
    <3>3. QED
      BY <3>1, <3>2
  <2>4. QED
    BY <1>2, <1>11, <2>1, <2>2, <2>3
       DEF StreamInv, StreamTyped, Memory, Context, Atoms, Index, Offset
<1>18. (call.j13 * Word) + call.j12 + Blocks(call.bytes) \in Nat
       /\ (((call.j13 * Word) + call.j12) + Blocks(call.bytes)) % Words
          = (origin.counter + origin.blocks) % Words
       /\ Blocks(call.bytes) \in Nat
  <2>1. call.bytes \in Nat
    BY <1>1, <1>4
  <2>2. Blocks(call.bytes) \in Nat
    BY <2>1, BlocksOf
  <2>3. QED
    BY <1>1, <1>2, <1>9, <2>2 DEF StreamInv, Heading
<1>19. CASE call.bytes <= Block
  <2>1. ctx'.lo = lo /\ ctx'.hi = hi /\ call'.pc = "done"
    BY <1>2, <1>19 DEF StreamInv, StreamTyped, Context, Returned
  <2>2. Blocks(call.bytes) = 1
    BY <1>1, <1>4, <1>19, BlocksOf
  <2>3. PositionKept'
    <3>1. (hi * Word) + lo = (origin.counter + origin.blocks) % Words
      BY <1>8, <1>18, <2>2
    <3>2. QED
      BY <1>2, <2>1, <3>1 DEF PositionKept, Number, Words
  <2>4. StreamApplied'
    <3>1. d + n = r.n
      BY <1>1, <1>4, <1>5, <1>6, <1>7, <1>19
    <3>2. asked' = asked
      BY <1>2
    <3>3. QED
      BY <1>11, <1>15, <3>1, <3>2 DEF StreamApplied
  <2>5. QED
    BY <1>17, <2>1, <2>3, <2>4 DEF StreamInv, Working, Heading
<1>20. CASE call.bytes > Block
  <2>1. /\ call'.pc = "block" /\ call'.m = call.m + Block /\ call'.c = call.c + Block
        /\ call'.bytes = call.bytes - Block /\ call'.j12 = lo /\ call'.j13 = hi
        /\ asked' = asked /\ origin' = origin
    <3>1. ~(call.bytes <= Block)
      BY <1>1, <1>4, <1>20
    <3>2. QED
      BY <1>2, <3>1 DEF StreamInv, StreamTyped
  <2>2. (k + 1) * Block = d + Block
    BY <1>1 DEF d
  <2>3. (hi * Word) + lo = (asked.counter + (k + 1)) % Words
    <3>1. asked.counter + k \in Nat
      BY <1>1, <1>5
    <3>2. (((asked.counter + k) % Words) + 1) % Words = ((asked.counter + k) + 1) % Words
      BY <1>1, <3>1, ModAdd
    <3>3. (asked.counter + k) + 1 = asked.counter + (k + 1)
      BY <1>1, <1>5
    <3>4. QED
      BY <1>8, <1>10, <3>2, <3>3
  <2>4. Written((k + 1) * Block)'
    <3>1. n = Block
      BY <1>7, <1>20
    <3>2. asked' = asked
      BY <1>2
    <3>3. (k + 1) * Block = d + n
      BY <2>2, <3>1
    <3>4. QED
      BY <1>11, <1>15, <3>2, <3>3 DEF Written
  <2>5. Done(k + 1)'
    <3>1. asked.range.n = d + Block + (call.bytes - Block)
      BY <1>1, <1>4, <1>5, <1>6
    <3>2. call.m + Block = asked.range.from + (d + Block) /\ call.c + Block = asked.range.to + (d + Block)
      BY <1>1, <1>4, <1>5, <1>6
    <3>3. QED
      BY <2>1, <2>2, <2>3, <2>4, <3>1, <3>2 DEF Done
  <2>6. Working'
    <3>1. call'.bytes # 0 /\ k + 1 \in Nat
      BY <1>1, <1>4, <1>20, <2>1
    <3>2. QED
      BY <2>5, <3>1 DEF Working
  <2>7. Heading'
    <3> DEFINE c == (call.j13 * Word) + call.j12
               b == Blocks(call.bytes - Block)
    <3>1. call.bytes \in Nat /\ call.bytes - Block \in Nat
      BY <1>1, <1>4, <1>20
    <3>2. Blocks(call.bytes) = b + 1 /\ b \in Nat
      BY <1>20, <3>1, BlocksOf
    <3>3. c \in Nat
      BY <1>1, <1>9
    <3> HIDE DEF c, b
    <3>4. (((c + 1) % Words) + b) % Words = ((c + 1) + b) % Words
      <4>1. c + 1 \in Nat
        BY <3>3
      <4>2. QED
        BY <1>1, <3>2, <4>1, ModAdd
    <3>5. (c + 1) + b = c + (b + 1)
      BY <3>2, <3>3
    <3>6. ((hi * Word) + lo + b) % Words = (origin.counter + origin.blocks) % Words
      BY <1>8, <1>18, <3>2, <3>4, <3>5 DEF c
    <3>7. QED
      BY <2>1, <3>6 DEF Heading, b
  <2>8. QED
    BY <1>17, <2>1, <2>6, <2>7 DEF StreamInv, StreamApplied, PositionKept, Ready
<1>21. QED
  BY <1>1, <1>4, <1>19, <1>20

LEMMA SetUpStreamInv ==
  ASSUME StreamInv, NEW key \in Keys, SetUp(key)
  PROVE  StreamInv'
<1>1. /\ Word \in Nat \ {0} /\ Words \in Nat \ {0}
  BY WordType DEF Words
<1>2. /\ ctx' = [key |-> key, lo |-> 0, hi |-> 0] /\ origin' = [counter |-> 0, blocks |-> 0]
      /\ call' = [call EXCEPT !.pc = "idle"] /\ UNCHANGED << mem, tmp, asked >>
  BY DEF SetUp, KeySetUp
<1>3. call'.pc = "idle"
  BY <1>2 DEF StreamInv, StreamTyped
<1>4. StreamTyped'
  <2>1. ctx' \in Context
    BY <1>1, <1>2 DEF Context
  <2>2. call' \in [pc : {"idle", "block", "done"}, m : Offset, c : Offset, bytes : Offset,
                   j12 : 0..Word - 1, j13 : 0..Word - 1]
    BY <1>2 DEF StreamInv, StreamTyped
  <2>3. origin' \in [counter : Nat, blocks : Nat]
    BY <1>2
  <2>4. mem' = mem /\ tmp' = tmp /\ asked' = asked
    BY <1>2
  <2>5. QED
    BY <2>1, <2>2, <2>3, <2>4 DEF StreamInv, StreamTyped, Memory, Atoms, Index, Context, Offset, LawfulRange
<1>5. PositionKept'
  <2>1. 0 % Words = 0 /\ (0 * Word) + 0 = 0
    BY <1>1, ModSmall
  <2>2. QED
    BY <1>2, <2>1 DEF PositionKept, Number, Words
<1>6. QED
  BY <1>3, <1>4, <1>5 DEF StreamInv, Working, Heading, StreamApplied

\* The counter that is set is the one the context then holds (xchacha20.cpp 98-105).
LEMMA CounterSetTo ==
  ASSUME NEW c \in Context, NEW at \in 0..Words - 1
  PROVE  CounterSet(c, at) \in Context /\ Number(CounterSet(c, at)) = at
<1>1. /\ at % Word \in 0..Word - 1 /\ at \div Word \in 0..Word - 1
      /\ ((at \div Word) * Word) + (at % Word) = at
  BY DigitsOf DEF Words
<1>2. /\ CounterSet(c, at) \in Context
      /\ CounterSet(c, at).lo = at % Word /\ CounterSet(c, at).hi = at \div Word
  BY <1>1 DEF CounterSet, Context
<1>3. QED
  BY <1>1, <1>2 DEF Number

LEMMA SetCounterStreamInv ==
  ASSUME StreamInv, NEW at \in Counters, SetCounter(at)
  PROVE  StreamInv'
<1>1. /\ Word \in Nat \ {0} /\ Words \in Nat \ {0}
  BY WordType DEF Words
<1>2. /\ ctx' = CounterSet(ctx, at) /\ origin' = [counter |-> at, blocks |-> 0]
      /\ call' = [call EXCEPT !.pc = "idle"] /\ UNCHANGED << mem, tmp, asked >>
  BY DEF SetCounter
<1>3. call'.pc = "idle"
  BY <1>2 DEF StreamInv, StreamTyped
<1>4. at \in 0..Words - 1
  BY CounterAssumption DEF Words
<1>5. ctx' \in Context /\ Number(CounterSet(ctx, at)) = at
  BY <1>2, <1>4, CounterSetTo DEF StreamInv, StreamTyped
<1>6. StreamTyped'
  <2>1. ctx' \in Context
    BY <1>5
  <2>2. call' \in [pc : {"idle", "block", "done"}, m : Offset, c : Offset, bytes : Offset,
                   j12 : 0..Word - 1, j13 : 0..Word - 1]
    BY <1>2 DEF StreamInv, StreamTyped
  <2>3. origin' \in [counter : Nat, blocks : Nat]
    BY <1>1, <1>2, <1>4
  <2>4. mem' = mem /\ tmp' = tmp /\ asked' = asked
    BY <1>2
  <2>5. QED
    BY <2>1, <2>2, <2>3, <2>4 DEF StreamInv, StreamTyped, Memory, Atoms, Index, Context, Offset, LawfulRange
<1>7. PositionKept'
  <2>1. at % Words = at /\ at + 0 = at
    BY <1>1, <1>4, ModSmall
  <2>2. Number(ctx)' = at
    BY <1>2, <1>5 DEF Number
  <2>3. QED
    BY <1>2, <2>1, <2>2 DEF PositionKept, Words
<1>8. QED
  BY <1>3, <1>6, <1>7 DEF StreamInv, Working, Heading, StreamApplied

LEMMA CallStreamInv ==
  ASSUME StreamInv, NEW range \in Ranges, EncryptBytes(range) \/ KeystreamBytes(range)
  PROVE  StreamInv'
<1>1. /\ MemSize \in Nat /\ range \in LawfulRange /\ [range EXCEPT !.from = range.to] \in LawfulRange
  BY WordType, RangesAssumption DEF LawfulRange
<1>2. Ready /\ tmp' = tmp
  BY DEF EncryptBytes, KeystreamBytes
<1>3. Number(ctx) = (origin.counter + origin.blocks) % Words
  BY <1>2 DEF StreamInv, PositionKept, Words
<1>4. ctx \in Context /\ origin \in [counter : Nat, blocks : Nat] /\ mem \in Memory /\ StreamTyped
  BY DEF StreamInv, StreamTyped
<1>5. CASE EncryptBytes(range)
  <2>1. Enter(ctx, mem, range, origin)
    BY <1>5 DEF EncryptBytes
  <2>2. QED
    BY <1>1, <1>2, <1>3, <1>4, <2>1, EnterStreamInv
<1>6. CASE KeystreamBytes(range)
  <2> DEFINE zeroed == [i \in Index |-> IF i \in range.to + 1..range.to + range.n THEN {} ELSE mem[i]]
  <2>1. Enter(ctx, zeroed, [range EXCEPT !.from = range.to], origin)
    BY <1>6 DEF KeystreamBytes
  <2>2. zeroed \in Memory
    BY <1>4 DEF Memory
  <2> HIDE DEF zeroed
  <2>3. QED
    BY <1>1, <1>2, <1>3, <1>4, <2>1, <2>2, EnterStreamInv
<1>7. QED
  BY <1>5, <1>6

LEMMA CallerStreamInv ==
  ASSUME StreamInv, Caller
  PROVE  StreamInv'
<1>1. ASSUME NEW key \in Keys, SetUp(key) PROVE StreamInv'
  BY <1>1, SetUpStreamInv
<1>2. ASSUME NEW at \in Counters, SetCounter(at) PROVE StreamInv'
  BY <1>2, SetCounterStreamInv
<1>3. ASSUME NEW range \in Ranges, EncryptBytes(range) \/ KeystreamBytes(range) PROVE StreamInv'
  BY <1>3, CallStreamInv
<1>4. QED
  BY <1>1, <1>2, <1>3 DEF Caller

LEMMA StillStreamInv ==
  ASSUME StreamInv, UNCHANGED streamVars
  PROVE  StreamInv'
  BY ZenonT(90) DEF streamVars, StreamInv, StreamTyped, Working, Heading, Done, Written, StreamApplied,
         PositionKept, Ready, Number, LawfulRange, Memory, Context, Index, Atoms, Offset, Words, Stream,
         StreamByte, XOR, Blocks

-----------------------------------------------------------------------------
(* The objects and the calls.                                              *)

JobTyped ==
  /\ local \in SUBSET Objects /\ far \in SUBSET Objects
  /\ aes \in [{"local", "far"} -> BOOLEAN]
  /\ job \in [pc : {"none", "unknown", "built", "refused", "idle", "call", "stream", "zipped"},
              by : {"local", "far"}, op : {"zip", "unzip"}, plain : Bytes, data : Bytes,
              size : Nat, sealer : SUBSET Objects, room : Nat, code : {0, -3, -4, -5}, frames : Nat]

\* There is one object, with the vector the generator makes for its cipher.
OneObject ==
  /\ \A o \in local : Len(o.iv) = Generated(o.name)
  /\ \A o, q \in local : o = q
  /\ job.pc = "none" => local = {}
  /\ job.pc \in {"none", "built"} => far = {} /\ job.op = "zip" /\ job.sealer = {}
  /\ job.pc = "built" => local # {}
  /\ job.sealer \subseteq local /\ (\A o \in job.sealer : o.name \in Aead)

\* What object o makes of the plaintext.
Encrypted(o) ==
  IF o.name = "CHACHA-20"
  THEN [i \in 1..Len(job.plain) |-> XOR(job.plain[i], Stream(SubKey(Secret, o.iv), 0, i - 1))]
  ELSE job.plain

\* The frame on its way: the plaintext before it is encrypted, its ciphertext after.
Raw    == job.data = job.plain /\ job.size = Len(job.plain)
Sealed == \A o \in local :
            /\ job.size = Len(job.plain) + Tag(o)
            /\ o.name # "RAW" => Len(job.plain) > 0
            /\ o.name \in Aead => job.sealer = {o}
            /\ job.data = Encrypted(o)

Frame ==
  /\ job.pc \in {"call", "stream", "zipped"} => 2 * Len(job.plain) <= MemSize
  /\ job.pc \in {"call", "stream"} => IF job.op = "zip" THEN Raw ELSE Sealed
  /\ job.pc = "zipped" => job.op = "zip" /\ Sealed

\* The call of the library works for this frame.
Streaming ==
  job.pc = "stream" =>
    /\ \A o \in local : o.name = "CHACHA-20" /\ ctx.key = SubKey(Secret, o.iv)
    /\ Len(job.plain) > 0
    /\ asked.range = [from |-> 0, to |-> job.size, n |-> job.size]
    /\ asked.counter = 0
    /\ \A i \in 1..job.size : asked.mem[i] = job.data[i]
    /\ call.pc # "idle"

JobInv == JobTyped /\ OneObject /\ ObjectRebuilt /\ Frame /\ Streaming /\ RoundTrip /\ OutputFits

IInv == StreamInv /\ JobInv

-----------------------------------------------------------------------------
\* Both parts of a concatenation.
LEMMA BothParts ==
  ASSUME NEW S, NEW h \in Seq(S), NEW t \in Seq(S), Len(t) # 0
  PROVE  /\ Len(h \o t) = Len(h) + Len(t)
         /\ \A i \in 1..Len(h) : (h \o t)[i] = h[i]
         /\ SubSeq(h \o t, Len(h) + 1, Len(h) + Len(t)) = t
<1>1. /\ Len(h) \in Nat /\ Len(t) \in Nat /\ Len(h \o t) = Len(h) + Len(t)
      /\ h \o t \in Seq(S)
  BY ConcatProperties, LenProperties
<1>2. ASSUME NEW i \in 1..Len(h)
      PROVE  (h \o t)[i] = h[i]
  BY SMT
<1>3. /\ Len(h) + 1 \in Len(h) + 1..Len(h) + Len(t)
      /\ Len(h) + Len(t) \in Len(h) + 1..Len(h) + Len(t)
      /\ Len(h) + 1 - Len(h) = 1 /\ Len(h) + Len(t) - Len(h) = Len(t)
  BY <1>1
<1>4. SubSeq(h \o t, Len(h) + 1, Len(h) + Len(t))
      = SubSeq(t, Len(h) + 1 - Len(h), Len(h) + Len(t) - Len(h))
  BY <1>3, SubSeqOfConcat2
<1>5. SubSeq(t, 1, Len(t)) = t
  BY SubSeqFull
<1>6. QED
  BY <1>1, <1>2, <1>3, <1>4, <1>5

\* What follows the first three bytes of a sequence.
LEMMA AfterThree ==
  ASSUME NEW S, NEW h \in Seq(S), NEW t \in Seq(S), Len(h) = 3, Len(t) # 0
  PROVE  /\ Len(h \o t) = 3 + Len(t)
         /\ (h \o t)[1] = h[1] /\ (h \o t)[2] = h[2] /\ (h \o t)[3] = h[3]
         /\ SubSeq(h \o t, 4, Len(h \o t)) = t
<1> DEFINE b == h \o t
<1>1. /\ Len(b) = Len(h) + Len(t) /\ (\A i \in 1..Len(h) : b[i] = h[i])
      /\ SubSeq(b, Len(h) + 1, Len(h) + Len(t)) = t
  BY BothParts, ZenonT(90)
<1> HIDE DEF b
<1>2. Len(h) + 1 = 4 /\ 1 \in 1..Len(h) /\ 2 \in 1..Len(h) /\ 3 \in 1..Len(h)
  OBVIOUS
<1>3. QED
  BY <1>1, <1>2 DEF b

\* privacy.cpp 14-109: an object comes out of its own bytes.
LEMMA RebuiltObject ==
  ASSUME NEW o \in Objects, Len(o.iv) = Generated(o.name)
  PROVE  BuildFromBytes(MethodBytes(o)) = {o}
<1> DEFINE S == 0..255
           mask == Mask(o.name)
           size == Len(o.iv) % 256
           b == MethodBytes(o)
<1>1. /\ o.name \in Methods /\ o.iv \in Seq(S) /\ Len(o.iv) \in {12, 24}
      /\ o = [name |-> o.name, iv |-> o.iv]
  BY VectorsAssumption DEF Objects, Generated
<1>2. size = Len(o.iv) /\ size \in S /\ 18 \in S
  BY <1>1
<1>3. mask \in 52..55 /\ ByMask(mask) = {o.name}
  BY <1>1 DEF Methods, Mask, ByMask
<1>4. mask \in S
  BY <1>3
<1>5. b = << 18, mask, size >> \o o.iv
  BY DEF MethodBytes
<1> HIDE DEF S, mask, size, b
<1>6. << 18, mask, size >> \in Seq(S) /\ Len(<< 18, mask, size >>) = 3
  BY <1>2, <1>4
<1>7. /\ Len(b) = 3 + Len(o.iv) /\ b[1] = 18 /\ b[2] = mask /\ b[3] = size
      /\ SubSeq(b, 4, Len(b)) = o.iv
  <2>1. Len(o.iv) # 0
    BY <1>1
  <2>2. QED
    BY <1>1, <1>5, <1>6, <2>1, AfterThree
<1>8. {m \in Methods : /\ Len(b) >= 15 /\ b[1] = 18 /\ m \in ByMask(b[2]) /\ 3 + b[3] = Len(b)}
      = {o.name}
  BY <1>1, <1>2, <1>3, <1>7
<1>9. BuildFromBytes(b) = {[name |-> m, iv |-> SubSeq(b, 4, Len(b))] : m \in {o.name}}
  BY <1>8 DEF BuildFromBytes
<1>10. QED
  BY <1>1, <1>7, <1>9 DEF b

\* What a call looks at before it starts.
LEMMA Prechecks ==
  ASSUME NEW o \in Objects, Len(o.iv) = Generated(o.name), NEW n \in Nat, NEW can \in BOOLEAN
  PROVE  /\ Precheck(o, n, can) \in {0, -3, -5}
         /\ Precheck(o, n, can) = 0 /\ o.name # "RAW" => n > 0
         /\ Precheck(o, n, can) = -3 => o.name # "RAW" /\ n = 0
         /\ Precheck(o, n, can) = -5 => ~can
<1>1. VectorFits(o)
  BY DEF VectorFits, Generated, Methods, Objects
<1>2. QED
  BY <1>1 DEF Precheck

LEMMA InitJobInv ==
  ASSUME Init, StreamInv
  PROVE  JobInv
<1>1. << >> \in Bytes /\ Len(<< >>) = 0
  BY DEF Bytes
<1>2. JobTyped
  BY <1>1 DEF Init, JobTyped
<1>3. QED
  BY <1>1, <1>2 DEF Init, JobInv, OneObject, ObjectRebuilt, Frame, Streaming, RoundTrip, OutputFits

\* Steps of the library's own callers leave the ciphers alone.
LEMMA StillJobInv ==
  ASSUME JobInv, JobTyped', UNCHANGED << local, far, aes, job >>,
         job.pc = "stream" => ctx'.key = ctx.key /\ asked' = asked /\ call'.pc # "idle"
  PROVE  JobInv'
<1>1. OneObject' /\ ObjectRebuilt' /\ RoundTrip' /\ OutputFits'
  BY DEF JobInv, OneObject, ObjectRebuilt, RoundTrip, OutputFits, Generated
<1>2. Frame'
  BY DEF JobInv, Frame, Raw, Sealed, Encrypted, Stream, StreamByte, XOR, SubKey
<1>3. Streaming'
  BY DEF JobInv, Streaming, SubKey
<1>4. QED
  BY <1>1, <1>2, <1>3 DEF JobInv

LEMMA SameTypes ==
  ASSUME UNCHANGED << local, far, aes, job >>, JobTyped
  PROVE  JobTyped'
  BY DEF JobTyped, Bytes, Atoms, Objects

\* While a call runs, both ends have the one object it runs with.
LEMMA TheObject ==
  ASSUME JobInv, job.pc \in {"call", "stream", "zipped"}, NEW o \in local \cup far
  PROVE  /\ local = {o} /\ far = {o} /\ (\A end : Object(end) = {o})
         /\ o \in Objects /\ Len(o.iv) = Generated(o.name)
         /\ o.name \in Methods
<1>1. far = local
  BY DEF JobInv, ObjectRebuilt
<1>2. local = {o}
  BY <1>1 DEF JobInv, OneObject
<1>3. o \in Objects /\ Len(o.iv) = Generated(o.name)
  BY <1>2 DEF JobInv, JobTyped, OneObject
<1>4. QED
  BY <1>1, <1>2, <1>3 DEF Object, Objects

LEMMA BuildJobInv ==
  ASSUME JobInv, Build
  PROVE  JobInv'
<1>1. PICK name \in Names : \E iv \in {v \in Vectors : Len(v) = Generated(name)} :
                /\ local' = BuildByName(name, iv)
                /\ job' = [job EXCEPT !.pc = IF BuildByName(name, iv) = {} THEN "unknown" ELSE "built"]
  BY DEF Build
<1>2. PICK iv \in Vectors :
                /\ Len(iv) = Generated(name)
                /\ local' = BuildByName(name, iv)
                /\ job' = [job EXCEPT !.pc = IF BuildByName(name, iv) = {} THEN "unknown" ELSE "built"]
  BY <1>1
<1>3. job.pc = "none" /\ far' = far /\ aes' = aes /\ UNCHANGED streamVars
  BY DEF Build
<1>4. local' \in SUBSET Objects /\ (\A o \in local' : Len(o.iv) = Generated(o.name) /\ o = [name |-> name, iv |-> iv])
  BY <1>2 DEF BuildByName, Objects
<1>5. /\ job'.pc \in {"unknown", "built"} /\ job' = [job EXCEPT !.pc = job'.pc]
      /\ job'.pc = "built" => local' # {}
      /\ job'.op = job.op /\ job'.sealer = job.sealer
  BY <1>2 DEF JobInv, JobTyped
<1>6. UNCHANGED Atoms /\ UNCHANGED Objects
  BY DEF Atoms, Objects
<1>7. JobTyped'
  BY <1>3, <1>4, <1>5, <1>6 DEF JobInv, JobTyped, Bytes
<1>8. OneObject'
  BY <1>3, <1>4, <1>5 DEF JobInv, OneObject, Generated
<1>9. QED
  BY <1>5, <1>7, <1>8 DEF JobInv, ObjectRebuilt, Frame, Streaming, RoundTrip, OutputFits

LEMMA RebuildJobInv ==
  ASSUME JobInv, Rebuild
  PROVE  JobInv'
<1>1. /\ job.pc = "built" /\ far' = UNION {BuildFromBytes(MethodBytes(o)) : o \in local}
      /\ job' = [job EXCEPT !.pc = IF far' = {} THEN "refused" ELSE "idle"]
      /\ local' = local /\ aes' = aes
  BY DEF Rebuild
<1>2. local # {} /\ job.op = "zip"
  BY <1>1 DEF JobInv, OneObject
<1>3. PICK o : local = {o} /\ o \in Objects /\ Len(o.iv) = Generated(o.name)
  BY <1>2 DEF JobInv, JobTyped, OneObject
<1>4. far' = local
  BY <1>1, <1>3, RebuiltObject
<1>5. job' = [job EXCEPT !.pc = "idle"] /\ job'.pc = "idle" /\ job'.op = "zip" /\ job'.sealer = job.sealer
  BY <1>1, <1>2, <1>4 DEF JobInv, JobTyped
<1>6. JobTyped'
  BY <1>1, <1>4, <1>5 DEF JobInv, JobTyped, Bytes, Atoms, Objects
<1>7. OneObject'
  BY <1>1, <1>5 DEF JobInv, OneObject, Generated
<1>8. QED
  BY <1>1, <1>2, <1>4, <1>5, <1>6, <1>7
     DEF JobInv, ObjectRebuilt, Frame, Streaming, RoundTrip, OutputFits

LEMMA CompressJobInv ==
  ASSUME JobInv, NEW end \in {"local", "far"}, NEW n \in Sizes, Compress(end, n)
  PROVE  JobInv'
<1>1. /\ job.pc = "idle" /\ UNCHANGED << local, far, aes >>
      /\ job' = [job EXCEPT !.pc = "call", !.by = end, !.op = "zip", !.plain = Plaintext(n),
                            !.data = Plaintext(n), !.size = n, !.frames = @ + 1]
  BY DEF Compress
<1>2. n \in Nat /\ 2 * n <= MemSize /\ MemSize \in Nat
  BY SizesAssumption, WordType
<1>3. Plaintext(n) \in Bytes /\ Len(Plaintext(n)) = n
  <2>1. \A i \in 1..n : {<< i >>} \in SUBSET Atoms
    BY <1>2 DEF Atoms
  <2>2. Plaintext(n) \in [1..n -> SUBSET Atoms]
    BY <2>1 DEF Plaintext
  <2>3. QED
    BY <1>2, <2>2, IsASeq, LenProperties DEF Bytes, Plaintext
<1>4. /\ job'.pc = "call" /\ job'.op = "zip" /\ job'.plain = Plaintext(n) /\ job'.data = Plaintext(n)
      /\ job'.size = n /\ job'.sealer = job.sealer
  BY <1>1 DEF JobInv, JobTyped
<1>5. JobTyped'
  <2> DEFINE text == Plaintext(n)
  <2>1. text \in Bytes /\ UNCHANGED Bytes /\ UNCHANGED Objects
    BY <1>3 DEF Bytes, Atoms, Objects
  <2>2. job' = [job EXCEPT !.pc = "call", !.by = end, !.op = "zip", !.plain = text,
                           !.data = text, !.size = n, !.frames = @ + 1]
    BY <1>1
  <2> HIDE DEF text
  <2>3. job' \in [pc : {"none", "unknown", "built", "refused", "idle", "call", "stream", "zipped"},
                  by : {"local", "far"}, op : {"zip", "unzip"}, plain : Bytes, data : Bytes,
                  size : Nat, sealer : SUBSET Objects, room : Nat, code : {0, -3, -4, -5},
                  frames : Nat]
    <3>1. job' = [pc |-> "call", by |-> end, op |-> "zip", plain |-> text, data |-> text,
                  size |-> n, sealer |-> job.sealer, room |-> job.room, code |-> job.code,
                  frames |-> job.frames + 1]
      BY <2>2 DEF JobInv, JobTyped
    <3>2. job.frames + 1 \in Nat /\ job.sealer \in SUBSET Objects /\ job.room \in Nat
          /\ job.code \in {0, -3, -4, -5}
      BY DEF JobInv, JobTyped
    <3>3. QED
      BY <1>2, <2>1, <3>1, <3>2
  <2>4. UNCHANGED << local, far, aes >>
    BY <1>1
  <2>5. QED
    BY <2>1, <2>3, <2>4 DEF JobInv, JobTyped
<1>6. OneObject' /\ ObjectRebuilt'
  BY <1>1, <1>4 DEF JobInv, OneObject, ObjectRebuilt, Generated
<1>7. Frame'
  BY <1>2, <1>3, <1>4 DEF Frame, Raw
<1>8. QED
  BY <1>4, <1>5, <1>6, <1>7 DEF JobInv, Streaming, RoundTrip, OutputFits

LEMMA UnCompressJobInv ==
  ASSUME JobInv, UnCompress
  PROVE  JobInv'
<1>1. /\ job.pc = "zipped" /\ UNCHANGED << local, far, aes >>
      /\ job' = [job EXCEPT !.pc = "call", !.by = IF @ = "local" THEN "far" ELSE "local",
                            !.op = "unzip"]
  BY DEF UnCompress
<1>2. /\ job'.pc = "call" /\ job'.op = "unzip" /\ job'.plain = job.plain /\ job'.data = job.data
      /\ job'.size = job.size /\ job'.sealer = job.sealer
  BY <1>1 DEF JobInv, JobTyped
<1>3. JobTyped'
  BY <1>1 DEF JobInv, JobTyped, Bytes, Atoms, Objects
<1>4. OneObject' /\ ObjectRebuilt'
  BY <1>1, <1>2 DEF JobInv, OneObject, ObjectRebuilt, Generated
<1>5. Frame'
  <2>1. \A o \in local : (Encrypted(o))' = Encrypted(o)
    BY <1>2 DEF Encrypted, Stream, StreamByte, XOR, SubKey
  <2>2. Sealed /\ 2 * Len(job.plain) <= MemSize
    BY <1>1 DEF JobInv, Frame
  <2>3. Sealed'
    BY <1>1, <1>2, <2>1, <2>2 DEF Sealed, Tag
  <2>4. QED
    BY <1>2, <2>2, <2>3 DEF Frame
<1>6. QED
  BY <1>2, <1>3, <1>4, <1>5 DEF JobInv, Streaming, RoundTrip, OutputFits

LEMMA RefuseJobInv ==
  ASSUME JobInv, Refuse
  PROVE  JobInv'
<1>1. PICK o \in Object(job.by) :
           /\ Precheck(o, job.size, aes[job.by]) # 0
           /\ job' = [job EXCEPT !.pc = "idle", !.code = Precheck(o, job.size, aes[job.by])]
  BY ZenonT(90) DEF Refuse
<1>2. job.pc = "call" /\ UNCHANGED << local, far, aes >>
  BY DEF Refuse
<1>3. /\ local = {o} /\ o \in Objects /\ Len(o.iv) = Generated(o.name)
  BY <1>1, <1>2, TheObject DEF Object
<1> DEFINE code == Precheck(o, job.size, aes[job.by])
<1>4. job.size \in Nat /\ aes[job.by] \in BOOLEAN
  BY DEF JobInv, JobTyped
<1>5. code \in {-3, -5} /\ (code = -3 => o.name # "RAW" /\ job.size = 0) /\ (code = -5 => ~aes[job.by])
  BY <1>1, <1>3, <1>4, Prechecks
<1>6. job' = [job EXCEPT !.pc = "idle", !.code = code]
  BY <1>1
<1> HIDE DEF code
<1>7. /\ job'.pc = "idle" /\ job'.code = code /\ job'.op = job.op /\ job'.by = job.by
      /\ job'.sealer = job.sealer
  BY <1>6 DEF JobInv, JobTyped
<1>8. JobTyped'
  BY <1>2, <1>5, <1>6 DEF JobInv, JobTyped, Bytes, Atoms, Objects
<1>9. OneObject' /\ ObjectRebuilt'
  BY <1>2, <1>7 DEF JobInv, OneObject, ObjectRebuilt, Generated
<1>10. ASSUME job.op = "unzip" PROVE code = -5
  <2>1. Sealed
    BY <1>2, <1>10 DEF JobInv, Frame
  <2>2. o.name # "RAW" => job.size # 0
    <3>1. Len(job.plain) \in Nat
      BY LenProperties DEF JobInv, JobTyped, Bytes
    <3>2. job.size = Len(job.plain) + Tag(o) /\ (o.name # "RAW" => Len(job.plain) > 0)
      BY <1>3, <2>1 DEF Sealed
    <3>3. Tag(o) \in Nat
      BY DEF Tag
    <3>4. QED
      BY <3>1, <3>2, <3>3
  <2>3. QED
    BY <1>5, <2>2
<1>11. RoundTrip'
  BY <1>2, <1>5, <1>7, <1>10 DEF RoundTrip
<1>12. QED
  BY <1>7, <1>8, <1>9, <1>11 DEF JobInv, Frame, Streaming, OutputFits

\* A call runs with the one object, on the frame that Frame describes.
LEMMA RunningCall ==
  ASSUME JobInv, NEW o \in local \cup far, Runs(o)
  PROVE  /\ job.pc = "call" /\ local = {o} /\ far = {o} /\ o \in Objects
         /\ Len(o.iv) = Generated(o.name)
         /\ o.name # "RAW" => job.size > 0
         /\ 2 * Len(job.plain) <= MemSize /\ Len(job.plain) \in Nat
         /\ job.op = "zip" => Raw
         /\ job.op = "unzip" => /\ job.size = Len(job.plain) + Tag(o)
                                /\ o.name # "RAW" => Len(job.plain) > 0
                                /\ o.name \in Aead => job.sealer = {o}
                                /\ job.data = Encrypted(o)
<1>1. job.pc = "call" /\ Precheck(o, job.size, aes[job.by]) = 0
  BY DEF Runs
<1>2. /\ local = {o} /\ far = {o} /\ o \in Objects /\ Len(o.iv) = Generated(o.name)
  BY <1>1, TheObject
<1>3. job.size \in Nat /\ aes[job.by] \in BOOLEAN /\ Len(job.plain) \in Nat
  BY LenProperties DEF JobInv, JobTyped, Bytes
<1>4. o.name # "RAW" => job.size > 0
  BY <1>1, <1>2, <1>3, Prechecks
<1>5. /\ 2 * Len(job.plain) <= MemSize
      /\ job.op = "zip" => Raw
      /\ job.op # "zip" => Sealed
  BY <1>1 DEF JobInv, Frame
<1>6. job.op = "unzip" => Sealed
  BY <1>5
<1>7. QED
  BY <1>1, <1>2, <1>3, <1>4, <1>5, <1>6 DEF Sealed

LEMMA RunRawJobInv ==
  ASSUME JobInv, NEW o \in local \cup far, RunRaw(o)
  PROVE  JobInv'
<1>1. /\ o.name = "RAW" /\ Runs(o) /\ UNCHANGED << local, far, aes >>
      /\ job' = [job EXCEPT !.pc = AfterSuccess, !.code = 0]
  BY DEF RunRaw
<1>2. /\ job.pc = "call" /\ local = {o} /\ far = {o}
      /\ 2 * Len(job.plain) <= MemSize /\ Len(job.plain) \in Nat
      /\ job.op = "zip" => Raw
      /\ job.op = "unzip" => job.size = Len(job.plain) + Tag(o) /\ job.data = Encrypted(o)
  BY <1>1, RunningCall
<1>3. Tag(o) = 0 /\ Encrypted(o) = job.plain /\ o.name \notin Aead
  BY <1>1 DEF Tag, Aead, Encrypted
<1>4. /\ job'.pc = AfterSuccess /\ job'.op = job.op /\ job'.code = 0 /\ job'.sealer = job.sealer
      /\ job'.plain = job.plain /\ job'.data = job.data /\ job'.size = job.size
      /\ job.op \in {"zip", "unzip"}
  BY <1>1 DEF JobInv, JobTyped
<1>5. AfterSuccess \in {"zipped", "idle"} /\ (AfterSuccess = "zipped" <=> job.op = "zip")
  BY DEF AfterSuccess
<1>6. JobTyped'
  BY <1>1, <1>5 DEF JobInv, JobTyped, Bytes, Atoms, Objects
<1>7. OneObject' /\ ObjectRebuilt'
  BY <1>1, <1>2, <1>4, <1>5 DEF JobInv, OneObject, ObjectRebuilt, Generated
<1>8. Raw
  BY <1>2, <1>3, <1>4 DEF Raw
<1>9. Frame'
  <2>1. (Encrypted(o))' = job.plain
    BY <1>1, <1>4 DEF Encrypted
  <2>2. Sealed'
    <3>1. (Tag(o))' = 0 /\ local' = {o} /\ o.name = "RAW" /\ o.name \notin Aead'
      BY <1>1, <1>2, <1>3 DEF Tag, Aead
    <3>2. job'.size = Len(job'.plain) + 0 /\ job'.data = job'.plain
      BY <1>2, <1>4, <1>8 DEF Raw
    <3>3. QED
      BY <1>4, <2>1, <3>1, <3>2 DEF Sealed
  <2>3. QED
    BY <1>2, <1>4, <1>5, <2>2 DEF Frame
<1>10. RoundTrip'
  BY <1>4, <1>8 DEF RoundTrip, Raw
<1>11. OutputFits'
  <2>1. job.sealer = {}
    BY <1>1, <1>2 DEF JobInv, OneObject, Aead
  <2>2. QED
    BY <1>4, <2>1 DEF OutputFits
<1>12. QED
  BY <1>4, <1>5, <1>6, <1>7, <1>9, <1>10, <1>11 DEF JobInv, Streaming

\* gcm.cpp 14-17, xcha20_poly1305.cpp 5-8: both functions make room enough.
LEMMA RoomEnough ==
  ASSUME NEW n \in Nat, NEW room \in AlloSize(n)
  PROVE  room \in Nat /\ n + 16 <= room
<1>1. PICK pad \in {16, 64} : room = (n \div 32 + 2) * 32 + pad
  BY DEF AlloSize
<1>2. n < (n \div 32 + 1) * 32 /\ n \div 32 \in Nat
  OBVIOUS
<1>3. QED
  BY <1>1, <1>2

LEMMA RunAeadJobInv ==
  ASSUME JobInv, NEW o \in local \cup far, RunAead(o)
  PROVE  JobInv'
<1>1. /\ o.name \in Aead /\ Runs(o) /\ UNCHANGED << local, far, aes >>
  BY DEF RunAead
<1>2. PICK room \in AlloSize(job.size) :
       job' = IF job.op = "zip"
              THEN [job EXCEPT !.pc = "zipped", !.code = 0, !.room = room, !.sealer = {o},
                               !.size = @ + Tag(o)]
              ELSE [job EXCEPT !.pc = "idle", !.code = IF o \in job.sealer THEN 0 ELSE -4,
                               !.room = room, !.size = @ - Tag(o)]
  BY ZenonT(90) DEF RunAead
<1>3. /\ job.pc = "call" /\ local = {o} /\ far = {o} /\ o \in Objects
      /\ job.size > 0
      /\ 2 * Len(job.plain) <= MemSize /\ Len(job.plain) \in Nat
      /\ job.op = "zip" => Raw
      /\ job.op = "unzip" => /\ job.size = Len(job.plain) + 16
                             /\ job.sealer = {o}
                             /\ job.data = Encrypted(o)
  <2>1. Tag(o) = 16 /\ o.name # "RAW"
    BY <1>1 DEF Tag, Aead
  <2>2. QED
    BY <1>1, <2>1, RunningCall
<1>4. Tag(o) = 16 /\ Encrypted(o) = job.plain /\ job.size \in Nat /\ job.op \in {"zip", "unzip"}
      /\ o.name # "CHACHA-20" /\ o.name # "RAW"
  BY <1>1 DEF Tag, Aead, Encrypted, JobInv, JobTyped
<1>5. room \in Nat /\ job.size + 16 <= room
  BY <1>4, RoomEnough
<1>6. CASE job.op = "zip"
  <2>1. job' = [job EXCEPT !.pc = "zipped", !.code = 0, !.room = room, !.sealer = {o},
                           !.size = job.size + 16]
    BY <1>2, <1>4, <1>6
  <2>2. /\ job'.pc = "zipped" /\ job'.op = "zip" /\ job'.sealer = {o} /\ job'.plain = job.plain
        /\ job'.data = job.data /\ job'.size = job.size + 16 /\ job'.room = room
    BY <1>6, <2>1 DEF JobInv, JobTyped
  <2>3. JobTyped'
    <3>1. {o} \in SUBSET Objects /\ job.size + 16 \in Nat
      BY <1>3, <1>4
    <3>2. QED
      BY <1>1, <1>5, <2>1, <3>1 DEF JobInv, JobTyped, Bytes, Atoms, Objects
  <2>4. OneObject' /\ ObjectRebuilt'
    BY <1>1, <1>3, <2>2 DEF JobInv, OneObject, ObjectRebuilt, Generated, Aead
  <2>5. Raw
    BY <1>3, <1>6
  <2>6. Sealed'
    <3>1. (Encrypted(o))' = job.plain
      BY <1>4, <2>2 DEF Encrypted
    <3>2. (Tag(o))' = 16
      BY <1>4 DEF Tag
    <3>3. Len(job.plain) > 0
      BY <1>3, <2>5 DEF Raw
    <3>4. QED
      BY <1>1, <1>3, <2>2, <2>5, <3>1, <3>2, <3>3 DEF Sealed, Raw
  <2>7. Frame'
    BY <1>3, <2>2, <2>6 DEF Frame
  <2>8. QED
    BY <1>5, <2>2, <2>3, <2>4, <2>7 DEF JobInv, Streaming, RoundTrip, OutputFits
<1>7. CASE job.op = "unzip"
  <2>1. job' = [job EXCEPT !.pc = "idle", !.code = 0, !.room = room, !.size = job.size - 16]
    BY <1>2, <1>3, <1>4, <1>7
  <2>2. /\ job'.pc = "idle" /\ job'.op = "unzip" /\ job'.sealer = job.sealer
        /\ job'.plain = job.plain /\ job'.data = job.data /\ job'.size = job.size - 16
        /\ job'.code = 0
    BY <1>7, <2>1 DEF JobInv, JobTyped
  <2>3. job.size - 16 = Len(job.plain)
    BY <1>3, <1>7
  <2>4. JobTyped'
    <3>1. job.size - 16 \in Nat
      BY <1>3, <2>3
    <3>2. QED
      BY <1>1, <1>5, <2>1, <3>1 DEF JobInv, JobTyped, Bytes, Atoms, Objects
  <2>5. OneObject' /\ ObjectRebuilt'
    BY <1>1, <1>3, <2>2 DEF JobInv, OneObject, ObjectRebuilt, Generated
  <2>6. RoundTrip'
    BY <1>3, <1>4, <1>7, <2>2, <2>3 DEF RoundTrip
  <2>7. QED
    BY <2>2, <2>4, <2>5, <2>6 DEF JobInv, Frame, Streaming, OutputFits
<1>8. QED
  BY <1>4, <1>6, <1>7

\* chacha20.cpp up to the call of the library: a context of its own, from block 0 on,
\* whatever earlier calls have left, and the two buffers apart.
LEMMA RunStreamIInv ==
  ASSUME StreamInv, JobInv, NEW o \in local \cup far, RunStream(o)
  PROVE  StreamInv' /\ JobInv'
<1> DEFINE key == SubKey(Secret, o.iv)
           context == CounterSet(KeySetUp(key), 0)
           range == [from |-> 0, to |-> Len(job.data), n |-> Len(job.data)]
<1>1. /\ o.name = "CHACHA-20" /\ Runs(o) /\ UNCHANGED << local, far, aes, tmp >>
      /\ job' = [job EXCEPT !.pc = "stream"]
      /\ Enter(context, Buffers(job.data), range, [counter |-> 0, blocks |-> 0])
  BY DEF RunStream, StartStream
<1>2. /\ job.pc = "call" /\ local = {o} /\ far = {o} /\ o \in Objects
      /\ Len(o.iv) = 24
      /\ job.size > 0
      /\ 2 * Len(job.plain) <= MemSize /\ Len(job.plain) \in Nat
      /\ job.op = "zip" => Raw
      /\ job.op = "unzip" => job.size = Len(job.plain) + Tag(o) /\ job.data = Encrypted(o)
  BY <1>1, RunningCall DEF Generated
<1>3. Tag(o) = 0 /\ job.op \in {"zip", "unzip"}
  BY <1>1 DEF Tag, Aead, JobInv, JobTyped
<1>4. Len(job.data) = Len(job.plain) /\ job.size = Len(job.plain)
  <2>1. CASE job.op = "zip"
    BY <1>2, <2>1 DEF Raw
  <2>2. CASE job.op = "unzip"
    <3>1. job.data = [i \in 1..Len(job.plain) |-> XOR(job.plain[i], Stream(key, 0, i - 1))]
      BY <1>1, <1>2, <2>2 DEF Encrypted
    <3>2. DOMAIN job.data = 1..Len(job.plain) /\ job.data \in Bytes
      BY <3>1 DEF JobInv, JobTyped
    <3>3. Len(job.data) \in Nat /\ DOMAIN job.data = 1..Len(job.data)
      BY <3>2, LenProperties DEF Bytes
    <3>4. Len(job.data) = Len(job.plain)
      BY <1>2, <3>2, <3>3
    <3>5. QED
      BY <1>2, <1>3, <2>2, <3>4
  <2>3. QED
    BY <1>3, <2>1, <2>2
<1>5. MemSize \in Nat /\ Len(job.data) \in Nat /\ 2 * Len(job.data) <= MemSize
  BY <1>2, <1>4, WordType
<1>6. key \in Keys
  BY <1>2, KeysAssumption DEF Objects
<1>7. context \in Context /\ Number(context) = 0 /\ context.key = key
  <2>1. /\ 0 \in 0..Words - 1 /\ KeySetUp(key) \in Context
    BY <1>6, WordType DEF KeySetUp, Context, Words
  <2>2. context.key = key
    BY DEF CounterSet, KeySetUp
  <2>3. QED
    BY <2>1, <2>2, CounterSetTo
<1>8. Buffers(job.data) \in Memory
  <2>1. \A i \in 1..Len(job.data) : job.data[i] \in SUBSET Atoms
    BY ElementOfSeq DEF JobInv, JobTyped, Bytes
  <2>2. mem \in Memory
    BY DEF StreamInv, StreamTyped
  <2>3. \A i \in Index : (IF i <= Len(job.data) THEN job.data[i]
                          ELSE IF i <= 2 * Len(job.data) THEN {} ELSE mem[i]) \in SUBSET Atoms
    BY <1>5, <2>1, <2>2 DEF Memory, Index
  <2>4. QED
    BY <2>3 DEF Buffers, Memory
<1>9. range \in LawfulRange
  BY <1>5 DEF LawfulRange
<1> HIDE DEF context, range, key
<1>10. StreamInv'
  <2>1. 0 % Words = 0
    BY WordType, ModSmall DEF Words
  <2>2. [counter |-> 0, blocks |-> 0] \in [counter : Nat, blocks : Nat]
    OBVIOUS
  <2>3. Number(context) = ([counter |-> 0, blocks |-> 0].counter
                           + [counter |-> 0, blocks |-> 0].blocks) % Words
    BY <1>7, <2>1
  <2>4. StreamTyped /\ tmp' = tmp
    BY <1>1 DEF StreamInv
  <2>5. QED
    BY <1>1, <1>7, <1>8, <1>9, <2>2, <2>3, <2>4, EnterStreamInv
<1>11. /\ job'.pc = "stream" /\ job'.op = job.op /\ job'.sealer = job.sealer
       /\ job'.plain = job.plain /\ job'.data = job.data /\ job'.size = job.size
  BY <1>1 DEF JobInv, JobTyped
<1>12. JobTyped'
  BY <1>1 DEF JobInv, JobTyped, Bytes, Atoms, Objects
<1>13. OneObject' /\ ObjectRebuilt'
  BY <1>1, <1>2, <1>11 DEF JobInv, OneObject, ObjectRebuilt, Generated
<1>14. Frame'
  <2>1. \A q \in local : (Encrypted(q))' = Encrypted(q)
    BY <1>11 DEF Encrypted, Stream, StreamByte, XOR, SubKey
  <2>2. IF job.op = "zip" THEN Raw ELSE Sealed
    BY <1>2 DEF JobInv, Frame
  <2>3. IF job'.op = "zip" THEN Raw' ELSE Sealed'
    BY <1>1, <1>11, <2>1, <2>2 DEF Sealed, Raw, Tag
  <2>4. QED
    BY <1>2, <1>11, <2>3 DEF Frame
<1>15. Streaming'
  <2>1. /\ ctx'.key = key /\ call'.pc # "idle"
        /\ asked'.range = range /\ asked'.counter = 0 /\ asked'.mem = Buffers(job.data)
    BY <1>1, <1>7 DEF Enter
  <2>2. \A i \in 1..job.size : Buffers(job.data)[i] = job.data[i]
    BY <1>2, <1>4, <1>5 DEF Buffers, Index
  <2>3. range = [from |-> 0, to |-> job.size, n |-> job.size]
    BY <1>4 DEF range
  <2>4. Len(job.plain) > 0
    BY <1>2, <1>4
  <2>5. QED
    BY <1>1, <1>2, <1>11, <2>1, <2>2, <2>3, <2>4 DEF Streaming, SubKey, key
<1>16. QED
  BY <1>10, <1>11, <1>12, <1>13, <1>14, <1>15 DEF JobInv, RoundTrip, OutputFits

\* The second half of the memory is then the first one, XORed with the stream.
LEMMA StreamReturnsJobInv ==
  ASSUME StreamInv, JobInv, StreamReturns
  PROVE  JobInv'
<1> DEFINE out == [i \in 1..job.size |-> mem[job.size + i]]
<1>1. /\ job.pc = "stream" /\ call.pc = "done" /\ UNCHANGED << local, far, aes >>
      /\ job' = [job EXCEPT !.pc = AfterSuccess, !.code = 0, !.data = out]
  BY DEF StreamReturns
<1>2. local # {} /\ far = local
  BY <1>1 DEF JobInv, ObjectRebuilt
<1>3. PICK o : local = {o} /\ o \in Objects
  BY <1>2 DEF JobInv, JobTyped, OneObject
<1> DEFINE key == SubKey(Secret, o.iv)
<1>4. /\ o.name = "CHACHA-20" /\ ctx.key = key /\ Len(job.plain) > 0
      /\ asked.range = [from |-> 0, to |-> job.size, n |-> job.size]
      /\ asked.counter = 0
      /\ \A i \in 1..job.size : asked.mem[i] = job.data[i]
  BY <1>1, <1>3 DEF JobInv, Streaming
<1>5. /\ 2 * Len(job.plain) <= MemSize /\ Len(job.plain) \in Nat /\ MemSize \in Nat
      /\ job.op \in {"zip", "unzip"} /\ job.size \in Nat
      /\ job.op = "zip" => Raw
      /\ job.op = "unzip" => Sealed
  <2>1. Len(job.plain) \in Nat /\ MemSize \in Nat
    BY LenProperties, WordType DEF JobInv, JobTyped, Bytes
  <2>2. job.op \in {"zip", "unzip"} /\ job.size \in Nat
    BY DEF JobInv, JobTyped
  <2>3. 2 * Len(job.plain) <= MemSize /\ (IF job.op = "zip" THEN Raw ELSE Sealed)
    BY <1>1 DEF JobInv, Frame
  <2>4. QED
    BY <2>1, <2>2, <2>3
<1>6. Tag(o) = 0 /\ o.name \notin Aead /\ o.name # "RAW"
  BY <1>4 DEF Tag, Aead
<1>7. job.size = Len(job.plain)
  BY <1>3, <1>5, <1>6 DEF Raw, Sealed
<1>8. ASSUME NEW i \in 1..job.size
      PROVE  /\ out[i] = XOR(job.data[i], Stream(key, 0, i - 1))
             /\ out[i] \in SUBSET Atoms
  <2>1. /\ job.size + i \in Index /\ (job.size + i) - job.size - 1 = i - 1
        /\ i - 1 \in 0..job.size - 1 /\ 0 + (i - 1) + 1 = i
    BY <1>5, <1>7 DEF Index
  <2>2. mem[job.size + i] = XOR(asked.mem[i], Stream(ctx.key, 0, i - 1))
    <3> DEFINE r == asked.range
               p == (job.size + i) - r.to - 1
    <3>1. r.from = 0 /\ r.to = job.size /\ r.n = job.size
      BY <1>4
    <3>2. mem[job.size + i] = IF p \in 0..r.n - 1
                              THEN XOR(asked.mem[r.from + p + 1], Stream(ctx.key, asked.counter, p))
                              ELSE asked.mem[job.size + i]
      BY <1>1, <2>1 DEF StreamInv, StreamApplied
    <3>3. p = i - 1 /\ r.from + p + 1 = i /\ p \in 0..r.n - 1
      BY <2>1, <3>1
    <3>4. QED
      BY <1>4, <3>2, <3>3
  <2>3. mem[job.size + i] \in SUBSET Atoms
    BY <2>1 DEF StreamInv, StreamTyped, Memory
  <2>4. QED
    BY <1>4, <2>2, <2>3
<1>9. out \in Bytes
  <2>1. out \in [1..job.size -> SUBSET Atoms]
    BY <1>8
  <2>2. QED
    BY <1>5, <2>1, IsASeq DEF Bytes
<1>10. job.op = "zip" => out = Encrypted(o)
  <2> SUFFICES ASSUME job.op = "zip"
               PROVE  out = [i \in 1..Len(job.plain) |-> XOR(job.plain[i], Stream(key, 0, i - 1))]
    BY <1>4 DEF Encrypted
  <2>1. job.data = job.plain
    BY <1>5 DEF Raw
  <2>2. out = [i \in 1..job.size |-> XOR(job.data[i], Stream(key, 0, i - 1))]
    BY <1>8
  <2>3. QED
    BY <1>7, <2>1, <2>2
<1>11. job.op = "unzip" => out = job.plain
  <2> SUFFICES ASSUME job.op = "unzip" PROVE out = job.plain
    OBVIOUS
  <2>1. job.data = [i \in 1..Len(job.plain) |-> XOR(job.plain[i], Stream(key, 0, i - 1))]
    BY <1>3, <1>4, <1>5 DEF Sealed, Encrypted
  <2>2. ASSUME NEW i \in 1..Len(job.plain) PROVE out[i] = job.plain[i]
    <3>1. out[i] = XOR(job.data[i], Stream(key, 0, i - 1))
      BY <1>7, <1>8
    <3>2. job.data[i] = XOR(job.plain[i], Stream(key, 0, i - 1))
      BY <2>1
    <3>3. QED
      BY <3>1, <3>2, XorTwice
  <2>3. job.plain \in [1..Len(job.plain) -> SUBSET Atoms]
    BY LenProperties DEF JobInv, JobTyped, Bytes
  <2>4. out \in [1..Len(job.plain) -> SUBSET Atoms]
    BY <1>7, <1>8
  <2> HIDE DEF out
  <2>5. QED
    BY <2>2, <2>3, <2>4
<1> HIDE DEF out, key
<1>12. /\ job'.pc = AfterSuccess /\ job'.op = job.op /\ job'.code = 0 /\ job'.sealer = job.sealer
       /\ job'.plain = job.plain /\ job'.data = out /\ job'.size = job.size
  BY <1>1 DEF JobInv, JobTyped
<1>13. AfterSuccess \in {"zipped", "idle"} /\ (AfterSuccess = "zipped" <=> job.op = "zip")
  BY DEF AfterSuccess
<1>14. JobTyped'
  BY <1>1, <1>9, <1>13 DEF JobInv, JobTyped, Bytes, Atoms, Objects
<1>15. OneObject' /\ ObjectRebuilt'
  BY <1>1, <1>2, <1>12, <1>13 DEF JobInv, OneObject, ObjectRebuilt, Generated
<1>16. Frame'
  <2>1. (Encrypted(o))' = Encrypted(o)
    BY <1>12 DEF Encrypted, Stream, StreamByte, XOR, SubKey
  <2>2. (Tag(o))' = 0 /\ (o.name \notin Aead)' /\ local' = {o}
    BY <1>1, <1>3, <1>6 DEF Tag, Aead
  <2>3. ASSUME job.op = "zip" PROVE Sealed'
    BY <1>4, <1>5, <1>7, <1>10, <1>12, <2>1, <2>2, <2>3 DEF Sealed
  <2>4. QED
    BY <1>5, <1>12, <1>13, <2>3 DEF Frame
<1>17. RoundTrip'
  BY <1>7, <1>11, <1>12 DEF RoundTrip
<1>18. OutputFits'
  <2>1. job.sealer = {}
    BY <1>3, <1>6 DEF JobInv, OneObject
  <2>2. QED
    BY <1>12, <2>1 DEF OutputFits
<1>19. QED
  BY <1>12, <1>13, <1>14, <1>15, <1>16, <1>17, <1>18 DEF JobInv, Streaming

LEMMA InitIInv == Init => IInv
<1> SUFFICES ASSUME Init PROVE IInv
  OBVIOUS
<1>1. StreamInv
  BY InitStreamInv DEF Init
<1>2. QED
  BY <1>1, InitJobInv DEF IInv

LEMMA NextIInv == IInv /\ [Next]_vars => IInv'
<1> SUFFICES ASSUME IInv, [Next]_vars PROVE IInv'
  OBVIOUS
<1>1. StreamInv /\ JobInv
  BY DEF IInv
<1>2. ASSUME Caller, job.pc = "none", UNCHANGED << local, far, aes, job >>
      PROVE  IInv'
  <2>1. StreamInv'
    BY <1>1, <1>2, CallerStreamInv
  <2>2. JobTyped'
    BY <1>1, <1>2, SameTypes DEF JobInv
  <2>3. job.pc # "stream"
    BY <1>2
  <2>4. JobInv'
    BY <1>1, <1>2, <2>2, <2>3, StillJobInv
  <2>5. QED
    BY <2>1, <2>4 DEF IInv
<1>3. ASSUME NextBlock, UNCHANGED << local, far, aes, job >>
      PROVE  IInv'
  <2>1. StreamInv'
    BY <1>1, <1>3, NextBlockStreamInv
  <2>2. JobTyped'
    BY <1>1, <1>3, SameTypes DEF JobInv
  <2>3. ctx'.key = ctx.key /\ asked' = asked /\ call'.pc # "idle"
    BY <1>1, <1>3 DEF NextBlock, Returned, StreamInv, StreamTyped, Context
  <2>4. JobInv'
    BY <1>1, <1>3, <2>2, <2>3, StillJobInv
  <2>5. QED
    BY <2>1, <2>4 DEF IInv
<1>4. ASSUME Build PROVE IInv'
  <2>1. UNCHANGED streamVars
    BY <1>4 DEF Build
  <2>2. QED
    BY <1>1, <1>4, <2>1, BuildJobInv, StillStreamInv DEF IInv
<1>5. ASSUME Rebuild PROVE IInv'
  <2>1. UNCHANGED streamVars
    BY <1>5 DEF Rebuild
  <2>2. QED
    BY <1>1, <1>5, <2>1, RebuildJobInv, StillStreamInv DEF IInv
<1>6. ASSUME NEW end \in {"local", "far"}, NEW n \in Sizes, Compress(end, n) PROVE IInv'
  <2>1. UNCHANGED streamVars
    BY <1>6 DEF Compress
  <2>2. QED
    BY <1>1, <1>6, <2>1, CompressJobInv, StillStreamInv DEF IInv
<1>7. ASSUME UnCompress PROVE IInv'
  <2>1. UNCHANGED streamVars
    BY <1>7 DEF UnCompress
  <2>2. QED
    BY <1>1, <1>7, <2>1, UnCompressJobInv, StillStreamInv DEF IInv
<1>8. ASSUME Refuse PROVE IInv'
  <2>1. UNCHANGED streamVars
    BY <1>8 DEF Refuse
  <2>2. QED
    BY <1>1, <1>8, <2>1, RefuseJobInv, StillStreamInv DEF IInv
<1>9. ASSUME StreamReturns PROVE IInv'
  <2>1. UNCHANGED streamVars
    BY <1>9 DEF StreamReturns
  <2>2. QED
    BY <1>1, <1>9, <2>1, StreamReturnsJobInv, StillStreamInv DEF IInv
<1>10. ASSUME NEW o \in local \cup far, RunRaw(o) PROVE IInv'
  <2>1. UNCHANGED streamVars
    BY <1>10 DEF RunRaw
  <2>2. QED
    BY <1>1, <1>10, <2>1, RunRawJobInv, StillStreamInv DEF IInv
<1>11. ASSUME NEW o \in local \cup far, RunAead(o) PROVE IInv'
  <2>1. UNCHANGED streamVars
    BY <1>11 DEF RunAead
  <2>2. QED
    BY <1>1, <1>11, <2>1, RunAeadJobInv, StillStreamInv DEF IInv
<1>12. ASSUME NEW o \in local \cup far, RunStream(o) PROVE IInv'
  BY <1>1, <1>12, RunStreamIInv DEF IInv
<1>13. ASSUME UNCHANGED vars PROVE IInv'
  <2>1. UNCHANGED << local, far, aes, job >> /\ UNCHANGED streamVars
    BY <1>13 DEF vars
  <2>2. StreamInv' /\ JobTyped'
    BY <1>1, <2>1, StillStreamInv, SameTypes DEF JobInv
  <2>3. job.pc = "stream" => ctx'.key = ctx.key /\ asked' = asked /\ call'.pc # "idle"
    BY <1>1, <2>1 DEF JobInv, Streaming, streamVars
  <2>4. JobInv'
    BY <1>1, <2>1, <2>2, <2>3, StillJobInv
  <2>5. QED
    BY <2>2, <2>4 DEF IInv
<1>14. QED
  BY <1>2, <1>3, <1>4, <1>5, <1>6, <1>7, <1>8, <1>9, <1>10, <1>11, <1>12, <1>13, ZenonT(90) DEF Next

-----------------------------------------------------------------------------
(* Results.                                                                *)

\* The invariant the theorems below follow from holds in every reachable state of the
\* ciphers and of the library (src/privacy).
THEOREM Invariance == Spec => []IInv
<1>1. QED
  BY InitIInv, NextIInv, PTL DEF Spec

\* Every field keeps its type: the words of the counter do not leave their 32 bits,
\* the loop does not leave the callers' memory (xchacha20.cpp 126-257).
THEOREM TypeCorrect == Spec => []TypeOK
<1>1. IInv => TypeOK
  <2> SUFFICES ASSUME IInv PROVE TypeOK
    OBVIOUS
  <2>1. ctx.lo \in 0..Word - 1 /\ ctx.hi \in 0..Word - 1
    BY DEF IInv, StreamInv, StreamTyped, Context
  <2>2. /\ mem \in [Index -> SUBSET Atoms] /\ tmp \in [1..Block -> SUBSET Atoms]
        /\ call \in [pc : {"idle", "block", "done"}, m : Offset, c : Offset, bytes : Offset,
                     j12 : 0..Word - 1, j13 : 0..Word - 1]
    BY DEF IInv, StreamInv, StreamTyped, Memory
  <2>3. /\ local \in SUBSET Objects /\ far \in SUBSET Objects
        /\ job.pc \in {"none", "unknown", "built", "refused", "idle", "call", "stream", "zipped"}
        /\ job.plain \in Bytes /\ job.data \in Bytes /\ {job.size, job.room} \subseteq Nat
    BY DEF IInv, JobInv, JobTyped
  <2>4. QED
    BY <2>1, <2>2, <2>3 DEF TypeOK
<1>2. QED
  BY <1>1, Invariance, PTL

\* For blocks, words and ranges of any size, in place or apart: what a call leaves is
\* the source as it was, XORed with the stream from its counter on, carries and wrapping
\* included, and it touches nothing else (xchacha20.cpp 126-257).
THEOREM StreamIsApplied == Spec => []StreamApplied
<1>1. IInv => StreamApplied
  BY DEF IInv, StreamInv
<1>2. QED
  BY <1>1, Invariance, PTL

\* However often the library is called since the counter was set, the counter is behind
\* the blocks those calls used: none is used twice and none left out, up to the wrap of
\* both words (xchacha20.cpp 98-105 and 249-251).
THEOREM PositionIsKept == Spec => []PositionKept
<1>1. IInv => PositionKept
  BY DEF IInv, StreamInv
<1>2. QED
  BY <1>1, Invariance, PTL

\* The far end accepts the bytes of every object that was built by name and builds
\* the very same object from them, for all names and generated vectors: no class
\* writes a mask, a length or a vector that the other side's switch or checks take
\* for another one's or refuse (privacy.cpp 14-109).
THEOREM RebuiltIsSame == Spec => []ObjectRebuilt
<1>1. IInv => ObjectRebuilt
  BY DEF IInv, JobInv
<1>2. QED
  BY <1>1, Invariance, PTL

\* What one end encrypts the other one decrypts to the same bytes, for all four ciphers,
\* all vectors, plaintexts of any length and any number of frames (chacha20.cpp, gcm.cpp,
\* raw.cpp, xcha20_poly1305.cpp).
THEOREM RoundTripKept == Spec => []RoundTrip
<1>1. IInv => RoundTrip
  BY DEF IInv, JobInv
<1>2. QED
  BY <1>1, Invariance, PTL

\* No vector the generator makes is refused for its length (privacy.cpp 80-109).
THEOREM VectorIsAccepted == Spec => []VectorAccepted
<1>1. IInv => VectorAccepted
  BY DEF IInv, JobInv, JobTyped, VectorAccepted
<1>2. QED
  BY <1>1, Invariance, PTL

\* Whichever of the two functions called alloSize does the sum, libsodium stays inside
\* the room that was made, for plaintexts of any length (gcm.cpp 14-17,
\* xcha20_poly1305.cpp 5-8).
THEOREM OutputAlwaysFits == Spec => []OutputFits
<1>1. IInv => OutputFits
  BY DEF IInv, JobInv
<1>2. QED
  BY <1>1, Invariance, PTL
=============================================================================
