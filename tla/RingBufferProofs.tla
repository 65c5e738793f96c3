-------------------------- MODULE RingBufferProofs --------------------------
(***************************************************************************)
(* What the ring's index arithmetic computes, for every ring size and      *)
(* every width of the counters: the facts the proofs about both directions *)
(* of the link rest on.                                                    *)
(***************************************************************************)
EXTENDS RingBuffer, SequenceTheorems, TLAPS

\* A function on 1..n is a sequence of length n.
LEMMA FunIsSeq ==
  ASSUME NEW S, NEW n \in Nat, NEW f \in [1..n -> S]
  PROVE  f \in Seq(S) /\ Len(f) = n
<1>1. f \in Seq(S)
  BY SMT
<1> QED
  BY <1>1, LenProperties, SMT

LEMMA EmptyIsSeq ==
  ASSUME NEW S, NEW e, e = <<>>
  PROVE  e \in Seq(S) /\ Len(e) = 0
  BY EmptySeq

LEMMA ModRange ==
  ASSUME NEW m \in Nat, m > 0, NEW x \in Int
  PROVE  x % m \in 0..(m - 1)
  BY SMT

\* One turn around at most: what the modulus does to sums and differences of
\* two words.
LEMMA ModNear ==
  ASSUME NEW m \in Nat, m > 0, NEW x \in Int
  PROVE  /\ 0 <= x /\ x < m => x % m = x
         /\ 0 - m <= x /\ x < 0 => x % m = x + m
         /\ m <= x /\ x < 2 * m => x % m = x - m
  BY SMT

\* Division with remainder, and that the remainder is unique.
LEMMA DivMod ==
  ASSUME NEW m \in Nat, m > 0, NEW x \in Int
  PROVE  x = m * (x \div m) + (x % m)
  BY SMT

LEMMA NoMultipleBetween ==
  ASSUME NEW m \in Nat, m > 0, NEW d \in Int, 0 - m < m * d, m * d < m
  PROVE  d = 0
<1>1. ASSUME d >= 1 PROVE FALSE
  <2>1. m * (d - 1) >= 0
    BY <1>1, SMT
  <2> QED
    BY <2>1, <1>1, SMT
<1>2. ASSUME d <= 0 - 1 PROVE FALSE
  <2>1. m * (0 - d - 1) >= 0
    BY <1>2, SMT
  <2> QED
    BY <2>1, <1>2, SMT
<1> QED
  BY <1>1, <1>2

LEMMA RemainderUnique ==
  ASSUME NEW m \in Nat, m > 0, NEW q \in Int, NEW r \in 0..(m - 1)
  PROVE  (m * q + r) % m = r
<1> DEFINE x == m * q + r
<1>1. m * q \in Int /\ x \in Int
  BY SMT
<1>2. x = m * (x \div m) + (x % m) /\ x \div m \in Int /\ x % m \in 0..(m - 1)
  BY <1>1, DivMod, SMT
<1>3. m * (x \div m - q) = r - (x % m)
  BY <1>1, <1>2, SMT
<1>4. x \div m - q = 0
  BY <1>2, <1>3, NoMultipleBetween
<1> QED
  BY <1>2, <1>3, <1>4

\* Multiples of the modulus do not count.
LEMMA ModShift ==
  ASSUME NEW m \in Nat, m > 0, NEW q \in Int, NEW x \in Int
  PROVE  (x + m * q) % m = x % m
<1>1. x = m * (x \div m) + (x % m) /\ x \div m \in Int /\ x % m \in 0..(m - 1)
  BY DivMod, SMT
<1>2. x + m * q = m * (x \div m + q) + (x % m)
  BY <1>1, SMT
<1>3. x \div m + q \in Int
  BY <1>1
<1> QED
  BY <1>1, <1>2, <1>3, RemainderUnique

\* Taking a packet off a number of whole packets leaves whole packets.
LEMMA WholeLess ==
  ASSUME NEW m \in Nat, m > 0, NEW x \in Nat, x % m = 0, x > m
  PROVE  x - m >= m /\ (x - m) % m = 0
<1>1. x - m >= m
  <2> SUFFICES ASSUME x < 2 * m PROVE FALSE
    OBVIOUS
  <2> QED
    BY ModNear
<1>2. PICK q \in Int : q = 0 - 1
  OBVIOUS
<1>3. x + m * q = x - m
  BY <1>2, SMT
<1>4. (x + m * q) % m = 0
  <2>1. x \in Int /\ m > 0
    OBVIOUS
  <2>2. (x + m * q) % m = x % m
    BY <2>1, ModShift, Zenon
  <2> QED
    BY <2>2
<1>5. (x - m) % m = 0
  BY <1>3, <1>4
<1> QED
  BY <1>1, <1>5

\* The distance between two counters, without the modulus.
LEMMA UsedIs ==
  ASSUME NEW i \in Counter, NEW o \in Counter
  PROVE  Used(i, o) = IF i >= o THEN i - o ELSE i - o + CounterMod
<1>1. CounterMod \in Nat /\ CounterMod > 0 /\ i \in 0..(CounterMod - 1) /\ o \in 0..(CounterMod - 1)
  BY CounterModAssumption, SizeAssumption DEF Counter
<1>2. i - o \in Int
  BY <1>1
<1> QED
  BY <1>1, <1>2, ModNear DEF Used

\* A counter moved on by less than a turn.
LEMMA AdvanceIs ==
  ASSUME NEW c \in Counter, NEW n \in Nat, n < CounterMod
  PROVE  /\ Advance(c, n) \in Counter
         /\ Advance(c, n) = IF c + n < CounterMod THEN c + n ELSE c + n - CounterMod
<1>1. CounterMod \in Nat /\ CounterMod > 0 /\ c \in 0..(CounterMod - 1)
  BY CounterModAssumption, SizeAssumption DEF Counter
<1>2. c + n \in Int
  BY <1>1
<1> QED
  BY <1>1, <1>2, ModNear DEF Advance, Counter

\* While the ring holds no more than its pool, what is used and what is free make
\* up the pool.
LEMMA FreeIs ==
  ASSUME NEW i \in Counter, NEW o \in Counter, Used(i, o) <= Size
  PROVE  Used(i, o) \in 0..Size /\ Free(i, o) = Size - Used(i, o)
<1>1. CounterMod \in Nat /\ CounterMod > Size /\ Size \in Nat /\ i \in Int /\ o \in Int
  BY CounterModAssumption, SizeAssumption DEF Counter
<1>2. Used(i, o) \in 0..(CounterMod - 1)
  BY <1>1, ModRange DEF Used
<1> QED
  BY <1>1, <1>2, ModNear DEF Free

\* Writing n units that fit makes the ring hold n more.
LEMMA UsedAfterWrite ==
  ASSUME NEW i \in Counter, NEW o \in Counter, NEW n \in Nat, Used(i, o) + n <= Size
  PROVE  Advance(i, n) \in Counter /\ Used(Advance(i, n), o) = Used(i, o) + n
<1>1. CounterMod \in Nat /\ CounterMod > Size /\ Size \in Nat
      /\ i \in 0..(CounterMod - 1) /\ o \in 0..(CounterMod - 1)
  BY CounterModAssumption, SizeAssumption DEF Counter
<1>2. Used(i, o) \in Nat
  BY <1>1, ModRange DEF Used
<1>3. n < CounterMod
  BY <1>1, <1>2
<1> QED
  BY <1>1, <1>2, <1>3, AdvanceIs, UsedIs

\* Taking n units out of it makes the ring hold n less.
LEMMA UsedAfterRead ==
  ASSUME NEW i \in Counter, NEW o \in Counter, NEW n \in Nat, n <= Used(i, o)
  PROVE  Advance(o, n) \in Counter /\ Used(i, Advance(o, n)) = Used(i, o) - n
<1>1. CounterMod \in Nat /\ CounterMod > 0 /\ i \in 0..(CounterMod - 1) /\ o \in 0..(CounterMod - 1)
  BY CounterModAssumption, SizeAssumption DEF Counter
<1>2. Used(i, o) \in 0..(CounterMod - 1)
  BY <1>1, ModRange DEF Used
<1>3. n < CounterMod
  BY <1>1, <1>2
<1> DEFINE p == Advance(o, n)
<1>4. p \in 0..(CounterMod - 1) /\ p = IF o + n < CounterMod THEN o + n ELSE o + n - CounterMod
  BY <1>3, AdvanceIs DEF Counter
<1>5. p \in Counter
  BY <1>4 DEF Counter
<1>6. /\ Used(i, o) = IF i >= o THEN i - o ELSE i - o + CounterMod
      /\ Used(i, p) = IF i >= p THEN i - p ELSE i - p + CounterMod
  BY <1>5, UsedIs
<1> HIDE DEF p
<1>7. Used(i, p) = Used(i, o) - n
  BY <1>1, <1>4, <1>6
<1> QED
  BY <1>5, <1>7 DEF p

\* A ring is empty exactly when its counters are equal.
LEMMA EmptyIffNoneUsed ==
  ASSUME NEW i \in Counter, NEW o \in Counter
  PROVE  IsEmpty(i, o) <=> Used(i, o) = 0
<1>1. CounterMod \in Nat /\ i \in 0..(CounterMod - 1) /\ o \in 0..(CounterMod - 1)
  BY CounterModAssumption DEF Counter
<1> QED
  BY <1>1, UsedIs DEF IsEmpty

\* The linear space for writing: within the free space, within the pool, and no
\* smaller after something was taken out.
LEMMA LinearWriteIs ==
  ASSUME NEW i \in Counter, NEW o \in Counter, Used(i, o) <= Size
  PROVE  /\ LinearWrite(i, o) \in 0..Size
         /\ LinearWrite(i, o) <= Size - Used(i, o)
         /\ SlotOf(i) + LinearWrite(i, o) <= Size
         /\ \A p \in Counter : Used(i, p) <= Used(i, o) => LinearWrite(i, o) <= LinearWrite(i, p)
<1>1. Size \in Nat /\ Size > 0 /\ i \in Int
  BY SizeAssumption DEF Counter
<1>2. SlotOf(i) \in 0..(Size - 1)
  BY <1>1, ModRange DEF SlotOf
<1>3. Used(i, o) \in 0..Size /\ Free(i, o) = Size - Used(i, o)
  BY FreeIs
<1>4. ASSUME NEW p \in Counter, Used(i, p) <= Used(i, o)
      PROVE  LinearWrite(i, o) <= LinearWrite(i, p)
  <2>1. Used(i, p) <= Size
    BY <1>3, <1>4, <1>1, UsedIs, CounterModAssumption DEF Counter
  <2>2. Used(i, p) \in 0..Size /\ Free(i, p) = Size - Used(i, p)
    BY <2>1, FreeIs
  <2> QED
    BY <1>1, <1>2, <1>3, <1>4, <2>2 DEF LinearWrite, Least
<1> QED
  BY <1>1, <1>2, <1>3, <1>4 DEF LinearWrite, Least

\* The ring's index operators stay within their ranges.
LEMMA RingTypes ==
  ASSUME NEW i \in Counter, NEW o \in Counter
  PROVE  /\ Used(i, o) \in Nat /\ Free(i, o) \in Nat
         /\ SlotOf(i) \in Slot
         /\ LinearRead(i, o) \in Nat
         /\ \A n \in Nat : /\ Advance(i, n) \in Counter
                            /\ WriteDone(i, o, n) \in Counter /\ ReadDone(i, o, n) \in Counter
<1>1. /\ Size \in Nat /\ Size > 0 /\ CounterMod \in Nat /\ CounterMod > 0
      /\ i \in Int /\ o \in Int
  BY SizeAssumption, CounterModAssumption DEF Counter
<1>2. Used(i, o) \in Nat /\ Free(i, o) \in Nat
  BY <1>1, ModRange DEF Used, Free
<1>3. SlotOf(i) \in Slot /\ SlotOf(o) \in Slot
  BY <1>1, ModRange DEF SlotOf, Slot
<1>4. LinearRead(i, o) \in Nat
  BY <1>1, <1>2, <1>3 DEF LinearRead, Least, Slot
<1>5. ASSUME NEW c \in Counter, NEW n \in Nat PROVE Advance(c, n) \in Counter
  <2>1. c + n \in Int
    BY DEF Counter
  <2> QED
    BY <1>1, <2>1, ModRange DEF Advance, Counter
<1>6. ASSUME NEW n \in Nat PROVE WriteDone(i, o, n) \in Counter /\ ReadDone(i, o, n) \in Counter
  BY <1>2, <1>5 DEF WriteDone, ReadDone, Least
<1> QED
  BY <1>2, <1>3, <1>4, <1>5, <1>6

\* Units taken out of the pool are units of the pool.
LEMMA CopyOutType ==
  ASSUME NEW S, NEW p \in [Slot -> S], NEW at \in Slot, NEW n \in Nat
  PROVE  CopyOut(p, at, n) \in Seq(S) /\ Len(CopyOut(p, at, n)) = n
<1>1. ASSUME NEW k \in 1..n PROVE p[(at + k - 1) % Size] \in S
  <2>1. (at + k - 1) % Size \in Slot
    BY SizeAssumption, ModRange DEF Slot
  <2> QED
    BY <2>1
<1>2. CopyOut(p, at, n) \in [1..n -> S]
  BY <1>1 DEF CopyOut
<1> QED
  BY <1>2, FunIsSeq

LEMMA CopyInType ==
  ASSUME NEW S, NEW p \in [Slot -> S], NEW at \in Slot, NEW s \in Seq(S)
  PROVE  CopyIn(p, at, s) \in [Slot -> S]
<1>1. ASSUME NEW k \in Slot
      PROVE  (IF (k - at) % Size < Len(s) THEN s[((k - at) % Size) + 1] ELSE p[k])
               \in S
  <2>1. (k - at) % Size \in Slot
    BY SizeAssumption, ModRange DEF Slot
  <2>2. CASE (k - at) % Size < Len(s)
    <3>1. ((k - at) % Size) + 1 \in 1..Len(s)
      BY <2>1, <2>2 DEF Slot
    <3>2. s \in [1..Len(s) -> S]
      BY LenProperties
    <3> QED
      BY <2>2, <3>1, <3>2
  <2>3. CASE ~((k - at) % Size < Len(s))
    BY <2>3
  <2> QED
    BY <2>2, <2>3
<1> QED
  BY <1>1 DEF CopyIn
-----------------------------------------------------------------------------
(***************************************************************************)
(* Where the units lie: the n-th unit in the ring is n slots behind that   *)
(* of `out', counting round the pool.                                      *)
(***************************************************************************)
\* Taking the modulus of a summand first makes no difference.
LEMMA ModOfSum ==
  ASSUME NEW m \in Nat, m > 0, NEW x \in Int, NEW y \in Int
  PROVE  ((x % m) + y) % m = (x + y) % m
<1>1. x = m * (x \div m) + (x % m) /\ x \div m \in Int /\ x % m \in Int
  BY DivMod, ModRange, SMT
<1>2. x + y = ((x % m) + y) + m * (x \div m)
  BY <1>1, SMT
<1>3. (x % m) + y \in Int
  BY <1>1
<1>4. (((x % m) + y) + m * (x \div m)) % m = ((x % m) + y) % m
  BY <1>1, <1>3, ModShift, Zenon
<1> QED
  BY <1>2, <1>4

\* The pool's size divides the counters' modulus: a wrapping counter stays in
\* step with its slot.
LEMMA SlotOfWrapped ==
  ASSUME NEW x \in Int
  PROVE  (x - CounterMod) % Size = x % Size
<1>1. CounterMod \in Int /\ Size \in Nat /\ Size > 0 /\ CounterMod % Size = 0
  BY SizeAssumption, CounterModAssumption
<1>2. CounterMod = Size * (CounterMod \div Size) /\ CounterMod \div Size \in Int
  BY <1>1, DivMod, SMT
<1>3. PICK q \in Int : q = 0 - (CounterMod \div Size)
  BY <1>2
<1>4. x + Size * q = x - CounterMod
  BY <1>1, <1>2, <1>3, SMT
<1>5. (x + Size * q) % Size = x % Size
  BY <1>1, ModShift, Zenon
<1> QED
  BY <1>4, <1>5

\* The slots behind a counter that has moved on.
LEMMA SlotAfter ==
  ASSUME NEW c \in Counter, NEW n \in Nat, n <= Size, NEW j \in Nat
  PROVE  (SlotOf(Advance(c, n)) + j) % Size = (SlotOf(c) + n + j) % Size
<1>1. CounterMod \in Nat /\ CounterMod > Size /\ Size \in Nat /\ Size > 0 /\ c \in Int
  BY SizeAssumption, CounterModAssumption DEF Counter
<1>2. c + n \in Int /\ j \in Int /\ n + j \in Int /\ n < CounterMod
  BY <1>1
<1>3. Advance(c, n) % Size = (c + n) % Size
  <2>1. Advance(c, n) = IF c + n < CounterMod THEN c + n ELSE c + n - CounterMod
    BY <1>2, AdvanceIs, Zenon
  <2>2. ((c + n) - CounterMod) % Size = (c + n) % Size
    BY <1>2, SlotOfWrapped
  <2>3. CASE c + n < CounterMod
    BY <2>1, <2>3
  <2>4. CASE ~(c + n < CounterMod)
    <3>1. Advance(c, n) = (c + n) - CounterMod
      BY <1>1, <2>1, <2>4
    <3> QED
      BY <2>2, <3>1
  <2> QED
    BY <2>3, <2>4
<1>4. (((c + n) % Size) + j) % Size = (c + n + j) % Size
  BY <1>1, <1>2, ModOfSum
<1>5. ((c % Size) + (n + j)) % Size = (c + (n + j)) % Size
  BY <1>1, <1>2, ModOfSum
<1>6. c % Size \in Int
  BY <1>1, ModRange
<1> QED
  BY <1>1, <1>2, <1>3, <1>4, <1>5, <1>6 DEF SlotOf

\* What is in the ring is as far as `in' is from `out'.
LEMMA InIsAhead ==
  ASSUME NEW i \in Counter, NEW o \in Counter
  PROVE  Advance(o, Used(i, o)) = i
<1>1. CounterMod \in Nat /\ CounterMod > 0 /\ i \in 0..(CounterMod - 1) /\ o \in 0..(CounterMod - 1)
  BY CounterModAssumption, SizeAssumption DEF Counter
<1>2. Used(i, o) \in 0..(CounterMod - 1)
  BY <1>1, ModRange DEF Used
<1> DEFINE u == Used(i, o)
<1>3. u < CounterMod /\ u \in Nat
  BY <1>1, <1>2
<1>4. u = IF i >= o THEN i - o ELSE i - o + CounterMod
  BY UsedIs
<1>5. Advance(o, u) = IF o + u < CounterMod THEN o + u ELSE o + u - CounterMod
  BY <1>3, AdvanceIs
<1> HIDE DEF u
<1>6. Advance(o, u) = i
  BY <1>1, <1>3, <1>4, <1>5
<1> QED
  BY <1>6 DEF u

\* The linear space is where the next units of the ring belong ...
LEMMA LinearSlots ==
  ASSUME NEW i \in Counter, NEW o \in Counter, Used(i, o) <= Size,
         NEW t \in Nat, t < LinearWrite(i, o)
  PROVE  /\ SlotOf(i) + t \in Slot
         /\ (SlotOf(o) + Used(i, o) + t) % Size = SlotOf(i) + t
<1>1. Size \in Nat /\ Size > 0 /\ Used(i, o) \in Nat /\ SlotOf(i) \in Nat /\ SlotOf(o) \in Nat
  BY SizeAssumption, RingTypes DEF Slot
<1>2. SlotOf(i) + LinearWrite(i, o) <= Size /\ LinearWrite(i, o) \in Nat
  BY LinearWriteIs, <1>1
<1>3. SlotOf(i) + t < Size
  BY <1>1, <1>2
<1>4. (SlotOf(i) + t) % Size = SlotOf(i) + t
  BY <1>1, <1>3, ModNear
<1>5. (SlotOf(Advance(o, Used(i, o))) + t) % Size = (SlotOf(o) + Used(i, o) + t) % Size
  BY <1>1, SlotAfter
<1> QED
  BY <1>1, <1>3, <1>4, <1>5, InIsAhead DEF Slot

\* ... and apart from those it holds.
LEMMA SlotsApart ==
  ASSUME NEW i \in Counter, NEW o \in Counter, Used(i, o) <= Size,
         NEW t \in Nat, t < LinearWrite(i, o), NEW j \in Nat, j < Used(i, o)
  PROVE  (SlotOf(o) + j) % Size # SlotOf(i) + t
<1> DEFINE u == Used(i, o) + t
           a == SlotOf(o)
<1>1. Size \in Nat /\ Size > 0 /\ Used(i, o) \in Nat /\ a \in 0..(Size - 1)
  BY SizeAssumption, RingTypes DEF Slot
<1>2. LinearWrite(i, o) <= Size - Used(i, o) /\ LinearWrite(i, o) \in Nat
  BY LinearWriteIs, <1>1
<1>3. u \in Nat /\ j < u /\ u < Size
  BY <1>1, <1>2
<1>4. (a + u) % Size = SlotOf(i) + t
  <2>1. (SlotOf(o) + Used(i, o) + t) % Size = SlotOf(i) + t
    BY LinearSlots
  <2>2. a + u = SlotOf(o) + Used(i, o) + t
    BY <1>1
  <2> QED
    BY <2>1, <2>2
<1> HIDE DEF a, u
<1>5. /\ (a + u) % Size = IF a + u < Size THEN a + u ELSE a + u - Size
      /\ (a + j) % Size = IF a + j < Size THEN a + j ELSE a + j - Size
  BY <1>1, <1>3, ModNear
<1>6. (a + j) % Size # (a + u) % Size
  BY <1>1, <1>3, <1>5
<1> QED
  BY <1>4, <1>6 DEF a
\* The distance between two positions of the pool, from what they are positions of.
LEMMA SlotDistance ==
  ASSUME NEW x \in Int, NEW y \in Int
  PROVE  ((x % Size) - (y % Size)) % Size = (x - y) % Size
<1>1. Size \in Nat /\ Size > 0
  BY SizeAssumption
<1>2. /\ y = Size * (y \div Size) + (y % Size)
      /\ y \div Size \in Int /\ y % Size \in Int /\ x % Size \in Int
  BY <1>1, DivMod, ModRange, SMT
<1> DEFINE z == 0 - (y % Size)
<1>3. z \in Int /\ (x - y) \in Int
  BY <1>2
<1>4. ((x % Size) + z) % Size = (x + z) % Size
  BY <1>1, <1>3, ModOfSum
<1>5. x + z = (x - y) + Size * (y \div Size)
  <2> DEFINE r == y % Size
             m == Size * (y \div Size)
  <2>1. y = m + r /\ r \in Int /\ m \in Int /\ z = 0 - r
    BY <1>1, <1>2
  <2> HIDE DEF r, m, z
  <2>2. x + z = (x - y) + m
    BY <2>1
  <2> QED
    BY <2>2 DEF m
<1>6. ((x - y) + Size * (y \div Size)) % Size = (x - y) % Size
  BY <1>1, <1>2, <1>3, ModShift, Zenon
<1>7. (x % Size) - (y % Size) = (x % Size) + z
  BY <1>2
<1> QED
  BY <1>4, <1>5, <1>6, <1>7, Zenon

\* The slots behind `in' are those behind what the ring holds.
LEMMA SlotBehind ==
  ASSUME NEW i \in Counter, NEW o \in Counter, Used(i, o) <= Size, NEW t \in Nat
  PROVE  (SlotOf(i) + t) % Size = (SlotOf(o) + Used(i, o) + t) % Size
<1>1. Used(i, o) \in Nat
  BY RingTypes
<1>2. (SlotOf(Advance(o, Used(i, o))) + t) % Size = (SlotOf(o) + Used(i, o) + t) % Size
  BY <1>1, SlotAfter
<1> QED
  BY <1>2, InIsAhead

\* What a write of n units that fit leaves in the pool: its own units behind `in',
\* and those of the ring where they were.
LEMMA CopiedIn ==
  ASSUME NEW i \in Counter, NEW o \in Counter, NEW S, NEW p \in [Slot -> S],
         NEW s \in Seq(S), Used(i, o) + Len(s) <= Size
  PROVE  /\ \A t \in Nat : t < Len(s) =>
              CopyIn(p, SlotOf(i), s)[(SlotOf(i) + t) % Size] = s[t + 1]
         /\ \A j \in Nat : j < Used(i, o) =>
              CopyIn(p, SlotOf(i), s)[(SlotOf(o) + j) % Size] = p[(SlotOf(o) + j) % Size]
<1>1. /\ Size \in Nat /\ Size > 0 /\ Used(i, o) \in Nat /\ Len(s) \in Nat
      /\ SlotOf(i) \in Slot /\ SlotOf(o) \in Slot /\ SlotOf(i) \in Int /\ SlotOf(o) \in Int
  BY SizeAssumption, RingTypes, LenProperties DEF Slot
<1>2. \A x \in Int : x % Size \in Slot
  BY <1>1, ModRange DEF Slot
<1>3. SlotOf(i) % Size = SlotOf(i)
  <2>1. SlotOf(i) \in Int /\ 0 <= SlotOf(i) /\ SlotOf(i) < Size
    BY <1>1 DEF Slot
  <2> QED
    BY <1>1, <2>1, ModNear, Zenon
<1>4. ASSUME NEW t \in Nat, t < Len(s)
      PROVE  CopyIn(p, SlotOf(i), s)[(SlotOf(i) + t) % Size] = s[t + 1]
  <2> DEFINE k == (SlotOf(i) + t) % Size
  <2>1. k \in Slot
    BY <1>1, <1>2
  <2>2. (k - SlotOf(i)) % Size = ((SlotOf(i) + t) - SlotOf(i)) % Size
    <3>1. SlotOf(i) + t \in Int
      BY <1>1
    <3>2. (((SlotOf(i) + t) % Size) - (SlotOf(i) % Size)) % Size
            = ((SlotOf(i) + t) - SlotOf(i)) % Size
      BY <1>1, <3>1, SlotDistance
    <3> QED
      BY <1>3, <3>2
  <2>3. ((SlotOf(i) + t) - SlotOf(i)) = t /\ t < Size
    BY <1>1, <1>4
  <2>4. t % Size = t
    BY <1>1, <2>3, ModNear
  <2>5. (k - SlotOf(i)) % Size = t
    BY <2>2, <2>3, <2>4
  <2> HIDE DEF k
  <2> QED
    BY <1>4, <2>1, <2>5 DEF CopyIn, k
<1>5. ASSUME NEW j \in Nat, j < Used(i, o)
      PROVE  CopyIn(p, SlotOf(i), s)[(SlotOf(o) + j) % Size] = p[(SlotOf(o) + j) % Size]
  <2> DEFINE k == (SlotOf(o) + j) % Size
             u == Used(i, o)
  <2>1. k \in Slot
    BY <1>1, <1>2
  <2>2. SlotOf(i) = (SlotOf(o) + u) % Size
    <3>1. u <= Size
      BY <1>1
    <3>2. (SlotOf(i) + 0) % Size = (SlotOf(o) + u + 0) % Size
      BY <3>1, SlotBehind
    <3>3. SlotOf(i) + 0 = SlotOf(i) /\ SlotOf(o) + u + 0 = SlotOf(o) + u
      BY <1>1
    <3> QED
      BY <1>3, <3>2, <3>3
  <2>3. (k - SlotOf(i)) % Size = ((SlotOf(o) + j) - (SlotOf(o) + u)) % Size
    <3>1. SlotOf(o) + j \in Int /\ SlotOf(o) + u \in Int
      BY <1>1
    <3>2. (((SlotOf(o) + j) % Size) - ((SlotOf(o) + u) % Size)) % Size
            = ((SlotOf(o) + j) - (SlotOf(o) + u)) % Size
      BY <3>1, SlotDistance
    <3> QED
      BY <2>2, <3>2
  <2>4. (SlotOf(o) + j) - (SlotOf(o) + u) = j - u /\ j - u \in Int /\ j - u < 0 /\ j - u >= -Size
    BY <1>1, <1>5
  <2>5. (j - u) % Size = (j - u) + Size
    <3>1. 0 - Size <= j - u
      BY <1>1, <2>4
    <3> DEFINE d == j - u
    <3>2. d \in Int /\ 0 - Size <= d /\ d < 0
      BY <2>4, <3>1
    <3> HIDE DEF d
    <3>3. d % Size = d + Size
      BY <1>1, <3>2, ModNear
    <3> QED
      BY <3>3 DEF d
  <2>6. ~((k - SlotOf(i)) % Size < Len(s))
    BY <1>1, <1>5, <2>3, <2>4, <2>5
  <2> HIDE DEF k
  <2> QED
    BY <2>1, <2>6 DEF CopyIn, k
<1> QED
  BY <1>4, <1>5
-----------------------------------------------------------------------------
(***************************************************************************)
(* Sequences: the units 1 to n, prefixes, and concatenation.               *)
(***************************************************************************)
UpTo(n) == [i \in 1..n |-> i]

LEMMA UpToIsSeq ==
  ASSUME NEW n \in Nat
  PROVE  UpTo(n) \in Seq(Nat) /\ Len(UpTo(n)) = n /\ \A k \in 1..n : UpTo(n)[k] = k
<1>1. UpTo(n) \in [1..n -> Nat]
  BY DEF UpTo
<1>2. UpTo(n) \in Seq(Nat) /\ Len(UpTo(n)) = n
  BY <1>1, FunIsSeq
<1> QED
  BY <1>2 DEF UpTo

\* A sequence that agrees with a longer one is the beginning of it.
LEMMA SamePrefix ==
  ASSUME NEW S, NEW s \in Seq(S), NEW t \in Seq(S), Len(s) <= Len(t),
         \A k \in 1..Len(s) : s[k] = t[k]
  PROVE  SubSeq(s, 1, Len(s)) = SubSeq(t, 1, Len(s))
<1>1. Len(s) \in Nat /\ Len(t) \in Nat
  BY LenProperties
<1>2. SubSeq(s, 1, Len(s)) = s
  BY SubSeqFull
<1> DEFINE u == SubSeq(t, 1, Len(s))
<1>3. u \in Seq(S) /\ Len(u) = Len(s) /\ \A k \in 1..Len(s) : u[k] = t[k]
  <2>1. \A i \in 1..Len(s) : t[i] \in S
    BY <1>1, LenProperties
  <2>2. u = [i \in 1..Len(s) |-> t[i]]
    BY <1>1
  <2>3. u \in [1..Len(s) -> S]
    BY <2>1, <2>2
  <2> QED
    BY <1>1, <2>2, <2>3, FunIsSeq
<1>4. u = s
  BY <1>1, <1>3, SeqEqual
<1> QED
  BY <1>2, <1>4

LEMMA Longer ==
  ASSUME NEW S, NEW s \in Seq(S), NEW c \in Seq(S)
  PROVE  /\ Len(s \o c) = Len(s) + Len(c)
         /\ \A k \in 1..Len(s) : (s \o c)[k] = s[k]
<1>1. Len(s) \in Nat /\ Len(c) \in Nat
  BY LenProperties
<1>2. /\ Len(s \o c) = Len(s) + Len(c)
      /\ \A i \in 1..Len(s) + Len(c) :
            (s \o c)[i] = IF i <= Len(s) THEN s[i] ELSE c[i - Len(s)]
  BY ConcatProperties
<1> QED
  BY <1>1, <1>2
=============================================================================
