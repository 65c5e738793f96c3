----------------------------- MODULE WordsProofs -----------------------------
(***************************************************************************)
(* What the helpers of Words and the sequences of JtagSequences do to the  *)
(* bits of a buffer, for every position, length and number of transfers.   *)
(* Most are loops that update the buffer once a turn: what holds after the *)
(* last turn is shown by induction over the set of the turns after which   *)
(* it holds.                                                               *)
(***************************************************************************)
EXTENDS JtagSequences, WellFoundedInduction, TLAPS

-----------------------------------------------------------------------------
(***************************************************************************)
(* Induction over a set of numbers, and what a loop leaves behind.         *)
(***************************************************************************)
\* A set that has 0, and with each number the next, has them all.
LEMMA SetInduction ==
  ASSUME NEW S, 0 \in S, \A k \in Nat : k \in S => k + 1 \in S
  PROVE  Nat \subseteq S
<1> DEFINE T == Nat \ S
<1> SUFFICES ASSUME T # {} PROVE FALSE
  OBVIOUS
<1>1. T \subseteq Nat /\ T # {}
  OBVIOUS
<1> HIDE DEF T
<1>2. PICK x \in T : \A y \in T : ~(<<y, x>> \in OpToRel(<, Nat))
  BY <1>1, NatLessThanWellFounded, WFMin, Zenon
<1>3. x \in Nat /\ x \notin S /\ x # 0
  BY DEF T
<1>4. x - 1 \in Nat /\ x - 1 < x /\ (x - 1) + 1 = x
  BY <1>3
<1>5. x - 1 \in T
  BY <1>3, <1>4 DEF T
<1>6. <<x - 1, x>> \in OpToRel(<, Nat)
  BY <1>3, <1>4, Zenon DEF OpToRel
<1> QED BY <1>2, <1>5, <1>6, Zenon

\* The same up to a bound.
LEMMA UpTo ==
  ASSUME NEW n \in Nat, NEW S, 0 \in S, \A k \in Nat : k < n /\ k \in S => k + 1 \in S
  PROVE  \A k \in 0..n : k \in S
<1> DEFINE P == {k \in Nat : k <= n => k \in S}
<1>1. 0 \in P
  OBVIOUS
<1>2. \A k \in Nat : k \in P => k + 1 \in P
  OBVIOUS
<1>3. Nat \subseteq P
  <2> HIDE DEF P
  <2> QED BY <1>1, <1>2, SetInduction
<1> QED BY <1>3

\* A function that makes a buffer of a buffer, for each of n turns of a loop, and the
\* buffers before and after each.
BufferStep(st, n) == \A x \in SUBSET Nat, k \in 0..(n - 1) : st[x][k] \in SUBSET Nat
IsRun(g, n, buf, st) ==
  /\ g \in [0..n -> SUBSET Nat] /\ g[0] = buf
  /\ \A k \in 0..(n - 1) : g[k + 1] = st[g[k]][k]

\* A loop has such buffers.
LEMMA LoopRuns ==
  ASSUME NEW n \in Nat, NEW buf \in SUBSET Nat, NEW st, BufferStep(st, n)
  PROVE  \E g : IsRun(g, n, buf, st)
<1> DEFINE T == SUBSET Nat
<1>0. buf \in T /\ \A x \in T, k \in 0..(n - 1) : st[x][k] \in T
  BY DEF BufferStep
<1> HIDE DEF T
<1> DEFINE Good(m, g) == /\ g \in [0..m -> T] /\ g[0] = buf
                         /\ \A k \in 0..(m - 1) : g[k + 1] = st[g[k]][k]
           S == {m \in Nat : \E g : Good(m, g)}
<1>1. 0 \in S
  <2>1. Good(0, [k \in 0..0 |-> buf])
    BY <1>0
  <2> QED BY <2>1
<1>2. ASSUME NEW m \in Nat, m < n, m \in S PROVE m + 1 \in S
  <2>1. PICK g : Good(m, g)
    BY <1>2
  <2> DEFINE x == st[g[m]][m]
             f == [k \in 0..(m + 1) |-> IF k = m + 1 THEN x ELSE g[k]]
  <2>2. x \in T
    BY <1>0, <1>2, <2>1
  <2> HIDE DEF x
  <2>3. f \in [0..(m + 1) -> T] /\ f[0] = buf
    BY <2>1, <2>2
  <2>4. ASSUME NEW k \in 0..((m + 1) - 1) PROVE f[k + 1] = st[f[k]][k]
    <3>1. CASE k = m
      <4>1. f[k + 1] = x /\ f[k] = g[m]
        BY <3>1
      <4> QED BY <3>1, <4>1 DEF x
    <3>2. CASE k < m
      <4>1. f[k + 1] = g[k + 1] /\ f[k] = g[k]
        BY <3>2
      <4> HIDE DEF f
      <4> QED BY <2>1, <3>2, <4>1
    <3> QED BY <3>1, <3>2
  <2> HIDE DEF f
  <2> QED BY <2>3, <2>4
<1>3. n \in S
  <2> HIDE DEF S
  <2>1. \A k \in 0..n : k \in S
    BY <1>1, <1>2, UpTo
  <2> QED BY <2>1
<1> QED BY <1>3 DEF T, IsRun

LEMMA ProductNat == \A a, b \in Nat : a * b \in Nat
  OBVIOUS

\* Instances lie apart.
LEMMA Apart ==
  ASSUME NEW i \in Nat, NEW k \in Nat, NEW bits \in Nat, i < k
  PROVE  i * bits \in Nat /\ k * bits \in Nat /\ i * bits + bits <= k * bits
<1>1. (i + 1) * bits = i * bits + bits /\ i * bits \in Nat
  BY ProductNat
<1>2. k * bits = (i + 1) * bits + (k - (i + 1)) * bits /\ (k - (i + 1)) * bits \in Nat /\ k * bits \in Nat
  BY ProductNat
<1> QED BY <1>1, <1>2

LEMMA ProductPositive == \A a, b \in Nat \ {0} : a * b >= 1
  OBVIOUS
-----------------------------------------------------------------------------
(***************************************************************************)
(* What the helpers do, bit by bit.                                        *)
(***************************************************************************)
\* A word or-ed into the buffer, and a word assigned.
LEMMA OrIntoBit ==
  ASSUME NEW buf, NEW i \in Nat, NEW word \in SUBSET Bits(W), NEW p \in Nat
  PROVE  p \in OrInto(buf, i, word) <=> p \in buf \/ (p \div W = i /\ p - i * W \in word)
<1>1. \A b \in Bits(W) : i * W + b \in Nat /\ (i * W + b) \div W = i /\ (i * W + b) - i * W = b
  BY DEF Bits, W
<1>2. p \div W = i => p - i * W \in Bits(W) /\ i * W + (p - i * W) = p
  BY DEF Bits, W
<1>3. p \in OrInto(buf, i, word)
        <=> (p \in buf /\ p \div W # i) \/ \E b \in Word(buf, i) \cup word : p = i * W + b
  BY DEF OrInto, Assign
<1>4. ASSUME NEW b \in Word(buf, i) \cup word, p = i * W + b
      PROVE  p \in buf \/ (p \div W = i /\ p - i * W \in word)
  BY <1>1, <1>4 DEF Word
<1>5. ASSUME p \in buf, p \div W = i
      PROVE  \E b \in Word(buf, i) \cup word : p = i * W + b
  <2>1. p - i * W \in Word(buf, i)
    BY <1>2, <1>5 DEF Word
  <2> QED BY <1>2, <1>5, <2>1
<1>6. ASSUME p \div W = i, p - i * W \in word
      PROVE  \E b \in Word(buf, i) \cup word : p = i * W + b
  BY <1>2, <1>6
<1> QED BY <1>3, <1>4, <1>5, <1>6, Zenon

LEMMA AssignBit ==
  ASSUME NEW buf, NEW i \in Nat, NEW word \in SUBSET Bits(W), NEW p \in Nat
  PROVE  p \in Assign(buf, i, word)
           <=> IF p \div W = i THEN p - i * W \in word ELSE p \in buf
<1>1. \A b \in Bits(W) : i * W + b \in Nat /\ (i * W + b) \div W = i /\ (i * W + b) - i * W = b
  BY DEF Bits, W
<1>2. p \div W = i => p - i * W \in Bits(W) /\ i * W + (p - i * W) = p
  BY DEF Bits, W
<1>3. p \in Assign(buf, i, word)
        <=> (p \in buf /\ p \div W # i) \/ \E b \in word : p = i * W + b
  BY DEF Assign
<1>4. ASSUME NEW b \in word, p = i * W + b PROVE p \div W = i /\ p - i * W \in word
  BY <1>1, <1>4
<1>5. ASSUME p \div W = i, p - i * W \in word PROVE \E b \in word : p = i * W + b
  BY <1>2, <1>5
<1> QED BY <1>3, <1>4, <1>5, Zenon

\* Both leave a buffer of bits.
LEMMA OrIntoType ==
  ASSUME NEW buf \in SUBSET Nat, NEW i \in Nat, NEW word \in SUBSET Bits(W)
  PROVE  OrInto(buf, i, word) \in SUBSET Nat /\ Assign(buf, i, word) \in SUBSET Nat
<1>1. \A b \in Bits(W) : i * W + b \in Nat
  BY DEF Bits, W
<1>2. Word(buf, i) \in SUBSET Bits(W)
  BY DEF Word
<1> QED BY <1>1, <1>2 DEF OrInto, Assign

LEMMA ShiftType ==
  ASSUME NEW word, NEW n
  PROVE  Shl(word, n) \in SUBSET Bits(W) /\ Shr(word, n) \in SUBSET Bits(W)
  BY DEF Shl, Shr

\* append_bits ors the field into the buffer, behind shift bits.
LEMMA AppendBitsBit ==
  ASSUME NEW buf \in SUBSET Nat, NEW shift \in Nat, NEW field, NEW bits \in 0..W
  PROVE  /\ AppendBits(buf, shift, field, bits) \in SUBSET Nat
         /\ \A p \in Nat : p \in AppendBits(buf, shift, field, bits)
                             <=> p \in buf \/ p - shift \in field \cap Bits(bits)
<1> DEFINE i == shift \div W
           s == shift % W
           masked == field \cap Bits(bits)
           low == OrInto(buf, i, Shl(masked, s))
<1>1. i \in Nat /\ s \in 0..31 /\ shift = i * 32 + s /\ bits \in 0..32
  BY DEF W
<1>2. /\ Shl(masked, s) \in SUBSET Bits(W) /\ Shr(masked, W - s) \in SUBSET Bits(W)
      /\ i \in Nat /\ i + 1 \in Nat
  BY <1>1, ShiftType
<1>3. AppendBits(buf, shift, field, bits) =
        IF s < W - bits THEN low ELSE OrInto(low, i + 1, Shr(masked, W - s))
  BY DEF AppendBits
<1>4. \A m \in masked : m \in 0..(bits - 1)
  BY DEF Bits
<1> HIDE DEF i, s, masked
<1>5. low \in SUBSET Nat
  BY <1>2, OrIntoType
<1>6. \A p \in Nat : p \in low <=> p \in buf \/ (p \div W = i /\ p - i * W \in Shl(masked, s))
  BY <1>2, OrIntoBit
<1> HIDE DEF low
<1>7. AppendBits(buf, shift, field, bits) \in SUBSET Nat
  BY <1>2, <1>3, <1>5, OrIntoType
<1>8. ASSUME NEW p \in Nat
      PROVE  p \in AppendBits(buf, shift, field, bits) <=> p \in buf \/ p - shift \in masked
  <2>1. p \in low <=> p \in buf \/ (p \div W = i /\ p - shift \in masked)
    <3>1. p \div W = i =>
            /\ p - i * W \in Bits(W)
            /\ (p - i * W) - s = p - shift
      BY <1>1 DEF Bits, W
    <3> QED BY <1>6, <3>1, Zenon DEF Shl
  <2>2. CASE s < W - bits
    <3>1. p - shift \in masked => p \div W = i
      BY <1>1, <1>4, <2>2 DEF W
    <3> QED BY <1>3, <2>1, <2>2, <3>1
  <2>3. CASE ~(s < W - bits)
    <3>1. p \in AppendBits(buf, shift, field, bits)
            <=> p \in low \/ (p \div W = i + 1 /\ p - (i + 1) * W \in Shr(masked, W - s))
      BY <1>2, <1>3, <2>3, OrIntoBit
    <3>2. p \div W = i + 1 =>
            /\ p - (i + 1) * W \in Bits(W)
            /\ (p - (i + 1) * W) + (W - s) = p - shift
      BY <1>1 DEF Bits, W
    <3>3. p - shift \in masked => p \div W = i \/ p \div W = i + 1
      BY <1>1, <1>4 DEF W
    <3>4. p \div W = i + 1 => (p - (i + 1) * W \in Shr(masked, W - s) <=> p - shift \in masked)
      BY <3>2, Zenon DEF Shr
    <3> QED BY <2>1, <3>1, <3>3, <3>4, Zenon
  <2> QED BY <2>2, <2>3
<1> QED BY <1>7, <1>8 DEF masked

\* append_dword puts a word into room that is still clear.
LEMMA AppendDwordBit ==
  ASSUME NEW buf \in SUBSET Nat, NEW shift \in Nat, NEW field \in SUBSET Bits(W)
  PROVE  /\ AppendDword(buf, shift, field) \in SUBSET Nat
         /\ (\A p \in buf : ~(shift <= p /\ p < shift + W)) =>
              \A p \in Nat : p \in AppendDword(buf, shift, field) <=> p \in buf \/ p - shift \in field
<1> DEFINE i == shift \div W
           s == shift % W
           low == OrInto(buf, i, Shl(field, s))
<1>1. i \in Nat /\ s \in 0..31 /\ shift = i * 32 + s
  BY DEF W
<1>2. /\ Shl(field, s) \in SUBSET Bits(W) /\ Shr(field, W - s) \in SUBSET Bits(W)
      /\ i \in Nat /\ i + 1 \in Nat
  BY <1>1, ShiftType
<1>3. AppendDword(buf, shift, field) =
        IF s = 0 THEN Assign(buf, i, field) ELSE OrInto(low, i + 1, Shr(field, W - s))
  BY DEF AppendDword
<1>4. \A m \in field : m \in 0..31
  BY DEF Bits, W
<1> HIDE DEF i, s
<1>5. low \in SUBSET Nat
  BY <1>2, OrIntoType
<1>6. \A p \in Nat : p \in low <=> p \in buf \/ (p \div W = i /\ p - i * W \in Shl(field, s))
  BY <1>2, OrIntoBit
<1> HIDE DEF low
<1>7. AppendDword(buf, shift, field) \in SUBSET Nat
  <2>1. Assign(buf, i, field) \in SUBSET Nat
    BY <1>2, OrIntoType
  <2>2. OrInto(low, i + 1, Shr(field, W - s)) \in SUBSET Nat
    BY <1>2, <1>5, OrIntoType
  <2> QED BY <1>3, <2>1, <2>2, Zenon
<1>8. ASSUME \A p \in buf : ~(shift <= p /\ p < shift + W), NEW p \in Nat
      PROVE  p \in AppendDword(buf, shift, field) <=> p \in buf \/ p - shift \in field
  <2>1. CASE s = 0
    <3>1. p \in AppendDword(buf, shift, field)
            <=> IF p \div W = i THEN p - i * W \in field ELSE p \in buf
      BY <1>2, <1>3, <2>1, AssignBit
    <3>2. p - i * W = p - shift /\ (p - shift \in field => p \div W = i)
      BY <1>1, <1>4, <2>1 DEF W
    <3>3. p \div W = i => p \notin buf
      BY <1>1, <1>8, <2>1 DEF W
    <3> QED BY <3>1, <3>2, <3>3
  <2>2. CASE s # 0
    <3>1. p \in AppendDword(buf, shift, field)
            <=> p \in low \/ (p \div W = i + 1 /\ p - (i + 1) * W \in Shr(field, W - s))
      BY <1>2, <1>3, <1>5, <2>2, OrIntoBit
    <3>2. p \div W = i + 1 =>
            /\ p - (i + 1) * W \in Bits(W)
            /\ (p - (i + 1) * W) + (W - s) = p - shift
      BY <1>1 DEF Bits, W
    <3>3. p \div W = i => p - i * W \in Bits(W) /\ (p - i * W) - s = p - shift
      BY <1>1 DEF Bits, W
    <3>4. p - shift \in field => p \div W = i \/ p \div W = i + 1
      BY <1>1, <1>4 DEF W
    <3>5. p \div W = i + 1 => (p - (i + 1) * W \in Shr(field, W - s) <=> p - shift \in field)
      BY <3>2, Zenon DEF Shr
    <3>6. p \div W = i => (p - i * W \in Shl(field, s) <=> p - shift \in field)
      BY <3>3, Zenon DEF Shl
    <3> QED BY <1>6, <3>1, <3>4, <3>5, <3>6, Zenon
  <2> QED BY <2>1, <2>2
<1> QED BY <1>7, <1>8

\* replace_dword puts a word in the place of what is there.
LEMMA ReplaceDwordBit ==
  ASSUME NEW buf \in SUBSET Nat, NEW shift \in Nat, NEW field \in SUBSET Bits(W)
  PROVE  /\ ReplaceDword(buf, shift, field) \in SUBSET Nat
         /\ \A p \in Nat : p \in ReplaceDword(buf, shift, field)
              <=> IF shift <= p /\ p < shift + W THEN p - shift \in field ELSE p \in buf
<1> DEFINE i == shift \div W
           s == shift % W
           first == (Word(buf, i) \cap Bits(s)) \cup Shl(field, s)
           low == Assign(buf, i, first)
           second == (Word(buf, i + 1) \ Bits(s)) \cup Shr(field, W - s)
<1>1. i \in Nat /\ s \in 0..31 /\ shift = i * 32 + s
  BY DEF W
<1>2. first \in SUBSET Bits(W) /\ second \in SUBSET Bits(W) /\ i \in Nat /\ i + 1 \in Nat
  BY <1>1, ShiftType DEF Word
<1>3. ReplaceDword(buf, shift, field) =
        IF s = 0 THEN Assign(buf, i, field) ELSE Assign(low, i + 1, second)
  BY DEF ReplaceDword
<1>4. \A m \in field : m \in 0..31
  BY DEF Bits, W
<1>5. \A b : /\ b \in first <=> (b \in Word(buf, i) /\ b \in Bits(s)) \/ b \in Shl(field, s)
             /\ b \in second <=> (b \in Word(buf, i + 1) /\ b \notin Bits(s)) \/ b \in Shr(field, W - s)
  OBVIOUS
<1> HIDE DEF i, s, first, second
<1>6. low \in SUBSET Nat
  BY <1>2, OrIntoType
<1>7. \A p \in Nat : p \in low <=> IF p \div W = i THEN p - i * W \in first ELSE p \in buf
  BY <1>2, AssignBit
<1> HIDE DEF low
<1>8. ReplaceDword(buf, shift, field) \in SUBSET Nat
  <2>1. Assign(buf, i, field) \in SUBSET Nat
    BY <1>2, OrIntoType
  <2>2. Assign(low, i + 1, second) \in SUBSET Nat
    BY <1>2, <1>6, OrIntoType
  <2> QED BY <1>3, <2>1, <2>2, Zenon
<1>9. ASSUME NEW p \in Nat
      PROVE  p \in ReplaceDword(buf, shift, field)
               <=> IF shift <= p /\ p < shift + W THEN p - shift \in field ELSE p \in buf
  <2>1. CASE s = 0
    <3>1. p \in ReplaceDword(buf, shift, field)
            <=> IF p \div W = i THEN p - i * W \in field ELSE p \in buf
      BY <1>2, <1>3, <2>1, AssignBit
    <3>2. p - i * W = p - shift /\ (p \div W = i <=> shift <= p /\ p < shift + W)
      BY <1>1, <2>1 DEF W
    <3> QED BY <3>1, <3>2
  <2>2. CASE s # 0
    <3>1. p \in ReplaceDword(buf, shift, field)
            <=> IF p \div W = i + 1 THEN p - (i + 1) * W \in second ELSE p \in low
      BY <1>2, <1>3, <1>6, <2>2, AssignBit
    <3>2. CASE p \div W = i
      <4>1. /\ p - i * W \in Bits(W) /\ (p - i * W) - s = p - shift /\ i * W + (p - i * W) = p
            /\ (p - i * W \in Bits(s) <=> ~(shift <= p)) /\ p < shift + W
        BY <1>1, <3>2 DEF Bits, W
      <4>2. p - i * W \in Shl(field, s) <=> p - shift \in field
        BY <4>1, Zenon DEF Shl
      <4>3. p - i * W \in Word(buf, i) <=> p \in buf
        BY <4>1, Zenon DEF Word
      <4>4. p - shift \in field => shift <= p
        BY <1>1, <1>4
      <4>5. p \div W # i + 1
        BY <1>1, <3>2
      <4> QED BY <1>5, <1>7, <3>1, <3>2, <4>1, <4>2, <4>3, <4>4, <4>5, Zenon
    <3>3. CASE p \div W = i + 1
      <4>1. /\ p - (i + 1) * W \in Bits(W) /\ (p - (i + 1) * W) + (W - s) = p - shift
            /\ (i + 1) * W + (p - (i + 1) * W) = p
            /\ (p - (i + 1) * W \in Bits(s) <=> p < shift + W) /\ shift <= p
        BY <1>1, <3>3 DEF Bits, W
      <4>2. p - (i + 1) * W \in Shr(field, W - s) <=> p - shift \in field
        BY <4>1, Zenon DEF Shr
      <4>3. p - (i + 1) * W \in Word(buf, i + 1) <=> p \in buf
        BY <4>1, Zenon DEF Word
      <4>4. p - shift \in field => p < shift + W
        BY <1>1, <1>4 DEF W
      <4> QED BY <1>5, <3>1, <3>3, <4>1, <4>2, <4>3, <4>4, Zenon
    <3>4. CASE p \div W # i /\ p \div W # i + 1
      <4>1. ~(shift <= p /\ p < shift + W)
        BY <1>1, <3>4 DEF W
      <4> QED BY <1>7, <3>1, <3>4, <4>1
    <3> QED BY <3>2, <3>3, <3>4
  <2> QED BY <2>1, <2>2
<1> QED BY <1>8, <1>9

\* Fields that AppendAll can append.
AreFields(fields) ==
  /\ Len(fields) \in Nat
  /\ \A k \in 1..Len(fields) : fields[k][1] \in Nat /\ fields[k][3] \in 0..W

\* A buffer for each turn, from the empty one on.
LEMMA TurnsTyped ==
  ASSUME NEW n \in Nat, NEW after, DOMAIN after = 0..n, after = [k \in 0..n |-> after[k]],
         after[0] \in SUBSET Nat,
         \A k \in 0..(n - 1) : after[k] \in SUBSET Nat => after[k + 1] \in SUBSET Nat
  PROVE  after \in [0..n -> SUBSET Nat]
<1> DEFINE S == {k \in 0..n : after[k] \in SUBSET Nat}
<1>1. 0 \in S
  OBVIOUS
<1>2. ASSUME NEW k \in Nat, k < n, k \in S PROVE k + 1 \in S
  BY <1>2
<1>3. \A k \in 0..n : k \in S
  <2> HIDE DEF S
  <2> QED BY <1>1, <1>2, UpTo
<1> QED BY <1>3

\* The buffers before and after each field.
AppendRun(h, fields) ==
  /\ h \in [0..Len(fields) -> SUBSET Nat] /\ h[0] = {} /\ h[Len(fields)] = AppendAll(fields)
  /\ \A k \in 0..(Len(fields) - 1) :
       h[k + 1] = AppendBits(h[k], fields[k + 1][1], fields[k + 1][2], fields[k + 1][3])

LEMMA AppendAllRuns ==
  ASSUME NEW fields, AreFields(fields)
  PROVE  \E h : AppendRun(h, fields)
<1> DEFINE n == Len(fields)
           step(b, k) == AppendBits(b, fields[k + 1][1], fields[k + 1][2], fields[k + 1][3])
           Rec(g) == [k \in 0..n |-> IF k = 0 THEN {} ELSE UNION {step(b, k - 1) : b \in {g[k - 1]}}]
           after == CHOOSE g : g = Rec(g)
           st == [x \in SUBSET Nat |-> [k \in 0..(n - 1) |-> step(x, k)]]
<1>1. AppendAll(fields) = after[n]
  BY Zenon DEF AppendAll, Loop
<1>2. n \in Nat /\ {} \in SUBSET Nat
  BY DEF AreFields
<1>3. ASSUME NEW b \in SUBSET Nat, NEW k \in 0..(n - 1) PROVE step(b, k) \in SUBSET Nat
  <2>1. fields[k + 1][1] \in Nat /\ fields[k + 1][3] \in 0..W
    BY DEF AreFields
  <2> QED BY <2>1, AppendBitsBit
<1> HIDE DEF step, n
<1>4. \A x \in SUBSET Nat, k \in 0..(n - 1) : st[x][k] = step(x, k)
  OBVIOUS
<1> HIDE DEF st
<1>5. PICK h : IsRun(h, n, {}, st)
  <2>1. BufferStep(st, n)
    BY <1>3, <1>4, Zenon DEF BufferStep
  <2> QED BY <1>2, <2>1, LoopRuns
<1>6. h = Rec(h)
  <2>1. ASSUME NEW k \in 0..n PROVE h[k] = Rec(h)[k]
    <3>1. CASE k = 0
      BY <1>5, <3>1 DEF IsRun
    <3>2. CASE k # 0
      <4>1. k - 1 \in 0..(n - 1) /\ (k - 1) + 1 = k /\ h[k - 1] \in SUBSET Nat
        BY <1>2, <1>5, <3>2 DEF IsRun
      <4>2. h[k] = step(h[k - 1], k - 1)
        BY <1>4, <1>5, <4>1 DEF IsRun
      <4> QED BY <3>2, <4>2
    <3> QED BY <3>1, <3>2
  <2> QED BY <1>5, <2>1 DEF IsRun
<1> HIDE DEF Rec
<1>7. after = Rec(after)
  BY <1>6, Zenon
<1> HIDE DEF after
<1>8. after[0] = {} /\ DOMAIN after = 0..n /\ after = [k \in 0..n |-> after[k]]
  <2>1. /\ Rec(after)[0] = {} /\ DOMAIN Rec(after) = 0..n
        /\ Rec(after) = [k \in 0..n |-> Rec(after)[k]]
    BY <1>2 DEF Rec
  <2> QED BY <1>7, <2>1, Zenon
<1>9. \A k \in 0..(n - 1) : after[k + 1] = step(after[k], k)
  <2>1. ASSUME NEW k \in 0..(n - 1) PROVE Rec(after)[k + 1] = step(after[k], k)
    <3>1. (k + 1) - 1 = k /\ k + 1 # 0 /\ k + 1 \in 0..n
      BY <1>2
    <3>2. Rec(after)[k + 1] = UNION {step(b, k) : b \in {after[k]}}
      BY <3>1, Zenon DEF Rec
    <3> QED BY <3>2
  <2> QED BY <1>7, <2>1
<1>10. after \in [0..n -> SUBSET Nat]
  <2>1. \A k \in 0..(n - 1) : after[k] \in SUBSET Nat => after[k + 1] \in SUBSET Nat
    BY <1>3, <1>9
  <2> QED BY <1>2, <1>8, <2>1, TurnsTyped, Zenon
<1>11. AppendRun(after, fields)
  BY <1>1, <1>8, <1>9, <1>10 DEF step, n, AppendRun
<1> QED BY <1>11

\* AppendAll yields the bits of its fields and no others.
InField(p, field) == p - field[1] \in field[2] \cap Bits(field[3])
LEMMA AppendAllBit ==
  ASSUME NEW fields, AreFields(fields)
  PROVE  /\ AppendAll(fields) \in SUBSET Nat
         /\ \A p \in Nat : p \in AppendAll(fields) <=> \E k \in 1..Len(fields) : InField(p, fields[k])
<1>1. PICK h : AppendRun(h, fields)
  BY AppendAllRuns
<1> DEFINE n == Len(fields)
           Holds(k) == \A p \in Nat : p \in h[k] <=> \E i \in 1..k : InField(p, fields[i])
           S == {k \in 0..n : Holds(k)}
<1>2. n \in Nat
  BY DEF AreFields
<1>3. 0 \in S
  BY <1>1, <1>2 DEF AppendRun
<1>4. ASSUME NEW k \in Nat, k < n, k \in S PROVE k + 1 \in S
  <2>1. /\ h[k] \in SUBSET Nat /\ fields[k + 1][1] \in Nat /\ fields[k + 1][3] \in 0..W
        /\ h[k + 1] = AppendBits(h[k], fields[k + 1][1], fields[k + 1][2], fields[k + 1][3])
    BY <1>1, <1>2, <1>4 DEF AppendRun, AreFields
  <2>2. \A p \in Nat : p \in h[k + 1] <=> p \in h[k] \/ InField(p, fields[k + 1])
    <3>1. \A p \in Nat : p \in AppendBits(h[k], fields[k + 1][1], fields[k + 1][2], fields[k + 1][3])
            <=> p \in h[k] \/ p - fields[k + 1][1] \in fields[k + 1][2] \cap Bits(fields[k + 1][3])
      BY <2>1, AppendBitsBit
    <3> QED BY <2>1, <3>1, Zenon DEF InField
  <2>3. Holds(k)
    BY <1>4
  <2>4. ASSUME NEW p \in Nat PROVE p \in h[k + 1] <=> \E i \in 1..(k + 1) : InField(p, fields[i])
    <3>1. (\E i \in 1..(k + 1) : InField(p, fields[i]))
            <=> (\E i \in 1..k : InField(p, fields[i])) \/ InField(p, fields[k + 1])
      <4>1. \A i : i \in 1..(k + 1) <=> i \in 1..k \/ i = k + 1
        OBVIOUS
      <4> QED BY <4>1, Zenon
    <3> QED BY <2>2, <2>3, <3>1, Zenon
  <2>5. k + 1 \in 0..n
    BY <1>2, <1>4
  <2> QED BY <2>4, <2>5, Zenon
<1>5. n \in S
  <2> HIDE DEF S
  <2>1. \A k \in 0..n : k \in S
    BY <1>2, <1>3, <1>4, UpTo
  <2> QED BY <1>2, <2>1
<1> QED BY <1>1, <1>2, <1>5 DEF AppendRun

-----------------------------------------------------------------------------
(***************************************************************************)
(* The sequence of an IR or DR access.                                     *)
(***************************************************************************)
\* The words that the two ones of the end are in.
LEMMA AccessTms ==
  ASSUME NEW isir \in BOOLEAN, NEW len \in Nat, NEW p \in Nat,
         (Lead(isir) + len - 1) \div W = len \div W
  PROVE  p \in IrDrTms(isir, len)
           <=> p \in (IF isir THEN {1, 2} ELSE {1}) \cup {Lead(isir) + len - 1, Lead(isir) + len}
<1> DEFINE i == len \div W
           s == (Lead(isir) + len - 1) % W
           base == IF isir THEN {1, 2} ELSE {1}
           low == OrInto(base, i, Shl({0, 1}, s))
<1>1. /\ i \in Nat /\ s \in 0..31 /\ Lead(isir) \in {4, 5}
      /\ Lead(isir) + len - 1 = i * 32 + s
  BY DEF Lead, W
<1>2. Shl({0, 1}, s) \in SUBSET Bits(W) /\ Shr({0, 1}, W - s) \in SUBSET Bits(W)
  BY DEF Shl, Shr
<1>3. IrDrTms(isir, len) = IF s >= 30 THEN Assign(low, i + 1, Shr({0, 1}, W - s)) ELSE low
  BY DEF IrDrTms
<1> HIDE DEF i, s
<1>4. p \in low <=> p \in base \/ (p \div W = i /\ p - i * W \in Shl({0, 1}, s))
  BY <1>1, <1>2, OrIntoBit
<1> HIDE DEF low, base
<1>5. p \in low <=> p \in base \/ p = i * 32 + s \/ (p = i * 32 + s + 1 /\ s < 31)
  BY <1>1, <1>4 DEF Shl, Bits, W
<1>6. CASE s < 30
  BY <1>1, <1>3, <1>5, <1>6 DEF base
<1>7. CASE s >= 30
  <2>1. p \in IrDrTms(isir, len)
          <=> IF p \div W = i + 1 THEN p - (i + 1) * W \in Shr({0, 1}, W - s) ELSE p \in low
    BY <1>1, <1>2, <1>3, <1>7, AssignBit
  <2>2. p \div W = i + 1 =>
          (p - (i + 1) * W \in Shr({0, 1}, W - s) <=> s = 31 /\ p = i * 32 + 32)
    BY <1>1, <1>7 DEF Shr, Bits, W
  <2>3. p \div W = i + 1 => p \notin base /\ p # i * 32 + s
    BY <1>1 DEF base, W
  <2>4. p = i * 32 + s + 1 /\ s = 31 => p \div W = i + 1
    BY <1>1 DEF W
  <2>5. p \in IrDrTms(isir, len) <=> p \in base \/ p = i * 32 + s \/ p = i * 32 + s + 1
    <3>1. CASE p \div W = i + 1
      <4>1. p = i * 32 + s + 1 => s = 31
        BY <1>1, <1>7, <3>1 DEF W
      <4>2. s = 31 /\ p = i * 32 + 32 <=> p = i * 32 + s + 1
        BY <4>1, <1>1
      <4> QED BY <2>1, <2>2, <2>3, <3>1, <4>2
    <3>2. CASE p \div W # i + 1
      <4>1. p = i * 32 + s + 1 => s < 31
        BY <1>1, <2>4, <3>2
      <4> QED BY <1>5, <2>1, <3>2, <4>1
    <3> QED BY <3>1, <3>2
  <2> QED BY <1>1, <2>5 DEF base
<1> QED BY <1>1, <1>6, <1>7

\* Every bit of the data follows the walk to the shift state.
LEMMA AccessTdi ==
  ASSUME NEW isir \in BOOLEAN, NEW len \in Nat, NEW data \in SUBSET Bits(len), NEW k \in Bits(len)
  PROVE  Lead(isir) + k \in IrDrTdi(isir, len, data) <=> k \in data
<1> DEFINE l == Lead(isir)
<1>1. l \in {4, 5} /\ k \in Nat /\ k < len
  BY DEF Lead, Bits
<1> DEFINE part(i) == {i * W + b : b \in Shl(Word(data, i), l)}
                        \cup {(i + 1) * W + b : b \in Shr(Word(data, i), W - l)}
<1>2. l + k \in IrDrTdi(isir, len, data) <=> \E i \in Bits(Dwords(len)) : l + k \in part(i)
  BY DEF IrDrTdi
<1>3. ASSUME NEW i \in Bits(Dwords(len)), l + k \in part(i) PROVE k \in data
  <2>1. i \in Nat
    BY DEF Bits, Dwords, W
  <2>2. CASE \E b \in Shl(Word(data, i), l) : l + k = i * W + b
    <3>1. PICK b \in Bits(W) : b - l \in Word(data, i) /\ l + k = i * W + b
      BY <2>2 DEF Shl
    <3>2. i * W + (b - l) \in data
      BY <3>1 DEF Word
    <3>3. i * W + (b - l) = k
      BY <3>1, <2>1, <1>1 DEF Bits, W
    <3> QED BY <3>2, <3>3
  <2>3. CASE \E b \in Shr(Word(data, i), W - l) : l + k = (i + 1) * W + b
    <3>1. PICK b \in Bits(W) : b + (W - l) \in Word(data, i) /\ l + k = (i + 1) * W + b
      BY <2>3 DEF Shr
    <3>2. i * W + (b + (W - l)) \in data
      BY <3>1 DEF Word
    <3>3. i * W + (b + (W - l)) = k
      BY <3>1, <2>1, <1>1 DEF Bits, W
    <3> QED BY <3>2, <3>3
  <2> QED BY <1>3, <2>2, <2>3
<1>4. ASSUME k \in data PROVE \E i \in Bits(Dwords(len)) : l + k \in part(i)
  <2> DEFINE i == k \div W
             m == k % W
  <2>1. i \in Nat /\ m \in Bits(W) /\ k = i * W + m /\ i \in Bits(Dwords(len))
    BY <1>1 DEF Bits, Dwords, W
  <2> HIDE DEF i, m
  <2>2. m \in Word(data, i)
    BY <1>4, <2>1 DEF Word
  <2>3. CASE m + l < W
    <3>1. m + l \in Shl(Word(data, i), l)
      <4>1. m + l \in Bits(W) /\ (m + l) - l = m
        BY <2>1, <2>3, <1>1 DEF Bits, W
      <4> QED BY <2>2, <4>1 DEF Shl
    <3>2. l + k = i * W + (m + l)
      BY <2>1, <1>1 DEF Bits, W
    <3> QED BY <2>1, <3>1, <3>2
  <2>4. CASE m + l >= W
    <3>1. m + l - W \in Shr(Word(data, i), W - l)
      <4>1. m + l - W \in Bits(W) /\ (m + l - W) + (W - l) = m
        BY <2>1, <2>4, <1>1 DEF Bits, W
      <4> QED BY <2>2, <4>1 DEF Shr
    <3>2. l + k = (i + 1) * W + (m + l - W)
      BY <2>1, <1>1 DEF Bits, W
    <3> QED BY <2>1, <3>1, <3>2
  <2> QED BY <2>1, <2>3, <2>4, <1>1 DEF Bits, W
<1> HIDE DEF l, part
<1> QED BY <1>2, <1>3, <1>4 DEF l

-----------------------------------------------------------------------------
(***************************************************************************)
(* The loops of the fast commands.                                         *)
(***************************************************************************)
\* The dwords of the first instance put behind `at', one by one.
CopyRun(h, buf, at, full, words) ==
  /\ h \in [0..full -> SUBSET Nat] /\ h[0] = buf /\ h[full] = words
  /\ \A k \in 0..(full - 1) : h[k + 1] = AppendDword(h[k], at + k * W, Word(h[k], k))
CopiedWords(buf, at, full) ==
  Loop(LAMBDA b, j : AppendDword(b, at + j * W, Word(b, j)), buf, full)

LEMMA CopyRuns ==
  ASSUME NEW buf \in SUBSET Nat, NEW at \in Nat, NEW full \in Nat
  PROVE  \E h : CopyRun(h, buf, at, full, CopiedWords(buf, at, full))
<1> DEFINE n == full
           step(b, k) == AppendDword(b, at + k * W, Word(b, k))
           Rec(g) == [k \in 0..n |-> IF k = 0 THEN buf ELSE UNION {step(b, k - 1) : b \in {g[k - 1]}}]
           after == CHOOSE g : g = Rec(g)
           st == [x \in SUBSET Nat |-> [k \in 0..(n - 1) |-> step(x, k)]]
<1>1. CopiedWords(buf, at, full) = after[n]
  BY Zenon DEF CopiedWords, Loop
<1>2. n \in Nat /\ buf \in SUBSET Nat
  OBVIOUS
<1>3. ASSUME NEW b \in SUBSET Nat, NEW k \in 0..(n - 1) PROVE step(b, k) \in SUBSET Nat
  <2>1. at + k * W \in Nat /\ Word(b, k) \in SUBSET Bits(W)
    BY DEF W, Word
  <2> QED BY <2>1, AppendDwordBit
<1> HIDE DEF step, n
<1>4. \A x \in SUBSET Nat, k \in 0..(n - 1) : st[x][k] = step(x, k)
  OBVIOUS
<1> HIDE DEF st
<1>5. PICK h : IsRun(h, n, buf, st)
  <2>1. BufferStep(st, n)
    BY <1>3, <1>4, Zenon DEF BufferStep
  <2> QED BY <1>2, <2>1, LoopRuns
<1>6. h = Rec(h)
  <2>1. ASSUME NEW k \in 0..n PROVE h[k] = Rec(h)[k]
    <3>1. CASE k = 0
      BY <1>5, <3>1 DEF IsRun
    <3>2. CASE k # 0
      <4>1. k - 1 \in 0..(n - 1) /\ (k - 1) + 1 = k /\ h[k - 1] \in SUBSET Nat
        BY <1>2, <1>5, <3>2 DEF IsRun
      <4>2. h[k] = step(h[k - 1], k - 1)
        BY <1>4, <1>5, <4>1 DEF IsRun
      <4> QED BY <3>2, <4>2
    <3> QED BY <3>1, <3>2
  <2> QED BY <1>5, <2>1 DEF IsRun
<1> HIDE DEF Rec
<1>7. after = Rec(after)
  BY <1>6, Zenon
<1> HIDE DEF after
<1>8. after[0] = buf /\ DOMAIN after = 0..n /\ after = [k \in 0..n |-> after[k]]
  <2>1. /\ Rec(after)[0] = buf /\ DOMAIN Rec(after) = 0..n
        /\ Rec(after) = [k \in 0..n |-> Rec(after)[k]]
    BY <1>2 DEF Rec
  <2> QED BY <1>7, <2>1, Zenon
<1>9. \A k \in 0..(n - 1) : after[k + 1] = step(after[k], k)
  <2>1. ASSUME NEW k \in 0..(n - 1) PROVE Rec(after)[k + 1] = step(after[k], k)
    <3>1. (k + 1) - 1 = k /\ k + 1 # 0 /\ k + 1 \in 0..n
      BY <1>2
    <3>2. Rec(after)[k + 1] = UNION {step(b, k) : b \in {after[k]}}
      BY <3>1, Zenon DEF Rec
    <3> QED BY <3>2
  <2> QED BY <1>7, <2>1
<1>10. after \in [0..n -> SUBSET Nat]
  <2>1. \A k \in 0..(n - 1) : after[k] \in SUBSET Nat => after[k + 1] \in SUBSET Nat
    BY <1>3, <1>9
  <2> QED BY <1>2, <1>8, <2>1, TurnsTyped, Zenon
<1>11. CopyRun(after, buf, at, full, CopiedWords(buf, at, full))
  BY <1>1, <1>8, <1>9, <1>10 DEF step, n, CopyRun
<1> QED BY <1>11

\* The first bits of the buffer, once more at `at'.
LEMMA CopiedWordsBit ==
  ASSUME NEW buf \in SUBSET Nat, NEW at \in Nat, NEW full \in Nat,
         full * W <= at, buf \subseteq Bits(at)
  PROVE  \A p \in Nat : p \in CopiedWords(buf, at, full)
           <=> p \in buf \/ (p - at \in buf /\ p - at < full * W)
<1>1. PICK h : CopyRun(h, buf, at, full, CopiedWords(buf, at, full))
  BY CopyRuns
<1> DEFINE Holds(k) == \A p \in Nat : p \in h[k] <=> p \in buf \/ (p - at \in buf /\ p - at < k * W)
           S == {k \in 0..full : Holds(k)}
<1>2. \A x \in buf : x \in Nat /\ x < at
  BY DEF Bits
<1>3. 0 \in S
  <2>1. \A p \in Nat : p - at \in buf => ~(p - at < 0 * W)
    BY <1>2 DEF W
  <2>2. Holds(0)
    BY <1>1, <2>1 DEF CopyRun
  <2> QED BY <2>2
<1>4. ASSUME NEW k \in Nat, k < full, k \in S PROVE k + 1 \in S
  <2> DEFINE shift == at + k * W
             field == Word(h[k], k)
  <2>1. /\ h[k] \in SUBSET Nat /\ shift \in Nat /\ field \in SUBSET Bits(W)
        /\ h[k + 1] = AppendDword(h[k], shift, field)
    <3>1. k \in 0..(full - 1) /\ k \in 0..full /\ shift \in Nat
      BY <1>4 DEF W
    <3>2. field \in SUBSET Bits(W)
      BY DEF Word
    <3>3. h[k] \in SUBSET Nat /\ h[k + 1] = AppendDword(h[k], shift, field)
      BY <1>1, <3>1, Zenon DEF CopyRun
    <3> QED BY <3>1, <3>2, <3>3
  <2>2. Holds(k)
    BY <1>4
  <2>3. \A p \in h[k] : ~(shift <= p /\ p < shift + W)
    BY <1>2, <2>1, <2>2 DEF W
  <2>4. \A p \in Nat : p \in h[k + 1] <=> p \in h[k] \/ p - shift \in field
    <3> HIDE DEF shift, field
    <3> QED BY <2>1, <2>3, AppendDwordBit
  <2>5. ASSUME NEW p \in Nat
        PROVE  p \in h[k + 1] <=> p \in buf \/ (p - at \in buf /\ p - at < (k + 1) * W)
    <3>1. k * W + (p - shift) = p - at
      BY DEF W
    <3>2. p - shift \in field <=> p - shift \in Bits(W) /\ p - at \in h[k]
      BY <3>1, Zenon DEF field, Word
    <3>3. p - shift \in Bits(W) <=> k * W <= p - at /\ p - at < (k + 1) * W
      BY DEF Bits, W
    <3>4. k * W <= p - at /\ p - at < (k + 1) * W =>
            p - at \in Nat /\ ~((p - at) - at \in buf)
      BY <1>2, <1>4 DEF W
    <3>5. k * W <= p - at /\ p - at < (k + 1) * W => (p - at \in h[k] <=> p - at \in buf)
      BY <2>2, <3>4, Zenon
    <3>6. p - at \in buf => (p - at < (k + 1) * W
                               <=> p - at < k * W \/ (k * W <= p - at /\ p - at < (k + 1) * W))
      BY <1>2 DEF W
    <3>7. p \in h[k] <=> p \in buf \/ (p - at \in buf /\ p - at < k * W)
      BY <2>2
    <3> QED BY <2>4, <3>2, <3>3, <3>5, <3>6, <3>7, Zenon
  <2>6. k + 1 \in 0..full
    BY <1>4
  <2> QED BY <2>5, <2>6, Zenon
<1>5. \A k \in 0..full : k \in S
  <2> HIDE DEF S
  <2> QED BY <1>3, <1>4, UpTo
<1> QED BY <1>1, <1>5 DEF CopyRun

\* One further instance.
LEMMA CopyToBit ==
  ASSUME NEW buf \in SUBSET Nat, NEW at \in Nat, NEW bits \in Nat
  PROVE  /\ CopyTo(buf, at, bits) \in SUBSET Nat
         /\ bits <= at /\ buf \subseteq Bits(at) =>
              \A p \in Nat : p \in CopyTo(buf, at, bits)
                               <=> p \in buf \/ (p - at \in buf /\ p - at < bits)
<1> DEFINE full == bits \div W
           rest == bits % W
           words == CopiedWords(buf, at, full)
           shift == at + full * W
           field == Word(words, full)
<1>1. full \in Nat /\ rest \in 0..31 /\ bits = full * 32 + rest /\ shift \in Nat /\ rest \in 0..W
  BY DEF W
<1>2. CopyTo(buf, at, bits) = IF rest = 0 THEN words ELSE AppendBits(words, shift, field, rest)
  BY DEF CopyTo, CopiedWords
<1>3. words \in SUBSET Nat
  <2> HIDE DEF full
  <2>1. PICK h : CopyRun(h, buf, at, full, words)
    BY <1>1, CopyRuns
  <2> QED BY <1>1, <2>1 DEF CopyRun
<1> HIDE DEF shift, field, rest, words
<1>4. /\ AppendBits(words, shift, field, rest) \in SUBSET Nat
      /\ \A p \in Nat : p \in AppendBits(words, shift, field, rest)
                           <=> p \in words \/ p - shift \in field \cap Bits(rest)
  BY <1>1, <1>3, AppendBitsBit
<1>5. CopyTo(buf, at, bits) \in SUBSET Nat
  BY <1>2, <1>3, <1>4, Zenon
<1>6. ASSUME bits <= at, buf \subseteq Bits(at), NEW p \in Nat
      PROVE  p \in CopyTo(buf, at, bits) <=> p \in buf \/ (p - at \in buf /\ p - at < bits)
  <2>1. \A x \in buf : x \in Nat /\ x < at
    BY <1>6 DEF Bits
  <2>2. \A x \in Nat : x \in words <=> x \in buf \/ (x - at \in buf /\ x - at < full * W)
    <3>1. full * W <= at
      BY <1>1, <1>6 DEF W
    <3> HIDE DEF full
    <3> QED BY <1>1, <1>6, <3>1, CopiedWordsBit DEF words
  <2> HIDE DEF full
  <2>3. CASE rest = 0
    <3>1. bits = full * W
      BY <1>1, <2>3 DEF W
    <3> QED BY <1>2, <2>2, <2>3, <3>1, Zenon
  <2>4. CASE rest # 0
    <3>1. full * W + (p - shift) = p - at
      BY <1>1 DEF shift, W
    <3>2. p - shift \in field \cap Bits(rest)
            <=> (p - shift \in Bits(W) /\ p - at \in words) /\ p - shift \in Bits(rest)
      BY <3>1, Zenon DEF field, Word
    <3>3. p - shift \in Bits(rest) <=> full * W <= p - at /\ p - at < bits
      BY <1>1 DEF Bits, W, shift
    <3>4. p - shift \in Bits(rest) => p - shift \in Bits(W)
      BY <1>1 DEF Bits, W
    <3>5. full * W <= p - at /\ p - at < bits => p - at \in Nat /\ ~((p - at) - at \in buf)
      BY <1>1, <1>6, <2>1 DEF W
    <3>6. full * W <= p - at /\ p - at < bits => (p - at \in words <=> p - at \in buf)
      BY <2>2, <3>5, Zenon
    <3>7. p - at \in buf => (p - at < bits
                               <=> p - at < full * W \/ (full * W <= p - at /\ p - at < bits))
      BY <1>1, <2>1 DEF W
    <3>8. p \in CopyTo(buf, at, bits) <=> p \in words \/ p - shift \in field \cap Bits(rest)
      BY <1>2, <1>4, <2>4, Zenon
    <3>9. p \in words <=> p \in buf \/ (p - at \in buf /\ p - at < full * W)
      BY <2>2
    <3> QED BY <3>2, <3>3, <3>4, <3>6, <3>7, <3>8, <3>9, Zenon
  <2> QED BY <2>3, <2>4
<1> QED BY <1>5, <1>6

LEMMA CopyToType ==
  ASSUME NEW buf \in SUBSET Nat, NEW at \in Nat, NEW bits \in Nat
  PROVE  CopyTo(buf, at, bits) \in SUBSET Nat
  BY CopyToBit

\* The buffers before and after each instance.
InstanceRun(h, buf, bits, n) ==
  /\ h \in [0..n -> SUBSET Nat] /\ h[0] = buf /\ h[n] = Instances(buf, bits, n)
  /\ \A k \in 0..(n - 1) : h[k + 1] = IF k = 0 THEN h[k] ELSE CopyTo(h[k], k * bits, bits)

LEMMA InstancesRun ==
  ASSUME NEW buf \in SUBSET Nat, NEW bits \in Nat, NEW n \in Nat
  PROVE  \E h : InstanceRun(h, buf, bits, n)
<1> DEFINE step(b, k) == IF k = 0 THEN b ELSE CopyTo(b, k * bits, bits)
           Rec(g) == [k \in 0..n |-> IF k = 0 THEN buf ELSE UNION {step(b, k - 1) : b \in {g[k - 1]}}]
           after == CHOOSE g : g = Rec(g)
           st == [x \in SUBSET Nat |-> [k \in 0..(n - 1) |-> step(x, k)]]
<1>1. Instances(buf, bits, n) = after[n]
  BY Zenon DEF Instances, Loop
<1>2. n \in Nat /\ buf \in SUBSET Nat
  OBVIOUS
<1>3. ASSUME NEW b \in SUBSET Nat, NEW k \in 0..(n - 1) PROVE step(b, k) \in SUBSET Nat
  <2>1. k * bits \in Nat
    BY ProductNat
  <2> QED BY <2>1, CopyToType
<1> HIDE DEF step
<1>4. \A x \in SUBSET Nat, k \in 0..(n - 1) : st[x][k] = step(x, k)
  OBVIOUS
<1> HIDE DEF st
<1>5. PICK h : IsRun(h, n, buf, st)
  <2>1. BufferStep(st, n)
    BY <1>3, <1>4, Zenon DEF BufferStep
  <2> QED BY <1>2, <2>1, LoopRuns
<1>6. h = Rec(h)
  <2>1. ASSUME NEW k \in 0..n PROVE h[k] = Rec(h)[k]
    <3>1. CASE k = 0
      BY <1>5, <3>1 DEF IsRun
    <3>2. CASE k # 0
      <4>1. k - 1 \in 0..(n - 1) /\ (k - 1) + 1 = k /\ h[k - 1] \in SUBSET Nat
        BY <1>2, <1>5, <3>2 DEF IsRun
      <4>2. h[k] = step(h[k - 1], k - 1)
        BY <1>4, <1>5, <4>1 DEF IsRun
      <4> QED BY <3>2, <4>2
    <3> QED BY <3>1, <3>2
  <2> QED BY <1>5, <2>1 DEF IsRun
<1> HIDE DEF Rec
<1>7. after = Rec(after)
  BY <1>6, Zenon
<1> HIDE DEF after
<1>8. after[0] = buf /\ DOMAIN after = 0..n /\ after = [k \in 0..n |-> after[k]]
  <2>1. /\ Rec(after)[0] = buf /\ DOMAIN Rec(after) = 0..n
        /\ Rec(after) = [k \in 0..n |-> Rec(after)[k]]
    BY <1>2 DEF Rec
  <2> QED BY <1>7, <2>1, Zenon
<1>9. \A k \in 0..(n - 1) : after[k + 1] = step(after[k], k)
  <2>1. ASSUME NEW k \in 0..(n - 1) PROVE Rec(after)[k + 1] = step(after[k], k)
    <3>1. (k + 1) - 1 = k /\ k + 1 # 0 /\ k + 1 \in 0..n
      BY <1>2
    <3>2. Rec(after)[k + 1] = UNION {step(b, k) : b \in {after[k]}}
      BY <3>1, Zenon DEF Rec
    <3> QED BY <3>2
  <2> QED BY <1>7, <2>1
<1>10. after \in [0..n -> SUBSET Nat]
  <2>1. \A k \in 0..(n - 1) : after[k] \in SUBSET Nat => after[k + 1] \in SUBSET Nat
    BY <1>3, <1>9
  <2> QED BY <1>2, <1>8, <2>1, TurnsTyped, Zenon
<1>11. InstanceRun(after, buf, bits, n)
  BY <1>1, <1>8, <1>9, <1>10 DEF step, InstanceRun
<1> QED BY <1>11

\* Every instance has the bits of the first.
LEMMA InstancesBit ==
  ASSUME NEW bits \in Nat, NEW buf \in SUBSET Nat, buf \subseteq Bits(bits), NEW n \in Nat
  PROVE  \A i \in Bits(n), q \in Bits(bits) : i * bits + q \in Instances(buf, bits, n) <=> q \in buf
<1>1. PICK h : InstanceRun(h, buf, bits, n)
  BY InstancesRun
<1> DEFINE Holds(k) ==
             /\ k = 0 => h[k] = buf
             /\ k > 0 => h[k] \subseteq Bits(k * bits)
             /\ \A i \in Bits(k), q \in Bits(bits) : i * bits + q \in h[k] <=> q \in buf
           S == {k \in 0..n : Holds(k)}
<1>2. 0 \in S
  BY <1>1 DEF InstanceRun, Bits
<1>3. ASSUME NEW k \in Nat, k < n, k \in S PROVE k + 1 \in S
  <2>1. k \in 0..(n - 1) /\ k \in 0..n /\ k + 1 \in 0..n /\ k * bits \in Nat
    BY <1>3, ProductNat
  <2>2. h[k] \in SUBSET Nat /\ h[k + 1] = IF k = 0 THEN h[k] ELSE CopyTo(h[k], k * bits, bits)
    BY <1>1, <2>1, Zenon DEF InstanceRun
  <2>3. Holds(k)
    BY <1>3
  <2>4. CASE k = 0
    <3>1. h[k + 1] = buf
      BY <2>2, <2>3, <2>4
    <3>2. ASSUME NEW i \in Bits(k + 1), NEW q \in Bits(bits) PROVE i * bits + q = q
      BY <2>4 DEF Bits
    <3>3. (k + 1) * bits = bits
      BY <2>4
    <3>4. Holds(k + 1)
      BY <2>4, <3>1, <3>2, <3>3
    <3> QED BY <2>1, <3>4
  <2>5. CASE k # 0
    <3> DEFINE at == k * bits
    <3>1. bits <= at /\ at \in Nat /\ h[k] \subseteq Bits(at) /\ (k + 1) * bits = at + bits
      <4>1. k = (k - 1) + 1 /\ (k - 1) \in Nat
        BY <2>5
      <4>2. k * bits = (k - 1) * bits + bits /\ (k - 1) * bits \in Nat
        BY <4>1, ProductNat
      <4>3. (k + 1) * bits = k * bits + bits
        OBVIOUS
      <4> QED BY <2>1, <2>3, <2>5, <4>2, <4>3
    <3>2. /\ h[k + 1] \in SUBSET Nat
          /\ \A p \in Nat : p \in h[k + 1] <=> p \in h[k] \/ (p - at \in h[k] /\ p - at < bits)
      <4> HIDE DEF at
      <4>1. h[k + 1] = CopyTo(h[k], at, bits)
        BY <2>2, <2>5 DEF at
      <4> QED BY <2>2, <3>1, <4>1, CopyToBit
    <3>3. h[k + 1] \subseteq Bits((k + 1) * bits)
      <4> HIDE DEF at
      <4> QED BY <3>1, <3>2 DEF Bits
    <3>4. ASSUME NEW i \in Bits(k + 1), NEW q \in Bits(bits)
          PROVE  i * bits + q \in h[k + 1] <=> q \in buf
      <4>1. CASE i = k
        <5>1. at + q \in Nat /\ (at + q) - at = q /\ q < bits /\ q \in Nat /\ ~(at + q \in h[k])
          <6> HIDE DEF at
          <6> QED BY <3>1 DEF Bits
        <5>2. at + q \in h[k + 1] <=> q \in h[k]
          BY <3>2, <5>1, Zenon
        <5>3. 0 \in Bits(k) /\ 0 * bits + q = q
          BY <2>5, <5>1 DEF Bits
        <5>4. q \in h[k] <=> q \in buf
          BY <2>3, <5>3
        <5> QED BY <4>1, <5>2, <5>4, Zenon
      <4>2. CASE i # k
        <5>1. i \in Bits(k) /\ i \in Nat
          BY <4>2 DEF Bits
        <5>2. i * bits \in Nat /\ i * bits + bits <= at
          <6>1. i < k
            BY <5>1 DEF Bits
          <6> QED BY <5>1, <6>1, Apart
        <5> DEFINE p == i * bits + q
        <5>3. p \in Nat /\ ~(p - at \in h[k])
          <6> DEFINE x == i * bits
          <6>1. x \in Nat /\ x + bits <= at
            BY <5>2
          <6> HIDE DEF x, at
          <6>2. x + q \in Nat /\ ~((x + q) - at \in h[k])
            <7>1. x + q \in Nat /\ ~((x + q) - at \in Nat)
              BY <3>1, <6>1 DEF Bits
            <7> QED BY <2>2, <7>1
          <6> QED BY <6>2, Zenon DEF x
        <5>4. p \in h[k + 1] <=> p \in h[k]
          <6> HIDE DEF p, at
          <6> QED BY <3>2, <5>3, Zenon
        <5> QED BY <2>3, <5>1, <5>4
      <4> QED BY <4>1, <4>2
    <3>5. Holds(k + 1)
      BY <3>3, <3>4, <2>1
    <3> QED BY <2>1, <3>5
  <2> QED BY <2>4, <2>5
<1>4. \A k \in 0..n : k \in S
  <2> HIDE DEF S
  <2> QED BY <1>2, <1>3, UpTo
<1> QED BY <1>1, <1>4 DEF InstanceRun

\* The dwords of a transfer put over those before.
PlacedDwords(buf, at, full, words) ==
  Loop(LAMBDA b, j : ReplaceDword(b, at + j * W, words[j + 1]), buf, full)
PlaceRun(h, buf, at, full, words) ==
  /\ h \in [0..full -> SUBSET Nat] /\ h[0] = buf /\ h[full] = PlacedDwords(buf, at, full, words)
  /\ \A k \in 0..(full - 1) : h[k + 1] = ReplaceDword(h[k], at + k * W, words[k + 1])
\* So many words there are.
AreWords(words, full) == \A k \in 1..full : words[k] \in SUBSET Bits(W)

LEMMA PlaceRuns ==
  ASSUME NEW buf \in SUBSET Nat, NEW at \in Nat, NEW full \in Nat, NEW words, AreWords(words, full)
  PROVE  \E h : PlaceRun(h, buf, at, full, words)
<1> DEFINE n == full
           step(b, k) == ReplaceDword(b, at + k * W, words[k + 1])
           Rec(g) == [k \in 0..n |-> IF k = 0 THEN buf ELSE UNION {step(b, k - 1) : b \in {g[k - 1]}}]
           after == CHOOSE g : g = Rec(g)
           st == [x \in SUBSET Nat |-> [k \in 0..(n - 1) |-> step(x, k)]]
<1>1. PlacedDwords(buf, at, full, words) = after[n]
  BY Zenon DEF PlacedDwords, Loop
<1>2. n \in Nat /\ buf \in SUBSET Nat
  OBVIOUS
<1>3. ASSUME NEW b \in SUBSET Nat, NEW k \in 0..(n - 1) PROVE step(b, k) \in SUBSET Nat
  <2>1. at + k * W \in Nat /\ k + 1 \in 1..full
    BY <1>2 DEF W
  <2>2. PICK word \in SUBSET Bits(W) : word = words[k + 1]
    BY <2>1, Zenon DEF AreWords
  <2>3. ReplaceDword(b, at + k * W, word) \in SUBSET Nat
    BY <2>1, ReplaceDwordBit
  <2> QED BY <2>2, <2>3, Zenon
<1> HIDE DEF step, n
<1>4. \A x \in SUBSET Nat, k \in 0..(n - 1) : st[x][k] = step(x, k)
  OBVIOUS
<1> HIDE DEF st
<1>5. PICK h : IsRun(h, n, buf, st)
  <2>1. BufferStep(st, n)
    BY <1>3, <1>4, Zenon DEF BufferStep
  <2> QED BY <1>2, <2>1, LoopRuns
<1>6. h = Rec(h)
  <2>1. ASSUME NEW k \in 0..n PROVE h[k] = Rec(h)[k]
    <3>1. CASE k = 0
      BY <1>5, <3>1 DEF IsRun
    <3>2. CASE k # 0
      <4>1. k - 1 \in 0..(n - 1) /\ (k - 1) + 1 = k /\ h[k - 1] \in SUBSET Nat
        BY <1>2, <1>5, <3>2 DEF IsRun
      <4>2. h[k] = step(h[k - 1], k - 1)
        BY <1>4, <1>5, <4>1 DEF IsRun
      <4> QED BY <3>2, <4>2
    <3> QED BY <3>1, <3>2
  <2> QED BY <1>5, <2>1 DEF IsRun
<1> HIDE DEF Rec
<1>7. after = Rec(after)
  BY <1>6, Zenon
<1> HIDE DEF after
<1>8. after[0] = buf /\ DOMAIN after = 0..n /\ after = [k \in 0..n |-> after[k]]
  <2>1. /\ Rec(after)[0] = buf /\ DOMAIN Rec(after) = 0..n
        /\ Rec(after) = [k \in 0..n |-> Rec(after)[k]]
    BY <1>2 DEF Rec
  <2> QED BY <1>7, <2>1, Zenon
<1>9. \A k \in 0..(n - 1) : after[k + 1] = step(after[k], k)
  <2>1. ASSUME NEW k \in 0..(n - 1) PROVE Rec(after)[k + 1] = step(after[k], k)
    <3>1. (k + 1) - 1 = k /\ k + 1 # 0 /\ k + 1 \in 0..n
      BY <1>2
    <3>2. Rec(after)[k + 1] = UNION {step(b, k) : b \in {after[k]}}
      BY <3>1, Zenon DEF Rec
    <3> QED BY <3>2
  <2> QED BY <1>7, <2>1
<1>10. after \in [0..n -> SUBSET Nat]
  <2>1. \A k \in 0..(n - 1) : after[k] \in SUBSET Nat => after[k + 1] \in SUBSET Nat
    BY <1>3, <1>9
  <2> QED BY <1>2, <1>8, <2>1, TurnsTyped, Zenon
<1>11. PlaceRun(after, buf, at, full, words)
  BY <1>1, <1>8, <1>9, <1>10 DEF step, n, PlaceRun
<1> QED BY <1>11

\* The bits of the dwords, and nothing else, are changed.
InDword(b, k, at) == at + k * W + b
LEMMA PlacedBits ==
  ASSUME NEW buf \in SUBSET Nat, NEW at \in Nat, NEW full \in Nat, NEW words, AreWords(words, full)
  PROVE  /\ PlacedDwords(buf, at, full, words) \in SUBSET Nat
         /\ \A j \in Bits(full), b \in Bits(W) :
              InDword(b, j, at) \in PlacedDwords(buf, at, full, words) <=> b \in words[j + 1]
         /\ \A p \in Nat : p < at \/ p >= at + full * W =>
              (p \in PlacedDwords(buf, at, full, words) <=> p \in buf)
<1>1. PICK h : PlaceRun(h, buf, at, full, words)
  BY PlaceRuns
<1> DEFINE Put(k) == \A j \in Bits(k), b \in Bits(W) : InDword(b, j, at) \in h[k] <=> b \in words[j + 1]
           Kept(k) == \A p \in Nat : p < at \/ p >= at + k * W => (p \in h[k] <=> p \in buf)
           S == {k \in 0..full : Put(k) /\ Kept(k)}
<1>2. 0 \in S
  BY <1>1 DEF PlaceRun, Bits
<1>3. ASSUME NEW k \in Nat, k < full, k \in S PROVE k + 1 \in S
  <2> DEFINE shift == at + k * W
  <2>1. k \in 0..(full - 1) /\ k \in 0..full /\ k + 1 \in 0..full /\ shift \in Nat /\ k + 1 \in 1..full
    BY <1>3 DEF W
  <2>2. h[k] \in SUBSET Nat /\ h[k + 1] = ReplaceDword(h[k], shift, words[k + 1])
    BY <1>1, <2>1, Zenon DEF PlaceRun
  <2>3. words[k + 1] \in SUBSET Bits(W)
    BY <2>1, Zenon DEF AreWords
  <2>4. Put(k) /\ Kept(k)
    BY <1>3
  <2>5. \A p \in Nat : p \in h[k + 1]
          <=> IF shift <= p /\ p < shift + W THEN p - shift \in words[k + 1] ELSE p \in h[k]
    <3> HIDE DEF shift
    <3> QED BY <2>1, <2>2, <2>3, ReplaceDwordBit
  <2>6. ASSUME NEW j \in Bits(k + 1), NEW b \in Bits(W)
        PROVE  InDword(b, j, at) \in h[k + 1] <=> b \in words[j + 1]
    <3> DEFINE p == InDword(b, j, at)
    <3>1. CASE j = k
      <4>1. p \in Nat /\ shift <= p /\ p < shift + W /\ p - shift = b
        BY <2>1, <3>1 DEF InDword, Bits, W
      <4> QED BY <2>5, <3>1, <4>1, Zenon
    <3>2. CASE j # k
      <4>1. p \in Nat /\ j \in Bits(k) /\ ~(shift <= p)
        BY <2>1, <3>2 DEF InDword, Bits, W
      <4>2. p \in h[k + 1] <=> p \in h[k]
        BY <2>5, <4>1, Zenon
      <4> QED BY <2>4, <4>1, <4>2, Zenon
    <3> QED BY <3>1, <3>2
  <2>7. ASSUME NEW p \in Nat, p < at \/ p >= at + (k + 1) * W PROVE p \in h[k + 1] <=> p \in buf
    <3>1. (p < at \/ p >= at + k * W) /\ ~(shift <= p /\ p < shift + W)
      BY <2>1, <2>7 DEF W
    <3>2. p \in h[k + 1] <=> p \in h[k]
      BY <2>5, <3>1, Zenon
    <3> QED BY <2>4, <3>1, <3>2, Zenon
  <2>8. Put(k + 1) /\ Kept(k + 1)
    BY <2>6, <2>7
  <2> QED BY <2>1, <2>8
<1>4. \A k \in 0..full : k \in S
  <2> HIDE DEF S
  <2> QED BY <1>2, <1>3, UpTo
<1>5. full \in 0..full /\ h[full] \in SUBSET Nat /\ h[full] = PlacedDwords(buf, at, full, words)
  BY <1>1 DEF PlaceRun
<1>6. Put(full) /\ Kept(full)
  BY <1>4, <1>5
<1> QED BY <1>5, <1>6, Zenon

\* replace_bits keeps to the buffer, whatever it does there (see ReplaceBits).
LEMMA ReplaceBitsType ==
  ASSUME NEW buf \in SUBSET Nat, NEW shift \in Nat, NEW field, NEW bits
  PROVE  ReplaceBits(buf, shift, field, bits) \in SUBSET Nat
<1> DEFINE i == shift \div W
           s == shift % W
           masked == field \cap Bits(bits)
           first == (Word(buf, i) \cap Bits(bits)) \cup Shl(masked, s)
           inside == (Word(buf, i) \ (Bits(2 * bits) \ Bits(bits))) \cup Shl(masked, s)
           second == (Word(buf, i + 1) \ Bits(s + bits - W)) \cup Shr(masked, W - s)
           low == Assign(buf, i, first)
<1>1. i \in Nat /\ i + 1 \in Nat
  BY DEF W
<1>2. first \in SUBSET Bits(W) /\ inside \in SUBSET Bits(W) /\ second \in SUBSET Bits(W)
  BY ShiftType DEF Word
<1>3. ReplaceBits(buf, shift, field, bits) =
        IF s < W - bits THEN Assign(buf, i, inside) ELSE Assign(low, i + 1, second)
  BY DEF ReplaceBits
<1> HIDE DEF i, s, masked, first, inside, second
<1>4. low \in SUBSET Nat /\ Assign(buf, i, inside) \in SUBSET Nat
  BY <1>1, <1>2, OrIntoType
<1> HIDE DEF low
<1>5. Assign(low, i + 1, second) \in SUBSET Nat
  BY <1>1, <1>2, <1>4, OrIntoType
<1> QED BY <1>3, <1>4, <1>5, Zenon

LEMMA PlaceOneType ==
  ASSUME NEW buf \in SUBSET Nat, NEW at \in Nat, NEW dr \in Nat, NEW words, AreWords(words, Dwords(dr))
  PROVE  PlaceOne(buf, at, dr, words) \in SUBSET Nat
<1> DEFINE full == dr \div W
           dwords == PlacedDwords(buf, at, full, words)
           shift == at + full * W
<1>1. full \in Nat /\ full <= Dwords(dr) /\ Dwords(dr) \in Nat /\ shift \in Nat
  BY DEF Dwords, W
<1>2. PlaceOne(buf, at, dr, words) =
        IF dr % W = 0 THEN dwords ELSE ReplaceBits(dwords, shift, words[full + 1], dr % W)
  BY DEF PlaceOne, PlacedDwords
<1> HIDE DEF full, shift
<1>3. AreWords(words, full)
  BY <1>1 DEF AreWords
<1>4. dwords \in SUBSET Nat
  BY <1>1, <1>3, PlacedBits
<1> HIDE DEF dwords
<1> QED BY <1>1, <1>2, <1>4, ReplaceBitsType

\* Transfers of whole dwords.
LEMMA PlaceOneBit ==
  ASSUME NEW buf \in SUBSET Nat, NEW at \in Nat, NEW full \in Nat, NEW words, AreWords(words, full),
         NEW dr, dr = full * W
  PROVE  /\ PlaceOne(buf, at, dr, words) \in SUBSET Nat
         /\ \A j \in Bits(full), b \in Bits(W) :
              InDword(b, j, at) \in PlaceOne(buf, at, dr, words) <=> b \in words[j + 1]
         /\ \A p \in Nat : p < at \/ p >= at + dr => (p \in PlaceOne(buf, at, dr, words) <=> p \in buf)
<1>1. dr % W = 0 /\ dr \div W = full
  BY DEF W
<1>2. PlaceOne(buf, at, dr, words) = PlacedDwords(buf, at, full, words)
  BY <1>1, Zenon DEF PlaceOne, PlacedDwords
<1>3. /\ PlacedDwords(buf, at, full, words) \in SUBSET Nat
      /\ \A j \in Bits(full), b \in Bits(W) :
           InDword(b, j, at) \in PlacedDwords(buf, at, full, words) <=> b \in words[j + 1]
      /\ \A p \in Nat : p < at \/ p >= at + full * W =>
           (p \in PlacedDwords(buf, at, full, words) <=> p \in buf)
  BY PlacedBits
<1> QED BY <1>2, <1>3, Zenon

\* The data have a place in the buffer.
LEMMA OffsetNat == ASSUME NEW cores \in Nat, NEW fast PROVE DataOffset(cores, fast) \in Nat
<1>1. RealCores(cores) \in Nat
  BY DEF RealCores
<1>2. RealCores(cores) * IrLen \in Nat
  BY <1>1, IrLenAssumption, ProductNat
<1> QED BY <1>2 DEF DataOffset

\* The buffers before and after each transfer of a run.
DataRun(h, buf, cores, fast, bits, dr, data) ==
  /\ h \in [0..Len(data) -> SUBSET Nat] /\ h[0] = buf
  /\ h[Len(data)] = PlaceData(buf, cores, fast, bits, dr, data)
  /\ \A k \in 0..(Len(data) - 1) :
       h[k + 1] = PlaceOne(h[k], k * bits + DataOffset(cores, fast), dr, data[k + 1])
\* Transfers of dr bits each.
AreTransfers(data, dr) ==
  /\ Len(data) \in Nat
  /\ \A k \in 1..Len(data) : AreWords(data[k], Dwords(dr))

LEMMA DataRuns ==
  ASSUME NEW buf \in SUBSET Nat, NEW cores \in Nat, NEW fast, NEW bits \in Nat, NEW dr \in Nat,
         NEW data, AreTransfers(data, dr)
  PROVE  \E h : DataRun(h, buf, cores, fast, bits, dr, data)
<1> DEFINE n == Len(data)
           step(b, k) == PlaceOne(b, k * bits + DataOffset(cores, fast), dr, data[k + 1])
           Rec(g) == [k \in 0..n |-> IF k = 0 THEN buf ELSE UNION {step(b, k - 1) : b \in {g[k - 1]}}]
           after == CHOOSE g : g = Rec(g)
           st == [x \in SUBSET Nat |-> [k \in 0..(n - 1) |-> step(x, k)]]
<1>1. PlaceData(buf, cores, fast, bits, dr, data) = after[n]
  BY Zenon DEF PlaceData, Loop
<1>2. n \in Nat /\ buf \in SUBSET Nat
  BY DEF AreTransfers
<1>3. ASSUME NEW b \in SUBSET Nat, NEW k \in 0..(n - 1) PROVE step(b, k) \in SUBSET Nat
  <2>1. k * bits + DataOffset(cores, fast) \in Nat
    BY <1>2, ProductNat, OffsetNat
  <2>2. AreWords(data[k + 1], Dwords(dr))
    BY <1>2 DEF AreTransfers
  <2> QED BY <2>1, <2>2, PlaceOneType
<1> HIDE DEF step, n
<1>4. \A x \in SUBSET Nat, k \in 0..(n - 1) : st[x][k] = step(x, k)
  OBVIOUS
<1> HIDE DEF st
<1>5. PICK h : IsRun(h, n, buf, st)
  <2>1. BufferStep(st, n)
    BY <1>3, <1>4, Zenon DEF BufferStep
  <2> QED BY <1>2, <2>1, LoopRuns
<1>6. h = Rec(h)
  <2>1. ASSUME NEW k \in 0..n PROVE h[k] = Rec(h)[k]
    <3>1. CASE k = 0
      BY <1>5, <3>1 DEF IsRun
    <3>2. CASE k # 0
      <4>1. k - 1 \in 0..(n - 1) /\ (k - 1) + 1 = k /\ h[k - 1] \in SUBSET Nat
        BY <1>2, <1>5, <3>2 DEF IsRun
      <4>2. h[k] = step(h[k - 1], k - 1)
        BY <1>4, <1>5, <4>1 DEF IsRun
      <4> QED BY <3>2, <4>2
    <3> QED BY <3>1, <3>2
  <2> QED BY <1>5, <2>1 DEF IsRun
<1> HIDE DEF Rec
<1>7. after = Rec(after)
  BY <1>6, Zenon
<1> HIDE DEF after
<1>8. after[0] = buf /\ DOMAIN after = 0..n /\ after = [k \in 0..n |-> after[k]]
  <2>1. /\ Rec(after)[0] = buf /\ DOMAIN Rec(after) = 0..n
        /\ Rec(after) = [k \in 0..n |-> Rec(after)[k]]
    BY <1>2 DEF Rec
  <2> QED BY <1>7, <2>1, Zenon
<1>9. \A k \in 0..(n - 1) : after[k + 1] = step(after[k], k)
  <2>1. ASSUME NEW k \in 0..(n - 1) PROVE Rec(after)[k + 1] = step(after[k], k)
    <3>1. (k + 1) - 1 = k /\ k + 1 # 0 /\ k + 1 \in 0..n
      BY <1>2
    <3>2. Rec(after)[k + 1] = UNION {step(b, k) : b \in {after[k]}}
      BY <3>1, Zenon DEF Rec
    <3> QED BY <3>2
  <2> QED BY <1>7, <2>1
<1>10. after \in [0..n -> SUBSET Nat]
  <2>1. \A k \in 0..(n - 1) : after[k] \in SUBSET Nat => after[k + 1] \in SUBSET Nat
    BY <1>3, <1>9
  <2> QED BY <1>2, <1>8, <2>1, TurnsTyped, Zenon
<1>11. DataRun(after, buf, cores, fast, bits, dr, data)
  BY <1>1, <1>8, <1>9, <1>10 DEF step, n, DataRun
<1> QED BY <1>11

LEMMA PlaceDataType ==
  ASSUME NEW buf \in SUBSET Nat, NEW cores \in Nat, NEW fast, NEW bits \in Nat, NEW dr \in Nat,
         NEW data, AreTransfers(data, dr)
  PROVE  PlaceData(buf, cores, fast, bits, dr, data) \in SUBSET Nat
<1>1. PICK h : DataRun(h, buf, cores, fast, bits, dr, data)
  BY DataRuns
<1>2. Len(data) \in 0..Len(data)
  BY DEF AreTransfers
<1> QED BY <1>1, <1>2, Zenon DEF DataRun

\* Each transfer gets its own dwords, and nothing else changes.
LEMMA PlaceDataBit ==
  ASSUME NEW buf \in SUBSET Nat, NEW cores \in Nat, NEW fast, NEW bits \in Nat, NEW dr \in Nat,
         NEW data, AreTransfers(data, dr), NEW full \in Nat, dr = full * W,
         NEW off, off = DataOffset(cores, fast), off + dr <= bits
  PROVE  /\ \A i \in Bits(Len(data)), j \in Bits(full), b \in Bits(W) :
              InDword(b, j, i * bits + off) \in PlaceData(buf, cores, fast, bits, dr, data)
                <=> b \in data[i + 1][j + 1]
         /\ \A i \in Nat, q \in Bits(bits) : q < off \/ q >= off + dr =>
              (i * bits + q \in PlaceData(buf, cores, fast, bits, dr, data) <=> i * bits + q \in buf)
<1> DEFINE n == Len(data)
<1>1. PICK h : DataRun(h, buf, cores, fast, bits, dr, data)
  BY DataRuns
<1>2. n \in Nat /\ off \in Nat /\ dr \in Nat
  BY OffsetNat DEF AreTransfers
<1>3. Dwords(dr) = full
  BY DEF Dwords, W
<1> DEFINE Put(k) == \A i \in Bits(k), j \in Bits(full), b \in Bits(W) :
                       InDword(b, j, i * bits + off) \in h[k] <=> b \in data[i + 1][j + 1]
           Kept(k) == \A i \in Nat, q \in Bits(bits) : q < off \/ q >= off + dr =>
                        (i * bits + q \in h[k] <=> i * bits + q \in buf)
           S == {k \in 0..n : Put(k) /\ Kept(k)}
<1>4. 0 \in S
  BY <1>1, <1>2 DEF DataRun, Bits
<1>5. ASSUME NEW k \in Nat, k < n, k \in S PROVE k + 1 \in S
  <2> DEFINE at == k * bits + off
  <2>1. k \in 0..(n - 1) /\ k \in 0..n /\ k + 1 \in 0..n /\ k + 1 \in 1..n
    BY <1>2, <1>5
  <2>2. k * bits \in Nat /\ at \in Nat
    BY <1>2, ProductNat
  <2>3. h[k] \in SUBSET Nat /\ h[k + 1] = PlaceOne(h[k], at, dr, data[k + 1])
    BY <1>1, <2>1, Zenon DEF DataRun
  <2>4. AreWords(data[k + 1], full)
    BY <1>3, <2>1, Zenon DEF AreTransfers
  <2> HIDE DEF at
  <2>5. /\ \A j \in Bits(full), b \in Bits(W) : InDword(b, j, at) \in h[k + 1] <=> b \in data[k + 1][j + 1]
        /\ \A p \in Nat : p < at \/ p >= at + dr => (p \in h[k + 1] <=> p \in h[k])
    <3> DEFINE words == data[k + 1]
    <3>1. AreWords(words, full) /\ h[k + 1] = PlaceOne(h[k], at, dr, words)
      BY <2>3, <2>4
    <3> HIDE DEF words
    <3>2. /\ \A j \in Bits(full), b \in Bits(W) : InDword(b, j, at) \in h[k + 1] <=> b \in words[j + 1]
          /\ \A p \in Nat : p < at \/ p >= at + dr => (p \in h[k + 1] <=> p \in h[k])
      <4> DEFINE x == h[k]
                 y == PlaceOne(x, at, dr, words)
      <4>1. x \in SUBSET Nat
        BY <2>3
      <4> HIDE DEF x
      <4>2. /\ \A j \in Bits(full), b \in Bits(W) : InDword(b, j, at) \in y <=> b \in words[j + 1]
            /\ \A p \in Nat : p < at \/ p >= at + dr => (p \in y <=> p \in x)
        BY <2>2, <3>1, <4>1, PlaceOneBit
      <4> QED BY <3>1, <4>2, Zenon DEF x
    <3> QED BY <3>2, Zenon DEF words
  <2>6. Put(k) /\ Kept(k)
    BY <1>5
  <2>7. ASSUME NEW i \in Bits(k + 1), NEW j \in Bits(full), NEW b \in Bits(W)
        PROVE  InDword(b, j, i * bits + off) \in h[k + 1] <=> b \in data[i + 1][j + 1]
    <3>1. CASE i = k
      BY <2>5, <3>1 DEF at
    <3>2. CASE i # k
      <4>1. i \in Nat /\ i < k /\ i \in Bits(k)
        BY <3>2 DEF Bits
      <4> DEFINE x == i * bits
                 y == k * bits
                 p == InDword(b, j, x + off)
      <4>2. x \in Nat /\ y \in Nat /\ x + bits <= y
        BY <4>1, Apart
      <4>3. at = y + off
        BY DEF at
      <4> HIDE DEF x, y
      <4>4. j * W + b < dr /\ j * W + b \in Nat
        BY DEF Bits, W
      <4>5. p \in Nat /\ p < at
        BY <1>2, <4>2, <4>3, <4>4 DEF InDword, Bits, W
      <4>6. p \in h[k + 1] <=> p \in h[k]
        BY <2>5, <4>5, Zenon
      <4>7. p \in h[k] <=> b \in data[i + 1][j + 1]
        BY <2>6, <4>1, Zenon DEF x
      <4> QED BY <4>6, <4>7, Zenon DEF x
    <3> QED BY <3>1, <3>2
  <2>8. ASSUME NEW i \in Nat, NEW q \in Bits(bits), q < off \/ q >= off + dr
        PROVE  i * bits + q \in h[k + 1] <=> i * bits + q \in buf
    <3> DEFINE x == i * bits
               y == k * bits
    <3>1. at = y + off /\ x \in Nat /\ y \in Nat /\ q \in Nat /\ q < bits
      BY <2>2, ProductNat DEF at, Bits
    <3>2. x = y \/ x + bits <= y \/ y + bits <= x
      <4>1. i = k \/ i < k \/ k < i
        OBVIOUS
      <4> QED BY <4>1, Apart
    <3> HIDE DEF x, y
    <3>3. x + q \in Nat /\ (x + q < at \/ x + q >= at + dr)
      <4> DEFINE end == off + dr
      <4>1. off \in Nat /\ end \in Nat /\ off <= end /\ end <= bits /\ at + dr = y + end /\ bits \in Nat
        BY <1>2, <3>1
      <4>2. q < off \/ q >= end
        BY <2>8
      <4> HIDE DEF end
      <4>3. x + q < y + off \/ x + q >= y + end
        BY <3>1, <3>2, <4>1, <4>2
      <4> QED BY <3>1, <4>1, <4>3
    <3>4. x + q \in h[k + 1] <=> x + q \in h[k]
      BY <2>5, <3>3, Zenon
    <3>5. x + q \in h[k] <=> x + q \in buf
      BY <2>6, <2>8, Zenon DEF x
    <3> QED BY <3>4, <3>5, Zenon DEF x
  <2>9. Put(k + 1) /\ Kept(k + 1)
    BY <2>7, <2>8, Zenon
  <2> QED BY <2>1, <2>9
<1>6. \A k \in 0..n : k \in S
  <2> HIDE DEF S
  <2> QED BY <1>2, <1>4, <1>5, UpTo
<1>7. Put(n) /\ Kept(n)
  <2>1. n \in 0..n
    BY <1>2
  <2> QED BY <1>6, <2>1, Zenon
<1>8. h[n] = PlaceData(buf, cores, fast, bits, dr, data)
  BY <1>1 DEF DataRun
<1> QED BY <1>7, <1>8, Zenon

-----------------------------------------------------------------------------
(***************************************************************************)
(* The sequence of one transfer.                                           *)
(***************************************************************************)
\* Where its parts are, for every number of cores.
LEMMA PartsNat ==
  ASSUME NEW cores \in Nat, NEW dr \in Nat
  PROVE  /\ RealCores(cores) \in Nat \ {0} /\ SkipBits(cores) \in Nat
         /\ RealCores(cores) * IrLen \in Nat /\ RealCores(cores) * IrLen >= 1
         /\ DataDr(cores) = RealCores(cores) * IrLen + 9
         /\ ControlIr(cores, dr) = RealCores(cores) * IrLen + dr + 14
         /\ ControlDr(cores, dr) = 2 * (RealCores(cores) * IrLen) + dr + 18
<1>1. RealCores(cores) \in Nat \ {0} /\ SkipBits(cores) \in Nat
  BY DEF RealCores, SkipBits
<1>2. PICK x \in Nat : x = RealCores(cores) * IrLen
  BY <1>1, IrLenAssumption, ProductNat
<1>3. x >= 1
  BY <1>1, <1>2, IrLenAssumption, ProductPositive
<1>4. DataDr(cores) = x + 9
  BY <1>2 DEF DataDr, DataIr
<1>5. ControlIr(cores, dr) = x + dr + 14
  BY <1>4 DEF ControlIr
<1>6. ControlDr(cores, dr) = 2 * x + dr + 18
  BY <1>2, <1>5 DEF ControlDr
<1> QED BY <1>1, <1>2, <1>3, <1>4, <1>5, <1>6

SlowTmsFields(cores, dr) ==
  << <<0, {1, 2}, 5>>,
     <<DataIr + RealCores(cores) * IrLen - 1, {0, 1, 2}, 5>>,
     <<DataDr(cores) + dr - 1, {0, 1, 2, 3}, 6>>,
     <<ControlIr(cores, dr) + RealCores(cores) * IrLen - 1, {0, 1, 2}, 5>>,
     <<ControlDr(cores, dr) + SkipBits(cores) + W - 1, {0, 1}, 3>> >>

LEMMA SlowTmsAreFields ==
  ASSUME NEW cores \in Nat, NEW dr \in Nat
  PROVE  AreFields(SlowTmsFields(cores, dr))
<1> DEFINE p == [k \in 1..5 |-> SlowTmsFields(cores, dr)[k][1]]
<1>1. PICK x \in Nat \ {0} : x = RealCores(cores) * IrLen
  BY PartsNat
<1>2. /\ DataIr + x - 1 \in Nat /\ DataDr(cores) + dr - 1 \in Nat
      /\ ControlIr(cores, dr) + x - 1 \in Nat /\ ControlDr(cores, dr) + SkipBits(cores) + W - 1 \in Nat
  <2>1. /\ DataDr(cores) = x + 9 /\ ControlIr(cores, dr) = x + dr + 14
        /\ ControlDr(cores, dr) = 2 * x + dr + 18 /\ SkipBits(cores) \in Nat
    BY <1>1, PartsNat
  <2> QED BY <2>1 DEF DataIr, W
<1>3. /\ SlowTmsFields(cores, dr)[1] = <<0, {1, 2}, 5>>
      /\ SlowTmsFields(cores, dr)[2] = <<DataIr + x - 1, {0, 1, 2}, 5>>
      /\ SlowTmsFields(cores, dr)[3] = <<DataDr(cores) + dr - 1, {0, 1, 2, 3}, 6>>
      /\ SlowTmsFields(cores, dr)[4] = <<ControlIr(cores, dr) + x - 1, {0, 1, 2}, 5>>
      /\ SlowTmsFields(cores, dr)[5] = <<ControlDr(cores, dr) + SkipBits(cores) + W - 1, {0, 1}, 3>>
      /\ Len(SlowTmsFields(cores, dr)) = 5
  BY <1>1 DEF SlowTmsFields
<1>4. ASSUME NEW k \in 1..5
      PROVE  SlowTmsFields(cores, dr)[k][1] \in Nat /\ SlowTmsFields(cores, dr)[k][3] \in 0..W
  <2>1. k = 1 \/ k = 2 \/ k = 3 \/ k = 4 \/ k = 5
    OBVIOUS
  <2> QED BY <1>2, <1>3, <2>1 DEF W
<1> QED BY <1>3, <1>4 DEF AreFields

LEMMA FastTmsAreFields ==
  ASSUME NEW dr \in Nat
  PROVE  AreFields(<< <<0, {1}, 4>>, <<4 + dr - 1, {0, 1}, 3>> >>)
<1> DEFINE f == << <<0, {1}, 4>>, <<4 + dr - 1, {0, 1}, 3>> >>
<1>1. f[1] = <<0, {1}, 4>> /\ f[2] = <<4 + dr - 1, {0, 1}, 3>> /\ Len(f) = 2
  OBVIOUS
<1> HIDE DEF f
<1>2. ASSUME NEW k \in 1..2 PROVE f[k][1] \in Nat /\ f[k][3] \in 0..W
  <2>1. k = 1 \/ k = 2
    OBVIOUS
  <2> QED BY <1>1, <2>1 DEF W
<1>3. AreFields(f)
  BY <1>1, <1>2 DEF AreFields
<1> QED BY <1>3 DEF f

LEMMA XferTmsType ==
  ASSUME NEW cores \in Nat, NEW dr \in Nat, NEW fast
  PROVE  XferTms(cores, dr, fast) \in SUBSET Nat
<1>1. XferTms(cores, dr, fast) =
        IF fast THEN AppendAll(<< <<0, {1}, 4>>, <<4 + dr - 1, {0, 1}, 3>> >>)
                ELSE AppendAll(SlowTmsFields(cores, dr))
  BY DEF XferTms, SlowTmsFields
<1>2. AppendAll(<< <<0, {1}, 4>>, <<4 + dr - 1, {0, 1}, 3>> >>) \in SUBSET Nat
  BY FastTmsAreFields, AppendAllBit
<1>3. AppendAll(SlowTmsFields(cores, dr)) \in SUBSET Nat
  BY SlowTmsAreFields, AppendAllBit
<1> QED BY <1>1, <1>2, <1>3

\* One field for each core.
LEMMA InstructionsAre ==
  ASSUME NEW n \in Nat, NEW order, order \in [1..n -> Nat], NEW at \in Nat, NEW target, NEW code
  PROVE  /\ Len(Instructions(at, order, target, code)) = n
         /\ Instructions(at, order, target, code) \in Seq(Nat \X {code, IrSkip} \X {IrLen})
         /\ \A k \in 1..n : Instructions(at, order, target, code)[k]
              = <<at + (k - 1) * IrLen, IF order[k] = target THEN code ELSE IrSkip, IrLen>>
<1> DEFINE s == Instructions(at, order, target, code)
<1>1. s = [k \in 1..n |-> <<at + (k - 1) * IrLen, IF order[k] = target THEN code ELSE IrSkip, IrLen>>]
  BY DEF Instructions
<1>2. ASSUME NEW k \in 1..n
      PROVE  <<at + (k - 1) * IrLen, IF order[k] = target THEN code ELSE IrSkip, IrLen>>
               \in Nat \X {code, IrSkip} \X {IrLen}
  <2>1. k - 1 \in Nat /\ IrLen \in Nat
    BY IrLenAssumption
  <2>2. (k - 1) * IrLen \in Nat
    BY <2>1, ProductNat
  <2>3. at + (k - 1) * IrLen \in Nat
    BY <2>2
  <2> QED BY <2>3
<1>3. s \in [1..n -> Nat \X {code, IrSkip} \X {IrLen}]
  BY <1>1, <1>2
<1> HIDE DEF s
<1>4. s \in Seq(Nat \X {code, IrSkip} \X {IrLen}) /\ Len(s) = n
  BY <1>3
<1> QED BY <1>1, <1>4 DEF s

LEMMA Orders ==
  ASSUME NEW cores \in Nat
  PROVE  /\ FirstUp(cores) \in [1..RealCores(cores) -> Nat]
         /\ LastDown(cores) \in [1..RealCores(cores) -> Nat]
<1>1. PICK n \in Nat : n = RealCores(cores)
  BY DEF RealCores
<1>2. FirstUp(cores) = [k \in 1..n |-> k - 1]
  BY <1>1 DEF FirstUp
<1>3. FirstUp(cores) \in [1..n -> Nat] /\ Len(FirstUp(cores)) = n
  BY <1>2
<1>4. LastDown(cores) = [i \in 1..n |-> FirstUp(cores)[(n - i) + 1]]
  BY <1>3 DEF LastDown, Reverse
<1>5. \A i \in 1..n : FirstUp(cores)[(n - i) + 1] \in Nat
  BY <1>3
<1> QED BY <1>1, <1>3, <1>4, <1>5

TdiFields(cores, target, dr) ==
  Instructions(DataIr, LastDown(cores), target, IrData)
    \o Instructions(ControlIr(cores, dr), FirstUp(cores), target, IrControl)
LEMMA TdiAreFields ==
  ASSUME NEW cores \in Nat, NEW target, NEW dr \in Nat
  PROVE  AreFields(TdiFields(cores, target, dr))
<1> DEFINE s == Instructions(DataIr, LastDown(cores), target, IrData)
           t == Instructions(ControlIr(cores, dr), FirstUp(cores), target, IrControl)
           Field == Nat \X {IrData, IrControl, IrSkip} \X {IrLen}
<1>1. RealCores(cores) \in Nat /\ DataIr \in Nat /\ ControlIr(cores, dr) \in Nat
  BY PartsNat DEF DataIr
<1>2. s \in Seq(Nat \X {IrData, IrSkip} \X {IrLen})
  BY <1>1, Orders, InstructionsAre
<1>3. t \in Seq(Nat \X {IrControl, IrSkip} \X {IrLen})
  BY <1>1, Orders, InstructionsAre
<1> HIDE DEF s, t
<1>4. s \in Seq(Field) /\ t \in Seq(Field)
  BY <1>2, <1>3
<1>5. s \o t \in Seq(Field)
  BY <1>4
<1>6. \A f \in Field : f[1] \in Nat /\ f[3] \in 0..W
  BY IrLenAssumption DEF W
<1> HIDE DEF Field
<1>7. Len(s \o t) \in Nat /\ \A k \in 1..Len(s \o t) : (s \o t)[k] \in Field
  BY <1>5
<1> QED BY <1>6, <1>7, Zenon DEF AreFields, TdiFields, s, t

LEMMA XferTdiType ==
  ASSUME NEW cores \in Nat, NEW target, NEW dr \in Nat, NEW fast
  PROVE  XferTdi(cores, target, dr, fast) \in SUBSET Nat
<1> DEFINE shift == ControlDr(cores, dr) + SkipBits(cores)
           irs == AppendAll(TdiFields(cores, target, dr))
<1>1. XferTdi(cores, target, dr, fast) = IF fast THEN {} ELSE AppendDword(irs, shift, PrAccClear)
  BY DEF XferTdi, TdiFields
<1>2. shift \in Nat /\ PrAccClear \in SUBSET Bits(W)
  <2>1. PICK x \in Nat : x = RealCores(cores) * IrLen
    BY PartsNat
  <2>2. ControlDr(cores, dr) = 2 * x + dr + 18 /\ SkipBits(cores) \in Nat
    BY <2>1, PartsNat
  <2> QED BY <2>2 DEF PrAccClear, Bits, W
<1>3. irs \in SUBSET Nat
  BY TdiAreFields, AppendAllBit
<1> HIDE DEF shift, irs
<1>4. AppendDword(irs, shift, PrAccClear) \in SUBSET Nat
  BY <1>2, <1>3, AppendDwordBit
<1> QED BY <1>1, <1>4

\* The bits of a transfer through one core: the pulses with TMS high, and the ones on
\* TDI but for the data.
XferHighs(dr) ==
  {1, 2, IrLen + 4, IrLen + 5, IrLen + 6}
    \cup {IrLen + dr + 8, IrLen + dr + 9, IrLen + dr + 10, IrLen + dr + 11}
    \cup {2 * IrLen + dr + 13, 2 * IrLen + dr + 14, 2 * IrLen + dr + 15}
    \cup {2 * IrLen + dr + 49, 2 * IrLen + dr + 50}
XferOnes(dr) ==
  {5, 8, IrLen + dr + 15, IrLen + dr + 17, 2 * IrLen + dr + 32, 2 * IrLen + dr + 33}

LEMMA OneCore ==
  ASSUME NEW dr \in Nat
  PROVE  /\ RealCores(1) = 1 /\ SkipBits(1) = 0
         /\ DataDr(1) = IrLen + 9 /\ ControlIr(1, dr) = IrLen + dr + 14
         /\ ControlDr(1, dr) = 2 * IrLen + dr + 18
         /\ RealCores(1) * IrLen = IrLen
         /\ XferLength(1, dr, FALSE) = 2 * IrLen + dr + 52
<1>1. RealCores(1) = 1 /\ SkipBits(1) = 0
  BY DEF RealCores, SkipBits
<1>2. RealCores(1) * IrLen = IrLen
  BY <1>1, IrLenAssumption
<1>3. /\ DataDr(1) = IrLen + 9 /\ ControlIr(1, dr) = IrLen + dr + 14
      /\ ControlDr(1, dr) = 2 * IrLen + dr + 18
  <2>1. 1 \in Nat
    OBVIOUS
  <2>2. /\ DataDr(1) = RealCores(1) * IrLen + 9 /\ ControlIr(1, dr) = RealCores(1) * IrLen + dr + 14
        /\ ControlDr(1, dr) = 2 * (RealCores(1) * IrLen) + dr + 18
    BY <2>1, PartsNat, Zenon
  <2> QED BY <1>2, <2>2, Zenon
<1>4. XferLength(1, dr, FALSE) = 2 * IrLen + dr + 52
  BY <1>1, <1>3, IrLenAssumption DEF XferLength, W
<1> QED BY <1>1, <1>2, <1>3, <1>4

LEMMA XferTmsBit ==
  ASSUME NEW dr \in Nat, NEW p \in Nat
  PROVE  p \in XferTms(1, dr, FALSE) <=> p \in XferHighs(dr)
<1> DEFINE f == SlowTmsFields(1, dr)
<1>1. XferTms(1, dr, FALSE) = AppendAll(f)
  BY DEF XferTms, SlowTmsFields
<1>2. AreFields(f)
  BY SlowTmsAreFields
<1>3. /\ f[1] = <<0, {1, 2}, 5>>
      /\ f[2] = <<IrLen + 4, {0, 1, 2}, 5>>
      /\ f[3] = <<IrLen + dr + 8, {0, 1, 2, 3}, 6>>
      /\ f[4] = <<2 * IrLen + dr + 13, {0, 1, 2}, 5>>
      /\ f[5] = <<2 * IrLen + dr + 49, {0, 1}, 3>>
      /\ Len(f) = 5
  <2>1. /\ RealCores(1) * IrLen = IrLen /\ SkipBits(1) = 0 /\ DataDr(1) = IrLen + 9
        /\ ControlIr(1, dr) = IrLen + dr + 14 /\ ControlDr(1, dr) = 2 * IrLen + dr + 18
    BY OneCore, Zenon
  <2>2. f = << <<0, {1, 2}, 5>>,
               <<5 + IrLen - 1, {0, 1, 2}, 5>>,
               <<IrLen + 9 + dr - 1, {0, 1, 2, 3}, 6>>,
               <<IrLen + dr + 14 + IrLen - 1, {0, 1, 2}, 5>>,
               <<2 * IrLen + dr + 18 + 0 + 32 - 1, {0, 1}, 3>> >>
    BY <2>1, Zenon DEF SlowTmsFields, DataIr, W
  <2>3. /\ 5 + IrLen - 1 = IrLen + 4 /\ IrLen + 9 + dr - 1 = IrLen + dr + 8
        /\ IrLen + dr + 14 + IrLen - 1 = 2 * IrLen + dr + 13
        /\ 2 * IrLen + dr + 18 + 0 + 32 - 1 = 2 * IrLen + dr + 49
    BY IrLenAssumption
  <2>4. f = << <<0, {1, 2}, 5>>,
               <<IrLen + 4, {0, 1, 2}, 5>>,
               <<IrLen + dr + 8, {0, 1, 2, 3}, 6>>,
               <<2 * IrLen + dr + 13, {0, 1, 2}, 5>>,
               <<2 * IrLen + dr + 49, {0, 1}, 3>> >>
    BY <2>2, <2>3, Zenon
  <2> HIDE DEF f
  <2> QED BY <2>4
<1> HIDE DEF f
<1>4. p \in AppendAll(f) <=> \E k \in 1..5 : InField(p, f[k])
  BY <1>2, <1>3, AppendAllBit
<1>5. (\E k \in 1..5 : InField(p, f[k]))
        <=> InField(p, f[1]) \/ InField(p, f[2]) \/ InField(p, f[3]) \/ InField(p, f[4]) \/ InField(p, f[5])
  <2>1. \A k : k \in 1..5 <=> k = 1 \/ k = 2 \/ k = 3 \/ k = 4 \/ k = 5
    OBVIOUS
  <2> QED BY <2>1, Zenon
<1>6. /\ InField(p, f[1]) <=> p \in {1, 2}
      /\ InField(p, f[2]) <=> p \in {IrLen + 4, IrLen + 5, IrLen + 6}
      /\ InField(p, f[3]) <=> p \in {IrLen + dr + 8, IrLen + dr + 9, IrLen + dr + 10, IrLen + dr + 11}
      /\ InField(p, f[4]) <=> p \in {2 * IrLen + dr + 13, 2 * IrLen + dr + 14, 2 * IrLen + dr + 15}
      /\ InField(p, f[5]) <=> p \in {2 * IrLen + dr + 49, 2 * IrLen + dr + 50}
  BY <1>3, IrLenAssumption DEF InField, Bits
<1> QED BY <1>1, <1>4, <1>5, <1>6, Zenon DEF XferHighs

LEMMA OneInstruction ==
  ASSUME NEW at \in Nat, NEW code, NEW order, order = [k \in 1..1 |-> 0]
  PROVE  Instructions(at, order, 0, code) = << <<at, code, IrLen>> >>
<1>1. DOMAIN order = 1..1 /\ order[1] = 0
  OBVIOUS
<1>2. Instructions(at, order, 0, code)
        = [k \in 1..1 |-> <<at + (k - 1) * IrLen, IF order[k] = 0 THEN code ELSE IrSkip, IrLen>>]
  BY <1>1, Zenon DEF Instructions
<1>3. \A k \in 1..1 : k = 1 /\ at + (k - 1) * IrLen = at
  BY IrLenAssumption
<1>4. Instructions(at, order, 0, code) = [k \in 1..1 |-> <<at, code, IrLen>>]
  BY <1>1, <1>2, <1>3
<1> QED BY <1>4

LEMMA XferTdiBit ==
  ASSUME NEW dr \in Nat, NEW p \in Nat, IrLen >= 4
  PROVE  p \in XferTdi(1, 0, dr, FALSE) <=> p \in XferOnes(dr)
<1> DEFINE f == TdiFields(1, 0, dr)
           shift == 2 * IrLen + dr + 18
           s == Instructions(DataIr, LastDown(1), 0, IrData)
           t == Instructions(ControlIr(1, dr), FirstUp(1), 0, IrControl)
           irs == AppendAll(f)
<1>1. XferTdi(1, 0, dr, FALSE) = AppendDword(irs, shift, PrAccClear)
  <2>1. ControlDr(1, dr) = 2 * IrLen + dr + 18 /\ SkipBits(1) = 0
    BY OneCore, Zenon
  <2>2. XferTdi(1, 0, dr, FALSE) = AppendDword(irs, ControlDr(1, dr) + SkipBits(1), PrAccClear)
    BY Zenon DEF XferTdi, TdiFields
  <2>3. ControlDr(1, dr) + SkipBits(1) = shift
    BY <2>1, IrLenAssumption
  <2> QED BY <2>2, <2>3, Zenon
<1>2. AreFields(f)
  BY TdiAreFields
<1>3. FirstUp(1) = [k \in 1..1 |-> 0] /\ LastDown(1) = [k \in 1..1 |-> 0]
  <2>1. FirstUp(1) = [k \in 1..1 |-> k - 1]
    BY OneCore DEF FirstUp
  <2>2. [k \in 1..1 |-> k - 1] = [k \in 1..1 |-> 0]
    OBVIOUS
  <2>3. FirstUp(1) = [k \in 1..1 |-> 0] /\ Len(FirstUp(1)) = 1
    BY <2>1, <2>2
  <2>4. LastDown(1) = [i \in 1..1 |-> FirstUp(1)[(1 - i) + 1]]
    BY <2>3 DEF LastDown, Reverse
  <2>5. \A i \in 1..1 : FirstUp(1)[(1 - i) + 1] = 0
    BY <2>3
  <2> QED BY <2>3, <2>4, <2>5
<1>4. s = << <<5, IrData, IrLen>> >> /\ t = << <<IrLen + dr + 14, IrControl, IrLen>> >>
  <2>1. ControlIr(1, dr) = IrLen + dr + 14
    BY OneCore, Zenon
  <2>2. ControlIr(1, dr) \in Nat /\ DataIr \in Nat
    BY <2>1, IrLenAssumption DEF DataIr
  <2>3. s = << <<DataIr, IrData, IrLen>> >> /\ t = << <<ControlIr(1, dr), IrControl, IrLen>> >>
    BY <1>3, <2>2, OneInstruction, Zenon
  <2> QED BY <2>1, <2>3, Zenon DEF DataIr
<1>5. f[1] = <<5, IrData, IrLen>> /\ f[2] = <<IrLen + dr + 14, IrControl, IrLen>> /\ Len(f) = 2
  <2> DEFINE x == <<5, IrData, IrLen>>
             y == <<IrLen + dr + 14, IrControl, IrLen>>
  <2>1. f = <<x>> \o <<y>>
    BY <1>4, Zenon DEF TdiFields
  <2> HIDE DEF f, x, y
  <2>2. f[1] = x /\ f[2] = y /\ Len(f) = 2
    BY <2>1
  <2> QED BY <2>2 DEF x, y
<1> HIDE DEF f, s, t
<1>6. \A x \in Nat : x \in irs <=> \E k \in 1..2 : InField(x, f[k])
  BY <1>2, <1>5, AppendAllBit
<1>7. ASSUME NEW x \in Nat PROVE x \in irs <=> x \in {5, 8, IrLen + dr + 15, IrLen + dr + 17}
  <2>1. (\E k \in 1..2 : InField(x, f[k])) <=> InField(x, f[1]) \/ InField(x, f[2])
    <3>1. \A k : k \in 1..2 <=> k = 1 \/ k = 2
      OBVIOUS
    <3> QED BY <3>1, Zenon
  <2>2. /\ InField(x, f[1]) <=> x \in {5, 8}
        /\ InField(x, f[2]) <=> x \in {IrLen + dr + 15, IrLen + dr + 17}
    BY <1>5, IrLenAssumption DEF InField, Bits, IrData, IrControl
  <2> QED BY <1>6, <2>1, <2>2, Zenon
<1>8. irs \in SUBSET Nat
  BY <1>2, AppendAllBit
<1> HIDE DEF irs
<1>9. \A x \in irs : ~(shift <= x /\ x < shift + W)
  BY <1>7, <1>8, IrLenAssumption DEF W
<1>10. shift \in Nat /\ PrAccClear \in SUBSET Bits(W)
  BY IrLenAssumption DEF PrAccClear, Bits, W
<1>11. p \in AppendDword(irs, shift, PrAccClear) <=> p \in irs \/ p - shift \in PrAccClear
  <2> HIDE DEF shift
  <2> QED BY <1>8, <1>9, <1>10, AppendDwordBit
<1>12. p - shift \in PrAccClear <=> p \in {2 * IrLen + dr + 32, 2 * IrLen + dr + 33}
  BY IrLenAssumption DEF PrAccClear
<1> QED BY <1>1, <1>7, <1>11, <1>12, Zenon DEF XferOnes

-----------------------------------------------------------------------------
(***************************************************************************)
(* Sequences of sequences that all have one or all have four members, as   *)
(* the words read and the scans of the transfers of a command.             *)
(***************************************************************************)
\* Rows and columns of a table with m columns.
LEMMA InRows ==
  ASSUME NEW m \in {1, 4}
  PROVE  /\ \A i \in Nat, j \in 1..m : /\ i * m + j \in Nat
                                       /\ ((i * m + j) - 1) \div m = i
                                       /\ (((i * m + j) - 1) % m) + 1 = j
         /\ \A p \in Nat \ {0} : /\ (p - 1) \div m \in Nat /\ ((p - 1) % m) + 1 \in 1..m
                                 /\ ((p - 1) \div m) * m + (((p - 1) % m) + 1) = p
<1>1. CASE m = 1
  BY <1>1
<1>2. CASE m = 4
  BY <1>2
<1> QED BY <1>1, <1>2

RowsOf(rows, n, m, X) ==
  /\ rows = [k \in 1..n |-> rows[k]]
  /\ \A k \in 1..n : rows[k] \in Seq(X) /\ Len(rows[k]) = m
Row(p, m) == ((p - 1) \div m) + 1
Column(p, m) == ((p - 1) % m) + 1

\* FlattenSeq lays the rows out one behind the other.
LEMMA FlattenRows ==
  ASSUME NEW X, NEW n \in Nat, NEW rows, NEW m \in {1, 4}, RowsOf(rows, n, m, X)
  PROVE  /\ FlattenSeq(rows) \in Seq(X) /\ Len(FlattenSeq(rows)) = n * m
         /\ \A p \in 1..(n * m) : FlattenSeq(rows)[p] = rows[Row(p, m)][Column(p, m)]
<1> DEFINE Rec(f) == [i \in 1..n |-> IF i = 1 THEN rows[i] ELSE f[i - 1] \o rows[i]]
           first(i) == [p \in 1..(i * m) |-> rows[Row(p, m)][Column(p, m)]]
           g == [i \in 1..n |-> first(i)]
           flat == CHOOSE f : f = Rec(f)
<1>1. Len(rows) = n /\ DOMAIN rows = 1..n
  BY DEF RowsOf
<1>2. \A i \in Nat : i * m \in Nat /\ (i + 1) * m = i * m + m
  OBVIOUS
<1>3. ASSUME NEW i \in 0..n, NEW p \in 1..(i * m)
      PROVE  Row(p, m) \in 1..i /\ Row(p, m) \in 1..n /\ Column(p, m) \in 1..m /\ rows[Row(p, m)][Column(p, m)] \in X
  <2>1. p \in Nat \ {0} /\ i * m \in Nat /\ p <= i * m
    BY <1>2
  <2>2. (p - 1) \div m \in Nat /\ (p - 1) \div m < i /\ Column(p, m) \in 1..m
    <3>1. CASE m = 1
      BY <2>1, <3>1 DEF Column
    <3>2. CASE m = 4
      BY <2>1, <3>2 DEF Column
    <3> QED BY <3>1, <3>2
  <2>3. Row(p, m) \in 1..i /\ Row(p, m) \in 1..n
    BY <2>2 DEF Row
  <2>4. rows[Row(p, m)] \in Seq(X) /\ Len(rows[Row(p, m)]) = m
    BY <2>3, Zenon DEF RowsOf
  <2> QED BY <2>2, <2>3, <2>4
<1>4. \A i \in 0..n : first(i) \in Seq(X) /\ Len(first(i)) = i * m
  <2>1. ASSUME NEW i \in 0..n PROVE first(i) \in Seq(X) /\ Len(first(i)) = i * m
    <3>1. first(i) \in [1..(i * m) -> X]
      BY <1>3
    <3>2. i * m \in Nat
      BY <1>2
    <3> HIDE DEF first
    <3> QED BY <3>1, <3>2
  <2> QED BY <2>1
<1>5. ASSUME NEW i \in 1..n, i # 1 PROVE first(i) = first(i - 1) \o rows[i]
  <2> DEFINE a == first(i - 1)
             z == a \o rows[i]
  <2>1. i - 1 \in 0..n /\ i \in 0..n /\ i - 1 \in Nat /\ (i - 1) + 1 = i
    BY <1>5
  <2>2. a \in Seq(X) /\ Len(a) = (i - 1) * m /\ (i - 1) * m \in Nat /\ i * m = (i - 1) * m + m
    <3>1. (i - 1) * m \in Nat /\ ((i - 1) + 1) * m = (i - 1) * m + m
      BY <1>2, <2>1
    <3> HIDE DEF first
    <3> QED BY <1>4, <2>1, <3>1
  <2>3. rows[i] \in Seq(X) /\ Len(rows[i]) = m
    BY Zenon DEF RowsOf
  <2>4. ASSUME NEW p \in 1..((i - 1) * m) PROVE z[p] = rows[Row(p, m)][Column(p, m)]
    <3>1. a[p] = rows[Row(p, m)][Column(p, m)]
      OBVIOUS
    <3> HIDE DEF a
    <3> QED BY <2>2, <2>3, <3>1
  <2>5. ASSUME NEW p \in 1..(i * m), ~(p <= (i - 1) * m) PROVE z[p] = rows[Row(p, m)][Column(p, m)]
    <3>1. PICK j \in 1..m : p = (i - 1) * m + j
      BY <2>2, <2>5
    <3>2. Row(p, m) = i /\ Column(p, m) = j
      <4>1. CASE m = 1
        BY <2>1, <3>1, <4>1 DEF Row, Column
      <4>2. CASE m = 4
        BY <2>1, <3>1, <4>2 DEF Row, Column
      <4> QED BY <4>1, <4>2
    <3>3. z[p] = rows[i][j]
      <4> DEFINE r == rows[i]
      <4>1. r \in Seq(X) /\ Len(r) = m
        BY <2>3
      <4>2. p \in Nat /\ p > Len(a) /\ p - Len(a) = j /\ p <= Len(a) + Len(r)
        BY <2>2, <2>5, <3>1, <4>1
      <4> HIDE DEF a, r
      <4>3. (a \o r)[p] = r[j]
        BY <2>2, <4>1, <4>2
      <4> QED BY <4>3 DEF r
    <3> QED BY <3>2, <3>3, Zenon
  <2>6. z \in Seq(X) /\ Len(z) = i * m
    <3> HIDE DEF a
    <3> QED BY <2>2, <2>3
  <2>7. \A p \in 1..(i * m) : z[p] = rows[Row(p, m)][Column(p, m)]
    <3>1. \A p \in 1..(i * m) : p \in 1..((i - 1) * m) \/ ~(p <= (i - 1) * m)
      BY <2>2
    <3> HIDE DEF z
    <3> QED BY <2>4, <2>5, <3>1, Zenon
  <2>8. first(i) \in Seq(X) /\ Len(first(i)) = i * m /\ \A p \in 1..(i * m) : first(i)[p] = rows[Row(p, m)][Column(p, m)]
    <3>1. first(i) \in Seq(X) /\ Len(first(i)) = i * m
      <4> HIDE DEF first
      <4> QED BY <1>4, <2>1
    <3> QED BY <3>1
  <2> HIDE DEF z, first
  <2>9. z = [p \in 1..(i * m) |-> z[p]] /\ first(i) = [p \in 1..(i * m) |-> first(i)[p]]
    BY <2>6, <2>8
  <2>10. z = first(i)
    BY <2>7, <2>8, <2>9
  <2> QED BY <2>10 DEF z
<1>6. ASSUME NEW i \in 1..n, i = 1 PROVE first(i) = rows[i]
  <2>1. rows[1] \in Seq(X) /\ Len(rows[1]) = m
    BY <1>6, Zenon DEF RowsOf
  <2>2. \A p \in 1..m : Row(p, m) = 1 /\ Column(p, m) = p
    <3>1. CASE m = 1
      BY <3>1 DEF Row, Column
    <3>2. CASE m = 4
      BY <3>2 DEF Row, Column
    <3> QED BY <3>1, <3>2
  <2>3. 1 * m = m
    OBVIOUS
  <2>4. first(1) = [p \in 1..m |-> rows[1][p]]
    BY <2>2, <2>3
  <2> HIDE DEF first
  <2> QED BY <1>6, <2>1, <2>4
<1>7. g = Rec(g)
  <2>1. ASSUME NEW i \in 1..n PROVE g[i] = Rec(g)[i]
    <3>1. CASE i = 1
      BY <1>6, <3>1
    <3>2. CASE i # 1
      <4>1. i - 1 \in 1..n
        BY <3>2
      <4> HIDE DEF first
      <4> QED BY <1>5, <3>2, <4>1
    <3> QED BY <3>1, <3>2
  <2> HIDE DEF first
  <2> QED BY <2>1
<1> HIDE DEF g
<1>8. flat = Rec(flat)
  <2> HIDE DEF Rec
  <2> QED BY <1>7, Zenon
<1> HIDE DEF flat, first
<1>9. \A i \in 1..n : flat[i] = IF i = 1 THEN rows[i] ELSE flat[i - 1] \o rows[i]
  <2>1. ASSUME NEW i \in 1..n PROVE Rec(flat)[i] = IF i = 1 THEN rows[i] ELSE flat[i - 1] \o rows[i]
    OBVIOUS
  <2> HIDE DEF Rec
  <2> QED BY <1>8, <2>1
<1>10. CASE n > 0
  <2> DEFINE S == {k \in 0..n : k > 0 => flat[k] = first(k)}
  <2>1. 0 \in S
    OBVIOUS
  <2>2. ASSUME NEW k \in Nat, k < n, k \in S PROVE k + 1 \in S
    <3>1. k + 1 \in 1..n /\ (k + 1) - 1 = k
      BY <2>2
    <3>2. CASE k = 0
      <4>1. k + 1 = 1 /\ 1 \in 1..n
        BY <3>1, <3>2
      <4>2. flat[1] = rows[1] /\ first(1) = rows[1]
        BY <1>6, <1>9, <4>1, Zenon
      <4>3. flat[k + 1] = first(k + 1)
        BY <3>2, <4>2
      <4> QED BY <3>1, <4>3
    <3>3. CASE k # 0
      <4>1. flat[k] = first(k)
        BY <2>2, <3>3
      <4>2. flat[k + 1] = first(k) \o rows[k + 1]
        <5>1. flat[k + 1] = IF k + 1 = 1 THEN rows[k + 1] ELSE flat[(k + 1) - 1] \o rows[k + 1]
          BY <1>9, <3>1, Zenon
        <5>2. k + 1 # 1
          BY <3>3
        <5> QED BY <3>1, <4>1, <5>1, <5>2, Zenon
      <4>3. first(k + 1) = first(k) \o rows[k + 1]
        <5>1. k + 1 # 1
          BY <3>3
        <5>2. first(k + 1) = first((k + 1) - 1) \o rows[k + 1]
          BY <1>5, <3>1, <5>1, Zenon
        <5> QED BY <3>1, <5>2, Zenon
      <4>4. flat[k + 1] = first(k + 1)
        BY <4>2, <4>3, Zenon
      <4> QED BY <3>1, <4>4
    <3> QED BY <3>2, <3>3
  <2>3. \A k \in 0..n : k \in S
    <3> HIDE DEF S
    <3> QED BY <2>1, <2>2, UpTo
  <2>4. flat[n] = first(n)
    BY <1>10, <2>3
  <2>5. FlattenSeq(rows) = flat[n]
    <3>1. Len(rows) # 0 /\ Len(rows) = n
      BY <1>1, <1>10
    <3> QED BY <3>1, Zenon DEF FlattenSeq, flat, Rec
  <2>6. first(n) \in Seq(X) /\ Len(first(n)) = n * m
    BY <1>4
  <2>7. \A p \in 1..(n * m) : first(n)[p] = rows[Row(p, m)][Column(p, m)]
    BY DEF first
  <2> QED BY <2>4, <2>5, <2>6, <2>7, Zenon
<1>11. CASE n = 0
  <2>1. FlattenSeq(rows) = rows
    BY <1>1, <1>11, Zenon DEF FlattenSeq
  <2>2. rows = <<>>
    BY <1>11 DEF RowsOf
  <2>3. n * m = 0
    BY <1>11
  <2> QED BY <2>1, <2>2, <2>3
<1> QED BY <1>10, <1>11
=============================================================================
