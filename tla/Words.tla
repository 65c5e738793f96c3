-------------------------------- MODULE Words --------------------------------
(***************************************************************************)
(* Buffers of 32-bit words, and the helpers of cmdimpl.c that put fields   *)
(* of bits into them.  A word is the set of the positions of its one bits, *)
(* and so is a buffer: bit b of word i is position i * W + b.              *)
(***************************************************************************)
EXTENDS Integers, Sequences, SequencesExt

W == 32
Bits(n) == 0..(n - 1)

\* BIT2DWORD
Dwords(n) == (n + W - 1) \div W

\* A word, and a buffer in which word i has been assigned.
Word(buf, i) == {b \in Bits(W) : i * W + b \in buf}
Assign(buf, i, word) == {p \in buf : p \div W # i} \cup {i * W + b : b \in word}
OrInto(buf, i, word) == Assign(buf, i, Word(buf, i) \cup word)

\* word << n and word >> n
Shl(word, n) == {b \in Bits(W) : b - n \in word}
Shr(word, n) == {b \in Bits(W) : b + n \in word}

\* append_bits
AppendBits(buf, shift, field, bits) ==
  LET i == shift \div W
      s == shift % W
      masked == field \cap Bits(bits)
      low == OrInto(buf, i, Shl(masked, s))
  IN  IF s < W - bits THEN low ELSE OrInto(low, i + 1, Shr(masked, W - s))

\* append_dword
AppendDword(buf, shift, field) ==
  LET i == shift \div W
      s == shift % W
  IN  IF s = 0 THEN Assign(buf, i, field)
      ELSE OrInto(OrInto(buf, i, Shl(field, s)), i + 1, Shr(field, W - s))

\* replace_dword
ReplaceDwordOrs(buf, shift, field) == AppendDword(buf, shift, field)
ReplaceDword(buf, shift, field) ==
  LET i == shift \div W
      s == shift % W
      low == Assign(buf, i, (Word(buf, i) \cap Bits(s)) \cup Shl(field, s))
  IN  IF s = 0 THEN Assign(buf, i, field)
      ELSE Assign(low, i + 1, (Word(buf, i + 1) \ Bits(s)) \cup Shr(field, W - s))

\* replace_bits.  If the field ends inside the word, the bits that the mask
\* clears are `bits' to 2 * bits - 1, wherever the field goes.
ReplaceBits(buf, shift, field, bits) ==
  LET i == shift \div W
      s == shift % W
      masked == field \cap Bits(bits)
      low == Assign(buf, i, (Word(buf, i) \cap Bits(bits)) \cup Shl(masked, s))
  IN  IF s < W - bits
      THEN Assign(buf, i, (Word(buf, i) \ (Bits(2 * bits) \ Bits(bits))) \cup Shl(masked, s))
      ELSE Assign(low, i + 1, (Word(buf, i + 1) \ Bits(s + bits - W)) \cup Shr(masked, W - s))

\* buf after step(buf, k) for k = 0, ..., n - 1.  (The singleton set makes TLC evaluate
\* the buffer once for each step.)
Loop(step(_, _), buf, n) ==
  LET after[k \in 0..n] ==
        IF k = 0 THEN buf ELSE UNION {step(b, k - 1) : b \in {after[k - 1]}}
  IN  after[n]

\* A buffer of zeros into which the fields <<position, field, bits>> are appended.
AppendAll(fields) ==
  Loop(LAMBDA buf, k : AppendBits(buf, fields[k + 1][1], fields[k + 1][2], fields[k + 1][3]),
       {}, Len(fields))
=============================================================================
