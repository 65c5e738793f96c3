------------------------------- MODULE MCJtag --------------------------------
(* Model-checking instance of Jtag: the commands of a few debugger sessions,  *)
(* with real 32-bit words and the 5-bit instructions of MIPS EJTAG.           *)
EXTENDS Jtag

\* What the target answers: a different pattern for each scan.
MCAnswer == [k \in 1..32 |-> {i \in 0..127 : (i * i + 3 * k) % (5 + k) < 3}]

Thirds == {i \in 0..127 : i % 3 = 0}
Others == {i \in 0..127 : i % 3 # 0}

Access(op, len, ones, rd) == [op |-> op, len |-> len, data |-> ones \cap Bits(len), read |-> rd]
Accesses(op, lens) == {Access(op, l, ones, l % 2 = 0 \/ l > 60) : l \in lens, ones \in {Thirds, Others}}

\* The dwords of k transfers of w dwords; the last of FASTDATA is one bit.
Dword(k, j) == {b \in Bits(W) : (b + 7 * k + 3 * j) % (k + 2) = 0}
Full(n, w) == [k \in 1..n |-> [j \in 1..w |-> Dword(k, j)]]
WithBit(n, w) == [k \in 1..n |-> [j \in 1..(w + 1) |-> IF j > w THEN Dword(k, j) \cap {0} ELSE Dword(k, j)]]

Write(n, cores, wide) ==
  [op |-> "fwrite", cores |-> cores, target |-> 0, wide |-> wide, fast |-> FALSE,
   data |-> Full(n, IF wide THEN 2 ELSE 1)]
FastdataWrite(n, cores) ==
  [op |-> "fwrite", cores |-> cores, target |-> 0, wide |-> FALSE, fast |-> TRUE, data |-> WithBit(n, 1)]
Read(n, wide) ==
  [op |-> "fread", cores |-> 1, target |-> 0, wide |-> wide, fast |-> FALSE, data |-> Full(n, 1)]

\* Every length whose end bits fall into the word the code puts them in: one session
\* for each length, and one that mixes lengths.
Lengths(lead) == {l \in 1..96 : (lead + l - 1) \div W = l \div W}
AnyLength(l) ==
  (IF l \in Lengths(5) THEN Accesses("ir", {l}) ELSE {}) \cup (IF l \in Lengths(4) THEN Accesses("dr", {l}) ELSE {})
Mixed == Accesses("ir", {1, 5, 27, 32}) \cup Accesses("dr", {1, 28, 33, 60, 64})
Narrow == {Write(1, 1, FALSE), Write(4, 1, FALSE), Write(6, 1, FALSE), Read(1, FALSE), Read(2, FALSE),
           Access("ir", 5, Thirds, TRUE), Access("dr", 32, Thirds, TRUE)}
Wide == {Write(1, 1, TRUE), Write(3, 1, TRUE), Access("ir", 5, Others, FALSE), Access("dr", 64, Thirds, TRUE)}
Good == [s \in {<<"length", l>> : l \in 1..96} \cup {<<"mixed", 0>>, <<"narrow", 0>>, <<"wide", 0>>} |->
  CASE s[1] = "length" -> AnyLength(s[2])
    [] s[1] = "mixed" -> Mixed
    [] s[1] = "narrow" -> Narrow
    [] s[1] = "wide" -> Wide]

\* Lengths whose end bits fall into the next word.
BadEnds == [all |-> Accesses("ir", {28, 31}) \cup Accesses("dr", {29, 63})]
\* The GS232 mode, which writes FASTDATA without selecting it.
Gs232 == [all |-> {FastdataWrite(3, 0)}]
Fastdata == [all |-> {FastdataWrite(2, 1)}]
TwoCores == [all |-> {[Write(1, 2, FALSE) EXCEPT !.data = << <<{}, {}>> >>]}]
WideRead == [all |-> {Write(1, 1, TRUE), Read(1, FALSE)}]
FastThenRead == [all |-> {FastdataWrite(1, 1), Read(1, FALSE)}]
PartialRead == [all |-> Accesses("dr", {10})]
Reads == [all |-> {Read(1, FALSE)}]
\* With a JTAG buffer too small for one transfer (127 cores with 8-bit instructions do
\* not fit the real one).
OneWrite == [all |-> {Write(1, 1, FALSE)}]
=============================================================================
