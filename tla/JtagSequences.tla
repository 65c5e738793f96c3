---------------------------- MODULE JtagSequences ----------------------------
(***************************************************************************)
(* The TDI and TMS sequences that cmdimpl.c composes: for an IR or DR      *)
(* access, and for the transfers of fast reads and fast writes through a   *)
(* chain of cores.  A command is a record; data are sets of bit positions, *)
(* padded to words as the host sends them.                                 *)
(***************************************************************************)
EXTENDS Words

CONSTANT IrLen   \* param_ir_len_bits

ASSUME IrLenAssumption == IrLen \in 1..8

\* The instructions: the defaults of lsejtag_init_ctx.
IrSkip == Bits(8)
IrControl == {1, 3}
IrData == {0, 3}
IrFastdata == {1, 2, 3}

\* What is written to CONTROL to clear PrAcc: 0xc000.
PrAccClear == {14, 15}

Smaller(a, b) == IF a < b THEN a ELSE b

(***************************************************************************)
(* cmdimpl_irdr_write.                                                     *)
(***************************************************************************)
\* Bits in front of the data: the walk to Shift-IR or Shift-DR.
Lead(isir) == IF isir THEN 5 ELSE 4
IrDrLength(isir, len) == Lead(isir) + len + 2

\* The loop over the dwords of the data: each is or-ed into its word, and what
\* does not fit is assigned to the next.
IrDrTdiCarry(isir, len, data) ==
  UNION {{i * W + b : b \in Shl(Word(data, i), Lead(isir))}
           \cup {(i + 1) * W + b : b \in Shr(Word(data, i), 28)} : i \in Bits(Dwords(len))}
IrDrTdi(isir, len, data) ==
  UNION {{i * W + b : b \in Shl(Word(data, i), Lead(isir))}
           \cup {(i + 1) * W + b : b \in Shr(Word(data, i), W - Lead(isir))} : i \in Bits(Dwords(len))}

\* The walk there, and the two ones at the end: in word len / 32, at the bit at
\* which the last data bit has its place in its own word.
IrDrTmsOneWord(isir, len) ==
  OrInto(IF isir THEN {1, 2} ELSE {1}, len \div W, Shl({0, 1}, (Lead(isir) + len - 1) % W))
IrDrTms(isir, len) ==
  LET i == len \div W
      s == (Lead(isir) + len - 1) % W
      low == OrInto(IF isir THEN {1, 2} ELSE {1}, i, Shl({0, 1}, s))
  IN  IF s >= 30 THEN Assign(low, i + 1, Shr({0, 1}, W - s)) ELSE low

(***************************************************************************)
(* One transfer of cmdimpl_fast_mem_write and cmdimpl_fast_mem_read for    *)
(* `cores' cores (0 where the code takes it for one without a chain).      *)
(***************************************************************************)
\* Bits of the other cores' SKIP registers.
SkipBits(cores) == IF cores = 0 THEN 0 ELSE cores - 1
RealCores(cores) == IF cores = 0 THEN 1 ELSE cores

DrSeqBits(cores, wide, fast) ==
  SkipBits(cores) + (IF wide THEN 64 ELSE 32) + (IF fast THEN 1 ELSE 0)

\* fast_mem_rw_get_bits_per_xfer
BitsPerXferNoOverlap(cores, wide, fast) ==
  IF fast THEN (IF wide THEN 71 ELSE 39) + SkipBits(cores)
  ELSE (IF wide THEN 118 ELSE 86) + 2 * (RealCores(cores) * IrLen + SkipBits(cores))
BitsPerXfer(cores, wide, fast) ==
  IF fast THEN (IF wide THEN 71 ELSE 39) + SkipBits(cores)
  ELSE (IF wide THEN 118 ELSE 86) + 2 * (RealCores(cores) * IrLen - 1 + SkipBits(cores))

\* The instructions of a chain, one field per core, from bit `at' on, in the
\* order in which the loop visits the cores.
Instructions(at, order, target, code) ==
  [k \in DOMAIN order |->
     <<at + (k - 1) * IrLen, IF order[k] = target THEN code ELSE IrSkip, IrLen>>]
FirstUp(cores) == [k \in 1..RealCores(cores) |-> k - 1]
LastDown(cores) == Reverse(FirstUp(cores))

\* Where in a transfer its parts begin: the IR sequence of DATA, its data, the IR
\* sequence of CONTROL, the control word, the end.
DataIr == 5
DataDr(cores) == DataIr + RealCores(cores) * IrLen - 1 + 5
ControlIr(cores, dr) == DataDr(cores) + dr - 1 + 6
ControlDr(cores, dr) == ControlIr(cores, dr) + RealCores(cores) * IrLen - 1 + 5

XferTms(cores, dr, fast) ==
  IF fast THEN AppendAll(<< <<0, {1}, 4>>, <<4 + dr - 1, {0, 1}, 3>> >>)
  ELSE AppendAll(<< <<0, {1, 2}, 5>>,
                    <<DataIr + RealCores(cores) * IrLen - 1, {0, 1, 2}, 5>>,
                    <<DataDr(cores) + dr - 1, {0, 1, 2, 3}, 6>>,
                    <<ControlIr(cores, dr) + RealCores(cores) * IrLen - 1, {0, 1, 2}, 5>>,
                    <<ControlDr(cores, dr) + SkipBits(cores) + W - 1, {0, 1}, 3>> >>)

XferTdi(cores, target, dr, fast) ==
  IF fast THEN {}
  ELSE AppendDword(
         AppendAll(Instructions(DataIr, LastDown(cores), target, IrData)
                     \o Instructions(ControlIr(cores, dr), FirstUp(cores), target, IrControl)),
         ControlDr(cores, dr) + SkipBits(cores), PrAccClear)

\* The length that the composed sequence really has, which the code asserts to be
\* the one computed.
XferLength(cores, dr, fast) ==
  IF fast THEN dr + 6 ELSE ControlDr(cores, dr) + SkipBits(cores) + W + 2

\* The first instance copied to n - 1 further ones, word by word.
CopyTo(buf, at, bits) ==
  LET full == bits \div W
      words == Loop(LAMBDA b, j : AppendDword(b, at + j * W, Word(b, j)), buf, full)
  IN  IF bits % W = 0 THEN words
      ELSE AppendBits(words, at + full * W, Word(words, full), bits % W)
Instances(buf, bits, n) ==
  Loop(LAMBDA b, k : IF k = 0 THEN b ELSE CopyTo(b, k * bits, bits), buf, n)

\* cmdimpl_continue_fast_mem_write: the data of some transfers go over those of the
\* previous run.  data[k] is the sequence of dwords of the k-th.
DataOffset(cores, fast) == IF fast THEN 4 ELSE RealCores(cores) * IrLen + 9

PlaceOne(buf, at, dr, words) ==
  LET full == dr \div W
      dwords == Loop(LAMBDA b, j : ReplaceDword(b, at + j * W, words[j + 1]), buf, full)
  IN  IF dr % W = 0 THEN dwords
      ELSE ReplaceBits(dwords, at + full * W, words[full + 1], dr % W)
PlaceData(buf, cores, fast, bits, dr, data) ==
  Loop(LAMBDA b, k : PlaceOne(b, k * bits + DataOffset(cores, fast), dr, data[k + 1]),
       buf, Len(data))
=============================================================================
