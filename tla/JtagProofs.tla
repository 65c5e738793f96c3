----------------------------- MODULE JtagProofs ------------------------------
(***************************************************************************)
(* Theorems about Jtag, for every set of sessions, every length of data    *)
(* and every answer of the target.                                         *)
(***************************************************************************)
EXTENDS Jtag, WordsProofs

WordsOfBits == SUBSET Bits(W)

\* The locals of the bit loop.
PortType ==
  port \in [n : Nat, skip : Nat, count : Nat, reg : WordsOfBits, out : Seq(WordsOfBits)]
BlkType ==
  /\ DOMAIN blk = {"tms", "tdi", "bits", "tdo", "skip"}
  /\ blk.tdo \in Nat /\ blk.skip \in Nat
CtxType ==
  /\ DOMAIN ctx = {"cores", "target", "wide", "fast", "dr", "bits", "perBlk", "tdi", "skip", "left"}
  /\ ctx.cores \in Nat /\ ctx.dr \in Nat /\ ctx.skip \in Nat

\* How far the loop is: skipping, then capturing, then only clocking.
Progress ==
  /\ port.n <= blk.skip => port.skip = blk.skip - port.n /\ port.count = 0
  /\ port.n > blk.skip =>
       port.skip = 0 /\ port.count = Smaller(blk.tdo, port.n - blk.skip)

\* One store for each full word, and one for each pulse behind the last bit.
Stores ==
  /\ port.count = 0 => Len(port.out) = 0
  /\ port.count > 0 =>
       Len(port.out) <= port.count \div W + (port.n - blk.skip - port.count)

\* The run of an access.
AccessRun ==
  phase = "run" /\ job.op \in {"ir", "dr"} =>
    /\ blk.bits \in Nat /\ port.n <= blk.bits
    /\ blk.tdo > 0 => blk.bits = blk.skip + blk.tdo + 2

SpillInv ==
  /\ session \in DOMAIN Sessions
  /\ PortType /\ BlkType /\ CtxType
  /\ phase # "run" => port = NoPort
  /\ phase = "continue" => job.op \in {"fwrite", "fread"}
  /\ phase = "run" => Progress
  /\ Stores
  /\ AccessRun
-----------------------------------------------------------------------------
\* BIT2DWORD rounds up.
LEMMA DwordsNat ==
  ASSUME NEW n \in Nat
  PROVE  Dwords(n) \in Nat /\ n \div W <= Dwords(n)
  BY DEF Dwords, W

LEMMA NextWord ==
  \A n \in Nat : (n + 1) \div W = n \div W + (IF (n + 1) % W = 0 THEN 1 ELSE 0)
  BY DEF W

\* A read of the word register yields a word.
LEMMA ShiftedInType ==
  ASSUME NEW reg, NEW level
  PROVE  ShiftedIn(reg, level) \in WordsOfBits
  BY DEF ShiftedIn, Shr, Bits, W, WordsOfBits

LEMMA NoPortType ==
  NoPort \in [n : Nat, skip : Nat, count : Nat, reg : WordsOfBits, out : Seq(WordsOfBits)]
  BY DEF NoPort, PortFrom, WordsOfBits

\* The lengths of the DR sequence and of the part to be skipped are naturals.
LEMMA SequenceNats ==
  ASSUME NEW cores \in Nat, NEW wide, NEW fast
  PROVE  /\ DrSeqBits(cores, wide, fast) \in Nat
         /\ RealCores(cores) \in Nat \ {0}
         /\ (IF fast THEN 4 ELSE 9 + RealCores(cores) * IrLen) \in Nat
<1>1. RealCores(cores) \in Nat \ {0}
  BY DEF RealCores
<1>2. RealCores(cores) * IrLen \in Nat
  BY <1>1, ProductNat, IrLenAssumption
<1>3. DrSeqBits(cores, wide, fast) \in Nat
  BY DEF DrSeqBits, SkipBits
<1> QED BY <1>1, <1>2, <1>3

\* Before the first pulse.
LEMMA FreshPort ==
  ASSUME blk'.skip \in Nat, blk'.tdo \in Nat, port' = PortFrom(blk'.skip)
  PROVE  PortType' /\ Progress' /\ Stores' /\ port'.n = 0
<1>1. port' = [n |-> 0, skip |-> blk'.skip, count |-> 0, reg |-> {}, out |-> <<>>]
  BY DEF PortFrom
<1>2. PortType'
  BY <1>1 DEF PortType, WordsOfBits
<1>3. /\ port'.n = 0 /\ port'.skip = blk'.skip /\ port'.count = 0 /\ Len(port'.out) = 0
  BY <1>1
<1>4. Progress' /\ Stores' /\ port'.n = 0
  BY <1>3 DEF Progress, Stores, Smaller
<1> QED BY <1>2, <1>4

\* One turn of the bit loop.
LEMMA TckStep ==
  ASSUME SpillInv, Tck
  PROVE  PortType' /\ Progress' /\ Stores' /\ port.n' = port.n + 1
<1> USE DEF SpillInv
<1> DEFINE count == IF Capturing THEN port.count + 1 ELSE port.count
           skip == IF port.skip > 0 THEN port.skip - 1 ELSE 0
<1>1. PICK level \in Tdo :
        port' = [n |-> port.n + 1, skip |-> skip, count |-> count,
                 reg |-> IF Capturing THEN ShiftedIn(port.reg, level) ELSE port.reg,
                 out |-> Store(port.out, count,
                               IF Capturing THEN ShiftedIn(port.reg, level) ELSE port.reg)]
  BY DEF Tck
<1> DEFINE reg == IF Capturing THEN ShiftedIn(port.reg, level) ELSE port.reg
<1>2. phase = "run" /\ blk' = blk /\ Progress
  BY DEF Tck
<1>3. /\ port.n \in Nat /\ port.skip \in Nat /\ port.count \in Nat
      /\ port.reg \in WordsOfBits /\ port.out \in Seq(WordsOfBits)
  BY DEF PortType
<1>4. count \in Nat /\ skip \in Nat /\ reg \in WordsOfBits
  BY <1>3, ShiftedInType
<1>5. /\ Store(port.out, count, reg) \in Seq(WordsOfBits)
      /\ Len(Store(port.out, count, reg)) =
           IF count > 0 /\ count % W = 0 THEN Len(port.out) + 1 ELSE Len(port.out)
  BY <1>3, <1>4 DEF Store
<1>6. PortType'
  BY <1>1, <1>3, <1>4, <1>5 DEF PortType
<1>7. /\ port.n' = port.n + 1 /\ port.skip' = skip /\ port.count' = count
      /\ Len(port.out') = IF count > 0 /\ count % W = 0 THEN Len(port.out) + 1 ELSE Len(port.out)
  BY <1>1, <1>5
<1>8. Progress'
  <2>1. blk.skip \in Nat /\ blk.tdo \in Nat
    BY DEF BlkType
  <2> HIDE DEF SpillInv
  <2>2. CASE port.n < blk.skip
    BY <2>1, <2>2, <1>2, <1>3, <1>7, SMTT(30) DEF Progress, Capturing
  <2>3. CASE port.n >= blk.skip
    <3>1. port.skip = 0 /\ port.count = Smaller(blk.tdo, port.n - blk.skip)
      BY <2>1, <2>3, <1>2, <1>3 DEF Progress, Smaller
    <3>2. skip = 0 /\ count = Smaller(blk.tdo, port.n + 1 - blk.skip)
      BY <3>1, <2>1, <2>3, <1>3 DEF Capturing, Smaller
    <3> HIDE DEF skip, count, reg
    <3> QED BY <3>2, <2>1, <2>3, <1>2, <1>3, <1>7 DEF Progress
  <2> QED BY <2>1, <2>2, <2>3, <1>3
<1>9. Stores'
  <2> HIDE DEF SpillInv, count, skip, reg
  <2>1. blk.skip \in Nat /\ blk.tdo \in Nat /\ Stores /\ Len(port.out) \in Nat
    BY <1>3 DEF SpillInv, BlkType
  <2>2. CASE Capturing
    <3>1. port.n >= blk.skip /\ count = port.count + 1
      BY <2>1, <2>2, <1>2, <1>3 DEF Capturing, Progress, count
    <3>2. port.count <= port.n - blk.skip
      BY <3>1, <2>1, <1>2, <1>3 DEF Progress, Smaller
    <3>3. Len(port.out') <= count \div W + (port.n - blk.skip - port.count)
      <4>1. Len(port.out) <= port.count \div W + (port.n - blk.skip - port.count)
        BY <3>2, <2>1, <1>3 DEF Stores, W
      <4>2. count \div W = port.count \div W + (IF count % W = 0 THEN 1 ELSE 0)
        BY <3>1, <1>3, NextWord
      <4>3. port.count \div W \in Nat /\ count \div W \in Nat
        BY <3>1, <1>3 DEF W
      <4> QED BY <4>1, <4>2, <4>3, <3>1, <2>1, <1>3, <1>7, SMTT(30)
    <3> QED BY <3>1, <3>3, <2>1, <1>2, <1>3, <1>7, SMTT(30) DEF Stores
  <2>3. CASE ~Capturing
    <3>1. count = port.count
      BY <2>3 DEF count
    <3>2. CASE count = 0
      BY <3>1, <3>2, <2>1, <1>7 DEF Stores
    <3>3. CASE count > 0
      <4>1. Len(port.out) <= port.count \div W + (port.n - blk.skip - port.count)
        BY <3>1, <3>3, <2>1 DEF Stores
      <4>2. Len(port.out') <= port.count \div W + (port.n - blk.skip - port.count) + 1
        <5>1. port.count \div W \in Nat
          BY <1>3 DEF W
        <5> QED BY <4>1, <5>1, <2>1, <1>3, <1>7
      <4>3. port.count' \div W + (port.n' - blk.skip' - port.count')
              = port.count \div W + (port.n - blk.skip - port.count) + 1
        <5>1. port.count \div W \in Nat
          BY <1>3 DEF W
        <5>2. port.n' = port.n + 1 /\ blk.skip' = blk.skip /\ port.count' = port.count
          BY <3>1, <1>2, <1>7
        <5>3. port.count' \div W = port.count \div W
          BY <5>2
        <5>4. port.n' - blk.skip' - port.count' = port.n - blk.skip - port.count + 1
          BY <5>2, <2>1, <1>3
        <5>5. port.n - blk.skip - port.count \in Int
          BY <2>1, <1>3
        <5> QED BY <5>1, <5>3, <5>4, <5>5
      <4> QED BY <4>2, <4>3, <3>1, <3>3, <1>7 DEF Stores
    <3> QED BY <3>1, <3>2, <3>3, <1>3
  <2> QED BY <2>2, <2>3
<1> QED BY <1>6, <1>7, <1>8, <1>9
-----------------------------------------------------------------------------
LEMMA SpillInit == Init => SpillInv
<1> SUFFICES ASSUME Init PROVE SpillInv
  OBVIOUS
<1>1. port = [n |-> 0, skip |-> 0, count |-> 0, reg |-> {}, out |-> <<>>]
  BY DEF Init, NoPort, PortFrom
<1>2. PortType /\ Stores
  BY <1>1, NoPortType DEF PortType, Stores, Init
<1>3. BlkType /\ CtxType
  BY DEF Init, BlkType, CtxType
<1> QED BY <1>2, <1>3 DEF Init, SpillInv, AccessRun

LEMMA IrDrWriteStep ==
  ASSUME SpillInv, NEW c \in Sessions[session], IrDrWrite(c)
  PROVE  SpillInv'
<1>1. c.len \in Nat /\ c.op \in {"ir", "dr"}
  BY SessionsAssumption DEF SpillInv, IrDrWrite
<1> DEFINE len == IrDrLength(Isir(c), c.len)
<1>2. len \in Nat /\ len = Lead(Isir(c)) + c.len + 2 /\ Lead(Isir(c)) \in Nat
  BY <1>1 DEF IrDrLength, Lead
<1>3. blk' = [tms |-> IrDrTms(Isir(c), c.len) \cup Cleared(blk.tms, len),
              tdi |-> IrDrTdi(Isir(c), c.len, c.data) \cup Cleared(blk.tdi, c.len + W),
              bits |-> len,
              tdo |-> IF c.read THEN c.len ELSE 0,
              skip |-> IF c.read THEN Lead(Isir(c)) ELSE blk.skip]
  BY DEF IrDrWrite
<1>4. /\ DOMAIN blk' = {"tms", "tdi", "bits", "tdo", "skip"} /\ blk'.bits = len
      /\ blk'.tdo = (IF c.read THEN c.len ELSE 0)
      /\ blk'.skip = (IF c.read THEN Lead(Isir(c)) ELSE blk.skip)
  BY <1>3
<1>5. BlkType'
  BY <1>1, <1>2, <1>4 DEF BlkType, SpillInv
<1>6. PortType' /\ Progress' /\ Stores' /\ port'.n = 0
  BY <1>5, FreshPort DEF BlkType, IrDrWrite
<1>7. AccessRun'
  BY <1>1, <1>2, <1>4, <1>6 DEF AccessRun
<1>8. CtxType' /\ phase' = "run" /\ session' = session
  BY DEF IrDrWrite, Take, SpillInv, CtxType
<1> QED BY <1>5, <1>6, <1>7, <1>8 DEF SpillInv

LEMMA FastWriteStep ==
  ASSUME SpillInv, NEW c \in Sessions[session], FastWrite(c)
  PROVE  SpillInv'
<1>1. /\ c.op = "fwrite" /\ c.cores \in Nat /\ job' = c /\ session' = session
      /\ phase = "idle" /\ port' = port
  BY SessionsAssumption DEF SpillInv, FastWrite, Take
<1>2. DrSeqBits(c.cores, c.wide, c.fast) \in Nat
  BY <1>1, SequenceNats
<1>3. CtxType'
  BY <1>1, <1>2 DEF FastWrite, CtxType, SpillInv
<1>4. BlkType' /\ blk'.tdo = blk.tdo /\ blk'.skip = blk.skip
  BY DEF FastWrite, BlkType, SpillInv
<1>5. phase' \in {"continue", "idle"}
  BY DEF FastWrite, Composed
<1>6. port = NoPort /\ PortType'
  BY <1>1 DEF SpillInv, PortType
<1>7. Stores'
  BY <1>6, <1>1 DEF Stores, NoPort, PortFrom
<1> QED BY <1>1, <1>3, <1>4, <1>5, <1>6, <1>7 DEF SpillInv, AccessRun

LEMMA ContinueFastWriteStep ==
  ASSUME SpillInv, ContinueFastWrite
  PROVE  SpillInv'
<1>1. /\ job' = job /\ job.op = "fwrite" /\ session' = session /\ phase' = "run"
      /\ port' = PortFrom(blk.skip)
  BY DEF ContinueFastWrite
<1>2. CtxType'
  BY DEF ContinueFastWrite, CtxType, SpillInv
<1>3. BlkType' /\ blk'.tdo = 0 /\ blk'.skip = blk.skip
  BY DEF ContinueFastWrite, BlkType, SpillInv
<1>4. PortType' /\ Progress' /\ Stores'
  BY <1>1, <1>3, FreshPort DEF BlkType
<1> QED BY <1>1, <1>2, <1>3, <1>4 DEF SpillInv, AccessRun

LEMMA FastReadStep ==
  ASSUME SpillInv, NEW c \in Sessions[session], FastRead(c)
  PROVE  SpillInv'
<1>1. /\ c.op = "fread" /\ c.cores \in Nat /\ job' = c /\ session' = session
      /\ phase = "idle" /\ port' = port
  BY SessionsAssumption DEF SpillInv, FastRead, Take
<1>2. RealCores(c.cores) \in Nat \ {0}
  BY <1>1, SequenceNats
<1>3. /\ DrSeqBits(RealCores(c.cores), ctx.wide, c.fast) \in Nat
      /\ (IF c.fast THEN 4 ELSE 9 + RealCores(ctx.cores) * IrLen) \in Nat
  BY <1>2, SequenceNats DEF SpillInv, CtxType
<1>4. CtxType'
  BY <1>2, <1>3 DEF FastRead, CtxType, SpillInv
<1>5. BlkType' /\ blk'.tdo = blk.tdo /\ blk'.skip = blk.skip
  BY DEF FastRead, BlkType, SpillInv
<1>6. phase' \in {"continue", "idle"}
  BY DEF FastRead, Composed
<1>7. port = NoPort /\ PortType'
  BY <1>1 DEF SpillInv, PortType
<1>8. Stores'
  BY <1>7, <1>1 DEF Stores, NoPort, PortFrom
<1> QED BY <1>1, <1>4, <1>5, <1>6, <1>7, <1>8 DEF SpillInv, AccessRun

LEMMA ContinueFastReadStep ==
  ASSUME SpillInv, ContinueFastRead
  PROVE  SpillInv'
<1>1. /\ job' = job /\ job.op = "fread" /\ session' = session /\ phase' = "run"
      /\ port' = PortFrom(ctx.skip)
  BY DEF ContinueFastRead
<1>2. CtxType'
  BY DEF ContinueFastRead, CtxType, SpillInv
<1>3. Dwords(ctx.dr) * W \in Nat
  BY DwordsNat DEF W, SpillInv, CtxType
<1>4. BlkType' /\ blk'.skip = ctx.skip
  BY <1>3 DEF ContinueFastRead, BlkType, SpillInv, CtxType
<1>5. PortType' /\ Progress' /\ Stores'
  BY <1>1, <1>4, FreshPort DEF BlkType
<1> QED BY <1>1, <1>2, <1>4, <1>5 DEF SpillInv, AccessRun

LEMMA TckKeeps ==
  ASSUME SpillInv, Tck
  PROVE  SpillInv'
<1>1. PortType' /\ Progress' /\ Stores' /\ port.n' = port.n + 1
  BY TckStep
<1>2. /\ phase = "run" /\ phase' = phase /\ job' = job /\ session' = session
      /\ blk' = blk /\ ctx' = ctx /\ port.n < blk.bits
  BY DEF Tck
<1>3. BlkType' /\ CtxType'
  BY <1>2 DEF SpillInv, BlkType, CtxType
<1>4. AccessRun'
  BY <1>1, <1>2 DEF SpillInv, AccessRun, PortType
<1> QED BY <1>1, <1>2, <1>3, <1>4 DEF SpillInv

LEMMA CompleteStep ==
  ASSUME SpillInv, Complete
  PROVE  SpillInv'
<1>1. /\ job' = job /\ session' = session /\ blk' = blk /\ ctx' = ctx /\ port' = NoPort
      /\ phase' \in {"continue", "idle"}
      /\ phase' = "continue" => job.op \in {"fwrite", "fread"}
  BY DEF Complete
<1>2. BlkType' /\ CtxType'
  BY <1>1 DEF SpillInv, BlkType, CtxType
<1>3. PortType' /\ Stores'
  BY <1>1, NoPortType DEF PortType, Stores, NoPort, PortFrom
<1> QED BY <1>1, <1>2, <1>3 DEF SpillInv, AccessRun

LEMMA SpillNext == SpillInv /\ [Next]_vars => SpillInv'
<1> SUFFICES ASSUME SpillInv, [Next]_vars PROVE SpillInv'
  OBVIOUS
<1>1. ASSUME NEW c \in Sessions[session], IrDrWrite(c) PROVE SpillInv'
  BY <1>1, IrDrWriteStep
<1>2. ASSUME NEW c \in Sessions[session], FastWrite(c) PROVE SpillInv'
  BY <1>2, FastWriteStep
<1>3. ASSUME NEW c \in Sessions[session], FastRead(c) PROVE SpillInv'
  BY <1>3, FastReadStep
<1>4. CASE ContinueFastWrite
  BY <1>4, ContinueFastWriteStep
<1>5. CASE ContinueFastRead
  BY <1>5, ContinueFastReadStep
<1>6. CASE Tck
  BY <1>6, TckKeeps
<1>7. CASE Complete
  BY <1>7, CompleteStep
<1>8. CASE UNCHANGED vars
  BY <1>8 DEF vars, SpillInv, PortType, BlkType, CtxType, Progress, Stores, AccessRun
<1> QED BY <1>1, <1>2, <1>3, <1>4, <1>5, <1>6, <1>7, <1>8 DEF Next

LEMMA SpillInvBounds == SpillInv => SpillBounded
<1> SUFFICES ASSUME SpillInv, job.op \in {"ir", "dr"}
             PROVE  Len(port.out) <= Dwords(blk.tdo) + 2
  BY DEF SpillBounded
<1>1. /\ port.n \in Nat /\ port.count \in Nat /\ Len(port.out) \in Nat
      /\ blk.tdo \in Nat /\ blk.skip \in Nat
  BY DEF SpillInv, PortType, BlkType
<1>2. Dwords(blk.tdo) \in Nat /\ blk.tdo \div W <= Dwords(blk.tdo)
  BY <1>1, DwordsNat
<1>3. CASE port.count = 0
  BY <1>1, <1>2, <1>3 DEF SpillInv, Stores
<1>4. CASE port.count > 0
  <2>1. phase = "run"
    BY <1>4 DEF SpillInv, NoPort, PortFrom
  <2>2. Len(port.out) <= port.count \div W + (port.n - blk.skip - port.count)
    BY <1>4 DEF SpillInv, Stores
  <2>3. port.n > blk.skip /\ port.count = Smaller(blk.tdo, port.n - blk.skip)
    BY <2>1, <1>1, <1>4 DEF SpillInv, Progress
  <2>4. blk.tdo > 0 /\ port.n <= blk.skip + blk.tdo + 2
    BY <2>1, <2>3, <1>1, <1>4 DEF SpillInv, AccessRun, Smaller
  <2>5. port.n - blk.skip - port.count <= 2
    BY <2>3, <2>4, <1>1 DEF Smaller
  <2>6. port.count \div W <= blk.tdo \div W /\ port.count \div W \in Nat /\ blk.tdo \div W \in Nat
    BY <2>3, <1>1 DEF Smaller, W
  <2> QED BY <1>1, <1>2, <2>2, <2>3, <2>5, <2>6
<1> QED BY <1>1, <1>3, <1>4

\* Whatever its length, an access makes the bit loop store at most two words behind
\* those it asked for (lsejtag_impl_run_jtag, the repeated store).
THEOREM SpillTheorem == Spec => []SpillBounded
<1>1. Spec => []SpillInv
  BY SpillInit, SpillNext, PTL DEF Spec
<1> QED BY <1>1, SpillInvBounds, PTL
-----------------------------------------------------------------------------
(***************************************************************************)
(* No assertion fails and lsejtag_run_jtag does not panic while debuggers  *)
(* use neither FASTDATA nor the GS232 mode and always name the same chain. *)
(***************************************************************************)
Plain(cores) ==
  \A s \in DOMAIN Sessions : \A c \in Sessions[s] :
    c.op \in {"fwrite", "fread"} => c.cores = cores /\ c.fast = FALSE

\* The read that a fast read repeats is long enough for the dwords it is asked for.
ReadCtx ==
  job.op = "fread" /\ phase \in {"continue", "run"} =>
    ctx.tdi \in Nat /\ ctx.tdi >= ctx.skip + Dwords(ctx.dr) * W

FullRun ==
  phase = "run" /\ blk.tdo > 0 =>
    blk.bits \in Nat /\ port.n <= blk.bits /\ blk.bits >= blk.skip + blk.tdo

HaltInv(cores) ==
  /\ SpillInv /\ ~halted /\ ReadCtx /\ FullRun
  /\ ctx.fast = FALSE /\ ctx.cores \in {0, cores}

\* The lengths without FASTDATA, by the width of the core.
LEMMA SlowLengths ==
  ASSUME NEW cores \in Nat \ {0}, NEW wide, NEW x \in Nat, x = cores * IrLen
  PROVE  \E w \in {32, 64} :
           /\ DrSeqBits(cores, wide, FALSE) = cores - 1 + w
           /\ BitsPerXfer(cores, wide, FALSE) = 54 + w + 2 * (x - 1 + (cores - 1))
<1>1. RealCores(cores) = cores /\ SkipBits(cores) = cores - 1
  BY DEF RealCores, SkipBits
<1>2. CASE wide
  <2>1. DrSeqBits(cores, wide, FALSE) = cores - 1 + 64
    BY <1>1, <1>2 DEF DrSeqBits
  <2>2. BitsPerXfer(cores, wide, FALSE) = 118 + 2 * (x - 1 + (cores - 1))
    BY <1>1, <1>2 DEF BitsPerXfer
  <2>3. 118 + 2 * (x - 1 + (cores - 1)) = 54 + 64 + 2 * (x - 1 + (cores - 1))
    OBVIOUS
  <2> QED BY <2>1, <2>2, <2>3
<1>3. CASE ~wide
  <2>1. DrSeqBits(cores, wide, FALSE) = cores - 1 + 32
    BY <1>1, <1>3 DEF DrSeqBits
  <2>2. BitsPerXfer(cores, wide, FALSE) = 86 + 2 * (x - 1 + (cores - 1))
    BY <1>1, <1>3 DEF BitsPerXfer
  <2>3. 86 + 2 * (x - 1 + (cores - 1)) = 54 + 32 + 2 * (x - 1 + (cores - 1))
    OBVIOUS
  <2> QED BY <2>1, <2>2, <2>3
<1> QED BY <1>2, <1>3

\* fast_mem_rw_get_bits_per_xfer computes the length of what is composed.
LEMMA ComposedAsComputed ==
  ASSUME NEW cores \in Nat \ {0}, NEW wide
  PROVE  XferLength(cores, DrSeqBits(cores, wide, FALSE), FALSE) = BitsPerXfer(cores, wide, FALSE)
<1>1. RealCores(cores) = cores /\ SkipBits(cores) = cores - 1
  BY DEF RealCores, SkipBits
<1>2. PICK x \in Nat : x = cores * IrLen
  BY ProductNat, IrLenAssumption
<1>3. PICK w \in {32, 64} :
        /\ DrSeqBits(cores, wide, FALSE) = cores - 1 + w
        /\ BitsPerXfer(cores, wide, FALSE) = 54 + w + 2 * (x - 1 + (cores - 1))
  BY <1>2, SlowLengths
<1>4. \A dr \in Nat : XferLength(cores, dr, FALSE) = 5 + x - 1 + 5 + dr - 1 + 6 + x - 1 + 5 + (cores - 1) + 34
  BY <1>1, <1>2 DEF XferLength, ControlDr, ControlIr, DataDr, DataIr, W
<1>5. DrSeqBits(cores, wide, FALSE) \in Nat
  BY SequenceNats
<1>6. XferLength(cores, DrSeqBits(cores, wide, FALSE), FALSE)
        = 5 + x - 1 + 5 + (cores - 1 + w) - 1 + 6 + x - 1 + 5 + (cores - 1) + 34
  <2>1. XferLength(cores, DrSeqBits(cores, wide, FALSE), FALSE)
          = 5 + x - 1 + 5 + DrSeqBits(cores, wide, FALSE) - 1 + 6 + x - 1 + 5 + (cores - 1) + 34
    BY <1>4, <1>5, Zenon
  <2> QED
    BY <1>3, <2>1
<1>7. 54 + w + 2 * (x - 1 + (cores - 1))
        = 5 + x - 1 + 5 + (cores - 1 + w) - 1 + 6 + x - 1 + 5 + (cores - 1) + 34
  OBVIOUS
<1> QED BY <1>3, <1>6, <1>7, Zenon

\* The instructions of a chain take no fewer bits than one instruction.
LEMMA ChainHoldsOne ==
  ASSUME NEW cores \in Nat \ {0}
  PROVE  cores * IrLen >= IrLen /\ cores * IrLen \in Nat
<1>1. (cores - 1) * IrLen \in Nat
  BY ProductNat, IrLenAssumption
<1>2. \A a, b \in Int : (a - 1) * b = a * b - b
  OBVIOUS
<1>3. (cores - 1) * IrLen = cores * IrLen - IrLen
  BY <1>2, IrLenAssumption
<1>4. cores * IrLen \in Nat
  BY ProductNat, IrLenAssumption
<1> QED BY <1>1, <1>3, <1>4, IrLenAssumption

\* One transfer goes on long enough behind the bits it skips.
LEMMA TransferHoldsRead ==
  ASSUME NEW cores \in Nat \ {0}, NEW wide, NEW before \in {0, cores}
  PROVE  LET bits == BitsPerXfer(cores, wide, FALSE)
         IN  /\ bits \in Nat
             /\ bits >= 9 + RealCores(before) * IrLen + Dwords(DrSeqBits(cores, wide, FALSE)) * W
<1>1. RealCores(cores) = cores /\ SkipBits(cores) = cores - 1
  BY DEF RealCores, SkipBits
<1>2. PICK x \in Nat : x = cores * IrLen
  BY ProductNat, IrLenAssumption
<1>3. PICK y \in Nat : y = RealCores(before) * IrLen /\ y <= x
  <2>1. CASE before = cores
    BY <2>1, <1>1, <1>2
  <2>2. CASE before = 0
    <3>1. RealCores(before) * IrLen = IrLen /\ IrLen \in Nat
      BY <2>2, IrLenAssumption DEF RealCores
    <3>2. x >= IrLen
      BY ChainHoldsOne, <1>2
    <3> QED BY <3>1, <3>2
  <2> QED BY <2>1, <2>2
<1>4. PICK w \in {32, 64} :
        /\ DrSeqBits(cores, wide, FALSE) = cores - 1 + w
        /\ BitsPerXfer(cores, wide, FALSE) = 54 + w + 2 * (x - 1 + (cores - 1))
  BY <1>2, SlowLengths
<1>6. \A n \in Nat : Dwords(n) * W <= n + 31 /\ Dwords(n) * W \in Nat
  BY DEF Dwords, W
<1>7. DrSeqBits(cores, wide, FALSE) \in Nat
  BY SequenceNats
<1>8. PICK d \in Nat : /\ d = Dwords(DrSeqBits(cores, wide, FALSE)) * W
                       /\ d <= DrSeqBits(cores, wide, FALSE) + 31
  BY <1>6, <1>7
<1>9. x >= 1
  BY ChainHoldsOne, <1>2, IrLenAssumption
<1>10. BitsPerXfer(cores, wide, FALSE) \in Nat /\ BitsPerXfer(cores, wide, FALSE) >= 9 + y + d
  <2>1. y <= x /\ x >= 1 /\ d <= cores - 1 + w + 31
    BY <1>3, <1>4, <1>8, <1>9
  <2>2. /\ 54 + w + 2 * (x - 1 + (cores - 1)) \in Nat
        /\ 54 + w + 2 * (x - 1 + (cores - 1)) >= 9 + y + d
    BY <2>1
  <2> QED BY <1>4, <2>2, Zenon
<1> QED BY <1>3, <1>8, <1>10

LEMMA HaltInit ==
  ASSUME NEW cores \in Nat \ {0}, Init
  PROVE  HaltInv(cores)
  BY SpillInit DEF Init, HaltInv, ReadCtx, FullRun

LEMMA IrDrWriteRuns ==
  ASSUME NEW cores \in Nat \ {0}, HaltInv(cores), NEW c \in Sessions[session], IrDrWrite(c)
  PROVE  HaltInv(cores)'
<1>1. SpillInv' /\ c.len \in Nat /\ c.op \in {"ir", "dr"} /\ job' = c
  BY IrDrWriteStep, SessionsAssumption DEF SpillInv, IrDrWrite, Take, HaltInv
<1>2. /\ blk'.bits = Lead(Isir(c)) + c.len + 2
      /\ blk'.tdo = (IF c.read THEN c.len ELSE 0)
      /\ blk'.skip = (IF c.read THEN Lead(Isir(c)) ELSE blk.skip)
      /\ port' = PortFrom(blk'.skip)
  BY DEF IrDrWrite, IrDrLength
<1>3. Lead(Isir(c)) \in Nat /\ port'.n = 0
  BY <1>2 DEF Lead, PortFrom
<1>4. FullRun'
  BY <1>1, <1>2, <1>3 DEF FullRun
<1>5. ReadCtx' /\ halted' = halted /\ ctx' = ctx
  BY <1>1 DEF ReadCtx, IrDrWrite
<1> QED BY <1>1, <1>4, <1>5 DEF HaltInv

LEMMA FastWriteRuns ==
  ASSUME NEW cores \in Nat \ {0}, Plain(cores), HaltInv(cores),
         NEW c \in Sessions[session], FastWrite(c)
  PROVE  HaltInv(cores)'
<1>1. SpillInv' /\ session \in DOMAIN Sessions /\ c.op = "fwrite" /\ job' = c
  BY FastWriteStep DEF SpillInv, FastWrite, Take, HaltInv
<1>2. c.cores = cores /\ c.fast = FALSE
  BY <1>1 DEF Plain
<1>3. ctx'.cores = cores /\ ctx'.fast = FALSE
  BY <1>2 DEF FastWrite, HaltInv, SpillInv, CtxType
<1>4. Composed(XferLength(cores, DrSeqBits(cores, c.wide, FALSE), FALSE),
               BitsPerXfer(cores, c.wide, FALSE))
  BY <1>2 DEF FastWrite
<1>5. ~halted' /\ phase' = "continue"
  BY <1>4, ComposedAsComputed DEF Composed
<1> QED BY <1>1, <1>3, <1>5 DEF HaltInv, ReadCtx, FullRun

LEMMA ContinueFastWriteRuns ==
  ASSUME NEW cores \in Nat \ {0}, HaltInv(cores), ContinueFastWrite
  PROVE  HaltInv(cores)'
<1>1. SpillInv' /\ job' = job /\ job.op = "fwrite" /\ halted' = halted
  BY ContinueFastWriteStep DEF ContinueFastWrite, HaltInv
<1>2. ctx'.cores = ctx.cores /\ ctx'.fast = ctx.fast
  BY DEF ContinueFastWrite, HaltInv, SpillInv, CtxType
<1>3. blk'.tdo = 0
  BY DEF ContinueFastWrite, HaltInv, SpillInv, BlkType
<1> QED BY <1>1, <1>2, <1>3 DEF HaltInv, ReadCtx, FullRun

LEMMA FastReadRuns ==
  ASSUME NEW cores \in Nat \ {0}, Plain(cores), HaltInv(cores),
         NEW c \in Sessions[session], FastRead(c)
  PROVE  HaltInv(cores)'
<1>1. SpillInv' /\ session \in DOMAIN Sessions /\ c.op = "fread" /\ job' = c
  BY FastReadStep DEF SpillInv, FastRead, Take, HaltInv
<1>2. c.cores = cores /\ c.fast = FALSE /\ ctx.fast = FALSE /\ RealCores(cores) = cores
  BY <1>1 DEF Plain, HaltInv, RealCores
<1> DEFINE dr == DrSeqBits(cores, ctx.wide, FALSE)
           bits == BitsPerXfer(cores, ctx.wide, FALSE)
<1>3. /\ ctx'.cores = cores /\ ctx'.fast = FALSE /\ ctx'.dr = dr /\ ctx'.tdi = bits
      /\ ctx'.skip = 9 + RealCores(ctx.cores) * IrLen
  BY <1>2 DEF FastRead, HaltInv, SpillInv, CtxType
<1>4. Composed(XferLength(cores, dr, FALSE), bits)
  BY <1>2 DEF FastRead
<1>5. ~halted' /\ phase' = "continue"
  BY <1>4, ComposedAsComputed DEF Composed
<1>6. bits \in Nat /\ bits >= 9 + RealCores(ctx.cores) * IrLen + Dwords(dr) * W
  BY TransferHoldsRead DEF HaltInv
<1> HIDE DEF dr, bits
<1>7. ReadCtx'
  BY <1>3, <1>6 DEF ReadCtx
<1> QED BY <1>1, <1>3, <1>5, <1>7 DEF HaltInv, FullRun

LEMMA ContinueFastReadRuns ==
  ASSUME NEW cores \in Nat \ {0}, HaltInv(cores), ContinueFastRead
  PROVE  HaltInv(cores)'
<1>1. SpillInv' /\ job' = job /\ halted' = halted /\ phase = "continue" /\ job.op = "fread"
  BY ContinueFastReadStep DEF ContinueFastRead, HaltInv
<1>2. /\ ctx'.cores = ctx.cores /\ ctx'.fast = ctx.fast /\ ctx'.tdi = ctx.tdi
      /\ ctx'.skip = ctx.skip /\ ctx'.dr = ctx.dr
  BY DEF ContinueFastRead, HaltInv, SpillInv, CtxType
<1>3. blk'.bits = ctx.tdi /\ blk'.tdo = Dwords(ctx.dr) * W /\ blk'.skip = ctx.skip /\ port'.n = 0
  BY DEF ContinueFastRead, HaltInv, SpillInv, BlkType, PortFrom
<1>4. ctx.tdi \in Nat /\ ctx.tdi >= ctx.skip + Dwords(ctx.dr) * W
  BY <1>1 DEF HaltInv, ReadCtx
<1>5. FullRun' /\ ReadCtx'
  BY <1>1, <1>2, <1>3, <1>4 DEF FullRun, ReadCtx
<1> QED BY <1>1, <1>2, <1>5 DEF HaltInv

LEMMA TckRuns ==
  ASSUME NEW cores \in Nat \ {0}, HaltInv(cores), Tck
  PROVE  HaltInv(cores)'
<1>1. SpillInv' /\ port'.n = port.n + 1 /\ port.n \in Nat
  BY TckKeeps, TckStep DEF HaltInv, SpillInv, PortType
<1>2. /\ phase = "run" /\ phase' = phase /\ job' = job /\ blk' = blk /\ ctx' = ctx
      /\ halted' = halted /\ port.n < blk.bits
  BY DEF Tck
<1> QED BY <1>1, <1>2 DEF HaltInv, ReadCtx, FullRun

\* The run brings as many dwords as it was asked for.
LEMMA CompleteRuns ==
  ASSUME NEW cores \in Nat \ {0}, HaltInv(cores), Complete
  PROVE  HaltInv(cores)'
<1>1. /\ phase = "run" /\ port.n = blk.bits /\ job' = job /\ ctx' = ctx
      /\ halted' = (Dwords(port.count) # Dwords(blk.tdo)) /\ phase' \in {"continue", "idle"}
  BY DEF Complete
<1>2. /\ port.n \in Nat /\ port.count \in Nat /\ blk.tdo \in Nat /\ blk.skip \in Nat
      /\ Progress /\ FullRun
  BY <1>1 DEF HaltInv, SpillInv, PortType, BlkType
<1>3. port.count = blk.tdo
  <2>1. CASE blk.tdo = 0
    BY <1>1, <1>2, <2>1 DEF Progress, Smaller
  <2>2. CASE blk.tdo > 0
    <3>1. port.n > blk.skip /\ port.n - blk.skip >= blk.tdo
      BY <1>1, <1>2, <2>2 DEF FullRun
    <3> QED BY <3>1, <1>1, <1>2, <2>2 DEF Progress, Smaller
  <2> QED BY <2>1, <2>2, <1>2
<1>4. SpillInv' /\ ~halted'
  BY <1>1, <1>3, CompleteStep DEF HaltInv
<1> QED BY <1>1, <1>4 DEF HaltInv, ReadCtx, FullRun

LEMMA HaltNext ==
  ASSUME NEW cores \in Nat \ {0}, Plain(cores), HaltInv(cores), [Next]_vars
  PROVE  HaltInv(cores)'
<1>1. ASSUME NEW c \in Sessions[session], IrDrWrite(c) PROVE HaltInv(cores)'
  BY <1>1, IrDrWriteRuns
<1>2. ASSUME NEW c \in Sessions[session], FastWrite(c) PROVE HaltInv(cores)'
  BY <1>2, FastWriteRuns
<1>3. ASSUME NEW c \in Sessions[session], FastRead(c) PROVE HaltInv(cores)'
  BY <1>3, FastReadRuns
<1>4. CASE ContinueFastWrite
  BY <1>4, ContinueFastWriteRuns
<1>5. CASE ContinueFastRead
  BY <1>5, ContinueFastReadRuns
<1>6. CASE Tck
  BY <1>6, TckRuns
<1>7. CASE Complete
  BY <1>7, CompleteRuns
<1>8. CASE UNCHANGED vars
  <2>1. SpillInv'
    BY <1>8, SpillNext DEF HaltInv
  <2> QED BY <1>8, <2>1 DEF vars, HaltInv, ReadCtx, FullRun
<1> QED BY <1>1, <1>2, <1>3, <1>4, <1>5, <1>6, <1>7, <1>8 DEF Next

\* For a chain of any length and instructions of any length: no assertion on the
\* composed length fails and lsejtag_run_jtag gets as many dwords as it asked for,
\* as long as the debuggers keep to transfers without FASTDATA on the one chain.
THEOREM PlainNeverHalts ==
  ASSUME NEW cores \in Nat \ {0}, Plain(cores)
  PROVE  Spec => []NeverHalts
<1>1. Init => HaltInv(cores)
  BY HaltInit
<1>2. HaltInv(cores) /\ [Next]_vars => HaltInv(cores)'
  BY HaltNext
<1>3. HaltInv(cores) => NeverHalts
  BY DEF HaltInv, NeverHalts
<1> QED BY <1>1, <1>2, <1>3, PTL DEF Spec

-----------------------------------------------------------------------------
(***************************************************************************)
(* Types, in any session: what the loops over cores and data leave in the  *)
(* buffer are bits, and every word counted has been stored.                *)
(***************************************************************************)
\* A read has transfers, and the data of a write have the dwords of its DR sequence.
WithData ==
  \A s \in DOMAIN Sessions : \A c \in Sessions[s] :
    /\ c.op = "fread" => Len(c.data) > 0
    /\ c.op = "fwrite" =>
         \A k \in 1..Len(c.data) : Len(c.data[k]) >= Dwords(DrSeqBits(c.cores, c.wide, c.fast))

TapType ==
  /\ tap \in TapState /\ scan \in [len : Nat, ones : SUBSET Nat]
  /\ scans \in Seq([reg : {"IR", "DR"}, len : Nat, ones : SUBSET Nat])
WholeCtx ==
  ctx \in [cores : Nat, target : Nat, wide : BOOLEAN, fast : BOOLEAN, dr : Nat,
            bits : Nat, perBlk : Nat, tdi : Nat, skip : Nat, left : Nat]
WholeBlk == blk \in [tms : SUBSET Nat, tdi : SUBSET Nat, bits : Nat, tdo : Nat, skip : Nat]
CountedJobs == jobs \in 0..MaxJobs /\ (jobs = 0 => job = NoJob)

\* Every full word captured has been stored.
Filled == Len(port.out) >= port.count \div W

\* Of a fast command under way, the transfers left are some of its own.
InFlight ==
  phase # "idle" /\ job.op \in {"fwrite", "fread"} =>
    /\ job \in Sessions[session] /\ ctx.left <= Len(job.data)
    /\ phase = "continue" /\ job.op = "fread" => ctx.left > 0
    /\ job.op = "fwrite" => ctx.dr = DrSeqBits(job.cores, job.wide, job.fast)

TypeInv ==
  /\ SpillInv /\ TapType /\ WholeCtx /\ WholeBlk /\ CountedJobs
  /\ phase \in {"idle", "continue", "run"}
  /\ read \in Seq(WordsOfBits) /\ halted \in BOOLEAN
  /\ Filled /\ InFlight

LEMMA WalkStays == \A t \in TapState : Walk[t].low \in TapState /\ Walk[t].high \in TapState
  BY SMT DEF TapState, Walk

\* Whatever the levels, a pulse leaves the target in one of its states.
LEMMA ClockType ==
  ASSUME TapType, NEW tms, NEW tdi, Clock(tms, tdi)
  PROVE  TapType'
<1> DEFINE Scans == [reg : {"IR", "DR"}, len : Nat, ones : SUBSET Nat]
<1>1. tap' \in TapState
  BY WalkStays DEF TapType, Clock
<1>2. scan.len \in Nat /\ scan.ones \in SUBSET Nat
  BY DEF TapType
<1>3. scan' \in [len : Nat, ones : SUBSET Nat]
  <2>1. EmptyScan \in [len : Nat, ones : SUBSET Nat]
    BY DEF EmptyScan
  <2>2. [len |-> scan.len + 1, ones |-> scan.ones \cup (IF tdi THEN {scan.len} ELSE {})]
          \in [len : Nat, ones : SUBSET Nat]
    BY <1>2
  <2> QED BY <2>1, <2>2, Zenon DEF TapType, Clock
<1>4. scans' \in Seq(Scans)
  <2>1. Scan("DR", scan.len, scan.ones) \in Scans /\ Scan("IR", scan.len, scan.ones) \in Scans
    BY <1>2 DEF Scan
  <2>2. scans \in Seq(Scans)
    BY DEF TapType
  <2> HIDE DEF Scans
  <2>3. \/ scans' = Append(scans, Scan("DR", scan.len, scan.ones))
        \/ scans' = Append(scans, Scan("IR", scan.len, scan.ones))
        \/ scans' = scans
    BY Zenon DEF Clock
  <2> QED BY <2>1, <2>2, <2>3
<1> QED BY <1>1, <1>3, <1>4, Zenon DEF TapType

LEMMA TypeInit == Init => TypeInv
<1> SUFFICES ASSUME Init PROVE TypeInv
  OBVIOUS
<1>1. TapType
  <2>1. "RunTestIdle" \in TapState
    BY SMT DEF TapState, Walk
  <2> QED BY <2>1 DEF Init, TapType, EmptyScan
<1>2. WholeCtx
  BY DEF Init, WholeCtx
<1>3. WholeBlk
  BY DEF Init, WholeBlk
<1>4. CountedJobs /\ phase = "idle" /\ read \in Seq(WordsOfBits) /\ halted \in BOOLEAN /\ InFlight
  <2>1. /\ jobs = 0 /\ job = NoJob /\ phase = "idle" /\ read = <<>> /\ halted = FALSE
    BY DEF Init
  <2>2. CountedJobs
    BY <2>1, SizesAssumption DEF CountedJobs
  <2>3. InFlight
    BY <2>1, Zenon DEF InFlight
  <2>4. read \in Seq(WordsOfBits)
    BY <2>1
  <2>5. halted \in BOOLEAN
    BY <2>1
  <2> QED BY <2>1, <2>2, <2>3, <2>4, <2>5, Zenon
<1>5. Filled
  BY DEF Init, NoPort, PortFrom, Filled, W
<1> QED BY <1>1, <1>2, <1>3, <1>4, <1>5, SpillInit, Zenon DEF TypeInv

\* What every command begins with.
LEMMA TakeType ==
  ASSUME TypeInv, NEW c, Take(c)
  PROVE  TapType' /\ CountedJobs' /\ read' \in Seq(WordsOfBits) /\ port = NoPort
<1>1. tap' = tap /\ scan' = scan /\ scans' = <<>>
  BY DEF Take
<1>2. TapType'
  BY <1>1 DEF TapType, TypeInv
<1>3. jobs' = jobs + 1 /\ jobs \in 0..MaxJobs /\ jobs < MaxJobs /\ read' = <<>> /\ phase = "idle"
  BY DEF Take, TypeInv, CountedJobs
<1>4. CountedJobs'
  BY <1>3, SizesAssumption DEF CountedJobs
<1> QED BY <1>2, <1>3, <1>4 DEF TypeInv, SpillInv

LEMMA NoPortFilled == ASSUME NEW skip PROVE Len(PortFrom(skip).out) >= PortFrom(skip).count \div W
  BY DEF PortFrom, W

LEMMA AccessSequenceType ==
  ASSUME NEW isir, NEW len \in Nat, NEW data
  PROVE  IrDrTms(isir, len) \in SUBSET Nat /\ IrDrTdi(isir, len, data) \in SUBSET Nat
<1>1. PICK i \in Nat : i = len \div W
  BY DEF W
<1>2. PICK t \in SUBSET Nat : t = IF isir THEN {1, 2} ELSE {1}
  <2>1. {1, 2} \in SUBSET Nat /\ {1} \in SUBSET Nat
    OBVIOUS
  <2> QED BY <2>1, Zenon
<1>3. PICK s : s = (Lead(isir) + len - 1) % W
  OBVIOUS
<1>4. PICK low : low = OrInto(t, i, Shl({0, 1}, s))
  OBVIOUS
<1>5. low \in SUBSET Nat
  BY <1>4, ShiftType, OrIntoType
<1>6. Assign(low, i + 1, Shr({0, 1}, W - s)) \in SUBSET Nat
  <2>1. i + 1 \in Nat
    OBVIOUS
  <2> QED BY <1>5, <2>1, ShiftType, OrIntoType
<1>7. IrDrTms(isir, len) = IF s >= 30 THEN Assign(low, i + 1, Shr({0, 1}, W - s)) ELSE low
  BY <1>1, <1>2, <1>3, <1>4, Zenon DEF IrDrTms
<1>8. IrDrTdi(isir, len, data) \in SUBSET Nat
  <2> DEFINE part(j) == {j * W + b : b \in Shl(Word(data, j), Lead(isir))}
                          \cup {(j + 1) * W + b : b \in Shr(Word(data, j), W - Lead(isir))}
  <2>1. \A j \in Bits(Dwords(len)) : part(j) \in SUBSET Nat
    <3>1. Dwords(len) \in Nat
      BY DwordsNat
    <3>2. \A j \in Bits(Dwords(len)), b \in Bits(W) : j * W + b \in Nat /\ (j + 1) * W + b \in Nat
      BY <3>1 DEF Bits, W
    <3> QED BY <3>2, ShiftType
  <2>2. IrDrTdi(isir, len, data) = UNION {part(j) : j \in Bits(Dwords(len))}
    BY DEF IrDrTdi
  <2> HIDE DEF part
  <2> QED BY <2>1, <2>2
<1> QED BY <1>5, <1>6, <1>7, <1>8, Zenon

\* lsejtag_init_ctx apart, ctx is only changed by the fast commands.
LEMMA IrDrWriteType ==
  ASSUME TypeInv, NEW c \in Sessions[session], IrDrWrite(c)
  PROVE  TypeInv'
<1>1. c.len \in Nat /\ c.op \in {"ir", "dr"}
  BY SessionsAssumption DEF TypeInv, SpillInv, IrDrWrite
<1> DEFINE len == IrDrLength(Isir(c), c.len)
           tms == IrDrTms(Isir(c), c.len) \cup Cleared(blk.tms, len)
           tdi == IrDrTdi(Isir(c), c.len, c.data) \cup Cleared(blk.tdi, c.len + W)
           tdo == IF c.read THEN c.len ELSE 0
           skip == IF c.read THEN Lead(Isir(c)) ELSE blk.skip
<1>2. blk' = [tms |-> tms, tdi |-> tdi, bits |-> len, tdo |-> tdo, skip |-> skip]
  BY DEF IrDrWrite
<1>3. tms \in SUBSET Nat /\ tdi \in SUBSET Nat
  <2>1. blk.tms \in SUBSET Nat /\ blk.tdi \in SUBSET Nat
    BY DEF TypeInv, WholeBlk
  <2>2. IrDrTms(Isir(c), c.len) \in SUBSET Nat /\ IrDrTdi(Isir(c), c.len, c.data) \in SUBSET Nat
    BY <1>1, AccessSequenceType
  <2> QED BY <2>1, <2>2 DEF Cleared
<1>4. len \in Nat /\ tdo \in Nat /\ skip \in Nat
  BY <1>1 DEF IrDrLength, Lead, TypeInv, WholeBlk
<1> HIDE DEF tms, tdi, len, tdo, skip
<1>5. WholeBlk'
  BY <1>2, <1>3, <1>4 DEF WholeBlk
<1>6. SpillInv'
  BY IrDrWriteStep DEF TypeInv
<1>7. TapType' /\ CountedJobs' /\ read' \in Seq(WordsOfBits)
  BY TakeType DEF IrDrWrite
<1>8. ctx' = ctx /\ halted' = halted /\ phase' = "run" /\ job' = c /\ port' = PortFrom(blk'.skip)
  BY DEF IrDrWrite, Take
<1>9. WholeCtx' /\ halted' \in BOOLEAN
  BY <1>8 DEF TypeInv, WholeCtx
<1>10. Filled'
  BY <1>8, NoPortFilled, Zenon DEF Filled
<1>11. InFlight'
  BY <1>1, <1>8 DEF InFlight
<1> QED BY <1>5, <1>6, <1>7, <1>8, <1>9, <1>10, <1>11, Zenon DEF TypeInv

LEMMA SmallerNat == ASSUME NEW a \in Nat, NEW b \in Nat PROVE Smaller(a, b) \in Nat /\ Smaller(a, b) <= a /\ Smaller(a, b) <= b
  BY DEF Smaller

\* Lengths of one transfer, and how many fit into a run.
LEMMA RunNats ==
  ASSUME NEW cores \in Nat, NEW wide, NEW fast
  PROVE  /\ BitsPerXfer(cores, wide, fast) \in Nat \ {0}
         /\ \A f : \A n \in Nat : PerBlock(n, DrSeqBits(cores, wide, f), BitsPerXfer(cores, wide, fast)) \in Nat
<1>1. PICK r \in Nat \ {0} : r = RealCores(cores)
  BY SequenceNats
<1>2. PICK x \in Nat \ {0} : x = r * IrLen
  <2>1. r * IrLen >= 1
    BY IrLenAssumption, ProductPositive
  <2>2. r * IrLen \in Nat
    BY IrLenAssumption, ProductNat
  <2> QED BY <2>1, <2>2
<1>3. PICK y \in Nat : y = SkipBits(cores)
  BY DEF SkipBits
<1>4. BitsPerXfer(cores, wide, fast) =
        IF fast THEN (IF wide THEN 71 ELSE 39) + y ELSE (IF wide THEN 118 ELSE 86) + 2 * (x - 1 + y)
  BY <1>1, <1>2, <1>3, Zenon DEF BitsPerXfer
<1>5. BitsPerXfer(cores, wide, fast) \in Nat \ {0}
  BY <1>4
<1>6. ASSUME NEW f, NEW n \in Nat
      PROVE  PerBlock(n, DrSeqBits(cores, wide, f), BitsPerXfer(cores, wide, fast)) \in Nat
  <2>1. PICK d \in Nat \ {0} : d = Dwords(DrSeqBits(cores, wide, f))
    <3>1. DrSeqBits(cores, wide, f) \in Nat \ {0}
      BY <1>3 DEF DrSeqBits
    <3> QED BY <3>1 DEF Dwords, W
  <2>2. PICK b \in Nat \ {0} : b = BitsPerXfer(cores, wide, fast)
    BY <1>5
  <2>3. BufDwords \div d \in Nat /\ JtagBits \div b \in Nat
    BY <2>1, <2>2, SizesAssumption
  <2>4. Smaller(n, Smaller(BufDwords \div d, JtagBits \div b)) \in Nat
    BY <2>3, SmallerNat
  <2> QED BY <2>1, <2>2, <2>4, Zenon DEF PerBlock
<1> QED BY <1>5, <1>6

\* The first instance and its copies.
LEMMA InstancesType ==
  ASSUME NEW buf \in SUBSET Nat, NEW bits \in Nat, NEW n \in Nat
  PROVE  Instances(buf, bits, n) \in SUBSET Nat
<1>1. PICK h : InstanceRun(h, buf, bits, n)
  BY InstancesRun
<1>2. n \in 0..n
  OBVIOUS
<1> QED BY <1>1, <1>2 DEF InstanceRun

LEMMA FastWriteType ==
  ASSUME TypeInv, NEW c \in Sessions[session], FastWrite(c)
  PROVE  TypeInv'
<1>1. /\ c.op = "fwrite" /\ c.cores \in Nat /\ c.target \in Nat /\ c.wide \in BOOLEAN /\ c.fast \in BOOLEAN
      /\ Len(c.data) \in Nat /\ job' = c /\ session' = session /\ port' = port /\ phase = "idle"
  <2>1. c.op = "fwrite" /\ session \in DOMAIN Sessions
    BY DEF TypeInv, SpillInv, FastWrite
  <2>2. /\ c.cores \in Nat /\ c.target \in Nat /\ c.wide \in BOOLEAN /\ c.fast \in BOOLEAN
        /\ c.data \in Seq(Seq(SUBSET Bits(W)))
    BY <2>1, SessionsAssumption
  <2> QED BY <2>1, <2>2 DEF FastWrite, Take
<1> DEFINE target == IF c.cores = 0 THEN 0 ELSE c.target
           fast == c.fast \/ c.cores = 0
           dr == DrSeqBits(c.cores, c.wide, c.fast)
           bits == BitsPerXfer(c.cores, c.wide, fast)
           per == PerBlock(Len(c.data), dr, bits)
           all == Dwords(bits) * per * W
           tms == Instances(XferTms(c.cores, dr, c.fast), bits, per) \cup {p \in blk.tms : p >= all}
           tdi == Instances(XferTdi(c.cores, target, dr, c.fast), bits, per) \cup {p \in blk.tdi : p >= all}
<1>2. /\ ctx' = [ctx EXCEPT !.cores = c.cores, !.target = target, !.wide = c.wide, !.fast = fast,
                            !.dr = dr, !.bits = bits, !.perBlk = per, !.tdi = per * bits,
                            !.left = Len(c.data)]
      /\ blk' = [blk EXCEPT !.tms = tms, !.tdi = tdi]
      /\ Composed(XferLength(c.cores, dr, c.fast), bits)
  BY DEF FastWrite
<1>3. target \in Nat /\ fast \in BOOLEAN /\ dr \in Nat /\ bits \in Nat /\ per \in Nat
  BY <1>1, RunNats, SequenceNats
<1>4. per * bits \in Nat
  BY <1>3, ProductNat
<1>5. tms \in SUBSET Nat /\ tdi \in SUBSET Nat
  <2>1. blk.tms \in SUBSET Nat /\ blk.tdi \in SUBSET Nat
    BY DEF TypeInv, WholeBlk
  <2>2. XferTms(c.cores, dr, c.fast) \in SUBSET Nat /\ XferTdi(c.cores, target, dr, c.fast) \in SUBSET Nat
    BY <1>1, <1>3, XferTmsType, XferTdiType
  <2> HIDE DEF dr, bits, per, target
  <2>3. /\ Instances(XferTms(c.cores, dr, c.fast), bits, per) \in SUBSET Nat
        /\ Instances(XferTdi(c.cores, target, dr, c.fast), bits, per) \in SUBSET Nat
    BY <1>3, <2>2, InstancesType
  <2> QED BY <2>1, <2>3
<1> HIDE DEF tms, tdi, target, fast, dr, bits, per
<1>6. WholeBlk'
  BY <1>2, <1>5 DEF WholeBlk, TypeInv
<1>7. WholeCtx' /\ ctx'.left = Len(c.data) /\ ctx'.dr = dr
  <2>1. ctx \in [cores : Nat, target : Nat, wide : BOOLEAN, fast : BOOLEAN, dr : Nat,
                  bits : Nat, perBlk : Nat, tdi : Nat, skip : Nat, left : Nat]
    BY DEF TypeInv, WholeCtx
  <2>2. ctx' = [cores |-> c.cores, target |-> target, wide |-> c.wide, fast |-> fast, dr |-> dr,
                bits |-> bits, perBlk |-> per, tdi |-> per * bits, skip |-> ctx.skip,
                left |-> Len(c.data)]
    BY <1>2, <2>1
  <2>3. ctx.skip \in Nat
    BY <2>1
  <2> QED BY <1>1, <1>3, <1>4, <2>2, <2>3 DEF WholeCtx
<1>8. SpillInv'
  BY FastWriteStep DEF TypeInv
<1>9. TapType' /\ CountedJobs' /\ read' \in Seq(WordsOfBits)
  BY TakeType DEF FastWrite
<1>10. Filled'
  BY <1>1 DEF TypeInv, Filled
<1>11. phase' \in {"idle", "continue"} /\ halted' \in BOOLEAN
  BY <1>2 DEF Composed
<1>12. InFlight'
  BY <1>1, <1>7 DEF InFlight, dr, SpillInv, TypeInv
<1> QED BY <1>6, <1>7, <1>8, <1>9, <1>10, <1>11, <1>12, Zenon DEF TypeInv

LEMMA SubSeqOf ==
  ASSUME NEW X, NEW s \in Seq(X), NEW f \in Nat, NEW p \in Nat, f + p <= Len(s)
  PROVE  /\ Len(SubSeq(s, f + 1, f + p)) = p
         /\ \A k \in 1..p : f + k \in 1..Len(s) /\ SubSeq(s, f + 1, f + p)[k] = s[f + k]
<1> DEFINE m == f + 1
           n == f + p
<1>1. m \in 1..(Len(s) + 1) /\ n \in 0..Len(s) /\ n - m + 1 = p /\ \A k \in 1..p : m + k - 1 = f + k
  OBVIOUS
<1> HIDE DEF m, n
<1>2. Len(SubSeq(s, m, n)) = n - m + 1
  BY <1>1
<1>3. \A k \in 1..(n - m + 1) : SubSeq(s, m, n)[k] = s[m + k - 1]
  BY <1>1
<1>4. SubSeq(s, f + 1, f + p) = SubSeq(s, m, n)
  BY DEF m, n
<1> QED BY <1>1, <1>2, <1>3, <1>4

LEMMA ContinueFastWriteType ==
  ASSUME WithData, TypeInv, ContinueFastWrite
  PROVE  TypeInv'
<1> DEFINE p == Smaller(ctx.perBlk, ctx.left)
           first == Len(job.data) - ctx.left
           sent == IF ctx.perBlk > ctx.left THEN ctx.bits * ctx.left ELSE ctx.tdi
           data == SubSeq(job.data, first + 1, first + p)
           tdi == PlaceData(blk.tdi, ctx.cores, ctx.fast, ctx.bits, ctx.dr, data)
<1>1. /\ phase = "continue" /\ job.op = "fwrite" /\ job' = job /\ session' = session
      /\ port' = PortFrom(blk.skip) /\ phase' = "run" /\ jobs' = jobs /\ read' = read /\ halted' = halted
      /\ tap' = tap /\ scan' = scan /\ scans' = scans
      /\ ctx' = [ctx EXCEPT !.perBlk = p, !.tdi = sent, !.left = ctx.left - p]
      /\ blk' = [blk EXCEPT !.bits = sent, !.tdo = 0, !.tdi = tdi]
  BY DEF ContinueFastWrite, Left
<1>2. ctx \in [cores : Nat, target : Nat, wide : BOOLEAN, fast : BOOLEAN, dr : Nat,
                bits : Nat, perBlk : Nat, tdi : Nat, skip : Nat, left : Nat]
  BY DEF TypeInv, WholeCtx
<1>3. /\ job \in Sessions[session] /\ ctx.left <= Len(job.data)
      /\ ctx.dr = DrSeqBits(job.cores, job.wide, job.fast)
  BY <1>1 DEF TypeInv, InFlight
<1>4. /\ job.data \in Seq(Seq(SUBSET Bits(W)))
      /\ \A k \in 1..Len(job.data) : Len(job.data[k]) >= Dwords(ctx.dr)
  BY <1>1, <1>3, SessionsAssumption DEF WithData, TypeInv, SpillInv
<1>5. p \in Nat /\ p <= ctx.left /\ ctx.left - p \in Nat /\ first \in Nat /\ first + p <= Len(job.data)
  <2>1. ctx.perBlk \in Nat /\ ctx.left \in Nat
    BY <1>2
  <2>2. p \in Nat /\ p <= ctx.left
    BY <2>1, SmallerNat
  <2> HIDE DEF p
  <2> QED BY <1>3, <1>4, <2>1, <2>2
<1>6. sent \in Nat
  BY <1>2, ProductNat
<1>7. AreTransfers(data, ctx.dr)
  <2> HIDE DEF p, first
  <2>1. /\ Len(data) = p
        /\ \A k \in 1..p : data[k] = job.data[first + k] /\ first + k \in 1..Len(job.data)
    BY <1>4, <1>5, SubSeqOf
  <2>2. ASSUME NEW k \in 1..p PROVE AreWords(data[k], Dwords(ctx.dr))
    <3>1. data[k] \in Seq(SUBSET Bits(W)) /\ Len(data[k]) >= Dwords(ctx.dr)
      <4>1. data[k] = job.data[first + k] /\ first + k \in 1..Len(job.data)
        BY <2>1
      <4> HIDE DEF data
      <4> QED BY <1>4, <4>1
    <3>2. Dwords(ctx.dr) \in Nat
      BY <1>2, DwordsNat
    <3> HIDE DEF data
    <3> QED BY <3>1, <3>2 DEF AreWords
  <2> HIDE DEF data
  <2> QED BY <1>5, <2>1, <2>2 DEF AreTransfers
<1>8. tdi \in SUBSET Nat
  <2>1. blk.tdi \in SUBSET Nat
    BY DEF TypeInv, WholeBlk
  <2> QED BY <1>2, <1>7, <2>1, PlaceDataType
<1> HIDE DEF tdi, data, first, p, sent
<1>9. WholeBlk'
  BY <1>1, <1>6, <1>8 DEF WholeBlk, TypeInv
<1>10. WholeCtx' /\ ctx'.left = ctx.left - p /\ ctx'.dr = ctx.dr
  <2>1. ctx' = [ctx EXCEPT !.perBlk = p, !.tdi = sent, !.left = ctx.left - p]
    BY <1>1
  <2> QED BY <1>2, <1>5, <1>6, <2>1 DEF WholeCtx
<1>11. SpillInv'
  BY ContinueFastWriteStep DEF TypeInv
<1>12. TapType' /\ CountedJobs'
  BY <1>1 DEF TypeInv, TapType, CountedJobs
<1>13. read' \in Seq(WordsOfBits) /\ halted' \in BOOLEAN
  BY <1>1 DEF TypeInv
<1>14. Filled'
  BY <1>1, NoPortFilled, Zenon DEF Filled
<1>15. InFlight'
  <2>1. ctx'.left <= Len(job.data)
    BY <1>2, <1>3, <1>4, <1>5, <1>10
  <2> QED BY <1>1, <1>3, <1>10, <2>1 DEF InFlight
<1> QED BY <1>1, <1>9, <1>10, <1>11, <1>12, <1>13, <1>14, <1>15, Zenon DEF TypeInv

LEMMA FastReadType ==
  ASSUME WithData, TypeInv, NEW c \in Sessions[session], FastRead(c)
  PROVE  TypeInv'
<1>1. /\ c.op = "fread" /\ c.cores \in Nat /\ c.fast \in BOOLEAN
      /\ Len(c.data) \in Nat /\ Len(c.data) > 0
      /\ job' = c /\ session' = session /\ port' = port /\ phase = "idle"
  <2>1. c.op = "fread" /\ session \in DOMAIN Sessions
    BY DEF TypeInv, SpillInv, FastRead
  <2>2. c.cores \in Nat /\ c.fast \in BOOLEAN /\ c.data \in Seq(Seq(SUBSET Bits(W)))
    BY <2>1, SessionsAssumption
  <2>3. Len(c.data) > 0
    BY <2>1 DEF WithData
  <2> QED BY <2>1, <2>2, <2>3 DEF FastRead, Take
<1>2. ctx \in [cores : Nat, target : Nat, wide : BOOLEAN, fast : BOOLEAN, dr : Nat,
                bits : Nat, perBlk : Nat, tdi : Nat, skip : Nat, left : Nat]
  BY DEF TypeInv, WholeCtx
<1> DEFINE cores == RealCores(c.cores)
           dr == DrSeqBits(cores, ctx.wide, c.fast)
           bits == BitsPerXfer(cores, ctx.wide, ctx.fast)
           skip == IF c.fast THEN 4 ELSE 9 + RealCores(ctx.cores) * IrLen
           tms == XferTms(cores, dr, c.fast) \cup Cleared(blk.tms, bits)
           tdi == XferTdi(cores, ctx.target, dr, c.fast) \cup Cleared(blk.tdi, bits)
<1>3. /\ ctx' = [ctx EXCEPT !.cores = cores, !.dr = dr, !.bits = bits, !.tdi = bits,
                            !.left = Len(c.data), !.skip = skip]
      /\ blk' = [blk EXCEPT !.tms = tms, !.tdi = tdi]
      /\ Composed(XferLength(cores, dr, c.fast), bits)
  BY DEF FastRead
<1>4. cores \in Nat
  BY <1>1, SequenceNats
<1>5. dr \in Nat /\ bits \in Nat /\ skip \in Nat
  <2> HIDE DEF cores
  <2>1. dr \in Nat /\ bits \in Nat
    BY <1>4, RunNats, SequenceNats
  <2>2. skip \in Nat
    <3>1. ctx.cores \in Nat
      BY <1>2
    <3> QED BY <3>1, SequenceNats
  <2> QED BY <2>1, <2>2
<1>6. tms \in SUBSET Nat /\ tdi \in SUBSET Nat
  <2>1. blk.tms \in SUBSET Nat /\ blk.tdi \in SUBSET Nat
    BY DEF TypeInv, WholeBlk
  <2> HIDE DEF cores, dr, bits
  <2>2. XferTms(cores, dr, c.fast) \in SUBSET Nat /\ XferTdi(cores, ctx.target, dr, c.fast) \in SUBSET Nat
    BY <1>4, <1>5, XferTmsType, XferTdiType
  <2> QED BY <2>1, <2>2 DEF Cleared
<1> HIDE DEF tms, tdi, skip, dr, bits, cores
<1>7. WholeBlk'
  BY <1>3, <1>6 DEF WholeBlk, TypeInv
<1>8. WholeCtx' /\ ctx'.left = Len(c.data)
  <2>1. ctx' = [ctx EXCEPT !.cores = cores, !.dr = dr, !.bits = bits, !.tdi = bits,
                           !.left = Len(c.data), !.skip = skip]
    BY <1>3
  <2>2. ctx' = [cores |-> cores, target |-> ctx.target, wide |-> ctx.wide, fast |-> ctx.fast, dr |-> dr,
                bits |-> bits, perBlk |-> ctx.perBlk, tdi |-> bits, skip |-> skip,
                left |-> Len(c.data)]
    BY <1>2, <2>1
  <2>3. ctx.target \in Nat /\ ctx.wide \in BOOLEAN /\ ctx.fast \in BOOLEAN /\ ctx.perBlk \in Nat
    BY <1>2
  <2> QED BY <1>1, <1>4, <1>5, <2>2, <2>3 DEF WholeCtx
<1>9. SpillInv'
  BY FastReadStep DEF TypeInv
<1>10. TapType' /\ CountedJobs' /\ read' \in Seq(WordsOfBits)
  BY TakeType DEF FastRead
<1>11. Filled'
  BY <1>1 DEF TypeInv, Filled
<1>12. phase' \in {"idle", "continue"} /\ halted' \in BOOLEAN
  BY <1>3 DEF Composed
<1>13. InFlight'
  BY <1>1, <1>8 DEF InFlight, SpillInv, TypeInv
<1> QED BY <1>7, <1>8, <1>9, <1>10, <1>11, <1>12, <1>13, Zenon DEF TypeInv

LEMMA ContinueFastReadType ==
  ASSUME TypeInv, ContinueFastRead
  PROVE  TypeInv'
<1> DEFINE tdo == Dwords(ctx.dr) * W
<1>1. /\ phase = "continue" /\ job.op = "fread" /\ job' = job /\ session' = session
      /\ port' = PortFrom(ctx.skip) /\ phase' = "run" /\ jobs' = jobs /\ read' = read /\ halted' = halted
      /\ tap' = tap /\ scan' = scan /\ scans' = scans
      /\ ctx' = [ctx EXCEPT !.left = ctx.left - 1]
      /\ blk' = [blk EXCEPT !.bits = ctx.tdi, !.tdo = tdo, !.skip = ctx.skip]
  BY DEF ContinueFastRead, Left
<1>2. ctx \in [cores : Nat, target : Nat, wide : BOOLEAN, fast : BOOLEAN, dr : Nat,
                bits : Nat, perBlk : Nat, tdi : Nat, skip : Nat, left : Nat]
  BY DEF TypeInv, WholeCtx
<1>3. job \in Sessions[session] /\ ctx.left <= Len(job.data) /\ ctx.left > 0
  BY <1>1 DEF TypeInv, InFlight
<1>4. Len(job.data) \in Nat
  BY <1>1, <1>3, SessionsAssumption DEF TypeInv, SpillInv
<1>5. ctx.left \in Nat /\ ctx.left - 1 \in Nat /\ ctx.left - 1 <= Len(job.data)
  BY <1>2, <1>3, <1>4
<1>6. ctx.tdi \in Nat /\ ctx.skip \in Nat /\ tdo \in Nat
  BY <1>2, DwordsNat DEF W
<1> HIDE DEF tdo
<1>7. WholeBlk'
  BY <1>1, <1>6 DEF WholeBlk, TypeInv
<1>8. WholeCtx' /\ ctx'.left = ctx.left - 1
  BY <1>1, <1>2, <1>5 DEF WholeCtx
<1>9. SpillInv'
  BY ContinueFastReadStep DEF TypeInv
<1>10. TapType' /\ CountedJobs'
  BY <1>1 DEF TypeInv, TapType, CountedJobs
<1>11. read' \in Seq(WordsOfBits) /\ halted' \in BOOLEAN
  BY <1>1 DEF TypeInv
<1>12. Filled'
  BY <1>1, NoPortFilled, Zenon DEF Filled
<1>13. InFlight'
  BY <1>1, <1>3, <1>5, <1>8 DEF InFlight
<1> QED BY <1>1, <1>7, <1>8, <1>9, <1>10, <1>11, <1>12, <1>13, Zenon DEF TypeInv

\* A counter that has just reached a full word finds it stored.
LEMMA StoreFills ==
  ASSUME PortType, NEW count, count \in {port.count, port.count + 1}, NEW reg \in WordsOfBits, Filled
  PROVE  Len(Store(port.out, count, reg)) >= count \div W
<1>1. port.count \in Nat /\ port.out \in Seq(WordsOfBits) /\ count \in Nat
  BY DEF PortType
<1>2. Len(port.out) \in Nat /\ Len(port.out) >= port.count \div W
  BY <1>1 DEF Filled
<1>3. (port.count + 1) \div W = port.count \div W + (IF (port.count + 1) % W = 0 THEN 1 ELSE 0)
  BY <1>1, NextWord
<1>4. port.count \div W \in Nat /\ 0 \div W = 0
  BY <1>1 DEF W
<1>5. CASE count > 0 /\ count % W = 0
  <2>1. Len(Store(port.out, count, reg)) = Len(port.out) + 1
    BY <1>1, <1>5 DEF Store
  <2> QED BY <1>2, <1>3, <1>4, <1>5, <2>1
<1>6. CASE ~(count > 0 /\ count % W = 0)
  <2>1. Store(port.out, count, reg) = port.out
    BY <1>6 DEF Store
  <2> QED BY <1>1, <1>2, <1>3, <1>4, <1>6, <2>1
<1> QED BY <1>5, <1>6

LEMMA TckType ==
  ASSUME TypeInv, Tck
  PROVE  TypeInv'
<1>1. /\ phase = "run" /\ phase' = phase /\ job' = job /\ jobs' = jobs /\ ctx' = ctx /\ blk' = blk
      /\ session' = session /\ read' = read /\ halted' = halted
      /\ Clock(port.n \in blk.tms, port.n \in blk.tdi)
  BY DEF Tck
<1>2. SpillInv'
  BY TckKeeps DEF TypeInv
<1>3. TapType'
  BY <1>1, ClockType DEF TypeInv
<1>4. WholeCtx' /\ WholeBlk' /\ CountedJobs' /\ InFlight'
  BY <1>1 DEF TypeInv, WholeCtx, WholeBlk, CountedJobs, InFlight
<1>5. read' \in Seq(WordsOfBits) /\ halted' \in BOOLEAN
  BY <1>1 DEF TypeInv
<1>6. Filled'
  <2>1. PICK level \in Tdo :
          port' = [n |-> port.n + 1, skip |-> IF port.skip > 0 THEN port.skip - 1 ELSE 0,
                   count |-> IF Capturing THEN port.count + 1 ELSE port.count,
                   reg |-> IF Capturing THEN ShiftedIn(port.reg, level) ELSE port.reg,
                   out |-> Store(port.out, IF Capturing THEN port.count + 1 ELSE port.count,
                                 IF Capturing THEN ShiftedIn(port.reg, level) ELSE port.reg)]
    BY DEF Tck
  <2> DEFINE count == IF Capturing THEN port.count + 1 ELSE port.count
             reg == IF Capturing THEN ShiftedIn(port.reg, level) ELSE port.reg
  <2>2. port'.count = count /\ port'.out = Store(port.out, count, reg)
    BY <2>1
  <2>3. PortType /\ Filled
    BY DEF TypeInv, SpillInv
  <2>4. count \in {port.count, port.count + 1}
    OBVIOUS
  <2>5. reg \in WordsOfBits
    BY <2>3, ShiftedInType DEF PortType
  <2> HIDE DEF count, reg
  <2>6. Len(Store(port.out, count, reg)) >= count \div W
    BY <2>3, <2>4, <2>5, StoreFills
  <2> QED BY <2>2, <2>6 DEF Filled
<1> QED BY <1>1, <1>2, <1>3, <1>4, <1>5, <1>6, Zenon DEF TypeInv

\* As many words as the captured bits take are there to be sent.
LEMMA CompleteType ==
  ASSUME TypeInv, Complete
  PROVE  TypeInv'
<1> DEFINE out == IF port.count % W # 0 THEN Append(port.out, port.reg) ELSE port.out
           got == Dwords(port.count)
<1>1. /\ phase = "run" /\ job' = job /\ jobs' = jobs /\ ctx' = ctx /\ blk' = blk /\ session' = session
      /\ tap' = tap /\ scan' = scan /\ scans' = scans /\ port' = NoPort
      /\ read' = read \o SubSeq(out, 1, got) /\ halted' = (got # Dwords(blk.tdo))
      /\ phase' = IF job.op \in {"fwrite", "fread"} /\ ctx.left # 0 THEN "continue" ELSE "idle"
  BY DEF Complete
<1>2. SpillInv'
  BY CompleteStep DEF TypeInv
<1>3. TapType' /\ WholeCtx' /\ WholeBlk' /\ CountedJobs'
  BY <1>1 DEF TypeInv, TapType, WholeCtx, WholeBlk, CountedJobs
<1>4. port.count \in Nat /\ port.out \in Seq(WordsOfBits) /\ port.reg \in WordsOfBits
      /\ Len(port.out) >= port.count \div W
  BY DEF TypeInv, SpillInv, PortType, Filled
<1>5. out \in Seq(WordsOfBits) /\ Len(out) >= got /\ got \in Nat
  <2>1. got = port.count \div W + (IF port.count % W = 0 THEN 0 ELSE 1) /\ got \in Nat
        /\ port.count \div W \in Nat
    BY <1>4 DEF Dwords, W
  <2>2. CASE port.count % W # 0
    <3>1. out = Append(port.out, port.reg)
      BY <2>2
    <3> HIDE DEF out, got
    <3>2. out \in Seq(WordsOfBits) /\ Len(out) = Len(port.out) + 1
      BY <1>4, <3>1
    <3> QED BY <1>4, <2>1, <2>2, <3>2
  <2>3. CASE port.count % W = 0
    <3>1. out = port.out
      BY <2>3
    <3> HIDE DEF out, got
    <3> QED BY <1>4, <2>1, <2>3, <3>1
  <2> QED BY <2>2, <2>3
<1>6. read' \in Seq(WordsOfBits)
  <2>1. read \in Seq(WordsOfBits) /\ read' = read \o SubSeq(out, 1, got)
    BY <1>1 DEF TypeInv
  <2> HIDE DEF out, got
  <2>2. SubSeq(out, 1, got) \in Seq(WordsOfBits)
    BY <1>5
  <2> QED BY <2>1, <2>2
<1>7. halted' \in BOOLEAN
  BY <1>1
<1>8. Filled'
  BY <1>1, NoPortFilled, Zenon DEF Filled, NoPort
<1>9. phase' \in {"idle", "continue"}
  BY <1>1
<1>10. InFlight'
  <2>1. ctx.left \in Nat
    BY DEF TypeInv, WholeCtx
  <2>2. phase' = "continue" => ctx.left # 0
    BY <1>1
  <2>3. job.op \in {"fwrite", "fread"} =>
          /\ job \in Sessions[session] /\ ctx.left <= Len(job.data)
          /\ job.op = "fwrite" => ctx.dr = DrSeqBits(job.cores, job.wide, job.fast)
    BY <1>1 DEF TypeInv, InFlight
  <2> QED BY <1>1, <2>1, <2>2, <2>3 DEF InFlight
<1> QED BY <1>2, <1>3, <1>6, <1>7, <1>8, <1>9, <1>10, Zenon DEF TypeInv

LEMMA TypeNext ==
  ASSUME WithData, TypeInv, [Next]_vars
  PROVE  TypeInv'
<1>1. ASSUME NEW c \in Sessions[session], IrDrWrite(c) PROVE TypeInv'
  BY <1>1, IrDrWriteType
<1>2. ASSUME NEW c \in Sessions[session], FastWrite(c) PROVE TypeInv'
  BY <1>2, FastWriteType
<1>3. ASSUME NEW c \in Sessions[session], FastRead(c) PROVE TypeInv'
  BY <1>3, FastReadType
<1>4. CASE ContinueFastWrite
  BY <1>4, ContinueFastWriteType
<1>5. CASE ContinueFastRead
  BY <1>5, ContinueFastReadType
<1>6. CASE Tck
  BY <1>6, TckType
<1>7. CASE Complete
  BY <1>7, CompleteType
<1>8. CASE UNCHANGED vars
  <2>1. SpillInv'
    BY <1>8, SpillNext DEF TypeInv
  <2>2. /\ tap' = tap /\ scan' = scan /\ scans' = scans /\ session' = session /\ job' = job /\ jobs' = jobs
        /\ phase' = phase /\ ctx' = ctx /\ blk' = blk /\ port' = port /\ read' = read /\ halted' = halted
    BY <1>8 DEF vars
  <2>3. TapType' /\ WholeCtx' /\ WholeBlk' /\ CountedJobs' /\ Filled' /\ InFlight'
    BY <2>2 DEF TypeInv, TapType, WholeCtx, WholeBlk, CountedJobs, Filled, InFlight
  <2>4. phase' \in {"idle", "continue", "run"} /\ read' \in Seq(WordsOfBits) /\ halted' \in BOOLEAN
    BY <2>2 DEF TypeInv
  <2> QED BY <2>1, <2>3, <2>4, Zenon DEF TypeInv
<1> QED BY <1>1, <1>2, <1>3, <1>4, <1>5, <1>6, <1>7, <1>8 DEF Next

\* Whatever the commands, their cores and their widths, the buffers hold bits, the
\* counters are naturals, in particular the transfers left, and no word is sent that
\* has not been stored (cmdimpl_fast_mem_write, cmdimpl_fast_mem_read,
\* lsejtag_impl_run_jtag).
THEOREM TypeCorrect ==
  ASSUME WithData
  PROVE  Spec => []TypeOK
<1>1. TypeInv /\ [Next]_vars => TypeInv'
  BY TypeNext
<1>2. TypeInv => TypeOK
  <2> SUFFICES ASSUME TypeInv PROVE TypeOK
    OBVIOUS
  <2>1. port \in [n : Nat, skip : Nat, count : Nat, reg : SUBSET Bits(W), out : Seq(SUBSET Bits(W))]
    BY DEF TypeInv, SpillInv, PortType, WordsOfBits
  <2>2. read \in Seq(SUBSET Bits(W))
    BY DEF TypeInv, WordsOfBits
  <2> QED BY <2>1, <2>2, Zenon DEF TypeInv, TypeOK, TapType, WholeCtx, WholeBlk, CountedJobs
<1> QED BY <1>1, <1>2, TypeInit, PTL DEF Spec

-----------------------------------------------------------------------------
(***************************************************************************)
(* Sessions of IR and DR accesses: what a run scans, where it leaves the   *)
(* TAP and what it stores.                                                 *)
(***************************************************************************)

\* Every debugger makes IR and DR accesses only, whose data have len bits and whose
\* two last bits fall into the word in which the code puts them (JtagEndBits.cfg shows
\* what becomes of the others).
AccessesOnly ==
  \A s \in DOMAIN Sessions : \A c \in Sessions[s] :
    /\ c.op \in {"ir", "dr"} /\ c.len \in Nat /\ c.read \in BOOLEAN
    /\ c.data \subseteq Bits(c.len)
    /\ (Lead(Isir(c)) + c.len - 1) \div W = c.len \div W

\* The pulses behind the walk and the data, and those with TMS high.
Stop(c) == Lead(Isir(c)) + c.len
Highs(c) == (IF Isir(c) THEN {1, 2} ELSE {1}) \cup {Stop(c) - 1, Stop(c)}

\* Where so many pulses of an access lead the TAP.
Reg(c, ir, dr) == IF Isir(c) THEN ir ELSE dr
Place(c, n) ==
  CASE n < 2 -> "RunTestIdle"
    [] n = 2 -> "SelectDR"
    [] n = 3 /\ Isir(c) -> "SelectIR"
    [] n = Lead(Isir(c)) - 1 -> Reg(c, "CaptureIR", "CaptureDR")
    [] n >= Lead(Isir(c)) /\ n < Stop(c) -> Reg(c, "ShiftIR", "ShiftDR")
    [] n = Stop(c) -> Reg(c, "Exit1IR", "Exit1DR")
    [] n = Stop(c) + 1 -> Reg(c, "UpdateIR", "UpdateDR")
    [] OTHER -> "RunTestIdle"

\* The one scan the target is to see.
Seen(c) == << Scan(Reg(c, "IR", "DR"), c.len, c.data) >>

\* Buffer A holds the access, whatever the one before has left in it.
Prepared(c) ==
  /\ blk.bits = Stop(c) + 2
  /\ \A p \in Bits(Stop(c) + 2) : p \in blk.tms <=> p \in Highs(c)
  /\ \A k \in Bits(c.len) : Lead(Isir(c)) + k \in blk.tdi <=> k \in c.data
  /\ blk.tdo = (IF c.read THEN c.len ELSE 0)
  /\ c.read => blk.skip = Lead(Isir(c))

\* How far the target has come.
Walked(c) ==
  /\ port.n \in 0..(Stop(c) + 2)
  /\ tap = Place(c, port.n)
  /\ port.n \in Lead(Isir(c))..Stop(c) =>
       /\ scan.len = port.n - Lead(Isir(c))
       /\ scan.ones = c.data \cap Bits(port.n - Lead(Isir(c)))
  /\ scans = IF port.n <= Stop(c) THEN <<>> ELSE Seen(c)

\* The word register after so many bits, and what has been stored.
Window(n) == {b \in Bits(W) : n - W + b \in Answer[1] \cap Bits(n)}
Captured ==
  /\ port.reg = Window(port.count)
  /\ \A i \in 1..(port.count \div W) : port.out[i] = Window(i * W)
  /\ IF port.count % W = 0 THEN Len(port.out) >= port.count \div W
                            ELSE Len(port.out) = port.count \div W

\* The dwords the bit loop leaves for n bits of a scan: a last one that they do not
\* fill ends with the last bit at bit 31, behind the bits before it.
AnswerWords(ones, n) ==
  [i \in 1..Dwords(n) |->
     LET from == Smaller((i - 1) * W, n - W)
     IN  {b \in Bits(W) : from + b \in ones \cap Bits(n)}]
Returned(c) ==
  IF c.op \in {"ir", "dr"} /\ c.read THEN AnswerWords(Answer[1], c.len) ELSE <<>>

AccessInv ==
  /\ SpillInv
  /\ phase \in {"idle", "run"}
  /\ phase = "idle" =>
       /\ tap = "RunTestIdle" /\ scans = Expected(job) /\ read = Returned(job)
       /\ job = NoJob \/ job \in Sessions[session]
  /\ phase = "run" =>
       /\ job \in Sessions[session] /\ read = <<>>
       /\ Prepared(job) /\ Walked(job) /\ Captured
-----------------------------------------------------------------------------
\* The states an access leads through.
LEMMA WalkThere ==
  /\ Walk["RunTestIdle"].low = "RunTestIdle" /\ Walk["RunTestIdle"].high = "SelectDR"
  /\ Walk["SelectDR"].low = "CaptureDR" /\ Walk["SelectDR"].high = "SelectIR"
  /\ Walk["SelectIR"].low = "CaptureIR"
  BY SMT DEF Walk
LEMMA WalkInScan ==
  /\ Walk["CaptureDR"].low = "ShiftDR" /\ Walk["CaptureDR"].high = "Exit1DR"
  /\ Walk["ShiftDR"].low = "ShiftDR" /\ Walk["ShiftDR"].high = "Exit1DR"
  /\ Walk["Exit1DR"].high = "UpdateDR" /\ Walk["UpdateDR"].low = "RunTestIdle"
  /\ Walk["CaptureIR"].low = "ShiftIR" /\ Walk["CaptureIR"].high = "Exit1IR"
  /\ Walk["ShiftIR"].low = "ShiftIR" /\ Walk["ShiftIR"].high = "Exit1IR"
  /\ Walk["Exit1IR"].high = "UpdateIR" /\ Walk["UpdateIR"].low = "RunTestIdle"
  BY SMT DEF Walk

LEMMA PlaceIr ==
  ASSUME NEW c, NEW n \in Nat, c.len \in Nat, Isir(c)
  PROVE  /\ n < 2 => Place(c, n) = "RunTestIdle"
         /\ n = 2 => Place(c, n) = "SelectDR"
         /\ n = 3 => Place(c, n) = "SelectIR"
         /\ n = 4 => Place(c, n) = "CaptureIR"
         /\ n >= 5 /\ n < c.len + 5 => Place(c, n) = "ShiftIR"
         /\ n = c.len + 5 => Place(c, n) = "Exit1IR"
         /\ n = c.len + 6 => Place(c, n) = "UpdateIR"
         /\ n > c.len + 6 => Place(c, n) = "RunTestIdle"
<1>1. Lead(Isir(c)) = 5 /\ Stop(c) = c.len + 5
  BY DEF Lead, Stop
<1>2. Place(c, n) =
        CASE n < 2 -> "RunTestIdle"
          [] n = 2 -> "SelectDR"
          [] n = 3 -> "SelectIR"
          [] n = 4 -> "CaptureIR"
          [] n >= 5 /\ n < c.len + 5 -> "ShiftIR"
          [] n = c.len + 5 -> "Exit1IR"
          [] n = c.len + 6 -> "UpdateIR"
          [] OTHER -> "RunTestIdle"
  BY <1>1 DEF Place, Reg
<1> QED BY <1>2

LEMMA PlaceDr ==
  ASSUME NEW c, NEW n \in Nat, c.len \in Nat, ~Isir(c)
  PROVE  /\ n < 2 => Place(c, n) = "RunTestIdle"
         /\ n = 2 => Place(c, n) = "SelectDR"
         /\ n = 3 => Place(c, n) = "CaptureDR"
         /\ n >= 4 /\ n < c.len + 4 => Place(c, n) = "ShiftDR"
         /\ n = c.len + 4 => Place(c, n) = "Exit1DR"
         /\ n = c.len + 5 => Place(c, n) = "UpdateDR"
         /\ n > c.len + 5 => Place(c, n) = "RunTestIdle"
<1>1. Lead(Isir(c)) = 4 /\ Stop(c) = c.len + 4
  BY DEF Lead, Stop
<1>2. Place(c, n) =
        CASE n < 2 -> "RunTestIdle"
          [] n = 2 -> "SelectDR"
          [] n = 3 -> "CaptureDR"
          [] n >= 4 /\ n < c.len + 4 -> "ShiftDR"
          [] n = c.len + 4 -> "Exit1DR"
          [] n = c.len + 5 -> "UpdateDR"
          [] OTHER -> "RunTestIdle"
  BY <1>1 DEF Place, Reg
<1> QED BY <1>2

\* One pulse leads from each place to the next.
LEMMA PlaceStep ==
  ASSUME NEW c, c.len \in Nat, NEW n \in 0..(Stop(c) + 1)
  PROVE  (IF n \in Highs(c) THEN Walk[Place(c, n)].high ELSE Walk[Place(c, n)].low) = Place(c, n + 1)
<1>1. n \in Nat /\ n + 1 \in Nat
  OBVIOUS
<1>2. CASE Isir(c)
  <2>1. Stop(c) = c.len + 5 /\ (n \in Highs(c) <=> n \in {1, 2, c.len + 4, c.len + 5})
    BY <1>2 DEF Lead, Highs, Stop
  <2>2. n <= c.len + 6
    BY <2>1, <1>1
  <2>3. CASE n < 3
    BY <1>1, <1>2, <2>1, <2>3, WalkThere, PlaceIr
  <2>4. CASE n = 3
    BY <1>1, <1>2, <2>1, <2>4, WalkThere, PlaceIr
  <2>5. CASE n >= 4 /\ n < c.len + 5
    BY <1>1, <1>2, <2>1, <2>5, WalkInScan, PlaceIr
  <2>6. CASE n >= 4 /\ n >= c.len + 5
    BY <1>1, <1>2, <2>1, <2>2, <2>6, WalkInScan, PlaceIr
  <2> QED BY <1>1, <2>3, <2>4, <2>5, <2>6
<1>3. CASE ~Isir(c)
  <2>1. Stop(c) = c.len + 4 /\ (n \in Highs(c) <=> n \in {1, c.len + 3, c.len + 4})
    BY <1>3 DEF Lead, Highs, Stop
  <2>2. n <= c.len + 5
    BY <2>1, <1>1
  <2>3. CASE n < 3
    BY <1>1, <1>3, <2>1, <2>3, WalkThere, PlaceDr
  <2>5. CASE n >= 3 /\ n < c.len + 4
    BY <1>1, <1>3, <2>1, <2>5, WalkInScan, PlaceDr
  <2>6. CASE n >= 3 /\ n >= c.len + 4
    BY <1>1, <1>3, <2>1, <2>2, <2>6, WalkInScan, PlaceDr
  <2> QED BY <1>1, <2>3, <2>5, <2>6
<1> QED BY <1>2, <1>3
LEMMA NextWindow ==
  ASSUME NEW n \in Nat
  PROVE  ShiftedIn(Window(n), n \in Answer[1]) = Window(n + 1)
<1>1. ASSUME NEW b \in Bits(W)
      PROVE  b \in ShiftedIn(Window(n), n \in Answer[1]) <=> b \in Window(n + 1)
  <2>1. b \in 0..31
    BY DEF Bits, W
  <2>2. CASE b = 31
    <3>1. b + 1 \notin Bits(W) /\ (n + 1) - W + b = n /\ n \in Bits(n + 1) /\ W - 1 = b
      BY <2>2 DEF Bits, W
    <3>2. b \notin Shr(Window(n), 1)
      BY <3>1, Zenon DEF Shr, Window
    <3>3. b \in ShiftedIn(Window(n), n \in Answer[1]) <=> n \in Answer[1]
      BY <3>1, <3>2, Zenon DEF ShiftedIn
    <3>4. b \in Window(n + 1) <=> n \in Answer[1]
      BY <3>1, Zenon DEF Window
    <3> QED BY <3>3, <3>4
  <2>3. CASE b < 31
    <3>1. b + 1 \in Bits(W) /\ n - W + (b + 1) = (n + 1) - W + b /\ b # W - 1
      BY <2>1, <2>3 DEF Bits, W
    <3>2. (n + 1) - W + b \in Bits(n + 1) <=> (n + 1) - W + b \in Bits(n)
      BY <2>1, <2>3 DEF Bits, W
    <3>3. b \in Shr(Window(n), 1) <=> (n + 1) - W + b \in Answer[1] \cap Bits(n)
      BY <3>1, Zenon DEF Shr, Window
    <3>4. b \in ShiftedIn(Window(n), n \in Answer[1]) <=> b \in Shr(Window(n), 1)
      BY <3>1, Zenon DEF ShiftedIn
    <3>5. b \in Window(n + 1) <=> (n + 1) - W + b \in Answer[1] \cap Bits(n + 1)
      BY Zenon DEF Window
    <3> QED BY <3>2, <3>3, <3>4, <3>5, Zenon
  <2> QED BY <2>1, <2>2, <2>3
<1>2. ShiftedIn(Window(n), n \in Answer[1]) \subseteq Bits(W) /\ Window(n + 1) \subseteq Bits(W)
  BY DEF ShiftedIn, Shr, Window, Bits, W
<1> QED BY <1>1, <1>2

LEMMA AccessInit == Init => AccessInv
<1> SUFFICES ASSUME Init PROVE AccessInv
  OBVIOUS
<1>1. job.op = "none"
  BY DEF Init, NoJob
<1>2. Expected(job) = <<>>
  BY <1>1 DEF Expected
<1>3. Returned(job) = <<>>
  BY <1>1 DEF Returned
<1> QED BY <1>2, <1>3, SpillInit DEF Init, AccessInv

LEMMA AccessBegins ==
  ASSUME AccessesOnly, AccessInv, NEW c \in Sessions[session], IrDrWrite(c)
  PROVE  AccessInv'
<1>1. /\ c.op \in {"ir", "dr"} /\ c.len \in Nat /\ c.read \in BOOLEAN
      /\ c.data \subseteq Bits(c.len)
      /\ (Lead(Isir(c)) + c.len - 1) \div W = c.len \div W
  BY DEF AccessesOnly, AccessInv, SpillInv
<1> DEFINE len == IrDrLength(Isir(c), c.len)
<1>2. len = Stop(c) + 2 /\ len \in Nat /\ Lead(Isir(c)) \in {4, 5} /\ Stop(c) \in Nat
  BY <1>1 DEF IrDrLength, Stop, Lead
<1>3. /\ blk'.tms = IrDrTms(Isir(c), c.len) \cup Cleared(blk.tms, len)
      /\ blk'.tdi = IrDrTdi(Isir(c), c.len, c.data) \cup Cleared(blk.tdi, c.len + W)
      /\ blk'.bits = len
      /\ blk'.tdo = (IF c.read THEN c.len ELSE 0)
      /\ c.read => blk'.skip = Lead(Isir(c))
  BY DEF IrDrWrite
<1>4. SpillInv'
  BY IrDrWriteStep DEF AccessInv
<1>5. /\ port' = PortFrom(blk'.skip) /\ phase' = "run" /\ tap' = tap /\ tap = "RunTestIdle"
      /\ scans' = <<>> /\ read' = <<>> /\ job' = c /\ session' = session
  BY DEF IrDrWrite, Take, AccessInv
<1>6. port'.n = 0 /\ port'.count = 0 /\ port'.reg = {} /\ port'.out = <<>>
  BY <1>5 DEF PortFrom
<1>7. \A p \in Bits(Stop(c) + 2) : p \in blk'.tms <=> p \in Highs(c)
  <2>1. SUFFICES ASSUME NEW p \in Bits(Stop(c) + 2) PROVE p \in blk'.tms <=> p \in Highs(c)
    OBVIOUS
  <2>2. p \in Nat /\ p < len
    BY <1>2 DEF Bits
  <2>3. p \notin Cleared(blk.tms, len)
    BY <1>2, <2>2 DEF Cleared, Dwords, W
  <2>4. p \in IrDrTms(Isir(c), c.len) <=> p \in Highs(c)
    <3>1. Isir(c) \in BOOLEAN
      BY DEF Isir
    <3>2. p \in IrDrTms(Isir(c), c.len)
            <=> p \in (IF Isir(c) THEN {1, 2} ELSE {1})
                       \cup {Lead(Isir(c)) + c.len - 1, Lead(Isir(c)) + c.len}
      BY <1>1, <2>2, <3>1, AccessTms
    <3>3. Lead(Isir(c)) + c.len - 1 = Stop(c) - 1
      BY <1>1, <1>2 DEF Stop
    <3> QED BY <3>2, <3>3, Zenon DEF Highs, Stop
  <2> QED BY <1>3, <2>3, <2>4
<1>8. \A k \in Bits(c.len) : Lead(Isir(c)) + k \in blk'.tdi <=> k \in c.data
  <2>1. SUFFICES ASSUME NEW k \in Bits(c.len)
                 PROVE  Lead(Isir(c)) + k \in blk'.tdi <=> k \in c.data
    OBVIOUS
  <2>2. Lead(Isir(c)) + k \notin Cleared(blk.tdi, c.len + W)
    BY <1>1, <1>2 DEF Cleared, Dwords, W, Bits
  <2>3. Lead(Isir(c)) + k \in IrDrTdi(Isir(c), c.len, c.data) <=> k \in c.data
    BY <1>1, AccessTdi DEF Isir
  <2> QED BY <1>3, <2>2, <2>3
<1>9. Prepared(c)'
  BY <1>2, <1>3, <1>7, <1>8 DEF Prepared
<1>10. Walked(c)'
  <2>1. Place(c, 0) = "RunTestIdle"
    BY <1>1, PlaceIr, PlaceDr
  <2> QED BY <1>2, <1>5, <1>6, <2>1 DEF Walked
<1>11. Captured'
  <2>1. Window(0) = {}
    BY DEF Window, Bits
  <2>2. 0 \div W = 0 /\ 0 % W = 0
    BY DEF W
  <2> QED BY <1>6, <2>1, <2>2 DEF Captured
<1> QED BY <1>4, <1>5, <1>9, <1>10, <1>11 DEF AccessInv
\* The target on a pulse.
LEMMA AccessWalks ==
  ASSUME AccessesOnly, AccessInv, Tck, Prepared(job), Walked(job), job \in Sessions[session]
  PROVE  Walked(job)'
<1> DEFINE c == job
           n == port.n
           l == Lead(Isir(c))
<1>1. /\ c.op \in {"ir", "dr"} /\ c.len \in Nat /\ c.data \subseteq Bits(c.len)
      /\ l \in {4, 5} /\ Stop(c) = l + c.len /\ Stop(c) \in Nat
  BY DEF AccessesOnly, AccessInv, SpillInv, Lead, Stop
<1>2. /\ n \in 0..(Stop(c) + 1) /\ port.n' = n + 1 /\ job' = job
      /\ Clock(n \in blk.tms, n \in blk.tdi)
  <2>1. port.n < blk.bits /\ port.n' = port.n + 1 /\ job' = job /\ Clock(n \in blk.tms, n \in blk.tdi)
    BY TckStep DEF Tck, AccessInv
  <2> QED BY <1>1, <2>1 DEF Prepared, Walked
<1>3. n \in blk.tms <=> n \in Highs(c)
  BY <1>1, <1>2 DEF Prepared, Bits
<1>4. /\ tap' = Place(c, n + 1)
      /\ tap = Place(c, n)
  <2>1. tap' = IF n \in blk.tms THEN Walk[tap].high ELSE Walk[tap].low
    BY <1>2 DEF Clock
  <2>2. tap = Place(c, n)
    BY DEF Walked
  <2>3. tap' = IF n \in Highs(c) THEN Walk[Place(c, n)].high ELSE Walk[Place(c, n)].low
    BY <1>3, <2>1, <2>2, Zenon
  <2> QED BY <1>1, <1>2, <2>2, <2>3, PlaceStep
<1>5. /\ tap \in {"CaptureDR", "CaptureIR"} <=> n = l - 1
      /\ tap \in {"ShiftDR", "ShiftIR"} <=> n >= l /\ n < Stop(c)
  BY <1>1, <1>2, <1>4, PlaceIr, PlaceDr DEF Lead
<1>6. /\ tap' = "UpdateDR" <=> n = Stop(c) /\ ~Isir(c)
      /\ tap' = "UpdateIR" <=> n = Stop(c) /\ Isir(c)
  BY <1>1, <1>2, <1>4, PlaceIr, PlaceDr DEF Lead
<1>7. ASSUME n + 1 \in l..Stop(c)
      PROVE  scan'.len = (n + 1) - l /\ scan'.ones = c.data \cap Bits((n + 1) - l)
  <2>1. CASE n = l - 1
    <3>1. scan' = EmptyScan
      BY <1>2, <1>5, <2>1 DEF Clock
    <3>2. (n + 1) - l = 0 /\ Bits(0) = {}
      BY <1>1, <2>1 DEF Bits
    <3> QED BY <3>1, <3>2 DEF EmptyScan
  <2>2. CASE n # l - 1
    <3>1. n >= l /\ n < Stop(c) /\ n \in l..Stop(c)
      BY <1>1, <1>2, <1>7, <2>2
    <3>2. scan' = [len |-> scan.len + 1,
                   ones |-> scan.ones \cup (IF n \in blk.tdi THEN {scan.len} ELSE {})]
      BY <1>1, <1>2, <1>5, <3>1 DEF Clock
    <3>3. scan.len = n - l /\ scan.ones = c.data \cap Bits(n - l)
      BY <3>1 DEF Walked
    <3>4. n \in blk.tdi <=> n - l \in c.data
      <4>1. n - l \in Bits(c.len) /\ l + (n - l) = n
        BY <1>1, <1>2, <3>1 DEF Bits
      <4> QED BY <4>1 DEF Prepared
    <3>5. n - l + 1 = (n + 1) - l /\ Bits((n + 1) - l) = Bits(n - l) \cup {n - l}
      BY <1>1, <1>2, <3>1 DEF Bits
    <3>6. c.data \cap Bits((n + 1) - l)
            = (c.data \cap Bits(n - l)) \cup (IF n - l \in c.data THEN {n - l} ELSE {})
      BY <3>5, Zenon
    <3>7. scan'.len = n - l + 1
      BY <3>2, <3>3
    <3>8. scan'.ones = (c.data \cap Bits(n - l)) \cup (IF n - l \in c.data THEN {n - l} ELSE {})
      BY <3>2, <3>3, <3>4
    <3> QED BY <3>5, <3>6, <3>7, <3>8, Zenon
  <2> QED BY <2>1, <2>2
<1>8. scans' = IF n + 1 <= Stop(c) THEN <<>> ELSE Seen(c)
  <2>1. scans' = CASE tap' = "UpdateDR" -> Append(scans, Scan("DR", scan.len, scan.ones))
                   [] tap' = "UpdateIR" -> Append(scans, Scan("IR", scan.len, scan.ones))
                   [] OTHER -> scans
    BY <1>2 DEF Clock
  <2>2. scans = IF n <= Stop(c) THEN <<>> ELSE Seen(c)
    BY DEF Walked
  <2>3. CASE n = Stop(c)
    <3>1. scan.len = c.len /\ scan.ones = c.data
      <4>1. n \in l..Stop(c) /\ n - l = c.len
        BY <1>1, <2>3
      <4>2. scan.len = c.len /\ scan.ones = c.data \cap Bits(c.len)
        BY <4>1 DEF Walked
      <4> QED BY <1>1, <4>2
    <3>2. scans = <<>>
      BY <1>1, <2>2, <2>3
    <3>3. scans' = Append(scans, Scan(Reg(c, "IR", "DR"), scan.len, scan.ones))
      BY <1>6, <2>1, <2>3 DEF Reg
    <3>4. scans' = Seen(c)
      BY <3>1, <3>2, <3>3 DEF Seen
    <3> QED BY <1>1, <2>3, <3>4
  <2>4. CASE n # Stop(c)
    <3>1. scans' = scans
      BY <1>6, <2>1, <2>4
    <3> QED BY <1>1, <1>2, <2>2, <2>4, <3>1
  <2> QED BY <2>3, <2>4
<1>9. n + 1 \in 0..(Stop(c) + 2)
  BY <1>1, <1>2
<1>10. port'.n = n + 1 /\ job' = job
  BY <1>2
<1>11. /\ port'.n \in 0..(Stop(job') + 2)
       /\ tap' = Place(job', port'.n)
       /\ scans' = IF port'.n <= Stop(job') THEN <<>> ELSE Seen(job')
  BY <1>4, <1>8, <1>9, <1>10
<1>12. ASSUME port'.n \in Lead(Isir(job'))..Stop(job')
       PROVE  /\ scan'.len = port'.n - Lead(Isir(job'))
              /\ scan'.ones = job'.data \cap Bits(port'.n - Lead(Isir(job')))
  BY <1>7, <1>10, <1>12
<1> HIDE DEF c, l, n
<1> QED BY <1>11, <1>12, Zenon DEF Walked
\* What the bit loop captures and stores.
LEMMA AccessCaptures ==
  ASSUME AccessesOnly, AccessInv, Tck, Prepared(job), Walked(job), Captured,
         job \in Sessions[session]
  PROVE  Captured'
<1> DEFINE c == job
           n == port.n
           l == Lead(Isir(c))
           k == port.count
<1>1. /\ c.len \in Nat /\ c.read \in BOOLEAN
      /\ l \in {4, 5} /\ Stop(c) = l + c.len /\ Stop(c) \in Nat
  BY DEF AccessesOnly, AccessInv, SpillInv, Lead, Stop
<1>2. PICK level \in Tdo :
        port' = [n |-> port.n + 1, skip |-> IF port.skip > 0 THEN port.skip - 1 ELSE 0,
                 count |-> IF Capturing THEN k + 1 ELSE k,
                 reg |-> IF Capturing THEN ShiftedIn(port.reg, level) ELSE port.reg,
                 out |-> Store(port.out, IF Capturing THEN k + 1 ELSE k,
                               IF Capturing THEN ShiftedIn(port.reg, level) ELSE port.reg)]
  BY DEF Tck
<1> DEFINE count == IF Capturing THEN k + 1 ELSE k
           reg == IF Capturing THEN ShiftedIn(port.reg, level) ELSE port.reg
<1>3. port'.count = count /\ port'.reg = reg /\ port'.out = Store(port.out, count, reg)
  BY <1>2
<1>4. /\ k \in Nat /\ n \in Nat /\ port.skip \in Nat /\ blk.skip \in Nat /\ blk.tdo \in Nat
      /\ port.out \in Seq(WordsOfBits) /\ Progress
  BY DEF Tck, AccessInv, SpillInv, PortType, BlkType
<1>5. CASE Capturing
  <2>1. c.read /\ blk.skip = l /\ blk.tdo = c.len
    BY <1>1, <1>4, <1>5 DEF Capturing, Prepared
  <2>2. n >= l /\ k = n - l /\ n < Stop(c)
    BY <1>1, <1>4, <1>5, <2>1 DEF Capturing, Progress, Smaller
  <2>3. level = (k \in Answer[1])
    <3>1. scans = <<>> /\ scan.len = k
      BY <1>1, <2>2 DEF Walked
    <3>2. tap \in {"ShiftDR", "ShiftIR"}
      BY <1>1, <1>4, <2>2, PlaceIr, PlaceDr DEF Walked, Lead
    <3>3. Len(scans) + 1 = 1
      BY <3>1
    <3> QED BY <3>1, <3>2, <3>3, Zenon DEF Tdo
  <2>4. reg = Window(k + 1)
    <3>1. reg = ShiftedIn(Window(k), level)
      BY <1>5 DEF Captured
    <3> HIDE DEF reg, k
    <3>2. reg = ShiftedIn(Window(k), k \in Answer[1])
      BY <2>3, <3>1, Zenon
    <3> QED BY <1>4, <3>2, NextWindow
  <2>5. count = k + 1
    BY <1>5
  <2>6. /\ \A i \in 1..(k \div W) : port.out[i] = Window(i * W)
        /\ Len(port.out) >= k \div W
    BY <1>4 DEF Captured
  <2>7. Len(port.out) <= k \div W
    <3>1. Stores /\ n - blk.skip - k = 0
      BY <1>1, <1>4, <2>1, <2>2 DEF AccessInv, SpillInv
    <3>2. k \div W \in Nat
      BY <1>4 DEF W
    <3>3. k = 0 => Len(port.out) = 0
      BY <3>1 DEF Stores
    <3>4. k > 0 => Len(port.out) <= k \div W + (n - blk.skip - k)
      BY <3>1 DEF Stores
    <3> HIDE DEF k, n
    <3> QED BY <1>4, <3>1, <3>2, <3>3, <3>4
  <2> HIDE DEF count, reg, k
  <2>8. k \div W \in Nat /\ count \in Nat /\ Len(port.out) = k \div W
    BY <1>4, <2>5, <2>6, <2>7 DEF W
  <2>9. count \div W = k \div W + (IF count % W = 0 THEN 1 ELSE 0)
    BY <1>4, <2>5, NextWord
  <2>10. CASE count % W = 0
    <3>1. port'.out = Append(port.out, reg)
      BY <1>3, <1>4, <2>5, <2>10 DEF Store
    <3>2. count \div W = Len(port.out) + 1 /\ Len(port'.out) = Len(port.out) + 1
      BY <1>4, <2>8, <2>9, <2>10, <3>1
    <3>3. ASSUME NEW i \in 1..(count \div W) PROVE port'.out[i] = Window(i * W)
      <4>1. CASE i = count \div W
        <5>1. i * W = count
          BY <2>8, <2>10, <4>1 DEF W
        <5>2. port'.out[i] = reg
          BY <1>4, <3>1, <3>2, <4>1
        <5> QED BY <2>4, <2>5, <5>1, <5>2
      <4>2. CASE i # count \div W
        <5>1. i \in 1..(k \div W)
          BY <2>8, <3>2, <4>2
        <5>2. port'.out[i] = port.out[i]
          BY <1>4, <2>8, <3>1, <5>1
        <5> QED BY <2>6, <5>1, <5>2
      <4> QED BY <4>1, <4>2
    <3> QED BY <1>3, <2>4, <2>5, <2>8, <2>10, <3>2, <3>3 DEF Captured
  <2>11. CASE count % W # 0
    <3>1. port'.out = port.out
      BY <1>3, <2>11 DEF Store
    <3> QED BY <1>3, <2>4, <2>5, <2>6, <2>8, <2>9, <2>11, <3>1 DEF Captured
  <2> QED BY <2>10, <2>11
<1>6. CASE ~Capturing
  <2>1. count = k /\ reg = port.reg
    BY <1>6
  <2> HIDE DEF count, reg
  <2>2. /\ port.reg = Window(k)
        /\ \A i \in 1..(k \div W) : port.out[i] = Window(i * W)
        /\ IF k % W = 0 THEN Len(port.out) >= k \div W ELSE Len(port.out) = k \div W
    BY DEF Captured
  <2>3. k \div W \in Nat
    BY <1>4 DEF W
  <2>4. CASE k > 0 /\ k % W = 0
    <3>1. port'.out = Append(port.out, reg)
      BY <1>3, <2>1, <2>4 DEF Store
    <3>2. Len(port'.out) >= k \div W
      BY <1>4, <2>2, <2>3, <2>4, <3>1
    <3>3. ASSUME NEW i \in 1..(k \div W) PROVE port'.out[i] = Window(i * W)
      <4>1. i \in 1..Len(port.out)
        BY <1>4, <2>2, <2>3, <2>4
      <4>2. port'.out[i] = port.out[i]
        BY <1>4, <3>1, <4>1
      <4> QED BY <2>2, <4>2
    <3> HIDE DEF k
    <3> QED BY <1>3, <2>1, <2>2, <2>4, <3>2, <3>3 DEF Captured
  <2>5. CASE ~(k > 0 /\ k % W = 0)
    <3>1. port'.out = port.out
      BY <1>3, <2>1, <2>5 DEF Store
    <3> QED BY <1>3, <2>1, <2>2, <3>1 DEF Captured
  <2> QED BY <2>4, <2>5
<1> QED BY <1>5, <1>6
LEMMA AccessGoesOn ==
  ASSUME AccessesOnly, AccessInv, Tck
  PROVE  AccessInv'
<1>1. /\ phase = "run" /\ phase' = phase /\ job' = job /\ session' = session
      /\ blk' = blk /\ read' = read
  BY DEF Tck
<1>2. job \in Sessions[session] /\ read = <<>> /\ Prepared(job) /\ Walked(job) /\ Captured
  BY <1>1 DEF AccessInv
<1>3. Walked(job)' /\ Captured'
  BY <1>2, AccessWalks, AccessCaptures
<1>4. Prepared(job)'
  BY <1>1, <1>2 DEF Prepared, Stop, Highs, Lead, Isir
<1>5. SpillInv'
  BY TckKeeps DEF AccessInv
<1> QED BY <1>1, <1>2, <1>3, <1>4, <1>5 DEF AccessInv

\* The dwords that come back are those asked for.
LEMMA WordsComeBack ==
  ASSUME NEW n \in Nat, NEW out \in Seq(WordsOfBits),
         \A i \in 1..(n \div W) : out[i] = Window(i * W),
         n % W = 0 => Len(out) >= n \div W,
         n % W # 0 => Len(out) = n \div W
  PROVE  SubSeq(IF n % W # 0 THEN Append(out, Window(n)) ELSE out, 1, Dwords(n))
           = AnswerWords(Answer[1], n)
<1> DEFINE all == IF n % W # 0 THEN Append(out, Window(n)) ELSE out
<1>1. n \div W \in Nat /\ n = (n \div W) * W + (n % W) /\ n % W \in 0..31
  BY DEF W
<1>2. Dwords(n) = n \div W + (IF n % W = 0 THEN 0 ELSE 1)
  BY DEF Dwords, W
<1>3. Window(n) \in WordsOfBits
  BY DEF Window, WordsOfBits
<1>4. all \in Seq(WordsOfBits) /\ Len(all) >= Dwords(n) /\ Dwords(n) \in Nat
  BY <1>1, <1>2, <1>3
<1>5. SubSeq(all, 1, Dwords(n)) = [i \in 1..Dwords(n) |-> all[i]]
  BY <1>4
<1>6. ASSUME NEW i \in 1..Dwords(n)
      PROVE  all[i] = {b \in Bits(W) : Smaller((i - 1) * W, n - W) + b \in Answer[1] \cap Bits(n)}
  <2>1. CASE i <= n \div W
    <3>1. all[i] = Window(i * W)
      BY <1>1, <2>1, <1>4
    <3>2. Smaller((i - 1) * W, n - W) = (i - 1) * W
      BY <1>1, <2>1 DEF Smaller, W
    <3>3. \A b \in Bits(W) :
            /\ i * W - W + b = (i - 1) * W + b
            /\ i * W - W + b \in Bits(i * W) /\ i * W - W + b \in Bits(n)
      BY <1>1, <2>1 DEF Bits, W
    <3> QED BY <3>1, <3>2, <3>3 DEF Window
  <2>2. CASE i > n \div W
    <3>1. n % W # 0 /\ i = n \div W + 1 /\ Len(out) = n \div W
      BY <1>1, <1>2, <2>2
    <3>2. all[i] = Window(n)
      BY <1>1, <3>1
    <3>3. Smaller((i - 1) * W, n - W) = n - W
      BY <1>1, <3>1 DEF Smaller, W
    <3> QED BY <3>2, <3>3, Zenon DEF Window
  <2> QED BY <1>1, <2>1, <2>2, <1>4
<1> HIDE DEF all
<1>7. SubSeq(all, 1, Dwords(n)) = AnswerWords(Answer[1], n)
  BY <1>5, <1>6, Zenon DEF AnswerWords
<1> QED BY <1>7 DEF all

LEMMA AccessEnds ==
  ASSUME AccessesOnly, AccessInv, Complete
  PROVE  AccessInv'
<1> DEFINE c == job
           n == port.n
           l == Lead(Isir(c))
           k == port.count
<1>1. /\ phase = "run" /\ job' = job /\ session' = session /\ tap' = tap /\ scans' = scans
      /\ n = blk.bits
  BY DEF Complete
<1>2. job \in Sessions[session] /\ read = <<>> /\ Prepared(job) /\ Walked(job) /\ Captured
  BY <1>1 DEF AccessInv
<1>3. /\ c.op \in {"ir", "dr"} /\ c.len \in Nat /\ c.read \in BOOLEAN
      /\ l \in {4, 5} /\ Stop(c) = l + c.len /\ Stop(c) \in Nat
  BY <1>2 DEF AccessesOnly, AccessInv, SpillInv, Lead, Stop
<1>4. n = Stop(c) + 2
  BY <1>1, <1>2 DEF Prepared
<1>5. tap = "RunTestIdle" /\ scans = Seen(c)
  BY <1>2, <1>3, <1>4, PlaceIr, PlaceDr DEF Walked, Lead
<1>6. Seen(c) = Expected(c)
  BY <1>3 DEF Seen, Expected, Reg, Isir
<1>7. /\ k \in Nat /\ port.out \in Seq(WordsOfBits) /\ blk.skip \in Nat /\ blk.tdo \in Nat
      /\ Progress
  BY <1>1 DEF AccessInv, SpillInv, PortType, BlkType
<1>8. k = IF c.read THEN c.len ELSE 0
  <2>1. CASE c.read
    <3>1. blk.skip = l /\ blk.tdo = c.len
      BY <1>2, <2>1 DEF Prepared
    <3> QED BY <2>1, <3>1, <1>3, <1>4, <1>7 DEF Progress, Smaller
  <2>2. CASE ~c.read
    <3>1. blk.tdo = 0
      BY <1>2, <2>2 DEF Prepared
    <3> QED BY <2>2, <3>1, <1>3, <1>4, <1>7 DEF Progress, Smaller
  <2> QED BY <2>1, <2>2
<1> DEFINE out == IF k % W # 0 THEN Append(port.out, port.reg) ELSE port.out
<1>9. read' = read \o SubSeq(out, 1, Dwords(k))
  BY DEF Complete
<1>10. SubSeq(out, 1, Dwords(k)) = AnswerWords(Answer[1], k)
  <2>1. /\ port.reg = Window(k)
        /\ \A i \in 1..(k \div W) : port.out[i] = Window(i * W)
        /\ IF k % W = 0 THEN Len(port.out) >= k \div W ELSE Len(port.out) = k \div W
    BY <1>2 DEF Captured
  <2> HIDE DEF k
  <2>2. out = IF k % W # 0 THEN Append(port.out, Window(k)) ELSE port.out
    BY <2>1
  <2> HIDE DEF out
  <2> QED BY <1>7, <2>1, <2>2, WordsComeBack
<1>11. AnswerWords(Answer[1], k) = Returned(c)
  <2>1. CASE c.read
    BY <2>1, <1>3, <1>8, Zenon DEF Returned
  <2>2. CASE ~c.read
    <3>1. Returned(c) = <<>>
      BY <2>2, <1>3, Zenon DEF Returned
    <3>2. 1..Dwords(0) = {}
      BY DEF Dwords, W
    <3>3. AnswerWords(Answer[1], 0) = <<>>
      BY <3>2 DEF AnswerWords
    <3> QED BY <2>2, <1>8, <3>1, <3>3
  <2> QED BY <2>1, <2>2
<1>12. read' = Returned(c)
  <2> DEFINE words == AnswerWords(Answer[1], k)
  <2>1. Dwords(k) \in Nat
    BY <1>7 DEF Dwords, W
  <2>2. words \in Seq(WordsOfBits)
    BY <2>1 DEF AnswerWords, WordsOfBits
  <2>3. read' = <<>> \o words
    BY <1>2, <1>9, <1>10
  <2> HIDE DEF words
  <2>4. read' = words
    BY <2>2, <2>3
  <2> QED BY <1>11, <2>4 DEF words
<1>13. phase' = "idle"
  BY <1>3 DEF Complete
<1>14. SpillInv'
  BY CompleteStep DEF AccessInv
<1> QED BY <1>1, <1>2, <1>5, <1>6, <1>12, <1>13, <1>14 DEF AccessInv
LEMMA AccessNext ==
  ASSUME AccessesOnly, AccessInv, [Next]_vars
  PROVE  AccessInv'
<1>1. ASSUME NEW c \in Sessions[session], IrDrWrite(c) PROVE AccessInv'
  BY <1>1, AccessBegins
<1>2. \A c \in Sessions[session] : c.op \in {"ir", "dr"}
  BY DEF AccessesOnly, AccessInv, SpillInv
<1>3. ASSUME NEW c \in Sessions[session], FastWrite(c) \/ FastRead(c) PROVE FALSE
  BY <1>2, <1>3 DEF FastWrite, FastRead
<1>4. ~ContinueFastWrite /\ ~ContinueFastRead
  BY DEF ContinueFastWrite, ContinueFastRead, AccessInv
<1>5. CASE Tck
  BY <1>5, AccessGoesOn
<1>6. CASE Complete
  BY <1>6, AccessEnds
<1>7. CASE UNCHANGED vars
  <2>1. SpillInv'
    BY <1>7, SpillNext DEF AccessInv
  <2>2. /\ tap' = tap /\ scan' = scan /\ scans' = scans /\ session' = session /\ job' = job
        /\ phase' = phase /\ blk' = blk /\ port' = port /\ read' = read
    BY <1>7 DEF vars
  <2>3. phase = "run" => Prepared(job)' /\ Walked(job)' /\ Captured'
    BY <2>2 DEF AccessInv, Prepared, Walked, Captured, Stop, Highs, Lead, Isir, Seen, Place, Reg
  <2> QED BY <2>1, <2>2, <2>3 DEF AccessInv
<1> QED BY <1>1, <1>3, <1>4, <1>5, <1>6, <1>7 DEF Next

\* Those dwords are the ones asked for, and behind them the bits left over.
LEMMA AnswerIsAsked ==
  ASSUME NEW n \in Nat
  PROVE  LET whole == WholeDwords(Answer[1], n)
             words == AnswerWords(Answer[1], n)
         IN  /\ IsPrefix(whole, words) /\ Len(words) = Len(whole) + Dwords(n % W)
             /\ n % W > 0 => EndsIn(words[Len(words)], Answer[1], n, n % W)
<1> DEFINE whole == WholeDwords(Answer[1], n)
           words == AnswerWords(Answer[1], n)
           q == n \div W
           m == n % W
<1>1. q \in Nat /\ m \in 0..31 /\ n = q * 32 + m /\ W = 32
  BY DEF W
<1>2. Dwords(n) = q + Dwords(m) /\ Dwords(m) = (IF m = 0 THEN 0 ELSE 1)
  BY DEF Dwords, W
<1>3. whole \in Seq(WordsOfBits) /\ Len(whole) = q
  BY <1>1 DEF WholeDwords, WordsOfBits
<1>4. words \in Seq(WordsOfBits) /\ Len(words) = q + Dwords(m)
  BY <1>1, <1>2 DEF AnswerWords, WordsOfBits
<1>5. ASSUME NEW i \in 1..q PROVE whole[i] = words[i]
  <2>1. i \in 1..Dwords(n)
    BY <1>1, <1>2
  <2>2. words[i] = {b \in Bits(W) : Smaller((i - 1) * W, n - W) + b \in Answer[1] \cap Bits(n)}
    BY <2>1, Zenon DEF AnswerWords
  <2>3. Smaller((i - 1) * W, n - W) = (i - 1) * W
    BY <1>1 DEF Smaller
  <2>4. \A b \in Bits(W) : (i - 1) * W + b \in Bits(n)
    BY <1>1 DEF Bits
  <2>5. whole[i] = {b \in Bits(W) : (i - 1) * W + b \in Answer[1]}
    BY Zenon DEF WholeDwords
  <2> QED BY <2>2, <2>3, <2>4, <2>5
<1>6. ASSUME m > 0 PROVE EndsIn(words[Len(words)], Answer[1], n, m)
  <2>1. Len(words) = q + 1 /\ Len(words) \in 1..Dwords(n)
    BY <1>1, <1>2, <1>4, <1>6
  <2>2. words[Len(words)]
          = {b \in Bits(W) : Smaller((Len(words) - 1) * W, n - W) + b \in Answer[1] \cap Bits(n)}
    BY <2>1, Zenon DEF AnswerWords
  <2>3. Smaller((Len(words) - 1) * W, n - W) = n - W
    BY <1>1, <1>6, <2>1 DEF Smaller
  <2>4. ASSUME NEW b \in Bits(m)
        PROVE  (W - m) + b \in words[Len(words)] <=> n - m + b \in Answer[1]
    <3>1. /\ (W - m) + b \in Bits(W) /\ n - m + b \in Bits(n)
          /\ (n - W) + ((W - m) + b) = n - m + b
      BY <1>1 DEF Bits
    <3> QED BY <2>2, <2>3, <3>1, Zenon
  <2>5. W - m \in 0..(W - m)
    BY <1>1
  <2> HIDE DEF words, m
  <2> QED BY <2>4, <2>5, Zenon DEF EndsIn
<1>7. IsPrefix(whole, words)
  <2> HIDE DEF whole, words
  <2>1. Dwords(m) \in Nat
    BY <1>2
  <2> HIDE DEF q, m
  <2> QED BY <1>1, <1>3, <1>4, <1>5, <2>1 DEF IsPrefix
<1> QED BY <1>3, <1>4, <1>6, <1>7

LEMMA ReturnedAsAsked ==
  ASSUME AccessesOnly, AccessInv, phase = "idle"
  PROVE  ReadAsAsked
<1>1. read = Returned(job) /\ (job = NoJob \/ job \in Sessions[session])
  BY DEF AccessInv
<1>2. CASE job.op \in {"ir", "dr"} /\ job.read
  <2>1. job.len \in Nat
    BY <1>1, <1>2 DEF AccessesOnly, AccessInv, SpillInv, NoJob
  <2>2. ExpectedRead(job) = WholeDwords(Answer[1], job.len) /\ Leftover(job) = job.len % W
    BY <1>2, Zenon DEF ExpectedRead, Leftover
  <2>3. read = AnswerWords(Answer[1], job.len)
    BY <1>1, <1>2, Zenon DEF Returned
  <2>4. LET whole == WholeDwords(Answer[1], job.len)
            words == AnswerWords(Answer[1], job.len)
        IN  /\ IsPrefix(whole, words) /\ Len(words) = Len(whole) + Dwords(job.len % W)
            /\ job.len % W > 0 => EndsIn(words[Len(words)], Answer[1], job.len, job.len % W)
    BY <2>1, AnswerIsAsked
  <2> QED BY <2>2, <2>3, <2>4, Zenon DEF ReadAsAsked
<1>3. CASE ~(job.op \in {"ir", "dr"} /\ job.read)
  <2>1. job.op \in {"ir", "dr", "none"}
    BY <1>1 DEF AccessesOnly, AccessInv, SpillInv, NoJob
  <2>2. ExpectedRead(job) = <<>> /\ Leftover(job) = 0 /\ read = <<>>
    BY <1>1, <1>3, <2>1 DEF ExpectedRead, Leftover, Returned
  <2>3. Dwords(0) = 0 /\ IsPrefix(<<>>, <<>>) /\ Len(<<>>) = 0
    BY DEF Dwords, W, IsPrefix
  <2> QED BY <2>2, <2>3 DEF ReadAsAsked
<1> QED BY <1>2, <1>3

\* What the invariant says of an access under way and of one that is done.
LEMMA AccessSays ==
  ASSUME AccessesOnly, AccessInv
  PROVE  ScansAsAsked /\ TapStaysUsable /\ ReadAsAsked
<1>1. CASE phase = "idle"
  <2>1. scans = Expected(job) /\ tap = "RunTestIdle"
    BY <1>1 DEF AccessInv
  <2>2. IsPrefix(scans, scans)
    BY DEF IsPrefix
  <2>3. ReadAsAsked
    BY <1>1, ReturnedAsAsked
  <2> QED BY <1>1, <2>1, <2>2, <2>3 DEF ScansAsAsked, TapStaysUsable
<1>2. CASE phase = "run"
  <2>1. job \in Sessions[session] /\ read = <<>> /\ Prepared(job) /\ Walked(job)
    BY <1>2 DEF AccessInv
  <2>2. job.op \in {"ir", "dr"} /\ job.len \in Nat /\ job.read \in BOOLEAN
    BY <2>1 DEF AccessesOnly, AccessInv, SpillInv
  <2>3. port.n \in Nat /\ Stop(job) \in Nat
    BY <1>2, <2>2 DEF AccessInv, SpillInv, PortType, Stop, Lead
  <2>4. Expected(job) = Seen(job)
    BY <2>2 DEF Seen, Expected, Reg, Isir
  <2>5. IsPrefix(scans, Expected(job))
    <3>1. CASE port.n <= Stop(job)
      <4>1. scans = <<>> /\ Len(Expected(job)) = 1
        BY <2>1, <2>4, <3>1 DEF Walked, Seen
      <4> QED BY <4>1 DEF IsPrefix
    <3>2. CASE ~(port.n <= Stop(job))
      BY <2>1, <2>4, <3>2 DEF Walked, IsPrefix, Seen
    <3> QED BY <3>1, <3>2
  <2>6. IsPrefix(read, ExpectedRead(job))
    <3>1. \E S : ExpectedRead(job) \in Seq(S)
      <4>1. CASE job.read
        <5>1. ExpectedRead(job) = WholeDwords(Answer[1], job.len)
          BY <4>1, <2>2, Zenon DEF ExpectedRead
        <5>2. job.len \div W \in Nat
          BY <2>2 DEF W
        <5>3. ExpectedRead(job) \in Seq(WordsOfBits)
          BY <5>1, <5>2 DEF WholeDwords, WordsOfBits
        <5> QED BY <5>3
      <4>2. CASE ~job.read
        <5>1. ExpectedRead(job) = <<>>
          BY <4>2, <2>2 DEF ExpectedRead
        <5> QED BY <5>1
      <4> QED BY <4>1, <4>2
    <3>2. Len(ExpectedRead(job)) \in Nat
      BY <3>1
    <3> QED BY <2>1, <3>2 DEF IsPrefix
  <2>7. tap # "TestLogicReset"
    <3>1. port.n \in 0..(Stop(job) + 2) /\ tap = Place(job, port.n)
      BY <2>1 DEF Walked
    <3>2. CASE Isir(job)
      BY <2>2, <2>3, <3>1, <3>2, PlaceIr DEF Stop, Lead
    <3>3. CASE ~Isir(job)
      BY <2>2, <2>3, <3>1, <3>3, PlaceDr DEF Stop, Lead
    <3> QED BY <3>2, <3>3
  <2> QED BY <1>2, <2>5, <2>6, <2>7 DEF ScansAsAsked, TapStaysUsable, ReadAsAsked
<1> QED BY <1>1, <1>2 DEF AccessInv

LEMMA AccessAlways ==
  ASSUME AccessesOnly
  PROVE  Spec => []AccessInv
<1>1. AccessInv /\ [Next]_vars => AccessInv'
  BY AccessNext
<1> QED BY <1>1, AccessInit, PTL DEF Spec

\* Whatever its length and its data, and whatever the access before has left in the
\* buffer, an access shows the target one scan, of the register and with the bits that
\* were asked for (cmdimpl_irdr_write, lsejtag_impl_run_jtag).
THEOREM AccessesSeen ==
  ASSUME AccessesOnly
  PROVE  Spec => []ScansAsAsked
  BY AccessAlways, AccessSays, PTL

\* The TAP is never reset and is back in Run-Test/Idle whenever no access is running.
THEOREM AccessesPark ==
  ASSUME AccessesOnly
  PROVE  Spec => []TapStaysUsable
  BY AccessAlways, AccessSays, PTL

\* The host gets the bits the scan has shifted out, all of them in order and for every
\* length: the skipped bits, the capture and the stores of the bit loop agree with
\* the walk.  (Where a last dword has them that they do not fill is not said here.)
THEOREM AccessesAnswered ==
  ASSUME AccessesOnly
  PROVE  Spec => []ReadAsAsked
  BY AccessAlways, AccessSays, PTL
=============================================================================
