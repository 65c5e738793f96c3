-------------------------------- MODULE Jtag ---------------------------------
(***************************************************************************)
(* What the commands do on the pins.  The accesses, fast writes and fast   *)
(* reads of cmdimpl.c compose a sequence in JTAG buffer A (B is never used *)
(* there, see NeverSpins of Lsejtag), lsejtag_impl_run_jtag clocks it out  *)
(* bit by bit, and the TAP at the other end sees scans of IR and DR.       *)
(* The order in which main has these done, the buffering of commands and   *)
(* the flushing of TDO data are those of Lsejtag: here the data of a run   *)
(* are there when it is prepared, and there is room for what it reads.     *)
(***************************************************************************)
EXTENDS JtagSequences, Tap

CONSTANTS Sessions,  \* what a debugger may send: sets of commands, by name
          MaxJobs,   \* bound: commands executed
          BufDwords, \* sizeof(buffered_cmd), in dwords
          JtagBits   \* bits of tdi_data and tms_data

\* What a command of each kind carries.
ASSUME SessionsAssumption ==
  \A s \in DOMAIN Sessions : \A c \in Sessions[s] :
    /\ c.op \in {"ir", "dr"} => c.len \in Nat /\ c.read \in BOOLEAN
    /\ c.op \in {"fwrite", "fread"} =>
         c.cores \in Nat /\ c.fast \in BOOLEAN /\ c.data \in Seq(Seq(SUBSET Bits(W)))
    /\ c.op = "fwrite" => c.target \in Nat /\ c.wide \in BOOLEAN

ASSUME SizesAssumption == MaxJobs \in Nat /\ BufDwords \in Nat /\ JtagBits \in Nat

VARIABLES
  session,\* the commands this debugger sends
  job,    \* the command executed last, or under way
  jobs,   \* how many have been started
  phase,  \* what execute or main does next with it
  ctx,    \* the parameters of fast transfers that outlive a command
  blk,    \* jtagbuf_a
  port,   \* the locals of lsejtag_impl_run_jtag, and what it stored at tdo_buf
  read,   \* dwords collected for the command
  halted  \* an assertion has failed, or lsejtag_run_jtag has panicked

vars == <<tap, scan, scans, session, job, jobs, phase, ctx, blk, port, read, halted>>

(***************************************************************************)
(* A command.  IR and DR accesses: len bits of data, which read asks to be *)
(* answered.  Fast writes and reads: chained_core_count, at_cpu_core,      *)
(* cpu_is_64bit, with or without FASTDATA, and the DR sequence of each     *)
(* transfer as dwords (a read takes only their number).                    *)
(***************************************************************************)
NoJob == [op |-> "none"]
Isir(c) == c.op = "ir"

\* The loop before its first turn, with so many bits to skip.
PortFrom(skip) == [n |-> 0, skip |-> skip, count |-> 0, reg |-> {}, out |-> <<>>]
NoPort == PortFrom(0)

\* After lsejtag_init_ctx and the TAP reset of main, which ends in Run-Test/Idle.
Init ==
  /\ session \in DOMAIN Sessions
  /\ tap = "RunTestIdle" /\ scan = EmptyScan /\ scans = <<>>
  /\ job = NoJob /\ jobs = 0 /\ phase = "idle"
  /\ ctx = [cores |-> 0, target |-> 0, wide |-> FALSE, fast |-> FALSE, dr |-> 0,
            bits |-> 0, perBlk |-> 0, tdi |-> 0, skip |-> 0, left |-> 0]
  /\ blk = [tms |-> {}, tdi |-> {}, bits |-> 0, tdo |-> 0, skip |-> 0]
  /\ port = NoPort /\ read = <<>> /\ halted = FALSE

\* lsejtag_execute takes up a command.
Take(c) ==
  /\ ~halted /\ phase = "idle" /\ jobs < MaxJobs /\ c \in Sessions[session]
  /\ job' = c /\ jobs' = jobs + 1
  /\ scans' = <<>> /\ read' = <<>>
  /\ UNCHANGED <<tap, scan, session>>

\* What is left of buf once the words up to bit n have been cleared or assigned.
Cleared(buf, n) == {p \in buf : p >= Dwords(n) * W}

\* cmdimpl_irdr_write, and lsejtag_run_jtag behind it.
IrDrWrite(c) ==
  /\ c.op \in {"ir", "dr"} /\ Take(c)
  /\ LET len == IrDrLength(Isir(c), c.len)
     IN  blk' = [tms |-> IrDrTms(Isir(c), c.len) \cup Cleared(blk.tms, len),
                 tdi |-> IrDrTdi(Isir(c), c.len, c.data) \cup Cleared(blk.tdi, c.len + W),
                 bits |-> len,
                 tdo |-> IF c.read THEN c.len ELSE 0,
                 skip |-> IF c.read THEN Lead(Isir(c)) ELSE blk.skip]
  /\ port' = PortFrom(blk'.skip)
  /\ phase' = "run"
  /\ UNCHANGED <<ctx, halted>>

\* lsejtag_execute goes on with the continuation, unless the length of the composed
\* sequence fails the assertion.
Composed(real, bits) ==
  /\ halted' = (real # bits)
  /\ phase' = IF real = bits THEN "continue" ELSE "idle"

\* How many of n transfers make up one run: their data must fit buffered_cmd, their
\* sequences tdi_data.
PerBlockBytes(n, dr, bits) ==
  Smaller(n, Smaller(BufDwords \div (4 * Dwords(dr)), JtagBits \div bits))
PerBlock(n, dr, bits) == Smaller(n, Smaller(BufDwords \div Dwords(dr), JtagBits \div bits))

\* cmdimpl_fast_mem_write.  select_fastdata composes a sequence in the buffer that
\* is not run, because it is not marked as prepared, and is then overwritten.
FastWrite(c) ==
  /\ c.op = "fwrite" /\ Take(c)
  /\ LET target == IF c.cores = 0 THEN 0 ELSE c.target
         fast == c.fast \/ c.cores = 0
         dr == DrSeqBits(c.cores, c.wide, c.fast)
         bits == BitsPerXfer(c.cores, c.wide, fast)
         per == PerBlock(Len(c.data), dr, bits)
     IN  /\ ctx' = [ctx EXCEPT !.cores = c.cores, !.target = target, !.wide = c.wide, !.fast = fast,
                               !.dr = dr, !.bits = bits, !.perBlk = per, !.tdi = per * bits,
                               !.left = Len(c.data)]
         /\ blk' = [blk EXCEPT
              !.tms = Instances(XferTms(c.cores, dr, c.fast), bits, per)
                        \cup {p \in blk.tms : p >= Dwords(bits) * per * W},
              !.tdi = Instances(XferTdi(c.cores, target, dr, c.fast), bits, per)
                        \cup {p \in blk.tdi : p >= Dwords(bits) * per * W}]
         /\ Composed(XferLength(c.cores, dr, c.fast), bits)
  /\ UNCHANGED port

\* The transfers left after p of them.
LeftOneLess(left, p) == left - p - 1
Left(left, p) == left - p

\* cmdimpl_continue_fast_mem_write with the data of the next p transfers.
ContinueFastWrite ==
  /\ phase = "continue" /\ job.op = "fwrite"
  /\ LET p == Smaller(ctx.perBlk, ctx.left)
         first == Len(job.data) - ctx.left
         tdi == IF ctx.perBlk > ctx.left THEN ctx.bits * ctx.left ELSE ctx.tdi
     IN  /\ ctx' = [ctx EXCEPT !.perBlk = p, !.tdi = tdi, !.left = Left(@, p)]
         /\ blk' = [blk EXCEPT !.bits = tdi, !.tdo = 0,
              !.tdi = PlaceData(@, ctx.cores, ctx.fast, ctx.bits, ctx.dr,
                                SubSeq(job.data, first + 1, first + p))]
  /\ port' = PortFrom(blk.skip)
  /\ phase' = "run"
  /\ UNCHANGED <<tap, scan, scans, session, job, jobs, read, halted>>

\* cmdimpl_fast_mem_read, with the width, the use of FASTDATA, the target and (for
\* the bits to skip) the core count that the last fast command left.
FastRead(c) ==
  /\ c.op = "fread" /\ Take(c)
  /\ LET cores == RealCores(c.cores)
         dr == DrSeqBits(cores, ctx.wide, c.fast)
         bits == BitsPerXfer(cores, ctx.wide, ctx.fast)
     IN  /\ ctx' = [ctx EXCEPT !.cores = cores, !.dr = dr, !.bits = bits, !.tdi = bits,
                               !.left = Len(c.data),
                               !.skip = IF c.fast THEN 4 ELSE 9 + RealCores(ctx.cores) * IrLen]
         /\ blk' = [blk EXCEPT
              !.tms = XferTms(cores, dr, c.fast) \cup Cleared(@, bits),
              !.tdi = XferTdi(cores, ctx.target, dr, c.fast) \cup Cleared(@, bits)]
         /\ Composed(XferLength(cores, dr, c.fast), bits)
  /\ UNCHANGED port

\* cmdimpl_continue_fast_mem_read
ContinueFastRead ==
  /\ phase = "continue" /\ job.op = "fread"
  /\ ctx' = [ctx EXCEPT !.left = Left(@, 1)]
  /\ blk' = [blk EXCEPT !.bits = ctx.tdi, !.tdo = Dwords(ctx.dr) * W, !.skip = ctx.skip]
  /\ port' = PortFrom(ctx.skip)
  /\ phase' = "run"
  /\ UNCHANGED <<tap, scan, scans, session, job, jobs, read, halted>>

(***************************************************************************)
(* lsejtag_impl_run_jtag.                                                  *)
(***************************************************************************)
\* Whether this rising edge captures TDO, and the word with the new bit.
CapturingEarly == port.skip <= 1 /\ port.count < blk.tdo
Capturing == port.skip = 0 /\ port.count < blk.tdo
ShiftedIn(reg, level) == Shr(reg, 1) \cup (IF level THEN {W - 1} ELSE {})

\* The store behind the falling edge: at every full word, and again with each
\* pulse for as long as the counter stands there.
StoreAlways(out, count, reg) == IF count % W = 0 THEN Append(out, reg) ELSE out
Store(out, count, reg) == IF count > 0 /\ count % W = 0 THEN Append(out, reg) ELSE out

\* One turn of the bit loop.
Tck ==
  /\ phase = "run" /\ port.n < blk.bits
  /\ \E level \in Tdo :
       LET count == IF Capturing THEN port.count + 1 ELSE port.count
           reg == IF Capturing THEN ShiftedIn(port.reg, level) ELSE port.reg
       IN  port' = [n |-> port.n + 1,
                    skip |-> IF port.skip > 0 THEN port.skip - 1 ELSE 0,
                    count |-> count, reg |-> reg,
                    out |-> Store(port.out, count, reg)]
  /\ Clock(port.n \in blk.tms, port.n \in blk.tdi)
  /\ UNCHANGED <<session, job, jobs, phase, ctx, blk, read, halted>>

\* The end of the run: the last, partial word is stored, the dwords are counted, and
\* lsejtag_run_jtag panics if they are not as many as it asked for.
Complete ==
  /\ phase = "run" /\ port.n = blk.bits
  /\ LET out == IF port.count % W # 0
                 THEN Append(port.out, port.reg) ELSE port.out
         got == Dwords(port.count)
     IN  /\ read' = read \o SubSeq(out, 1, got)
         /\ halted' = (got # Dwords(blk.tdo))
  /\ phase' = IF job.op \in {"fwrite", "fread"} /\ ctx.left # 0 THEN "continue" ELSE "idle"
  /\ port' = NoPort
  /\ UNCHANGED <<tap, scan, scans, session, job, jobs, ctx, blk>>

Next ==
  \/ \E c \in Sessions[session] : IrDrWrite(c) \/ FastWrite(c) \/ FastRead(c)
  \/ ContinueFastWrite \/ ContinueFastRead \/ Tck \/ Complete

Spec == Init /\ [][Next]_vars
\* The main loop goes on with what it has begun.
FairSpec == Spec /\ WF_vars(ContinueFastWrite \/ ContinueFastRead \/ Tck \/ Complete)
-----------------------------------------------------------------------------
TypeOK ==
  /\ tap \in TapState /\ scan \in [len : Nat, ones : SUBSET Nat]
  /\ scans \in Seq([reg : {"IR", "DR"}, len : Nat, ones : SUBSET Nat])
  /\ jobs \in 0..MaxJobs /\ (jobs = 0 => job = NoJob)
  /\ phase \in {"idle", "continue", "run"}
  /\ ctx \in [cores : Nat, target : Nat, wide : BOOLEAN, fast : BOOLEAN, dr : Nat,
               bits : Nat, perBlk : Nat, tdi : Nat, skip : Nat, left : Nat]
  /\ blk \in [tms : SUBSET Nat, tdi : SUBSET Nat, bits : Nat, tdo : Nat, skip : Nat]
  /\ port \in [n : Nat, skip : Nat, count : Nat, reg : SUBSET Bits(W), out : Seq(SUBSET Bits(W))]
  /\ read \in Seq(SUBSET Bits(W)) /\ halted \in BOOLEAN

(***************************************************************************)
(* What a command should do on the target.  The core farthest from TDI is  *)
(* the one whose instruction is shifted first.                             *)
(***************************************************************************)
ChainBits(c, code) ==
  LET cores == RealCores(c.cores)
      mine(k) == IF k = c.target THEN code ELSE IrSkip \cap Bits(IrLen)
  IN  UNION {{(cores - 1 - k) * IrLen + b : b \in mine(k)} : k \in Bits(cores)}
IrScan(c, code) == Scan("IR", RealCores(c.cores) * IrLen, ChainBits(c, code))

\* The bits of a sequence of dwords.
Joined(words) == UNION {{(i - 1) * W + b : b \in words[i]} : i \in DOMAIN words}

\* One transfer: DATA is selected and shifted, then CONTROL with PrAcc cleared.
SlowXfer(c, dr, data) ==
  LET behind == RealCores(c.cores) - 1 - c.target
  IN  << IrScan(c, IrData), Scan("DR", dr, data),
         IrScan(c, IrControl),
         Scan("DR", W + SkipBits(c.cores), {behind + b : b \in PrAccClear}) >>

Expected(c) ==
  CASE c.op \in {"ir", "dr"} -> << Scan(IF Isir(c) THEN "IR" ELSE "DR", c.len, c.data) >>
    [] c.op = "fwrite" /\ ~c.fast ->
         FlattenSeq([k \in DOMAIN c.data |->
           SlowXfer(c, DrSeqBits(c.cores, c.wide, FALSE), Joined(c.data[k]))])
    [] c.op = "fwrite" /\ c.fast ->
         (IF c.cores = 0 THEN <<>> ELSE << IrScan(c, IrFastdata) >>)
           \o [k \in DOMAIN c.data |-> Scan("DR", DrSeqBits(c.cores, c.wide, TRUE), Joined(c.data[k]))]
    [] c.op = "fread" ->
         FlattenSeq([k \in DOMAIN c.data |-> SlowXfer(c, DrSeqBits(c.cores, c.wide, FALSE), {})])
    [] OTHER -> <<>>

\* The scans seen by the target are those the command stands for, bit by bit, no
\* more and no fewer: the words of TMS and TDI, the copies of the first transfer,
\* the data laid over those of the run before, and the bit loop agree with the
\* walk through the TAP.
ScansAsAsked ==
  /\ IsPrefix(scans, Expected(job))
  /\ phase = "idle" => scans = Expected(job)

\* Between two runs the TAP is parked in Run-Test/Idle, where every sequence
\* begins, and no sequence resets it, which would deselect the instructions.
TapStaysUsable ==
  /\ tap # "TestLogicReset"
  /\ phase # "run" => tap = "RunTestIdle"

\* Of the first n bits of a scan, the dwords they fill ``from LSB to MSB and up from
\* array offset 0'' (lsejtag_impl.h), and the bits left over behind them.
WholeDwords(ones, n) ==
  [i \in 1..(n \div W) |-> {b \in Bits(W) : (i - 1) * W + b \in ones}]
Leftover(c) == IF c.op \in {"ir", "dr"} /\ c.read THEN c.len % W ELSE 0

ExpectedRead(c) ==
  CASE c.op \in {"ir", "dr"} /\ c.read -> WholeDwords(Answer[1], c.len)
    [] c.op = "fread" ->
         FlattenSeq([k \in DOMAIN c.data |->
           WholeDwords(Answer[4 * k - 2], DrSeqBits(c.cores, c.wide, FALSE))])
    [] OTHER -> <<>>

\* The last r of the n bits are side by side in the word, wherever that is.
EndsIn(word, ones, n, r) ==
  \E at \in 0..(W - r) : \A b \in Bits(r) : at + b \in word <=> n - r + b \in ones

\* The host gets the bits that the asked scan shifted out, all of them and no others,
\* in order.  Where in the last dword those are that do not fill it is a question
\* of its own (FilledFromLsb).
ReadAsAsked ==
  LET whole == ExpectedRead(job)
      left == Leftover(job)
  IN  /\ phase # "idle" => IsPrefix(read, whole)
      /\ phase = "idle" =>
           /\ IsPrefix(whole, read) /\ Len(read) = Len(whole) + Dwords(left)
           /\ left > 0 => EndsIn(read[Len(read)], Answer[1], job.len, left)

\* The run of an access stores at most two words behind those it was asked for: the
\* loop repeats the last store while TCK runs on.
SpillBounded ==
  job.op \in {"ir", "dr"} => Len(port.out) <= Dwords(blk.tdo) + 2

\* ``TMS: [IR:01100 DR:0100] + [(SeqBitLen-1)x 0] + [110]'' (cmdimpl.c)
EndsAsDocumented ==
  phase = "run" /\ job.op \in {"ir", "dr"} =>
    LET last == Lead(Isir(job)) + job.len - 1
    IN  blk.tms \cap Bits(blk.bits) = (IF Isir(job) THEN {1, 2} ELSE {1}) \cup {last, last + 1}

\* ``Place data at adequate locations in TDI buffer'' (cmdimpl.c): each transfer of
\* a run carries its own data and nothing of those of the run before.
DataInPlace ==
  phase = "run" /\ job.op = "fwrite" =>
    \A k \in 1..ctx.perBlk :
      LET at == (k - 1) * ctx.bits + DataOffset(ctx.cores, ctx.fast)
          mine == Len(job.data) - ctx.left - ctx.perBlk + k
      IN  {b \in Bits(ctx.dr) : at + b \in blk.tdi} = Joined(job.data[mine])

\* ``Bits should be captured from TDO pins, and filled into TDO buffer area, from LSB
\* to MSB and up from array offset 0'' (lsejtag_impl.h)
FilledFromLsb ==
  phase = "idle" /\ job.op \in {"ir", "dr"} /\ job.read =>
    Joined(read) = Answer[1] \cap Bits(job.len)

\* No assertion and no panic.
NeverHalts == ~halted

\* Every command comes to its end.
CommandsEnd == (phase # "idle") ~> (phase = "idle")
=============================================================================
