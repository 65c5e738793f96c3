------------------------------- MODULE Lsejtag ------------------------------
(***************************************************************************)
(* The LS-EJTAG library and the main loop that drives it.  The host sends  *)
(* commands back to back as bytes; they reach the RX FIFO in pieces of any *)
(* size.  The main loop calls lsejtag_dispatch, which assembles the next   *)
(* command in buffered_cmd or asks for a flush of collected TDO data or    *)
(* for a JTAG run, and then does what dispatch asked for.                  *)
(*                                                                         *)
(* RX is counted in bytes, and only how many there are matters: the bytes  *)
(* of the commands in `stream', one after the other.  TDO data and the TX  *)
(* FIFO are counted in dwords, each of which carries the number of the     *)
(* command it answers.                                                     *)
(***************************************************************************)
EXTENDS Integers, Sequences, FiniteSets

CONSTANTS Commands,   \* the commands the host sends
          BufSize,    \* sizeof(buffered_cmd), in bytes
          TdoSize,    \* sizeof(tdo_in_data), in dwords
          TxSize,     \* capacity of the TX FIFO, in dwords
          JtagXfers,  \* fast-write transfers that fit tdi_data and tms_data
          WordMod,    \* number of values of a uint32_t
          ReadWindow, \* dwords the host lets collect before it asks for them
          MaxCmds     \* bound: commands the host sends

(***************************************************************************)
(* A command: its operation; for IR/DR accesses read_back,                 *)
(* immediate_send_back and the number n of data dwords; for fast writes    *)
(* the number n of transfers and their length w (drseq_dwordlen); and the  *)
(* offsets at which the end of a USB packet may cut it.                    *)
(*                                                                         *)
(* "irdr" stands for op_ir_rw and op_dr_rw, "io_tap" and "io_none" for     *)
(* op_io_manip of the TAP reset and of a port that does not exist,         *)
(* "gs_fast" and "gs_slow" for fast writes with and without FASTDATA whose *)
(* chained core count is 0.                                                *)
(***************************************************************************)
FastWrites == {"fwrite", "gs_fast", "gs_slow"}
Op == {"probe_read", "probe_write", "date", "io", "io_tap", "io_none",
       "irdr", "loopback", "unknown"} \cup FastWrites
Command == [op : Op, read : BOOLEAN, imm : BOOLEAN, n : Nat, w : Nat, cuts : SUBSET Nat]

\* drseq_dwordlen is never 0.
ASSUME CommandsAssumption ==
  Commands \subseteq Command /\ \A c \in Commands : c.op \in FastWrites => c.w > 0
ASSUME SizeAssumption ==
  /\ {BufSize, TdoSize, TxSize, JtagXfers, WordMod, ReadWindow, MaxCmds} \subseteq Nat
  /\ BufSize < WordMod /\ TxSize > 0

Least(a, b) == IF a < b THEN a ELSE b

\* Header and configuration section (the cases of the switch in dispatch).
ConfigSize(c) ==
  CASE c.op = "irdr" -> 4
    [] c.op = "loopback" -> 6
    [] c.op = "fwrite" -> 10
    [] c.op \in {"gs_fast", "gs_slow"} -> 8
    [] OTHER -> 2

\* The payload behind it.
PayloadSize(c) ==
  CASE c.op = "irdr" -> 4 * c.n
    [] c.op \in FastWrites -> 4 * c.w * c.n
    [] c.op = "probe_read" -> 4
    [] c.op = "probe_write" -> 8
    [] OTHER -> 0

CommandSize(c) == ConfigSize(c) + PayloadSize(c)

VARIABLES
  stream,       \* host: the commands sent, each with the stream offset of its end
                \* and the dwords collected since the last immediate_send_back
  arrived,      \* bytes that have arrived in the RX FIFO
  rpos,         \* bytes taken from the RX FIFO
  state, buffered, wait, \* cmd_buf_state, buffered_length, cmd_buf_wait_payload_size
  todo,         \* what the main loop does next
  continuation, xfersLeft, perBlk, \* continuation context of a fast write
  bufs,         \* jtagbuf_a and jtagbuf_b
  tdo, flushed, \* tdo_in_data from tdo_flush_ptr to tdo_dma_ptr; tdo_flush_ptr
  immFlush, haveNew, shouldFlush, \* tdo_immediate_flush, tdo_have_new_data, tdo_should_flush
  txFree,       \* free dwords in the TX FIFO
  halted,       \* the firmware has panicked or failed an assertion
  done,         \* history: commands finished
  tx,           \* history: dwords put into the TX FIFO
  ran           \* history: one entry for each access or transfer run on the port

hostVars == <<stream, arrived>>
cmdVars  == <<state, buffered, wait, done>>
contVars == <<continuation, xfersLeft, perBlk>>
tdoVars  == <<tdo, flushed, immFlush, haveNew, shouldFlush>>
txVars   == <<tx, txFree>>
vars == <<stream, arrived, rpos, state, buffered, wait, todo, continuation,
          xfersLeft, perBlk, bufs, tdo, flushed, immFlush, haveNew, shouldFlush,
          txFree, halted, done, tx, ran>>

Buf == {"a", "b"}
State == {"clean", "wait_header", "wait_cfg", "wait_payload", "execute"}
Block == [prepared : BOOLEAN, imm : BOOLEAN, tdo : Nat, cmd : Nat, xfers : Nat]

TypeOK ==
  /\ stream \in Seq([cmd : Commands, end : Nat, held : 0..ReadWindow])
  /\ arrived \in Nat /\ rpos \in 0..arrived
  /\ state \in State /\ buffered \in Nat /\ wait \in Nat
  /\ todo \in {"dispatch", "execute", "flush", "run"}
  /\ continuation \in BOOLEAN /\ xfersLeft \in Nat /\ perBlk \in Nat
  /\ bufs \in [Buf -> Block]
  /\ tdo \in Seq(Nat) /\ flushed \in Nat
  /\ immFlush \in BOOLEAN /\ haveNew \in BOOLEAN /\ shouldFlush \in BOOLEAN
  /\ halted \in BOOLEAN
  /\ txFree \in 0..TxSize /\ tx \in Seq(Nat)
  /\ done \in Nat /\ ran \in Seq(Nat)

EndOf(k) == IF k = 0 THEN 0 ELSE stream[k].end
Sent == EndOf(Len(stream))

\* The command being assembled or executed, and its number.
Number == done + 1
Current == stream[Number].cmd

NoBlock == [prepared |-> FALSE, imm |-> FALSE, tdo |-> 0, cmd |-> 0, xfers |-> 0]

\* After lsejtag_init_ctx and the TAP reset of main, which completes a TDO
\* transfer of no dwords.
Init ==
  /\ stream = <<>> /\ arrived = 0 /\ rpos = 0
  /\ state = "clean" /\ buffered = 0 /\ wait = 0 /\ todo = "dispatch"
  /\ continuation = FALSE /\ xfersLeft = 0 /\ perBlk = 0
  /\ bufs = [x \in Buf |-> NoBlock]
  /\ tdo = <<>> /\ flushed = 0
  /\ immFlush = FALSE /\ haveNew = TRUE /\ shouldFlush = FALSE
  /\ txFree = TxSize /\ halted = FALSE
  /\ done = 0 /\ tx = <<>> /\ ran = <<>>

(***************************************************************************)
(* The host and the USB link.                                              *)
(***************************************************************************)
\* Dwords of TDO data a command collects, and whether it asks for their sending.
Collects(c) == IF c.op = "irdr" /\ c.read THEN c.n ELSE 0
Urgent(c) == c.op = "irdr" /\ c.imm

\* The dwords that the commands sent so far leave in the device.
HeldBack ==
  IF stream = <<>> THEN 0
  ELSE LET last == stream[Len(stream)]
       IN  IF Urgent(last.cmd) THEN 0 ELSE last.held

\* The host's next command.  The host never lets more data collect in the device
\* than ReadWindow before it asks for it to be sent back.
Send(c) ==
  /\ arrived = Sent /\ Len(stream) < MaxCmds
  /\ HeldBack + Collects(c) <= ReadWindow
  /\ stream' = Append(stream, [cmd |-> c, end |-> Sent + CommandSize(c),
                               held |-> HeldBack + Collects(c)])
  /\ UNCHANGED <<arrived, rpos, cmdVars, todo, contVars, bufs, tdoVars, txVars, halted, ran>>

\* Bytes arrive, up to the end of that command or to a point where it may be cut.
\* Several arrivals between two calls of dispatch make a longer one.
Arrive(e) ==
  /\ arrived < e /\ e <= Sent
  /\ LET k == Len(stream)
     IN  e = EndOf(k) \/ e - EndOf(k - 1) \in stream[k].cmd.cuts
  /\ arrived' = e
  /\ UNCHANGED <<stream, rpos, cmdVars, todo, contVars, bufs, tdoVars, txVars, halted, ran>>

\* The USB link takes dwords out of the TX FIFO.
Drain ==
  /\ txFree < TxSize /\ txFree' = txFree + 1
  /\ UNCHANGED <<hostVars, rpos, cmdVars, todo, contVars, bufs, tdoVars, tx, halted, ran>>

(***************************************************************************)
(* lsejtag_dispatch.                                                       *)
(***************************************************************************)
Dispatching == ~halted /\ todo = "dispatch"

\* Collected data that must be sent back: flush until the buffer is clear.
FlushPending ==
  /\ Dispatching /\ shouldFlush
  /\ todo' = "flush"
  /\ UNCHANGED <<hostVars, rpos, cmdVars, contVars, bufs, tdoVars, txVars, halted, ran>>

FlushDecidedLost ==
  /\ Dispatching /\ ~shouldFlush /\ immFlush /\ haveNew
  /\ haveNew' = FALSE /\ todo' = "flush"
  /\ UNCHANGED <<hostVars, rpos, cmdVars, contVars, bufs, tdo, flushed, immFlush, shouldFlush, txVars, halted, ran>>
FlushDecided ==
  /\ Dispatching /\ ~shouldFlush /\ immFlush /\ haveNew
  /\ haveNew' = FALSE /\ shouldFlush' = TRUE /\ todo' = "flush"
  /\ UNCHANGED <<hostVars, rpos, cmdVars, contVars, bufs, tdo, flushed, immFlush, txVars, halted, ran>>

NothingToFlush == Dispatching /\ ~shouldFlush /\ ~(immFlush /\ haveNew)
PreparedB == bufs["b"].prepared
Prepared == \E x \in Buf : bufs[x].prepared

RunPrepared ==
  /\ NothingToFlush /\ Prepared
  /\ todo' = "run"
  /\ UNCHANGED <<hostVars, rpos, cmdVars, contVars, bufs, tdoVars, txVars, halted, ran>>

\* The read position after lsejtag_impl_usbrx_consume(n) at position pos: the
\* ring gives no more than it has.
Take(pos, n) == pos + Least(n, arrived - pos)

\* A complete command is in the buffer.
Ready(pos, got) ==
  /\ rpos' = pos /\ buffered' = got /\ wait' = 0
  /\ state' = "execute" /\ todo' = "execute" /\ UNCHANGED <<done, halted>>

\* From label wait_payload on: rx bytes are available, w are missing.
PayloadForgets(pos, rx, got, w) ==
  \/ rx >= w /\ Ready(Take(pos, w), got + w)
  \/ /\ rx < w
     /\ rpos' = Take(pos, rx) /\ buffered' = got + rx /\ wait' = w
     /\ state' = "wait_payload" /\ UNCHANGED <<todo, done, halted>>
Payload(pos, rx, got, w) ==
  \/ rx >= w /\ Ready(Take(pos, w), got + w)
  \/ /\ rx < w
     /\ rpos' = Take(pos, rx) /\ buffered' = got + rx /\ wait' = w - rx
     /\ state' = "wait_payload" /\ UNCHANGED <<todo, done, halted>>

\* CHECK_CMD_LENGTH fails: main panics.
TooLong(pos, got, w) ==
  /\ got + w > BufSize /\ halted' = TRUE
  /\ rpos' = pos /\ buffered' = got /\ wait' = w
  /\ state' = "wait_payload" /\ UNCHANGED <<todo, done>>

\* From label wait_cfg on: rx bytes are available behind the got bytes buffered;
\* lenAvail is what the function takes for their sum.
Config(pos, lenAvail, rx, got) ==
  LET c == Current
      missing == (ConfigSize(c) - got) % WordMod
      pos2 == Take(pos, missing)
      got2 == (got + missing) % WordMod
  IN
  \/ c.op \in {"probe_read", "probe_write"} /\ Payload(pos, rx, got, PayloadSize(c))
  \/ c.op \in {"io", "io_tap", "io_none", "date"} /\ Ready(pos, got)
  \/ /\ c.op = "unknown"
     /\ rpos' = pos /\ buffered' = 0 /\ state' = "clean"
     /\ done' = Number /\ UNCHANGED <<wait, todo, halted>>
  \/ /\ ConfigSize(c) > 2
     /\ IF lenAvail > ConfigSize(c)
        THEN \/ c.op = "irdr" /\ TooLong(pos2, got2, PayloadSize(c))
             \/ /\ c.op = "irdr" /\ got2 + PayloadSize(c) <= BufSize
                /\ Payload(pos2, (rx - missing) % WordMod, got2, PayloadSize(c))
             \/ c.op = "loopback" /\ Ready(pos2, got)
             \/ c.op \in FastWrites /\ Ready(pos2, got2)
        ELSE /\ rpos' = Take(pos, rx) /\ buffered' = got + rx /\ state' = "wait_cfg"
             /\ UNCHANGED <<wait, todo, done, halted>>

\* The rest of dispatch, by cmd_buf_state; nothing happens without any byte.
\* After the frame is lost, dispatch would take bytes from the middle of a command
\* for a header: the model ends there.
InFrame == state = "clean" => rpos = EndOf(done)

Fetch ==
  LET rx == arrived - rpos
  IN
  /\ NothingToFlush /\ ~Prepared /\ (rx > 0 \/ buffered > 0) /\ InFrame
  /\ \/ /\ state = "clean" /\ rx = 1
        /\ rpos' = rpos + 1 /\ buffered' = 1 /\ state' = "wait_header"
        /\ UNCHANGED <<wait, todo, done, halted>>
     \/ state = "clean" /\ rx > 1 /\ Config(rpos + 2, rx + buffered - 2, rx - 2, 2)
     \/ state = "wait_header" /\ rx > 0 /\ Config(rpos + 1, rx + buffered - 1, rx - 1, 2)
     \/ state = "wait_cfg" /\ Config(rpos, rx + buffered, rx, buffered)
     \/ state = "wait_payload" /\ Payload(rpos, rx, buffered, wait)
     \/ /\ state = "execute" /\ todo' = "execute"
        /\ UNCHANGED <<rpos, buffered, wait, state, done, halted>>
  /\ UNCHANGED <<hostVars, contVars, bufs, tdoVars, txVars, ran>>

(***************************************************************************)
(* lsejtag_execute.                                                        *)
(***************************************************************************)
Executing(ops) ==
  /\ ~halted /\ todo = "execute" /\ state = "execute"
  /\ ~continuation /\ Current.op \in ops
  /\ todo' = "dispatch"

\* cmd_buf_clean
CommandDone ==
  buffered' = 0 /\ wait' = 0 /\ state' = "clean" /\ done' = Number

\* wait_until_jtag_periph_free spins while a buffer is busy; since a run is
\* synchronous, only `prepared' can make it so, and nothing in the loop clears it.
PeriphFree == ~Prepared

\* cmdimpl_get_firmware_date and the reads of cmdimpl_probe_mem_rw: one dword,
\* straight into the TX FIFO, or another try later.
ReplyUnchecked ==
  /\ Executing({"date", "probe_read"})
  /\ tx' = Append(tx, Number) /\ txFree' = txFree - 1 /\ CommandDone
  /\ UNCHANGED <<hostVars, rpos, contVars, bufs, tdoVars, halted, ran>>
DirectReply ==
  /\ Executing({"date", "probe_read"})
  /\ \/ /\ txFree >= 1
        /\ tx' = Append(tx, Number) /\ txFree' = txFree - 1 /\ CommandDone
     \/ txFree < 1 /\ UNCHANGED <<cmdVars, txVars>>
  /\ UNCHANGED <<hostVars, rpos, contVars, bufs, tdoVars, halted, ran>>

\* The writes of cmdimpl_probe_mem_rw (of the clock divider, which waits for the
\* port), and cmdimpl_io_manip of a pin.
Settle ==
  /\ Executing({"probe_write", "io"})
  /\ Current.op = "probe_write" => PeriphFree
  /\ CommandDone
  /\ UNCHANGED <<hostVars, rpos, contVars, bufs, tdoVars, txVars, halted, ran>>

\* cmdimpl_io_manip of the TAP reset: a run on the port outside the buffers,
\* which completes a TDO transfer of no dwords.
TapReset ==
  /\ Executing({"io_tap"}) /\ PeriphFree
  /\ haveNew' = TRUE /\ CommandDone
  /\ UNCHANGED <<hostVars, rpos, contVars, bufs, tdo, flushed, immFlush, shouldFlush, txVars, halted, ran>>

\* The early return of cmdimpl_io_manip and the `break' of lsejtag_execute for the
\* loopback test leave the command in the buffer.
NothingDone ==
  /\ Executing({"io_none", "loopback"})
  /\ UNCHANGED <<hostVars, rpos, cmdVars, contVars, bufs, tdoVars, txVars, halted, ran>>

\* return_data_len_required for an IR/DR access, in dwords.
Required(c) == IF c.read THEN 0 ELSE c.n

\* Unsigned, as in the code: the space left in the TDO buffer.
TdoSpace == (TdoSize - Len(tdo)) % WordMod
TdoEnough(c) == TdoSpace >= Required(c)

\* The JTAG buffer a command takes: A if it is free, else B.
FreeBlock(x) ==
  ~bufs[x].prepared /\ (x = "b" => bufs["a"].prepared)

\* cmdimpl_irdr_write
PrepareSilent(x, c) ==
  bufs' = [bufs EXCEPT ![x] = [prepared |-> TRUE, imm |-> FALSE,
             tdo |-> IF c.read THEN c.n ELSE 0, cmd |-> Number, xfers |-> 1]]
PrepareAccess(x, c) ==
  bufs' = [bufs EXCEPT ![x] = [prepared |-> TRUE, imm |-> c.imm,
             tdo |-> IF c.read THEN c.n ELSE 0, cmd |-> Number, xfers |-> 1]]

IrDrWrite ==
  /\ Executing({"irdr"})
  /\ \/ /\ \E x \in Buf : FreeBlock(x) /\ TdoEnough(Current) /\ PrepareAccess(x, Current)
        /\ CommandDone /\ UNCHANGED shouldFlush
     \/ /\ \E x \in Buf : FreeBlock(x)
        /\ ~TdoEnough(Current)
        /\ shouldFlush' = TRUE /\ UNCHANGED <<bufs, cmdVars>>
     \/ ~(\E x \in Buf : FreeBlock(x)) /\ UNCHANGED <<bufs, cmdVars, shouldFlush>>
  /\ UNCHANGED <<hostVars, rpos, contVars, tdo, flushed, immFlush, haveNew, txVars, halted, ran>>

\* cmdimpl_fast_mem_write: the transfers that make up one run; the sequence is
\* composed in buffer A and copied to B.  Without FASTDATA, a chained core count
\* of 0 fails the assertion on its length.
PerBlock(c) == Least(c.n, Least(BufSize \div (4 * c.w), JtagXfers))

FastWrite ==
  /\ Executing(FastWrites) /\ PeriphFree
  /\ perBlk' = PerBlock(Current)
  /\ \/ /\ Current.op # "gs_slow"
        /\ buffered' = 0 /\ xfersLeft' = Current.n /\ continuation' = TRUE
        /\ UNCHANGED halted
     \/ /\ Current.op = "gs_slow"
        /\ halted' = TRUE /\ UNCHANGED <<buffered, xfersLeft, continuation>>
  /\ UNCHANGED <<hostVars, rpos, state, wait, done, bufs, tdoVars, txVars, ran>>

\* cmdimpl_continue_fast_mem_write: gather the data of the next run of p
\* transfers, then place it in a free JTAG buffer and prepare that.
DataSize(p) == p * 4 * Current.w
GatheredMore(p) == buffered + (arrived - rpos) > DataSize(p)
Gathered(p) == buffered + (arrived - rpos) >= DataSize(p)

PrepareWrite(x, p) ==
  bufs' = [bufs EXCEPT ![x].prepared = TRUE, ![x].tdo = 0, ![x].cmd = Number, ![x].xfers = p]

WriteContinues(p) ==
  /\ xfersLeft > p /\ buffered' = 0 /\ UNCHANGED <<state, wait, done, continuation>>
WriteEnds(p) ==
  /\ xfersLeft = p /\ CommandDone /\ continuation' = FALSE

ContinueFastWrite ==
  /\ ~halted /\ todo = "execute" /\ state = "execute" /\ continuation
  /\ todo' = "dispatch"
  /\ LET p == Least(perBlk, xfersLeft)
         size == DataSize(p)
     IN  /\ perBlk' = p
         /\ \/ /\ ~Gathered(p)
               /\ rpos' = arrived /\ buffered' = buffered + (arrived - rpos)
               /\ UNCHANGED <<state, wait, done, continuation, xfersLeft, bufs>>
            \/ /\ Gathered(p)
               /\ rpos' = IF buffered < size THEN rpos + (size - buffered) ELSE rpos
               /\ \/ /\ \E x \in Buf : FreeBlock(x) /\ PrepareWrite(x, p)
                     /\ xfersLeft' = xfersLeft - p
                     /\ WriteContinues(p) \/ WriteEnds(p)
                  \/ /\ ~(\E x \in Buf : FreeBlock(x))
                     /\ buffered' = IF buffered < size THEN size ELSE buffered
                     /\ UNCHANGED <<state, wait, done, continuation, xfersLeft, bufs>>
  /\ UNCHANGED <<hostVars, tdoVars, txVars, halted, ran>>

(***************************************************************************)
(* lsejtag_flush_tdo and lsejtag_run_jtag.                                 *)
(***************************************************************************)
\* The first n dwords go to the TX FIFO.
Flushed(n) ==
  tx' = tx \o SubSeq(tdo, 1, n) /\ txFree' = txFree - n

FlushAllKeepsPointer ==
  /\ txFree >= Len(tdo) /\ Flushed(Len(tdo))
  /\ tdo' = <<>> /\ UNCHANGED flushed
  /\ immFlush' = FALSE /\ shouldFlush' = FALSE
FlushAll ==
  /\ txFree >= Len(tdo) /\ Flushed(Len(tdo))
  /\ tdo' = <<>> /\ flushed' = 0
  /\ immFlush' = FALSE /\ shouldFlush' = FALSE

FlushPartAgain ==
  /\ txFree < Len(tdo) /\ Flushed(txFree)
  /\ UNCHANGED <<tdo, flushed, immFlush, shouldFlush>>
FlushPart ==
  /\ txFree < Len(tdo) /\ Flushed(txFree)
  /\ tdo' = SubSeq(tdo, txFree + 1, Len(tdo)) /\ flushed' = flushed + txFree
  /\ UNCHANGED <<immFlush, shouldFlush>>

FlushTdo ==
  /\ ~halted /\ todo = "flush" /\ todo' = "dispatch"
  /\ FlushAll \/ FlushPart
  /\ UNCHANGED <<hostVars, rpos, cmdVars, contVars, bufs, haveNew, halted, ran>>

\* n copies of k
Copies(n, k) == [i \in 1..n |-> k]

\* The block lsejtag_run_jtag takes: A if it is prepared, else B.
ToRun(x) == bufs[x].prepared /\ (x = "b" => ~bufs["a"].prepared)

\* The blocks once x has been run.
StillPrepared(x) == bufs
Released(x) == [bufs EXCEPT ![x].prepared = FALSE]

RunJtag ==
  /\ ~halted /\ todo = "run" /\ todo' = "dispatch"
  /\ \E x \in Buf :
       /\ ToRun(x)
       /\ bufs' = Released(x)
       /\ immFlush' = bufs[x].imm /\ haveNew' = TRUE
       /\ tdo' = tdo \o Copies(bufs[x].tdo, bufs[x].cmd)
       /\ ran' = ran \o Copies(bufs[x].xfers, bufs[x].cmd)
  /\ UNCHANGED <<hostVars, rpos, cmdVars, contVars, flushed, shouldFlush, txVars, halted>>

Execute == \/ DirectReply \/ Settle \/ TapReset \/ NothingDone \/ IrDrWrite
           \/ FastWrite \/ ContinueFastWrite
Main == FlushPending \/ FlushDecided \/ RunPrepared \/ Fetch \/ Execute \/ FlushTdo \/ RunJtag

Next == (\E c \in Commands : Send(c)) \/ (\E e \in 1..Sent : Arrive(e)) \/ Drain \/ Main

\* The main loop runs for ever; the USB link keeps taking data.
Fairness == WF_vars(Main) /\ WF_vars(Drain)

Spec == Init /\ [][Next]_vars
FairSpec == Spec /\ Fairness
-----------------------------------------------------------------------------
\* The device finds every command where the host put it, whatever pieces its
\* bytes arrive in: the buffer holds a prefix of the current command, it never
\* takes a byte of the next one, and what it waits for is what is missing.
FramingIntact ==
  LET from == EndOf(done) IN
  /\ state = "clean" => rpos = from /\ buffered = 0
  /\ state \in {"wait_header", "wait_cfg", "wait_payload"} =>
       rpos = from + buffered /\ rpos <= EndOf(Number)
  /\ state = "wait_payload" => rpos + wait = EndOf(Number)
  /\ state = "execute" /\ ~continuation /\ Current.op \notin FastWrites => rpos = EndOf(Number)
  /\ continuation =>
       rpos = EndOf(Number) - 4 * Current.w * xfersLeft + buffered

\* Collected data never outgrow tdo_in_data: what the next run will store fits
\* behind tdo_dma_ptr.
TdoFits ==
  /\ flushed + Len(tdo) <= TdoSize
  /\ \A x \in Buf : bufs[x].prepared => flushed + Len(tdo) + bufs[x].tdo <= TdoSize

\* No command reaches execution while a JTAG buffer is waiting to be run:
\* wait_until_jtag_periph_free never spins, cer_await_jtag_buf is never the
\* answer, and no run that was prepared is overwritten.
NeverSpins == todo = "execute" => \A x \in Buf : ~bufs[x].prepared

\* Data in the TDO buffer can always still be sent back: the flag that lets an
\* immediate_send_back flush them has not been used up.
DataReachable == Len(tdo) > 0 => haveNew \/ shouldFlush

\* Every finished access and fast write is run on the port exactly once, each
\* transfer of it, and in the order of the commands.
Times(k) == Cardinality({i \in DOMAIN ran : ran[i] = k})
Waiting(k) == IF bufs["a"].prepared /\ bufs["a"].cmd = k THEN bufs["a"].xfers ELSE 0
RunExactlyOnce ==
  /\ \A k \in 1..done :
       LET c == stream[k].cmd
       IN  Times(k) + Waiting(k) = CASE c.op = "irdr" -> 1
                                     [] c.op \in FastWrites -> c.n
                                     [] OTHER -> 0
  /\ \A i, j \in DOMAIN ran : i < j => ran[i] <= ran[j]

\* A command whose bytes have all arrived is eventually finished.
CommandsFinish ==
  \A k \in 1..MaxCmds : (Len(stream) >= k /\ arrived >= EndOf(k)) ~> (done >= k)

\* Once an access with immediate_send_back is finished, all its data and all
\* that had been collected before are eventually in the TX FIFO.
ImmediateSent ==
  \A k \in 1..MaxCmds :
    (done >= k /\ stream[k].cmd.op = "irdr" /\ stream[k].cmd.imm)
      ~> (\A i \in DOMAIN tdo : tdo[i] > k) /\ (\A x \in Buf : bufs[x].prepared => bufs[x].cmd > k)

\* Seen from the host, the library carries out commands one by one, in order, and
\* sends what they read in order, without loss or repetition, holding it back no
\* longer than immediate_send_back allows.
Direct(c) == c.op \in {"date", "probe_read"}
Arrived == IF arrived = Sent THEN Len(stream) ELSE Len(stream) - 1
Host == INSTANCE Service WITH
  asked <- [k \in 1..Arrived |-> stream[k].cmd], finished <- done, out <- tx,
  held <- tdo \o (IF bufs["a"].prepared THEN Copies(bufs["a"].tdo, bufs["a"].cmd) ELSE <<>>)
Serves == Host!Spec

\* ``When a long command was split by USB transaction boundary ... LS-EJTAG will
\* buffer what is immediately available into this buffer first'' (lsejtag.h).
AnySplitFramed == FramingIntact

\* The GS232 mode of the fast writes does not fail.
NeverHalts == ~halted
=============================================================================
