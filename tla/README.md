# Formal model of the CH32 Loongson EJTAG probe firmware

The firmware turns a CH32V203 into a USB-to-EJTAG probe. The debugger on the
host sends commands over a bulk OUT endpoint; the firmware carries them out on
the JTAG pins and sends what it read over a bulk IN endpoint. Everything happens
in one main loop and one USB interrupt, which share two ring buffers and two
flags without a lock. This directory holds TLA+ models of that code, the TLC
runs that check them and the TLAPS proofs about them. Paths below are relative
to the repository; `firmware/` is short for the firmware's tree.

## 1. Inventory

| Part | Code | State | Operations |
|---|---|---|---|
| Ring buffer | `User/chry_ringbuffer.c` | `in`, `out` (free-running 32-bit counters), pool | used, free, empty, write, read (peek + drop), reset, linear setups and dones |
| USB glue, device to host | `User/lsejtag_port.c`, `User/usb_descriptors.c` | `rb_ejtag_write`, `ep_tx_busy_flag` | `lsejtag_impl_usbtx` (main loop), IN completion (interrupt) |
| USB glue, host to device | same | `rb_ejtag_read`, `ep_rx_busy_flag` | `lsejtag_impl_usbrx_consume` (main loop), OUT completion and CONFIGURED event (interrupt) |
| USB device driver | `Library/cherryusb/usb_dc_fsdev.c` | transfer of each endpoint, endpoint registers, packet memory | start_write, start_read, open, stall, interrupt handler |
| USB device core | `Library/cherryusb/core/usbd_core.c` | control transfer stage, configuration | setup/IN/OUT handlers of endpoint 0, standard requests, bus reset |
| LS-EJTAG library | `Library/lsejtag/lsejtag.c` | command buffer and its state machine, two JTAG buffers, TDO buffer and its flags | dispatch, execute, flush_tdo, run_jtag |
| LS-EJTAG commands | `Library/lsejtag/cmdimpl.c` | continuation context, parameters | one function per operation code |
| JTAG port | `lsejtag_impl_run_jtag` in `User/lsejtag_port.c` | the pins, bit counter, captured word | shift TDI/TMS out, TDO in |
| Main loop | `User/main.c` | LED timer | `while (1)`: led_task, dispatch, and what dispatch asks for |
| Initialisation, descriptors, SysTick | `User/main.c`, `usb_descriptors.c`, `ch32v20x_it.c` | constants, a tick counter | straight-line |
| Vendored code not built in, chip library, hardware files | `cherryusb/class`, `usbh_core.c`, `Peripheral`, `Core`, `Startup`, `Debug`, `hardware` | - | - |

How they interact: `main` calls `lsejtag_dispatch`, which takes bytes from the
RX ring through `lsejtag_impl_usbrx_consume`, and then execute, flush or run as
it was told; execute and flush append to the TX ring through
`lsejtag_impl_usbtx`; the USB interrupt fills the RX ring and empties the TX
ring by callbacks out of the driver. Nothing masks the interrupt. A JTAG run is
synchronous, although the library is written for a DMA that finishes later.

What makes this hard, and what must hold of each part:

* **The two FIFOs.** The interrupt preempts the main loop between any two
  instructions. Every byte must come out once and in order; the flag must say
  whether a packet is in flight; a stopped direction must be started again; the
  interrupt must write into free space only; a host read must not be left
  hanging behind a full packet; a bus reset must not leave a direction dead.
* **Framing.** Commands are cut by packet ends. Whatever the pieces, dispatch
  must find every command where the host put it.
* **Replies.** Data read from the target are collected, flushed on demand,
  through a TX ring that may be full, in parts. Order and completeness must
  hold, and the collected data must fit their buffer.
* **Progress.** One thread waits for itself nowhere: busy-waits must find what
  they wait for already true, and no command may stay in the buffer for good.
* **Bit sequences.** The TDI/TMS words composed for a chain of cores must spell
  the intended walk through the TAP; captured bits must land where the interface
  says; a run must bring as many dwords as were asked for, or the firmware
  panics.
* **Control transfers.** Host, packet registers, driver and core each have their
  own idea of the stage a transfer is in, and a completion is served while the
  host goes on. Replies must reach the request they answer, writes must be
  carried out once, both sides must agree on the address, and every transfer
  must end.

`PROJECT.json` lists under `hazards` where in the code each of these bites.

## 2. Modules

| Module | What it is |
|---|---|
| `RingBuffer` | The index arithmetic of `chry_ringbuffer.c` on counters modulo `CounterMod`, as operators. |
| `Fifo` | Abstract: what one direction of the link promises; `put`, `got`. |
| `UsbTx` | Device to host: `usbtx` instruction by instruction against the IN interrupt, bus reset, configuration. |
| `UsbRx` | Host to device: `usbrx_consume` step by step against the OUT interrupt, bus reset, configuration. |
| `Service` | Abstract: what the probe promises the debugger about commands and replies. |
| `Lsejtag` | The library and the main loop: framing, execution, fast-write continuation, TDO flushing, JTAG runs. |
| `Words` | Buffers of 32-bit words and the bit-field helpers of `cmdimpl.c`, on sets of bit positions. |
| `JtagSequences` | The TMS and TDI sequences `cmdimpl.c` composes, as operators. |
| `Tap` | External: the TAP controller of IEEE 1149.1 at the other end of the pins. |
| `Jtag` | The commands on the pins: compose, continue, the bit loop of `lsejtag_impl_run_jtag`, against `Tap`. |
| `Ep0` | Control transfers: host, endpoint 0 registers, driver interrupt, device core. |
| `MCUsbTx`, `MCUsbRx`, `MCLsejtag`, `MCJtag`, `MCEp0` | Values of the constants for the runs. |
| `RingBufferProofs` | Lemmas on the ring arithmetic, on copying into and out of the pool, and on sequences. |
| `WordsProofs` | Lemmas on the bits that the helpers of `Words` and the sequences of `JtagSequences` put into a buffer, loops included. |
| `UsbTxProofs`, `UsbRxProofs`, `LsejtagProofs`, `ServiceProofs`, `JtagProofs`, `Ep0Proofs` | Theorems and proofs. |

`UsbTx` and `UsbRx` extend `RingBuffer` and each implements `Fifo`; `Lsejtag`
stands on what `Fifo` promises and implements `Service`; `Jtag` extends
`JtagSequences` (which extends `Words`) and `Tap`, and is what one `RunJtag` of
`Lsejtag` does on the pins; `Ep0` gives the bulk endpoints the status that
control transfers leave them in.

### UsbTx

`in`, `out`, `pool` are the ring, `busy` is `ep_tx_busy_flag`, `epEnable`,
`epStatus`, `pma` are the endpoint. `pc` says where `lsejtag_impl_usbtx` is:
`Call` is `chry_ringbuffer_write` up to the offset, `Copy` its two `memcpy`,
`Load` and `Store` the two halves of `rb->in += size`, `Test`, `Start`,
`SetFlag` the rest of `usbtx`. `InComplete` is the interrupt with
`usbd_ejtag_bulk_in_complete` (empty packet, next packet, or end: reset ring and
flag); `HostIn` is the host taking the packet; `BusReset` and `Configured` are
the driver's. `usbd_ep_start_write` is one step: no packet is in flight when the
main loop calls it (`NeverOverArmed`), so that only a bus reset can come between its
instructions, and the configuration after the reset discards what it arms. A unit is a 32-bit word, and the n-th unit written has the value
n, so that loss, repetition and reordering are visible. Callers write no more
than `lsejtag_impl_usbtx_free_len()` reported: that is what `execute` and
`flush_tdo` do.

`QuietPcs` is the set of program points at which the IN completion is not
served. The firmware masks nothing, so it is `{}` there. The runs also use the
two windows in which the code is *not* safe, to show that the rest is:
from the ring offset to the new counter (`copy`, `load`, `store`), where the
interrupt resets the ring under the writer, and between `start_write` and the
assignment of the flag (`flag`). Closing these windows, for instance by masking
the interrupt there, is thus shown to be enough for the whole path.

### UsbRx

The same for the other direction; `Peek`, `Drop` are `chry_ringbuffer_read`;
`Test`, `Reset`, `Setup`, `SetFlag` and `Arm` to `Start` the restart of a stopped
reception. The flag (`lsejtag_port.c:87`) and the read it announces (88) are
separate steps: a packet that finds no room between them clears the flag, and the
read then starts with the flag clear. `usbd_ep_start_read` is a step for its test,
each of its assignments and the register it writes last, since a packet that
arrives between them, into an endpoint that is armed already, finds the transfer
half replaced. `xfer` is the driver's
transfer (offset, bytes left, bytes received); `OutInterrupt` copies a packet to
the pool and finishes the transfer or not, as the driver decides. The interrupt
has priority: while a packet is in packet memory the main loop does not step,
so the interleavings are those of packets *arriving* between any two steps.
`QuietPcs` is again empty in the firmware; `RestartQuiet` is the window from the
consumer's test to the arming of the endpoint.

### Lsejtag

The host sends commands back to back; `stream` records them with their end
offsets, `arrived` how many bytes have reached the RX FIFO, `rpos` how many were
taken: only positions matter, since the bytes between are the commands. A
command is a record: operation, `read` and `imm` (read_back, immediate_send_back),
`n` data dwords or transfers, `w` dwords per transfer, and the offsets at which a
packet end may cut it. `todo` is what dispatch told the main loop to do.
Dispatch is `FlushPending`, `FlushDecided`, `RunPrepared`, `Fetch`; `Fetch`
covers the buffer states and the `goto`s in between (`Config`, `Payload`,
`Ready`, `TooLong`), with unsigned arithmetic modulo `WordMod`. Execute is one
action per command function. `flushed` is `tdo_flush_ptr` (and `flushed +
Len(tdo)` is `tdo_dma_ptr`), in dwords; each collected or sent dword carries the
number of its command. `done`, `tx` and `ran` are histories. `halted` stands for
the panic of `main` and a failed assertion.

The USB side is reduced to bytes arriving and dwords draining, which `Fifo`
promises and `UsbTx`/`UsbRx` examine. `Init` is after the TAP reset of `main`.
A JTAG run is one step and stores as many dwords as were asked for.

`Send` has one obligation of the host: it never lets more than `ReadWindow`
dwords collect before it asks for them with immediate_send_back. The device does
not enforce it (see section 4, `lsejtag_overrun`).

`Service` is the promise: commands are carried out one after the other, direct
replies go out at once, collected data in order, nothing is lost or repeated,
and once an access asked for immediate send-back nothing more is carried out
before everything held is out. `Serves` maps it: `held` is the TDO buffer and
what a prepared run will add.

### Jtag

A 32-bit word is the set of the positions of its one bits, and a buffer of words
likewise, so that `append_bits`, `append_dword`, `replace_bits` and
`replace_dword` are the code's shifts and masks as set operations, carries into
the next word included. `IrDrWrite`, `FastWrite`, `FastRead` are the command
functions: they fill `blk` (`jtagbuf_a`: TMS, TDI, number of bits, dwords to
capture, bits to skip) and, for fast transfers, `ctx`, the context that outlives
a command. `ContinueFastWrite` and `ContinueFastRead` prepare the next run from
it; a composed length that differs from the computed one fails the assertion
(`halted`). `Tck` is one turn of the bit loop of `lsejtag_impl_run_jtag`:
TMS and TDI are read out of the words, the TAP follows, TDO is captured into
`port.reg`, and the word is stored when the counter stands at a multiple of 32.
`Complete` stores the partial last word and compares the dwords with what was
asked for, as `lsejtag_run_jtag` does before it panics.

`Tap` has the sixteen states. A scan is the string shifted in between a Capture
and an Update state; what it shifts out is a constant pattern, and outside a
Shift state TDO is anything. `Expected` says which scans a command stands for,
from the interface's point of view: which register, how many bits, which ones.

What was in a buffer before is kept where the code does not clear it, so a bit
that is used and was never written is a bit of an earlier command.

### Ep0

`tx`, `rx`, `ctrTx`, `ctrRx`, `isSetup`, `txPkt`, `rxPkt` are the endpoint
register and its packet memory, `core` the control transfer in `g_usbd_core`
(setup packet, position and residue of the buffer, ZLP flag), `dev` the address,
the configuration and the status of the bulk endpoints, `host` the host's side.
`HostSetup`, `HostIn`, `HostOut` are transactions, with what the peripheral does
by itself in them. Serving a completion takes two steps, since the host goes on
meanwhile: `Serve` clears the CTR bit and reads the byte count, `ServeSetup`,
`ServeIn`, `ServeOut` run the handler and arm the endpoint again. `BusReset` and
`ServeReset` are the bus reset and its handler. `Answers` is
`usbd_setup_request_handler` with the standard and vendor handlers under it.
A packet carries which reply and which bytes of it, not the bytes.

Four constants say what kind of host it is. `Prompt`: it leaves the device time
to serve the last status stage before the next SETUP. `DescriptorFirst`: it reads
the device descriptor before it configures the device. `Abandonable`: the
requests it may give up half way. `Requests`: what it asks for. The passing run
has the host every operating system has; section 4 has the others.

## 3. Runs that pass

| Run | Properties | Distinct states |
|---|---|---|
| `usbtx_quiet` | HostInOrder, BusyIffInFlight, RingAccounts, Delivered | 40,957 |
| `usbtx_any_time` | TypeOK, IdleIsTerminated, NoOverwriteInFlight | 185,010 |
| `usbrx_quiet` | RegionFree, BytesAccounted, BusyIffArmed, StallLeavesWork, FifoSafety, DeliveredOnceStarted, StallEnds | 6,563 |
| `usbrx_any_time` | TypeOK, BusyMeansArmed | 2,974,442 |
| `lsejtag_replies` | TypeOK, TdoFits, NeverSpins, DataReachable, RunExactlyOnce, Serves | 708,339 |
| `lsejtag_split` | FramingIntact, CommandsFinish, ImmediateSent | 19,853 |
| `jtag_scans` | TypeOK, ScansAsAsked, TapStaysUsable, ReadAsAsked, SpillBounded, NeverHalts, CommandsEnd | 91,694 |
| `ep0_transfers` | TypeOK, ReadAsAsked, CarriedOutOnce, AddressAgrees, ConfiguredHears, TransfersEnd | 1,376,176 |

* **usbtx_quiet** shows that with the two windows closed the host receives what
  was written, once, in order and in the end all of it, and that flag and ring
  tell the truth. That the path thereby implements `Fifo` is a theorem
  (`TransmitPathIsFifo`).
* **usbtx_any_time** shows what survives every interleaving and a bus reset: no
  packet is overwritten before the host has it, and the transmitter goes idle
  behind a short packet only.
* **usbrx_quiet** shows that without a packet arriving during a restart the
  interrupt writes into free space only, no byte is lost, the flag tells the
  truth, and a stopped reception goes on whatever the host sends.
  `DeliveredOnceStarted` begins with the first restart, because of the first
  read (section 4).
* **usbrx_any_time** shows what survives every interleaving, bus resets and
  configurations included: a set flag is never left behind by a reception that
  has stopped, so that the consumer never waits for a read nobody started. The
  converse fails there: a configuration, or a packet without room between the
  flag and the read, leaves a read armed with the flag clear.
* **lsejtag_replies** lets the host send four commands in any order, those
  included that never finish or make the firmware halt, against a full TX FIFO
  and TDO buffer. The date, probe-write, unknown and GS232 write commands are left
  out: they take the same actions as commands that are in.
* **lsejtag_split** cuts every kind of command that finishes at every offset but
  the one or two bytes behind its configuration section (section 4).
* **jtag_scans** compares what the target sees and what the host gets back, bit
  by bit, with what the commands stand for: every access length from 1 to 96
  whose end bits fall into the word the code puts them in, mixed lengths that
  leave bits of each other in the buffers, 32-bit and 64-bit fast writes of one
  and of several runs with a shorter last one, and fast reads. `ReadAsAsked` asks
  for whole dwords from the LSB up, as the interface has it, and of the bits that
  do not fill a dword only that they come back side by side in the last one:
  where they are is what `JtagPartialRead` is about (section 4).
* **ep0_transfers** lets the host enumerate, configure, halt, resume, reset and
  give up transfers in any order, with replies shorter than, equal to and longer
  than asked for and of whole and of broken packets: each reply arrives whole,
  each request is carried out once, the address is agreed on, and each transfer
  ends.

Bounds. Tx and Rx: four slots, packets of two, counters modulo 8, nine units or
eight bytes: the counters wrap, the pool wraps, the ring is full and empty, a
packet is full, short or empty, and several transmissions follow each other.
`MaxHost` bounds what the host takes when a corrupted ring feeds it for ever.
Lsejtag: a command buffer of 12 bytes, two to four dwords of TDO and one or two
of TX, two transfers a block: accesses that do not fit, partial flushes in
several parts, fast writes of several blocks with a shorter last one, three
collected dwords, the urgent request behind them. The interplay of commands is
between a command and what the previous ones left (collected data, flags,
`immediate_flush_tdo` of the buffer): four commands are enough to collect, leave
a flag, run a fast write over it and ask for the data. `WordMod` is larger than
any length, so that only a negative difference wraps. Jtag: words are the real 32
bits and instructions the 5 bits of MIPS EJTAG; 96 bits of data and the walk
around them reach into a fourth word, and the carry between words depends on
positions modulo 32 only. Three commands let each be composed over the leavings
of two others. The buffered-command limit of 4 dwords makes a write of six
transfers take two runs, the second shorter. The chain has one core, since with
two the code is wrong (section 4). Ep0: packets of 2 bytes and a buffer of 4,
while the build has 64 and 64, so that replies of several packets occur that the
core is written for; the run also passes with both equal. The residue counts
modulo `Wrap`, larger than any length. One abandoned transfer is enough: what it
leaves in the core is overwritten by the next SETUP or it is not.

Fairness. The main loop runs for ever (`WF` on its steps, `SF` in UsbRx, where
arriving packets preempt it). A pending interrupt is served as soon as it is let
in (`WF`; `SF` for the IN completion, since `QuietPcs` may disable it for a
while). The host polls the IN endpoint and configures the device after a reset,
as every USB host does. Dispatch does take bytes when there are any (`SF` on
`Peek`). In Lsejtag the USB link keeps draining the TX FIFO. In Jtag the main loop goes
on with a command it has begun (`WF`). In Ep0 the processor serves its interrupts
and a host that got a NAK asks again (`WF` on each). Nothing is assumed about the
host sending anything. `CHECK_DEADLOCK` is off everywhere but in Ep0, whose host
never runs out of requests: with the bounds used up the others are quiet, as the
firmware is without a host.

## 4. Where code and documentation disagree

Runs that end in a violation, each for one property the code's own comments
claim:

| Run | Shows |
|---|---|
| `usbtx_reset_race` | The IN completion resets the ring under the writer (`usb_descriptors.c:332`): the host receives stale words and loses what was written. |
| `usbrx_restart_race` | The consumer takes the endpoint armed by the CONFIGURED handler for a stopped one (`lsejtag_port.c:78`) and restarts it under an arriving packet. |
| `lsejtag_lost_frame` | A packet that ends one or two bytes behind the configuration section makes dispatch lose the frame (`lsejtag.c:113`). |
| `lsejtag_overrun` | The TDO space check is inverted in what it asks for (`cmdimpl.c:22`): only the host's window keeps the data within their buffer. |

The following configurations are kept for the record, each with one violated
property, and are not part of the regular runs; `tlc -config X.cfg M`, with the
MC module of the same prefix, shows each.

| Configuration | Property | Shows |
|---|---|---|
| `UsbTxFlagRace` | Delivered | A completion between `start_write` and the assignment of the flag: nothing is ever sent again. |
| `UsbTxBusReset` | Delivered | A bus reset leaves `ep_tx_busy_flag` set for good. |
| `UsbRxFirstPacket` | Delivered | The first read covers the whole buffer and not one packet: a full first packet stays invisible until a short one follows. |
| `UsbRxNoRoom` | RoomWhenConfigured | The assertion of the CONFIGURED handler (`usb_descriptors.c:367`) fails after a reset with unread bytes: nothing empties the ring. |
| `UsbRxUnaligned` | WithinPool | After a reset with the ring at an odd position the first read is not a whole number of packets long: its length never reaches 0 and a packet goes past the pool. The handler's comment says that it clamps the length to the packet size; it does not. |
| `LsejtagUnfinished` | CommandsFinish | A bad port, or the loopback test, leaves the command in the buffer for good. |
| `LsejtagGs232`, `JtagFastThenRead` | NeverHalts | The assertion on the length of the composed sequence (`cmdimpl.c:569`, `cmdimpl.c:823`): in GS232 mode, and for a plain fast read behind a FASTDATA write. |
| `JtagEndBits` | EndsAsDocumented | For lengths that put the end of the sequence across a word boundary the end bits go into the wrong word (`cmdimpl.c:254`), against the comment at `cmdimpl.c:224`. |
| `JtagNoSelect` | ScansAsAsked | FASTDATA is composed but never selected. |
| `JtagFastData` | DataInPlace | `replace_bits` clears other bits of the word than the ones it writes: data already placed are lost and old ones show through, against the comment at `cmdimpl.c:670`. |
| `JtagTwoCores` | ScansAsAsked | In a chain of two cores DATA and CONTROL go to different cores. |
| `JtagWideRead` | ReadAsAsked | A fast read uses the width of the last fast write. |
| `JtagPartialRead` | FilledFromLsb | The bits of a last dword that is not full are at its upper end, above bits captured before them (`lsejtag_port.c:221-222`, `252`); `lsejtag_impl.h:80-82` has them filled from the LSB. |
| `JtagLongChain` | CommandsEnd | A chain so long that no transfer fits the buffers: the continuation never ends. |
| `Ep0SetupRace` | ReadAsAsked | A SETUP that arrives before the last completion is served goes first, and the old completion is taken for one of the new transfer (CarriedOutOnce fails with it). |
| `Ep0AddressDropped` | AddressAgrees | An abandoned SET_ADDRESS takes effect at the end of the next transfer. |
| `Ep0Interface`, `Ep0NoDescriptor` | ConfiguredHears | SET_INTERFACE, or SET_CONFIGURATION before any descriptor was read, leaves a configured device with its OUT endpoint closed. |
| `Ep0LongWrite` | TransfersEnd | A write longer than the buffer stalls the IN direction only: the host's data are NAKed for ever. |
| `Ep0Halt` | HaltReported | GET_STATUS reports an armed endpoint as halted (`usb_dc.h:91`). |
| `Ep0Unconfigured` | UnconfiguredIsDeaf | SET_CONFIGURATION(0) leaves the endpoints open (`usbd_core.c:375`). |

## 5. Proofs

For every value of the constants that the named assumptions of the modules and
the condition in the table allow:

| Theorem | States | If |
|---|---|---|
| `UsbTxProofs!TypeCorrect` | `TypeOK` | |
| `UsbTxProofs!NeverOverArmed` | `NoOverwriteInFlight` | |
| `UsbTxProofs!AlwaysTerminated` | `IdleIsTerminated` | |
| `UsbTxProofs!FlagAndRingTruthful` | `BusyIffInFlight`, `RingAccounts` | windows closed, no bus reset |
| `UsbTxProofs!FlagMeansInFlight` | `BusyIffInFlight` | the same |
| `UsbTxProofs!UnitsInOrder` | `HostInOrder` | the same |
| `UsbTxProofs!TransmitPathIsFifo` | `FifoSafety`: implements `Fifo` | the same |
| `UsbRxProofs!TypeCorrect` | `TypeOK` | |
| `UsbRxProofs!FlagTruthful` | `BusyMeansArmed` | |
| `UsbRxProofs!FlagSaysArmed` | `BusyIffArmed` | window closed |
| `UsbRxProofs!NothingLost` | `RegionFree`, `BytesAccounted`, `StallLeavesWork` | window closed, one configuration |
| `UsbRxProofs!WritesIntoFreeSpace` | `RegionFree` | the same |
| `UsbRxProofs!StalledIsRestarted` | `StallLeavesWork` | the same |
| `UsbRxProofs!BytesInOrder` | what is taken is what was sent, in order | the same |
| `UsbRxProofs!ReceivePathIsFifo` | `FifoSafety`: implements `Fifo` | the same |
| `LsejtagProofs!TypeCorrect` | `TypeOK` | |
| `LsejtagProofs!PortAlwaysFree` | `NeverSpins` | |
| `LsejtagProofs!DataStayReachable` | `DataReachable` | |
| `LsejtagProofs!TdoNeverOverrun` | `TdoFits` | `ReadWindow <= TdoSize` |
| `ServiceProofs!FramesKept` | `FramingIntact` | `WellCut`, `Short(m)` for some `m` |
| `ServiceProofs!ServesHost` | `Serves`: implements `Service` | the same |
| `ServiceProofs!AllRunOnce` | `RunExactlyOnce` | |
| `JtagProofs!TypeCorrect` | `TypeOK` | `WithData` |
| `JtagProofs!SpillTheorem` | `SpillBounded` | |
| `JtagProofs!PlainNeverHalts` | `NeverHalts` | no FASTDATA, no GS232 mode, one chain |
| `JtagProofs!AccessesSeen` | `ScansAsAsked` | `AccessesOnly` |
| `JtagProofs!AccessesPark` | `TapStaysUsable` | the same |
| `JtagProofs!AccessesAnswered` | `ReadAsAsked` | the same |
| `Ep0Proofs!TypeCorrect` | `TypeOK` | `LengthsFit` |
| `Ep0Proofs!ReadsAreAsAsked` | `ReadAsAsked` | `LengthsFit`, `Prompt` |
| `Ep0Proofs!RequestsCarriedOutOnce` | `CarriedOutOnce` | the same |
| `Ep0Proofs!AddressesAgree` | `AddressAgrees` | the same, `AddressesFit` |
| `Ep0Proofs!ConfiguredAlwaysHears` | `ConfiguredHears` | `LengthsFit`, `Prompt`, `ConfiguresLast` |

**The ring.** `RingBufferProofs` has what every user of the ring needs, for any
capacity and any modulus it divides: how used and free change when one side
moves, how far apart two slots are, that copying into free space leaves the unread slots alone and puts the
new data behind them, and that copying out returns them. The counters wrap at
`CounterMod`; the lemmas reduce each difference modulo it to a difference of
unbounded counts.

**UsbTx.** The first three theorems hold for any `QuietPcs`, the firmware's empty
set included, any ring and packet size, and any number of resets. Neither the
action property nor termination is inductive alone: that `Start` does not find a
packet in flight depends on the flag being set whenever one is, except while the
main loop is at `flag`; and that an idle transmitter is behind a short packet
depends on what a packet whose completion is pending (`done`) says about
`short`. `OneSender` is the invariant of the first, `Terminating`, with
`TypeOK`, that of the second. `TypeOK` itself needs `WriteFits` (the write under
way stays within `MaxUnits`).

The other three hold when `QuietPcs` contains the two windows of section 2
(`Windows`) and there is no bus reset, which the code does not survive. `TxInv`
adds to the types where the write under way stands (`Placed`), the flag and the
accounting of the ring. `InOrder` then says what every place holds: what the
host has taken (`TakenInOrder`), the packet in flight, the slots of the ring and
the part of the write already copied are consecutive stretches of the counting
sequence. The refinement follows step by step: `HostIn` is a `Get`, `Store` a
`Put`, everything else stutters.

**UsbRx.** That a set flag means an armed read needs no window: `FlagInv` adds to
`BusyMeansArmed` that a stopped endpoint has the flag clear but while
`usbd_ep_start_read` is on its way, and what a closed endpoint's register may say.
That the flag is set whenever a read is armed needs the restart window closed
(`Restarting`), but survives any number of resets and configurations:
`QuietFlagInv` adds to `BusyIffArmed` what the restart under way has established. The
other theorems need that window closed and one configuration only; without either
the property is false (`usbrx_restart_race`, `UsbRxNoRoom`, `UsbRxUnaligned`).
`RxInv` has the armed region behind the ring's contents, a whole number of packets long and
within the linear space, the accounting of every byte, and what a restart finds
(an empty ring, a stopped endpoint). `InOrder` adds the contents of the ring, of
the armed region and of packet memory.

**Lsejtag.** One inductive invariant in three layers carries all four theorems.
`Typed` is `TypeOK` and that the device is never ahead of the host: what is
executed has been sent. `Orderly` describes the turns of the main loop: buffer B
is never prepared, because a run follows every prepare before the next execute;
a buffer is prepared only at `dispatch` or `run`; a flush is told only with
`tdo_should_flush`; collected data come with one of the two flags. From it
follow `NeverSpins` and `DataReachable`. `Counted` adds the bookkeeping with the
host: what is flushed, held and prepared never exceeds what the host knows to
have collected since its last immediate_send_back, and once that command is
finished and its flush done, the pointers are back at the start. Hence
`TdoFits` when the host's window is no larger than the buffer; the device's own
check is not used, since it never fails. Each layer was model-checked as an
invariant first.

**Lsejtag and Service.** Framing is lost where a packet ends one or two bytes
behind a configuration section (`lsejtag_lost_frame`), and a command with a
configuration section but a payload of at most two bytes is overtaken by the
next command; `WellCut` excludes both, and allows every other cut. `Short(m)` says that all
the host sends can be counted in a word, which the unbounded positions of the
model need. `Laid` says where the commands lie in the stream and `Cut` where the
bytes that have arrived may end; `NeverAwry` follows. `Framed` adds to
`FramingIntact` how long the buffer is in each state of `cmd_buf_state`, that
only whole packets of a fast write wait in it, and that a finished command has
arrived. With `Framed`, `ServesHost` maps every step: it is one the
host cannot see (`Quiet`), the end of a command (`Finishes`) or a flush
(`Releases`). That nothing is finished while data asked for are still held
rests on `Settling`: such data are always on their way out (`Asking`), and
`dispatch` lets no command through while they are; and on `PreparedAlone`,
without which a flush could overtake the run that is to add to the data.
`AllRunOnce` needs none of this. `RunsCounted` extends `RunExactlyOnce` to the
command that is being executed, of which what has been run and what is prepared
make up what the continuation context no longer counts as left, and says that
no run belongs to a later command than the prepared one; the rest is how the
runs of a command are counted when copies are put behind them.

**Jtag.** `SpillInv` adds to the types how the bit loop stands: the captured
count against the bits clocked, and that an access runs exactly two bits past
its data, so that at most two copies of the last word are stored behind those
asked for. `HaltInv` adds that a composed transfer is as long as computed, an
arithmetic fact about chains of any number of cores, and that a run is long
enough for the bits it is to capture.

`TypeInv` adds the types of the buffers, which loops over the cores and the data of
a transfer build, that every full word counted has been stored, so that none is sent
that has not been, and that the transfers left of a fast command are some of its own.
`WithData` says that a read has transfers (the first run does one unasked) and that
the host sends the dwords of the DR sequence. The lemmas of `WordsProofs` say what a
loop leaves in the buffer: that it holds after turn k is a set of numbers k, shown to
have 0 and with each k the next (`SetInduction`, from the well-foundedness of the
naturals).

The scans and reads of accesses need more: `AccessInv` says bit by bit what is in
buffer A after `IrDrWrite` (`Prepared`: which pulses have TMS high, and that the
TDI bits behind the walk are the data, whatever an earlier access has left there),
where every pulse puts the TAP and what the target has been shown so far
(`Walked`), and what is in the word register and in the stored words
(`Captured`). `AccessesOnly` asks for IR and DR accesses, of any length and data,
whose two last bits fall into the word the code puts them in; the others are
wrong (`JtagEndBits`). `OrIntoBit` and `AssignBit` say what the code's shifts do to
each bit. What the words returned hold is first shown as the code leaves it
(`AnswerWords`), a last one that is not full included; `AnswerIsAsked` then shows
that this is what `ReadAsAsked` asks for.

**Ep0.** `TypeCorrect` holds with any host. `TInv` adds to the types that the host
sends no more than it announced and that a direction which is not armed has at
most two packets counted (`InCounted`, `OutCounted`): the driver clears its count
only when it arms. `LengthsFit` says that wLength has 16 bits and the residue 32.

The other four need a host that lets a completion be served before its next
SETUP (`Prompt`; `Ep0SetupRace` has the other). None of the properties is inductive,
since what a handler does next depends on what the three sides believe: `PInv`
says that outside a bus reset host, endpoint and core are in one of ten phases of
a transfer (`Rest`, `Asked`, `Refusing`, `SendingArmed`, `SendingTaken`,
`ReadEnding`, `ReceivingArmed`, `ReceivingTaken`, `WriteEnding`, and `Deaf`, in
which both wait for each other until the host gives up), each with what has been
moved, what is left and how often the request was carried out. The proof has one
lemma for each action from each phase it is possible in. `AInv` adds where the
address is pending, and needs that SET_ADDRESS is not abandoned and carries no
data (`AddressesFit`; `Ep0AddressDropped`); `CInv` adds when the endpoints are
open, and needs a host that reads the device descriptor first and makes no
SET_INTERFACE (`ConfiguresLast`; `Ep0NoDescriptor`, `Ep0Interface`).

Only model-checked: the scans and reads of Jtag in sessions with fast transfers
(their invariant has to follow a block of composed bits through the TAP, see the
plan), and all liveness, which is out of the prover's reach.

## 6. Not modelled, and the plan

Left out for good:

* Register-level initialisation, GPIO levels, clocks, printing: straight-line
  code without a state a property could be about.
* The LED and the SysTick counter: nothing else reads them.
* Suspend, wakeup and the power-up sequence of the USB peripheral: they change
  registers no modelled code reads.
* Descriptors: constant tables.
* Ring buffer operations the firmware never calls (overwrite, byte access).
* Vendored code that is not built in: the class drivers under `cherryusb/class`,
  the host stack and the hub driver, class requests of the device core, the audio
  and video headers. The chip library under `Peripheral` and `Core`, start-up
  code and the hardware files. Together these are nine tenths of the
  repository's lines, most of them register definitions and tables, so that the
  part of the repository's lines that is modelled is small although the
  firmware's own logic (`User/lsejtag_port.c`, `User/usb_descriptors.c`,
  `User/chry_ringbuffer.c`, `Library/lsejtag`, and of CherryUSB the device core
  and the fsdev driver) is covered.

Abstracted:

* The contents of commands in `Lsejtag` (positions only) and of the bit
  sequences there; `Jtag` has the latter.
* The dispatch of fast reads and their branch for a full TDO buffer
  (`cmdimpl.c:843`): `README.en.md:13-15` declares them not working. Their
  sequences are in `Jtag`.
* The TAP reset at boot (`main.c:264`), which runs before any buffer is active.
* Reads of other descriptors and status bytes, which differ in length only.
* What an endpoint halt or a repeated SET_CONFIGURATION does to bulk data in
  flight: Ep0 has the status of the endpoints, `UsbTx` and `UsbRx` the data.

The plan:

1. (done) `RingBuffer`, `Fifo`, `UsbTx`, `UsbRx`, `Service`, `Lsejtag`.
2. (done) `Words`, `JtagSequences`, `Tap`, `Jtag`; `Ep0`.
3. (done) Proofs of both FIFOs, of the framing and of the refinement of
   `Service`, of the spill bound and of the composed lengths, of what accesses
   show the target, and of control transfers.
4. `AccessesSeen`, `AccessesPark` and `AccessesAnswered` for sessions that also have
   slow transfers to one core: the lemmas on the composed bits are there
   (`XferTmsBit` and `XferTdiBit` in `WordsProofs`, `ComposedAsComputed` in
   `JtagProofs`), the invariant that ties a block to the TAP is not.
5. Composition of `Ep0` with the bulk paths, once the firmware says what a halt
   and a second configuration should do to them.
6. Fast reads in `Lsejtag`, once they work.

Run a check with `tlc -workers 2 -config X.cfg M` and the proofs with
`tlapm M.tla` in this directory.
