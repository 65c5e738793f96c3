------------------------------- MODULE UsbRx --------------------------------
(***************************************************************************)
(* The host-to-device path.  The USB interrupt receives packets straight   *)
(* into the ring rb_ejtag_read (usbd_ejtag_bulk_out_complete); the main    *)
(* loop consumes them (lsejtag_impl_usbrx_consume).  When the linear space *)
(* behind the write position is shorter than a packet the interrupt stops  *)
(* receiving and clears ep_rx_busy_flag; the consumer restarts reception,  *)
(* at the start of the buffer, once it has emptied the ring.               *)
(*                                                                         *)
(* The n-th byte the host ever sends has the value n.                      *)
(***************************************************************************)
EXTENDS RingBuffer

CONSTANTS Mps,        \* wMaxPacketSize of the bulk OUT endpoint
          MaxBytes,   \* bound: bytes the host sends
          MaxConfigs, \* bound: times the host configures the device
          QuietPcs    \* program points of usbrx_consume at which no packet
                      \* arrives: {} in the firmware, which masks nothing

\* ejtag_read_buffer is a whole number of packets long.
ASSUME MpsAssumption == Mps \in Nat /\ Mps > 0 /\ Mps <= Size /\ Size % Mps = 0
ASSUME BoundAssumption == MaxBytes \in Nat /\ MaxConfigs \in Nat

\* Inside lsejtag_impl_usbrx_consume and, at the last five, usbd_ep_start_read.
Arming == {"arm", "buf", "left", "actual", "start"}
Restarting == {"reset", "setup", "flag"} \cup Arming
Pcs == {"idle", "drop", "test"} \cup Restarting
ASSUME QuietAssumption == QuietPcs \subseteq Pcs

VARIABLES
  in, out, pool,  \* rb_ejtag_read and ejtag_read_buffer
  busy,           \* ep_rx_busy_flag
  epEnable,       \* g_fsdev_udc.out_ep[2].ep_enable
  epStatus,       \* STAT_RX/CTR_RX of the endpoint register
  xfer,           \* the transfer in g_fsdev_udc.out_ep[2]
  pma,            \* the packet in the endpoint's packet memory
  pc, len, dest,  \* the main loop inside usbrx_consume, and its locals
  halted,         \* the assertion of the CONFIGURED handler has failed
  configs,
  sent,           \* history: bytes of the packets the device accepted
  taken,          \* history: bytes the main loop has consumed, in order
  started         \* history: the consumer has restarted reception since the
                  \* last bus reset

ringVars == <<in, out, pool>>
epVars   == <<epEnable, epStatus, xfer, pma>>
mainVars == <<pc, len, dest, taken>>
vars == <<in, out, pool, busy, epEnable, epStatus, xfer, pma, pc, len, dest,
          halted, configs, sent, taken, started>>

\* "valid": armed, the next OUT packet is accepted; "done": a packet is in
\* packet memory, its interrupt pending; "nak": the host is held off.
EpStatus == {"disabled", "nak", "valid", "done"}
Armed == epStatus \in {"valid", "done"}

\* The main loop runs: no interrupt is waiting to preempt it.
Running == ~halted /\ epStatus # "done"

\* xfer_buf (as an offset into the pool), xfer_len and actual_xfer_len.
Transfer(buf, left, actual) == [buf |-> buf, left |-> left, actual |-> actual]

TypeOK ==
  /\ in \in Counter /\ out \in Counter /\ pool \in [Slot -> 0..MaxBytes]
  /\ {busy, epEnable, halted, started} \subseteq BOOLEAN
  /\ epStatus \in EpStatus
  /\ xfer \in [buf : Nat, left : Counter, actual : Nat]
  /\ pma \in Seq(0..MaxBytes) /\ Len(pma) <= Mps
  /\ pc \in Pcs /\ len \in 0..Size /\ dest \in Slot
  /\ configs \in 0..MaxConfigs /\ sent \in 0..MaxBytes
  /\ taken \in Seq(0..MaxBytes)

\* After init_cherryusb, not configured yet.
Init ==
  /\ in = 0 /\ out = 0 /\ pool = [k \in Slot |-> 0]
  /\ busy = FALSE
  /\ epEnable = FALSE /\ epStatus = "disabled"
  /\ xfer = Transfer(0, 0, 0) /\ pma = <<>>
  /\ pc = "idle" /\ len = 0 /\ dest = 0
  /\ halted = FALSE /\ configs = 0
  /\ sent = 0 /\ taken = <<>> /\ started = FALSE

(***************************************************************************)
(* usbd_ep_start_read, called by the interrupt: refused while the endpoint *)
(* is not enabled.                                                         *)
(***************************************************************************)
StartRead(at, n) ==
  IF epEnable
  THEN xfer' = Transfer(at, n, 0) /\ epStatus' = "valid"
  ELSE UNCHANGED <<xfer, epStatus>>

(***************************************************************************)
(* The main loop: lsejtag_impl_usbrx_consume, step by step.                *)
(***************************************************************************)
\* chry_ringbuffer_peek.  The dispatcher asks for no more than
\* lsejtag_impl_usbrx_len() returned; for nothing only while the beginning of a
\* command is buffered, hence not before the first byte.
Peek(n) ==
  /\ Running /\ pc = "idle" /\ n <= Used(in, out)
  /\ n > 0 \/ taken # <<>>
  /\ taken' = taken \o CopyOut(pool, SlotOf(out), n)
  /\ len' = n /\ pc' = "drop"
  /\ UNCHANGED <<ringVars, busy, epVars, dest, started, halted, configs, sent>>

\* rb->out += size
Drop ==
  /\ Running /\ pc = "drop" /\ pc' = "test"
  /\ out' = ReadDone(in, out, len)
  /\ UNCHANGED <<in, pool, busy, epVars, len, dest, taken, started, halted, configs, sent>>

\* The condition under which the consumer restarts reception.
WheneverStalled == ~busy
NeverStalled == FALSE
MustRestart == ~busy /\ IsEmpty(in, out)

Test ==
  /\ Running /\ pc = "test"
  /\ pc' = IF MustRestart THEN "reset" ELSE "idle"
  /\ UNCHANGED <<ringVars, busy, epVars, len, dest, taken, started, halted, configs, sent>>

\* chry_ringbuffer_reset
ResetForgotten ==
  /\ Running /\ pc = "reset" /\ pc' = "setup"
  /\ UNCHANGED <<ringVars, busy, epVars, len, dest, taken, started, halted, configs, sent>>
Reset ==
  /\ Running /\ pc = "reset" /\ pc' = "setup"
  /\ in' = 0 /\ out' = 0
  /\ UNCHANGED <<pool, busy, epVars, len, dest, taken, started, halted, configs, sent>>

\* chry_ringbuffer_linear_write_setup
Setup ==
  /\ Running /\ pc = "setup" /\ pc' = "flag"
  /\ dest' = SlotOf(in)
  /\ UNCHANGED <<ringVars, busy, epVars, len, taken, started, halted, configs, sent>>

\* ep_rx_busy_flag = true.  An OUT completion that preempts the main loop behind it
\* may clear it again.
FlagForgotten ==
  /\ Running /\ pc = "flag" /\ pc' = "arm"
  /\ UNCHANGED <<ringVars, busy, epVars, len, dest, taken, started, halted, configs, sent>>
SetFlag ==
  /\ Running /\ pc = "flag" /\ pc' = "arm"
  /\ busy' = TRUE
  /\ UNCHANGED <<ringVars, epVars, len, dest, taken, started, halted, configs, sent>>

\* usbd_ep_start_read of one packet, which an interrupt may cut at any point: if the
\* endpoint is armed already, a packet finds the transfer half replaced.
Arm ==
  /\ Running /\ pc = "arm"
  /\ \/ epEnable /\ pc' = "buf" /\ UNCHANGED started
     \/ ~epEnable /\ pc' = "idle" /\ started' = TRUE
  /\ UNCHANGED <<ringVars, busy, epVars, len, dest, taken, halted, configs, sent>>

Place(from, to, x) ==
  /\ Running /\ pc = from /\ pc' = to /\ xfer' = x
  /\ UNCHANGED <<ringVars, busy, epEnable, epStatus, pma, len, dest, taken, started,
                 halted, configs, sent>>
PlaceBuf    == Place("buf", "left", [xfer EXCEPT !.buf = dest])
PlaceLeft   == Place("left", "actual", [xfer EXCEPT !.left = Mps])
PlaceActual == Place("actual", "start", [xfer EXCEPT !.actual = 0])

\* PCD_SET_EP_RX_STATUS, whatever has happened since the endpoint was found enabled.
Start ==
  /\ Running /\ pc = "start" /\ pc' = "idle"
  /\ epStatus' = "valid" /\ started' = TRUE
  /\ UNCHANGED <<ringVars, busy, epEnable, xfer, pma, len, dest, taken, halted, configs, sent>>

Restart == \/ Drop \/ Test \/ Reset \/ Setup \/ SetFlag
           \/ Arm \/ PlaceBuf \/ PlaceLeft \/ PlaceActual \/ Start

(***************************************************************************)
(* The host and the USB interrupt.                                         *)
(***************************************************************************)
\* The device, once configured, accepts an OUT packet of n bytes while the endpoint is
\* armed.
HostOut(n) ==
  /\ epEnable /\ epStatus = "valid" /\ pc \notin QuietPcs /\ epStatus' = "done"
  /\ sent + n <= MaxBytes /\ sent' = sent + n
  /\ pma' = [i \in 1..n |-> sent + i]
  /\ UNCHANGED <<ringVars, busy, epEnable, xfer, mainVars, started, halted, configs>>

\* usbd_ejtag_bulk_out_complete for a finished transfer x: its bytes join the
\* ring, and the next read is armed behind them if a whole packet fits there.
RoomForOne(i) == LinearWrite(i, out) > 0
RoomForPacket(i) == LinearWrite(i, out) >= Mps

OutCompleteFlagKept(x) ==
  LET i == WriteDone(in, out, x.actual)
  IN  /\ in' = i
      /\ \/ RoomForPacket(i) /\ StartRead(SlotOf(i), Mps)
         \/ ~RoomForPacket(i) /\ epStatus' = "nak" /\ xfer' = x
      /\ UNCHANGED busy
OutComplete(x) ==
  LET i == WriteDone(in, out, x.actual)
  IN  /\ in' = i
      /\ \/ RoomForPacket(i) /\ StartRead(SlotOf(i), Mps) /\ UNCHANGED busy
         \/ ~RoomForPacket(i) /\ busy' = FALSE /\ epStatus' = "nak" /\ xfer' = x

\* USBD_IRQHandler, CTR_RX: the packet goes to the pool; the transfer is finished
\* by a short packet or when its length is used up, else reception goes on.
FinishedByLength(n, x) == x.left = 0
Finished(n, x) == n < Mps \/ x.left = 0

OutInterrupt ==
  /\ ~halted /\ epStatus = "done"
  /\ LET n == Len(pma)
         x == Transfer(xfer.buf + n, (xfer.left - n) % CounterMod, xfer.actual + n)
     IN  /\ pool' = [k \in Slot |-> IF k >= xfer.buf /\ k < xfer.buf + n
                                    THEN pma[k - xfer.buf + 1] ELSE pool[k]]
         /\ \/ Finished(n, x) /\ OutComplete(x)
            \/ ~Finished(n, x) /\ xfer' = x /\ epStatus' = "valid" /\ UNCHANGED <<in, busy>>
  /\ UNCHANGED <<out, epEnable, pma, mainVars, started, halted, configs, sent>>

\* USBD_IRQHandler, RESET: the driver state is zeroed, reception stops.
BusReset ==
  /\ ~halted /\ epEnable /\ configs < MaxConfigs
  /\ epEnable' = FALSE /\ epStatus' = "disabled"
  /\ xfer' = Transfer(0, 0, 0) /\ pma' = <<>> /\ started' = FALSE
  /\ UNCHANGED <<ringVars, busy, mainVars, halted, configs, sent>>

\* SET_CONFIGURATION: usbd_ep_open, then the CONFIGURED event, which arms a read
\* of all the linear space there is and leaves ep_rx_busy_flag as it is.
Configured ==
  /\ ~halted /\ ~epEnable /\ configs < MaxConfigs
  /\ configs' = configs + 1
  /\ epEnable' = TRUE
  /\ \/ /\ LinearWrite(in, out) >= Mps
        /\ xfer' = Transfer(SlotOf(in), LinearWrite(in, out), 0)
        /\ epStatus' = "valid" /\ UNCHANGED halted
     \/ /\ LinearWrite(in, out) < Mps
        /\ halted' = TRUE /\ UNCHANGED <<xfer, epStatus>>
  /\ UNCHANGED <<ringVars, busy, pma, mainVars, started, sent>>

Next ==
  \/ \E n \in 0..Size : Peek(n)
  \/ Restart
  \/ \E n \in 0..Mps : HostOut(n)
  \/ OutInterrupt \/ BusReset \/ Configured

\* The processor serves its interrupts, and packets do not arrive so densely that
\* the main loop never gets a step in (strong fairness); the dispatcher, which is
\* called for ever, does take bytes when there are any, if not at every call; the
\* host configures the device.
Fairness == /\ WF_vars(OutInterrupt) /\ SF_vars(Restart)
            /\ SF_vars(\E n \in 1..Size : Peek(n))
            /\ WF_vars(Configured)

Spec == Init /\ [][Next]_vars
FairSpec == Spec /\ Fairness
-----------------------------------------------------------------------------
\* What the armed transfer has received so far lies right behind the ring's
\* contents, and what it may still receive fits the free linear space, so that
\* the interrupt never writes over unread bytes or past the buffer.
RegionFree ==
  Armed /\ pc \notin Restarting =>
    /\ xfer.buf = SlotOf(in) + xfer.actual
    /\ xfer.actual + xfer.left <= LinearWrite(in, out)
    /\ xfer.left >= Mps /\ xfer.left % Mps = 0

\* Every byte the device accepted is consumed, in the ring, in the unfinished
\* transfer or in packet memory: none is lost or counted twice.
BytesAccounted ==
  sent = Len(taken) + Used(in, out) - (IF pc = "drop" THEN len ELSE 0)
           + (IF Armed THEN xfer.actual ELSE 0)
           + (IF epStatus = "done" THEN Len(pma) ELSE 0)

\* Once the consumer has restarted reception after a bus reset, ep_rx_busy_flag
\* says whether a read is armed (but while usbd_ep_start_read, which follows it, is on its way).
\* This needs the restart undisturbed: a completion for lack of room between the
\* two clears the flag and the restart arms the endpoint all the same.
BusyIffArmed ==
  started /\ epEnable /\ ~halted /\ pc \notin Arming => (busy <=> Armed)

\* What is left of it at every interleaving, restarted or not: a set flag is never
\* left behind by a reception that has stopped, which the consumer would then
\* never restart.
BusyMeansArmed ==
  epEnable /\ ~halted /\ pc \notin Arming => (busy => Armed)

\* Reception never stops for good: whenever it is stopped, either there are
\* bytes in the ring, whose consumer will restart it, or a restart is under way.
StallLeavesWork ==
  epStatus = "nak" => ~IsEmpty(in, out) \/ pc \in {"test"} \cup Restarting

\* Once the first restart is behind, a byte accepted is eventually consumed and
\* a stopped reception eventually goes on, whatever the host sends.
DeliveredOnceStarted ==
  \A k \in 1..MaxBytes : (started /\ sent >= k) ~> (Len(taken) >= k)
StallEnds == (epStatus = "nak") ~> (epStatus = "valid")

\* Both ends see a FIFO.
RxFifo == INSTANCE Fifo WITH put <- [i \in 1..sent |-> i], got <- taken
FifoSafety == RxFifo!Safety
\* What has been received can be taken: no byte waits for a later one.
Delivered == RxFifo!Delivers(MaxBytes)

\* The interrupt writes inside the pool (``Clamp read size down to MPS'', says the
\* CONFIGURED handler, and reads all the linear space there is).
WithinPool == epStatus = "done" => xfer.buf + Len(pma) <= Size

\* assert(avail_len >= mps) of the CONFIGURED handler.
RoomWhenConfigured == ~halted
=============================================================================
