------------------------------- MODULE UsbTx --------------------------------
(***************************************************************************)
(* The device-to-host path.  The main loop appends reply data to the ring  *)
(* rb_ejtag_write (lsejtag_impl_usbtx) while the USB interrupt, which may  *)
(* preempt it between any two of its steps, hands the ring to the bulk IN  *)
(* endpoint one packet at a time (usbd_ejtag_bulk_in_complete).  The two   *)
(* share the ring's counters and ep_tx_busy_flag, without a lock.          *)
(*                                                                         *)
(* One unit stands for a 32-bit word: every reply is a number of words and *)
(* the packet size is a multiple of one.  The n-th unit ever written has   *)
(* the value n, so that loss, duplication and reordering are all visible.  *)
(***************************************************************************)
EXTENDS RingBuffer, Sequences, FiniteSets

CONSTANTS Mps,        \* wMaxPacketSize of the bulk IN endpoint
          MaxCall,    \* bound: largest amount passed to one usbtx call
          MaxUnits,   \* bound: total amount written
          MaxHost,    \* bound: total amount the host takes (a corrupted ring
                      \* can feed it stale units for a long time)
          MaxResets,  \* bound: number of bus resets
          QuietPcs    \* program points of usbtx at which no IN completion
                      \* is served: {} in the firmware, which masks nothing

ASSUME MpsAssumption == Mps \in Nat /\ Mps > 0 /\ Mps <= Size
ASSUME BoundAssumption == 
  {MaxCall, MaxUnits, MaxHost, MaxResets} \subseteq Nat

Pcs == {"idle", "copy", "load", "store", "test", "start", "flag"}
ASSUME QuietAssumption == QuietPcs \subseteq Pcs

VARIABLES
  in, out, pool,  \* rb_ejtag_write and ejtag_write_buffer
  busy,           \* ep_tx_busy_flag
  epEnable,       \* g_fsdev_udc.in_ep[6].ep_enable
  epStatus,       \* STAT_TX/CTR_TX of the endpoint register
  pma,            \* the packet in the endpoint's packet memory
  pc,             \* where the main loop is inside usbtx
  len, offset, tmp, \* locals of chry_ringbuffer_write
  written,        \* history: units accepted by usbtx
  host,           \* history: units the host has received, in order
  short,          \* history: the last packet the host took was a short one
  resets

mainVars == <<pc, len, offset, tmp, written>>
ringVars == <<in, out, pool>>
epVars   == <<epEnable, epStatus, pma>>
histVars == <<host, short, resets>>
vars == <<in, out, pool, busy, epEnable, epStatus, pma, pc, len, offset, tmp,
          written, host, short, resets>>

\* "valid": armed, the hardware answers the next IN token with pma.
\* "done": the packet is out and its completion interrupt is pending.
EpStatus == {"disabled", "nak", "valid", "done"}

TypeOK ==
  /\ in \in Counter /\ out \in Counter /\ tmp \in Counter
  /\ pool \in [Slot -> 0..MaxUnits]
  /\ busy \in BOOLEAN /\ epEnable \in BOOLEAN /\ short \in BOOLEAN
  /\ epStatus \in EpStatus
  /\ pma \in Seq(0..MaxUnits) /\ Len(pma) <= Mps
  /\ pc \in Pcs /\ len \in 0..MaxCall /\ offset \in Slot
  /\ written \in 0..MaxUnits
  /\ host \in Seq(0..MaxUnits)
  /\ resets \in 0..MaxResets

\* After init_cherryusb and the host's first SET_CONFIGURATION; nothing is
\* written before, since every reply answers a command of the host.
Init ==
  /\ in = 0 /\ out = 0 /\ pool = [k \in Slot |-> 0]
  /\ busy = FALSE
  /\ epEnable = TRUE /\ epStatus = "nak" /\ pma = <<>>
  /\ pc = "idle" /\ len = 0 /\ offset = 0 /\ tmp = 0
  /\ written = 0 /\ host = <<>> /\ short = TRUE /\ resets = 0

(***************************************************************************)
(* usbd_ep_start_write: refused while the endpoint is not enabled,         *)
(* otherwise the packet goes to packet memory and the endpoint is armed.   *)
(***************************************************************************)
StartWrite(packet) ==
  IF epEnable
  THEN pma' = packet /\ epStatus' = "valid" /\ UNCHANGED epEnable
  ELSE UNCHANGED epVars

\* The packet both senders build: as much as is linear in the ring, at most Mps.
WholeRun(i, o) == CopyOut(pool, SlotOf(o), LinearRead(i, o))
NextPacket(i, o) == CopyOut(pool, SlotOf(o), Least(Mps, LinearRead(i, o)))

(***************************************************************************)
(* The main loop: lsejtag_impl_usbtx, step by step.                        *)
(***************************************************************************)
\* chry_ringbuffer_write up to the computation of offset.  The callers never
\* pass more than lsejtag_impl_usbtx_free_len() returned.
Call(n) ==
  /\ pc = "idle" /\ written + n <= MaxUnits
  /\ n <= Free(in, out)
  /\ len' = n /\ offset' = SlotOf(in) /\ pc' = "copy"
  /\ UNCHANGED <<ringVars, busy, epVars, tmp, written, histVars>>

\* the memcpy calls
Copy ==
  /\ pc = "copy" /\ pc' = "load"
  /\ pool' = CopyIn(pool, offset, [i \in 1..len |-> written + i])
  /\ UNCHANGED <<in, out, busy, epVars, len, offset, tmp, written, histVars>>

\* rb->in += size is a load ...
Load ==
  /\ pc = "load" /\ pc' = "store"
  /\ tmp' = in
  /\ UNCHANGED <<ringVars, busy, epVars, len, offset, written, histVars>>

\* ... and a store.
Store ==
  /\ pc = "store" /\ pc' = "test"
  /\ in' = Advance(tmp, len)
  /\ written' = written + len
  /\ UNCHANGED <<out, pool, busy, epVars, len, offset, tmp, histVars>>

\* if (!ep_tx_busy_flag)
TestAlwaysStarts ==
  /\ pc = "test" /\ pc' = "start"
  /\ UNCHANGED <<ringVars, busy, epVars, len, offset, tmp, written, histVars>>
Test ==
  /\ pc = "test"
  /\ pc' = IF busy THEN "idle" ELSE "start"
  /\ UNCHANGED <<ringVars, busy, epVars, len, offset, tmp, written, histVars>>

Start ==
  /\ pc = "start" /\ pc' = "flag"
  /\ StartWrite(NextPacket(in, out))
  /\ UNCHANGED <<ringVars, busy, len, offset, tmp, written, histVars>>

\* ep_tx_busy_flag = true, after the transfer was started
FlagForgotten ==
  /\ pc = "flag" /\ pc' = "idle"
  /\ UNCHANGED <<ringVars, busy, epVars, len, offset, tmp, written, histVars>>
SetFlag ==
  /\ pc = "flag" /\ pc' = "idle"
  /\ busy' = TRUE
  /\ UNCHANGED <<ringVars, epVars, len, offset, tmp, written, histVars>>

Main == Copy \/ Load \/ Store \/ Test \/ Start \/ SetFlag

(***************************************************************************)
(* The host and the USB interrupt.                                         *)
(***************************************************************************)
\* The host's IN token takes the packet; CTR_TX is raised.
HostIn ==
  /\ epStatus = "valid" /\ epStatus' = "done"
  /\ Len(host) + Len(pma) <= MaxHost
  /\ host' = host \o pma
  /\ short' = (Len(pma) < Mps)
  /\ UNCHANGED <<ringVars, busy, epEnable, pma, mainVars, resets>>

\* A packet of n units needs a zero-length packet after it.
NoZlp(n) == FALSE
NeedsZlp(n) == n % Mps = 0 /\ n > 0

\* The three ways usbd_ejtag_bulk_in_complete continues, o being the ring's
\* `out' once the packet's n units have left it.
SendZlp(n, o) ==
  /\ NeedsZlp(n)
  /\ out' = o
  /\ StartWrite(<<>>)
  /\ UNCHANGED <<in, busy>>

SendNext(n, o) ==
  /\ ~NeedsZlp(n) /\ ~IsEmpty(in, o)
  /\ out' = o
  /\ StartWrite(NextPacket(in, o))
  /\ UNCHANGED <<in, busy>>

EndTransmissionStillBusy(n, o) ==
  /\ ~NeedsZlp(n) /\ IsEmpty(in, o)
  /\ in' = 0 /\ out' = 0
  /\ epStatus' = "nak"
  /\ UNCHANGED <<epEnable, pma, busy>>
EndTransmission(n, o) ==
  /\ ~NeedsZlp(n) /\ IsEmpty(in, o)
  /\ in' = 0 /\ out' = 0
  /\ busy' = FALSE
  /\ epStatus' = "nak"
  /\ UNCHANGED <<epEnable, pma>>

\* USBD_IRQHandler, CTR_TX: the completion callback with the packet's length.
InComplete ==
  /\ epStatus = "done" /\ pc \notin QuietPcs
  /\ LET n == Len(pma)
         o == ReadDone(in, out, n)
     IN  SendZlp(n, o) \/ SendNext(n, o) \/ EndTransmission(n, o)
  /\ UNCHANGED <<pool, mainVars, histVars>>

\* USBD_IRQHandler, RESET: the driver state is zeroed and the endpoint falls
\* silent; ring and flag are not touched.  The host gives up the read it had
\* pending.
BusReset ==
  /\ resets < MaxResets /\ resets' = resets + 1
  /\ epEnable' = FALSE /\ epStatus' = "disabled" /\ pma' = <<>>
  /\ short' = TRUE
  /\ UNCHANGED <<ringVars, busy, mainVars, host>>

\* SET_CONFIGURATION: usbd_ep_open enables the endpoint and makes it NAK.
Configured ==
  /\ ~epEnable
  /\ epEnable' = TRUE /\ epStatus' = "nak"
  /\ UNCHANGED <<ringVars, busy, pma, mainVars, histVars>>

Next ==
  \/ \E n \in 0..MaxCall : Call(n)
  \/ Main \/ HostIn \/ InComplete \/ BusReset \/ Configured

\* The processor keeps running; a pending interrupt stays pending until it is
\* served (strong fairness: it is served at the first program point that lets
\* it in); the host keeps polling the endpoint and reconfigures the device after
\* a reset.
Fairness == /\ WF_vars(Main) /\ SF_vars(InComplete)
            /\ WF_vars(HostIn) /\ WF_vars(Configured)

Spec == Init /\ [][Next]_vars
FairSpec == Spec /\ Fairness
-----------------------------------------------------------------------------
\* Whatever the host has received is, unit for unit, what usbtx was given:
\* nothing lost, repeated, stale or out of order.
HostInOrder ==
  Len(host) <= written /\ \A i \in 1..Len(host) : host[i] = i

\* ep_tx_busy_flag says what its readers take it to say: a packet is armed or
\* its completion is pending exactly while the flag is set, except between
\* usbtx's start_write and its assignment of the flag.
BusyIffInFlight ==
  pc # "flag" => (busy <=> epStatus \in {"valid", "done"})

\* The ring holds exactly the written units the host's acknowledged packets
\* have not taken out; it never holds more than it has room for.
RingAccounts ==
  /\ Used(in, out) <= Size
  /\ Used(in, out) = written - Len(host)
                     + (IF epStatus = "done" THEN Len(pma) ELSE 0)

\* The transfer the host sees is always terminated: when the transmitter goes
\* idle the last packet was a short or empty one, so that no bulk read of the
\* host is left hanging on a full packet.
IdleIsTerminated == epStatus = "nak" => short

\* Whatever the interleaving, neither side arms the endpoint over a packet the
\* host has not taken yet.
NoOverwriteInFlight ==
  [][epStatus = "valid" /\ epEnable' => pma' = pma /\ epStatus' \in {"valid", "done"}]_vars

\* The bytes come out of the TX FIFO by themselves.
TxFifo == INSTANCE Fifo WITH put <- [i \in 1..written |-> i], got <- host
FifoSafety == TxFifo!Safety
Delivered == TxFifo!Delivers(MaxUnits)
=============================================================================
